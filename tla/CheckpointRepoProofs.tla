------------------------ MODULE CheckpointRepoProofs ------------------------
(***************************************************************************)
(* One service, its restarts and its stops inside commits: what it has in  *)
(* memory is what the tables say, the past of every branch is stored, and  *)
(* the tables are a branch ledger. Then all requests, each on the service's*)
(* repository or on a copy loaded earlier: the past of every branch stays  *)
(* stored, and the service's graph answers right about it.                 *)
(***************************************************************************)
EXTENDS CheckpointRepo, FiniteSetTheorems, SequenceTheorems, WellFoundedInduction, TLAPS

Checkpoints == [parents : Seq(Nat), snaps : Seq(Snaps)]

(* Checkpoints in the order they were made, parents first *)
IsHistory(ms) ==
    /\ ms \in Seq(Checkpoints)
    /\ \A i \in DOMAIN ms : \A k \in DOMAIN ms[i].parents : ms[i].parents[k] \in 1..(i - 1)

(* With a checkpoint, its parents *)
IsClosed(ms, S) ==
    /\ S \subseteq DOMAIN ms
    /\ \A c \in S : \A k \in DOMAIN ms[c].parents : ms[c].parents[k] \in S

IsRows(r) ==
    /\ r = [checkpoints |-> r.checkpoints, notes |-> r.notes, branches |-> r.branches,
            current |-> r.current, edges |-> r.edges, gens |-> r.gens, snapshots |-> r.snapshots]
    /\ r.branches = [n \in DOMAIN r.branches |-> r.branches[n]]

(* What the tables satisfy between any two statements of a commit *)
IsStored(ms, r) ==
    /\ IsRows(r)
    /\ IsClosed(ms, r.checkpoints)
    /\ DOMAIN r.branches \subseteq Names /\ IsFiniteSet(DOMAIN r.branches)
    /\ \A n \in DOMAIN r.branches : r.branches[n] \in r.checkpoints
    /\ r.current \in DOMAIN r.branches

(* A repository that is what the tables say *)
IsCopy(ms, r, rep) ==
    /\ rep = [branches |-> rep.branches, current |-> rep.current, checkpoints |-> rep.checkpoints,
              notes |-> rep.notes, dag |-> rep.dag]
    /\ rep.branches \in Seq([name : Names, head : rep.checkpoints])
    /\ rep.current \in DOMAIN rep.branches
    /\ IsClosed(ms, rep.checkpoints) /\ rep.checkpoints \subseteq r.checkpoints
    /\ \A i, j \in DOMAIN rep.branches : rep.branches[i].name = rep.branches[j].name => i = j
    /\ \A i \in DOMAIN rep.branches :
          /\ rep.branches[i].name \in DOMAIN r.branches
          /\ r.branches[rep.branches[i].name] = rep.branches[i].head
    /\ \A n \in DOMAIN r.branches : \E i \in DOMAIN rep.branches : rep.branches[i].name = n
    /\ r.current = rep.branches[rep.current].name

(* The inductive invariant                                                   *)
IInv ==
    /\ IsHistory(made)
    /\ IsStored(made, rows)
    /\ IsCopy(made, rows, repo)
    /\ staged \in Snaps

-----------------------------------------------------------------------------
(* A search for ancestors stays in a set that is closed under parents.       *)
LEMMA HistoryInClosed ==
    ASSUME NEW ms, NEW S, IsClosed(ms, S), NEW x \in S
    PROVE  History(ms, x) \subseteq S
<1> DEFINE edges == ParentEdges(ms, DOMAIN ms)
           ends == {x} \cup {e[1] : e \in edges} \cup {e[2] : e \in edges}
           inside == S \cap ends
<1>1. ASSUME NEW e \in edges, e[1] \in inside PROVE e[2] \in inside
  BY <1>1 DEF IsClosed, ParentEdges
<1>2. inside \in SUBSET ends /\ x \in inside
  OBVIOUS
<1>3. Visited(edges, x) \subseteq inside
  BY <1>1, <1>2 DEF Visited
<1> QED BY <1>3 DEF History

(* Branch names can be put in the order of list_branches.                    *)
LEMMA NamesSort ==
    ASSUME NEW D \in SUBSET Names, IsFiniteSet(D)
    PROVE  \E s \in [1..Cardinality(D) -> D] :
              \A i, j \in DOMAIN s : i < j => NameRank[s[i]] < NameRank[s[j]]
<1> DEFINE N == Cardinality(D)
           upto(x) == {y \in D : NameRank[y] <= NameRank[x]}
           place == [x \in D |-> Cardinality(upto(x))]
           s == [i \in 1..N |-> CHOOSE x \in D : place[x] = i]
<1>1. N \in Nat /\ \A x \in D : NameRank[x] \in Nat
  BY FS_CardinalityType, NameRankAssumption
<1>2. ASSUME NEW x \in D
      PROVE  /\ IsFiniteSet(upto(x)) /\ Cardinality(upto(x)) \in 1..N
  <2>1. IsFiniteSet(upto(x)) /\ Cardinality(upto(x)) <= N
    BY FS_Subset
  <2>2. x \in upto(x)
    BY <1>1
  <2>3. Cardinality(upto(x)) # 0 /\ Cardinality(upto(x)) \in Nat
    BY <2>1, <2>2, FS_EmptySet, FS_CardinalityType
  <2> QED BY <1>1, <2>1, <2>3
<1>3. ASSUME NEW x \in D, NEW y \in D, NameRank[x] < NameRank[y]
      PROVE  place[x] < place[y]
  <2>1. upto(x) \subseteq upto(y) /\ y \notin upto(x) /\ y \in upto(y)
    BY <1>1, <1>3
  <2>2. Cardinality(upto(x)) <= Cardinality(upto(y)) /\ Cardinality(upto(x)) # Cardinality(upto(y))
    BY <1>2, <2>1, FS_Subset
  <2>3. Cardinality(upto(x)) \in Nat /\ Cardinality(upto(y)) \in Nat
    BY <1>1, <1>2
  <2>4. Cardinality(upto(x)) < Cardinality(upto(y))
    BY <2>2, <2>3
  <2>5. place[x] = Cardinality(upto(x)) /\ place[y] = Cardinality(upto(y))
    OBVIOUS
  <2> HIDE DEF upto, place
  <2> QED BY <2>4, <2>5
<1>4. place \in Injection(D, 1..N)
  <2>1. place \in [D -> 1..N]
    BY <1>2
  <2>2. ASSUME NEW x \in D, NEW y \in D, place[x] = place[y] PROVE x = y
    <3>1. NameRank[x] \in Nat /\ NameRank[y] \in Nat /\ place[x] \in Nat /\ place[y] \in Nat
      BY <1>1, <1>2
    <3>2. NameRank[x] = NameRank[y]
      BY <1>3, <2>2, <3>1
    <3> QED BY <3>2, NameRankAssumption
  <2> QED BY <2>1, <2>2 DEF Injection, IsInjective
<1>5. place \in Surjection(D, 1..N)
  BY <1>1, <1>4, FS_Injection, FS_Interval
<1>6. \A i \in 1..N : s[i] \in D /\ place[s[i]] = i
  BY <1>5 DEF Surjection
<1>7. ASSUME NEW i \in 1..N, NEW j \in 1..N, i < j PROVE NameRank[s[i]] < NameRank[s[j]]
  <2> HIDE DEF s, place
  <2>1. NameRank[s[i]] \in Nat /\ NameRank[s[j]] \in Nat /\ s[i] # s[j]
    BY <1>1, <1>6, <1>7
  <2>2. NameRank[s[i]] # NameRank[s[j]]
    BY <1>6, <2>1, NameRankAssumption
  <2>3. ~ (NameRank[s[j]] < NameRank[s[i]])
    BY <1>3, <1>6, <1>7
  <2> QED BY <2>1, <2>2, <2>3
<1>8. s \in [1..N -> D]
  BY <1>6
<1> QED BY <1>7, <1>8

(* list_branches returns every branch once, with its head.                   *)
LEMMA BranchesListed ==
    ASSUME NEW r, DOMAIN r.branches \subseteq Names, IsFiniteSet(DOMAIN r.branches),
           \A n \in DOMAIN r.branches : r.branches[n] \in r.checkpoints
    PROVE  LET list == SortedBranches(r) IN
           /\ list \in Seq([name : Names, head : r.checkpoints])
           /\ \A i \in DOMAIN list : /\ list[i].name \in DOMAIN r.branches
                                     /\ r.branches[list[i].name] = list[i].head
           /\ \A i, j \in DOMAIN list : list[i].name = list[j].name => i = j
           /\ \A n \in DOMAIN r.branches : \E i \in DOMAIN list : list[i].name = n
<1> DEFINE D == DOMAIN r.branches
           N == Cardinality(D)
           sorts(s) == \A i, j \in DOMAIN s : i < j => NameRank[s[i]] < NameRank[s[j]]
           names == CHOOSE s \in [1..N -> D] : sorts(s)
           list == SortedBranches(r)
<1>1. D \in SUBSET Names /\ IsFiniteSet(D) /\ N \in Nat
  BY FS_CardinalityType
<1>2. names \in [1..N -> D] /\ sorts(names)
  BY <1>1, NamesSort
<1>3. list = [i \in 1..N |-> [name |-> names[i], head |-> r.branches[names[i]]]]
  BY <1>2 DEF SortedBranches
<1> HIDE DEF names, list
<1>4. ASSUME NEW i \in 1..N, NEW j \in 1..N, names[i] = names[j] PROVE i = j
  <2>1. NameRank[names[i]] \in Nat
    BY <1>1, <1>2, NameRankAssumption
  <2>2. ~ (i < j) /\ ~ (j < i)
    BY <1>2, <1>4, <2>1
  <2> QED BY <1>1, <2>2
<1>5. names \in Surjection(1..N, D)
  <2>1. names \in Injection(1..N, D)
    BY <1>2, <1>4 DEF Injection, IsInjective
  <2>2. Cardinality(1..N) = N
    BY <1>1, FS_Interval
  <2> QED BY <1>1, <2>1, <2>2, FS_Injection
<1>6. \A i \in 1..N : list[i] \in [name : Names, head : r.checkpoints]
  BY <1>1, <1>2, <1>3
<1>7. list \in Seq([name : Names, head : r.checkpoints]) /\ DOMAIN list = 1..N
  <2>1. DOMAIN list = 1..N /\ list = [i \in 1..N |-> list[i]]
    BY <1>3
  <2>2. list \in [1..N -> [name : Names, head : r.checkpoints]]
    BY <1>6, <2>1
  <2> DEFINE elements == [name : Names, head : r.checkpoints]
  <2>3. N \in Nat /\ list \in [1..N -> elements]
    BY <1>1, <2>2
  <2> HIDE DEF N, elements
  <2>4. list \in Seq(elements)
    BY <2>3, SeqDef
  <2> QED BY <2>1, <2>4 DEF elements
<1>8. \A n \in D : \E i \in 1..N : list[i].name = n
  BY <1>3, <1>5 DEF Surjection
<1>9. \A i \in 1..N : list[i].name \in D /\ r.branches[list[i].name] = list[i].head
  BY <1>2, <1>3
<1>10. \A i, j \in 1..N : list[i].name = list[j].name => i = j
  BY <1>3, <1>4
<1> QED BY <1>7, <1>8, <1>9, <1>10 DEF list

(* What load makes of the tables is what the tables say.                     *)
LEMMA LoadedIsCopy ==
    ASSUME NEW ms, NEW r, NEW dag, IsStored(ms, r)
    PROVE  IsCopy(ms, r, Loaded(r, dag))
<1> DEFINE list == SortedBranches(r)
           current == {i \in DOMAIN list : list[i].name = r.current}
           rep == Loaded(r, dag)
<1>0. /\ list \in Seq([name : Names, head : r.checkpoints])
      /\ \A i \in DOMAIN list : /\ list[i].name \in DOMAIN r.branches
                                /\ r.branches[list[i].name] = list[i].head
      /\ \A i, j \in DOMAIN list : list[i].name = list[j].name => i = j
      /\ \A n \in DOMAIN r.branches : \E i \in DOMAIN list : list[i].name = n
  BY BranchesListed DEF IsStored
<1>1. current # {}
  <2>1. PICK i \in DOMAIN list : list[i].name = r.current
    BY <1>0 DEF IsStored
  <2> QED BY <2>1
<1>2. rep = [branches |-> list, current |-> CHOOSE i \in current : TRUE,
             checkpoints |-> r.checkpoints, notes |-> r.notes, dag |-> dag]
  BY <1>1 DEF Loaded
<1>3. rep.current \in DOMAIN list /\ list[rep.current].name = r.current
  BY <1>1, <1>2
<1>4. rep.branches = list /\ rep.checkpoints = r.checkpoints
  BY <1>2
<1>5. rep = [branches |-> rep.branches, current |-> rep.current, checkpoints |-> rep.checkpoints,
             notes |-> rep.notes, dag |-> rep.dag]
  BY <1>2
<1> HIDE DEF list, current, rep
<1> QED BY <1>0, <1>3, <1>4, <1>5 DEF IsCopy, IsStored, rep

(* A checkpoint whose parents are stored keeps the tables closed.            *)
LEMMA MadeKeepsClosed ==
    ASSUME NEW ms, NEW S, IsHistory(ms), IsClosed(ms, S),
           NEW cp \in Checkpoints, \A k \in DOMAIN cp.parents : cp.parents[k] \in S
    PROVE  /\ IsHistory(Append(ms, cp)) /\ IsClosed(Append(ms, cp), S)
           /\ IsClosed(Append(ms, cp), S \cup {Len(ms) + 1})
<1> DEFINE new == Append(ms, cp)
<1>1. ms \in Seq(Checkpoints) /\ Len(ms) \in Nat /\ DOMAIN ms = 1..Len(ms)
  BY DEF IsHistory
<1>2. /\ new \in Seq(Checkpoints) /\ DOMAIN new = DOMAIN ms \cup {Len(ms) + 1}
      /\ new[Len(ms) + 1] = cp /\ \A i \in DOMAIN ms : new[i] = ms[i]
  BY <1>1
<1>3. S \subseteq 1..Len(ms)
  BY <1>1 DEF IsClosed
<1> HIDE DEF new
<1>4. \A k \in DOMAIN cp.parents : cp.parents[k] \in 1..((Len(ms) + 1) - 1)
  BY <1>1, <1>3
<1>5. IsHistory(new)
  BY <1>1, <1>2, <1>4 DEF IsHistory
<1>6. IsClosed(new, S)
  BY <1>1, <1>2, <1>3 DEF IsClosed
<1>7. IsClosed(new, S \cup {Len(ms) + 1})
  BY <1>1, <1>2, <1>6 DEF IsClosed
<1> QED BY <1>5, <1>6, <1>7 DEF new

(* store_dag_edge, however far it gets, leaves checkpoints and branches.     *)
LEMMA DagEdgeRows ==
    ASSUME NEW r, IsRows(r), NEW p, NEW c, NEW gen, NEW k
    PROVE  LET new == StoreDagEdge(r, p, c, gen, k) IN
           /\ IsRows(new) /\ new.branches = r.branches /\ new.current = r.current
           /\ new.checkpoints = r.checkpoints
<1> DEFINE edges == IF k >= 1 THEN r.edges \cup {<<p, c>>} ELSE r.edges
           stored == IF k >= 2
                     THEN [n \in DOMAIN r.gens \cup {c} |-> IF n = c THEN gen ELSE r.gens[n]]
                     ELSE r.gens
           gens == IF k >= 3 /\ p \notin DOMAIN stored
                   THEN [n \in DOMAIN stored \cup {p} |-> IF n = p THEN 0 ELSE stored[n]]
                   ELSE stored
           new == StoreDagEdge(r, p, c, gen, k)
<1>1. new = [r EXCEPT !.edges = edges, !.gens = gens]
  BY DEF StoreDagEdge
<1> HIDE DEF edges, stored, gens, new
<1>2. IsRows(new) /\ new.branches = r.branches /\ new.current = r.current
      /\ new.checkpoints = r.checkpoints
  BY <1>1 DEF IsRows
<1> QED BY <1>2 DEF new

(* From r to new: checkpoint id and, after five statements, the head n       *)
Wrote(r, new, n, id, k) ==
    /\ IsRows(new)
    /\ new.checkpoints = (IF k >= 1 THEN r.checkpoints \cup {id} ELSE r.checkpoints)
    /\ DOMAIN new.branches = DOMAIN r.branches
    /\ \A m \in DOMAIN r.branches : new.branches[m] = IF k >= 5 /\ m = n THEN id ELSE r.branches[m]
    /\ new.current = r.current

(* What the first k statements of a commit write to the tables               *)
LEMMA PersistedRows ==
    ASSUME NEW r, IsRows(r), NEW rep, NEW id, NEW head, NEW k \in 0..5
    PROVE  Wrote(r, Persisted(r, rep, id, <<head>>, k), CurrentName(rep), id, k)
<1> DEFINE stored == IF k >= 1 THEN StoreCheckpoint(r, rep.notes, id) ELSE r
           linked == StoreDagEdge(stored, head, id, rep.dag.gens[id], k - 1)
           new == IF k >= 5 THEN UpdateBranchHead(linked, CurrentName(rep), id) ELSE linked
<1>1. /\ IsRows(stored) /\ stored.branches = r.branches /\ stored.current = r.current
      /\ stored.checkpoints = (IF k >= 1 THEN r.checkpoints \cup {id} ELSE r.checkpoints)
  BY DEF StoreCheckpoint, IsRows
<1> HIDE DEF stored
<1>2. /\ IsRows(linked) /\ linked.branches = stored.branches /\ linked.current = stored.current
      /\ linked.checkpoints = stored.checkpoints
  BY <1>1, DagEdgeRows
<1> HIDE DEF linked
<1>3. /\ IsRows(new) /\ new.current = linked.current /\ new.checkpoints = linked.checkpoints
      /\ DOMAIN new.branches = DOMAIN linked.branches
      /\ \A n \in DOMAIN linked.branches :
            new.branches[n] = IF k >= 5 /\ n = CurrentName(rep) THEN id ELSE linked.branches[n]
  BY <1>2 DEF UpdateBranchHead, IsRows
<1>4. Persisted(r, rep, id, <<head>>, k) = new
  BY DEF Persisted, Statements, stored, linked
<1> HIDE DEF new
<1> QED BY <1>1, <1>2, <1>3, <1>4 DEF Wrote

(* Making a checkpoint, new or not, whose parents are stored                 *)
LEMMA MakeKeeps ==
    ASSUME IsHistory(made), NEW S, IsClosed(made, S), NEW cp \in Checkpoints, Make(cp),
           \A k \in DOMAIN cp.parents : cp.parents[k] \in S
    PROVE  /\ IsHistory(made') /\ IsClosed(made', S) /\ IsClosed(made', S \cup {IdOf(cp)})
           /\ IdOf(cp) \in DOMAIN made' /\ made'[IdOf(cp)] = cp
<1>1. made \in Seq(Checkpoints) /\ Len(made) \in Nat /\ DOMAIN made = 1..Len(made)
  BY DEF IsHistory
<1>2. CASE \E i \in Ids : made[i] = cp
  <2>1. IdOf(cp) \in DOMAIN made /\ made[IdOf(cp)] = cp /\ made' = made
    BY <1>1, <1>2 DEF IdOf, Make, Ids
  <2>2. IsClosed(made, S \cup {IdOf(cp)})
    BY <2>1 DEF IsClosed
  <2> QED BY <2>1, <2>2
<1>3. CASE ~ \E i \in Ids : made[i] = cp
  <2>0. IdOf(cp) = Len(made) + 1
    BY <1>3 DEF IdOf
  <2>1. IdOf(cp) \notin Ids
    BY <1>1, <2>0 DEF Ids
  <2>2. made' = Append(made, cp)
    BY <2>1 DEF Make
  <2>3. IdOf(cp) \in DOMAIN made' /\ made'[IdOf(cp)] = cp
    BY <1>1, <2>0, <2>2
  <2> QED BY <2>0, <2>2, <2>3, MadeKeepsClosed
<1> QED BY <1>2, <1>3

(* What the service commits is a checkpoint below a stored one.              *)
LEMMA StagedIsCheckpoint ==
    ASSUME IInv, CanCommit
    PROVE  /\ StagedCheckpoint \in Checkpoints
           /\ StagedCheckpoint.parents = <<HeadOf(repo)>>
           /\ HeadOf(repo) \in repo.checkpoints
           /\ HeadOf(repo) = rows.branches[rows.current]
           /\ CurrentName(repo) = rows.current
<1>1. HeadOf(repo) \in repo.checkpoints /\ HeadOf(repo) = rows.branches[rows.current]
      /\ CurrentName(repo) = rows.current
  BY DEF IInv, IsCopy, CanCommit, HeadOf, CurrentName
<1>2. HeadOf(repo) \in Nat
  <2>1. repo.checkpoints \subseteq DOMAIN made /\ DOMAIN made = 1..Len(made) /\ Len(made) \in Nat
    BY DEF IInv, IsCopy, IsClosed, IsHistory
  <2> QED BY <1>1, <2>1
<1>3. <<HeadOf(repo)>> \in Seq(Nat) /\ <<staged>> \in Seq(Snaps)
  BY <1>2 DEF IInv
<1> QED BY <1>1, <1>3 DEF StagedCheckpoint, Checkpoints

(* A commit may stop after any of its statements.                            *)
LEMMA PersistedIsStored ==
    ASSUME IInv, CanCommit, Make(StagedCheckpoint), NEW rep, CurrentName(rep) = rows.current,
           NEW k \in 0..5
    PROVE  IsStored(made', Persisted(rows, rep, IdOf(StagedCheckpoint), <<HeadOf(repo)>>, k))
<1> DEFINE id == IdOf(StagedCheckpoint)
           new == Persisted(rows, rep, id, <<HeadOf(repo)>>, k)
<1>1. IsHistory(made) /\ IsStored(made, rows) /\ IsRows(rows) /\ IsClosed(made, rows.checkpoints)
  BY DEF IInv, IsStored
<1>2. \A i \in DOMAIN StagedCheckpoint.parents : StagedCheckpoint.parents[i] \in rows.checkpoints
  BY StagedIsCheckpoint DEF IInv, IsCopy
<1>3. IsClosed(made', rows.checkpoints) /\ IsClosed(made', rows.checkpoints \cup {id})
  BY <1>1, <1>2, StagedIsCheckpoint, MakeKeeps
<1>4. Wrote(rows, new, rows.current, id, k)
  BY <1>1, PersistedRows
<1> HIDE DEF id, new
<1>5. \A n \in DOMAIN new.branches : new.branches[n] \in new.checkpoints
  BY <1>1, <1>4 DEF IsStored, Wrote
<1> QED BY <1>1, <1>3, <1>4, <1>5 DEF IsStored, Wrote, new, id

(* Another process has what the one before it left.                          *)
LEMMA ReopenKeeps ==
    ASSUME NEW r, IsStored(made', r), Reopen(r), staged \in Snaps
    PROVE  rows' = r /\ IsStored(made', rows') /\ IsCopy(made', rows', repo') /\ staged' \in Snaps
<1>1. r.checkpoints # {}
  BY DEF IsStored
<1>2. Opened(r) = r
  BY <1>1 DEF Opened
<1>3. rows' = r /\ staged' = staged /\ \E dag : repo' = Loaded(r, dag)
  BY <1>2 DEF Reopen
<1> QED BY <1>3, LoadedIsCopy

(* A function on 1..n is a sequence.                                         *)
LEMMA FunctionIsSeq ==
    ASSUME NEW S, NEW n \in Nat, NEW f \in [1..n -> S]
    PROVE  f \in Seq(S)
  BY SeqDef

(* From branches to new: head number current is id.                          *)
IsMoved(heads, branches, new, current, id) ==
    /\ new \in Seq([name : Names, head : heads \cup {id}])
    /\ DOMAIN new = DOMAIN branches
    /\ \A i \in DOMAIN branches :
          /\ new[i].name = branches[i].name
          /\ new[i].head = IF i = current THEN id ELSE branches[i].head

(* set_head of the current branch leaves the names and the other heads.      *)
LEMMA HeadIsSet ==
    ASSUME NEW heads, NEW branches, branches \in Seq([name : Names, head : heads]),
           NEW current \in DOMAIN branches, NEW id
    PROVE  IsMoved(heads, branches, [branches EXCEPT ![current].head = id], current, id)
<1> DEFINE N == Len(branches)
           new == [branches EXCEPT ![current].head = id]
<1>1. N \in Nat /\ DOMAIN branches = 1..N /\ DOMAIN new = 1..N
  OBVIOUS
<1>2. \A i \in 1..N : branches[i] \in [name : Names, head : heads]
  BY ElementOfSeq
<1>3. ASSUME NEW i \in 1..N
      PROVE  /\ new[i] \in [name : Names, head : heads \cup {id}]
             /\ new[i].name = branches[i].name
             /\ new[i].head = IF i = current THEN id ELSE branches[i].head
  <2>1. new[i] = IF i = current THEN [branches[i] EXCEPT !.head = id] ELSE branches[i]
    BY <1>1
  <2>2. branches[i] = [name |-> branches[i].name, head |-> branches[i].head]
    BY <1>2
  <2>3. CASE i = current
    <3>1. new[i] = [name |-> branches[i].name, head |-> id]
      BY <2>1, <2>2, <2>3
    <3> QED BY <1>2, <2>3, <3>1
  <2>4. CASE i # current
    BY <1>2, <2>1, <2>4
  <2> QED BY <2>3, <2>4
<1>4. new = [i \in 1..N |-> new[i]]
  BY <1>1
<1>5. new \in Seq([name : Names, head : heads \cup {id}])
  <2> DEFINE changed == [name : Names, head : heads \cup {id}]
  <2>1. \A i \in 1..N : new[i] \in changed
    BY <1>3
  <2> HIDE DEF changed, N, new
  <2>2. new \in [1..N -> changed]
    BY <1>4, <2>1
  <2>3. new \in Seq(changed)
    BY <1>1, <2>2, FunctionIsSeq
  <2> QED BY <2>3 DEF changed
<1> HIDE DEF new
<1>6. IsMoved(heads, branches, new, current, id)
  BY <1>1, <1>3, <1>5 DEF IsMoved
<1> QED BY <1>6 DEF new

(* The head moves on the current branch of the tables.                       *)
LEMMA MovedName ==
    ASSUME IInv, NEW id, NEW parents
    PROVE  CurrentName(HeadMoved(repo, id, parents)) = rows.current
<1> DEFINE moved == HeadMoved(repo, id, parents)
<1>1. /\ repo = [branches |-> repo.branches, current |-> repo.current, notes |-> repo.notes,
                 checkpoints |-> repo.checkpoints, dag |-> repo.dag]
      /\ repo.branches \in Seq([name : Names, head : repo.checkpoints])
      /\ repo.current \in DOMAIN repo.branches
      /\ CurrentName(repo) = rows.current
  BY DEF IInv, IsCopy, CurrentName
<1>2. \E dag : moved = [repo EXCEPT !.dag = dag, !.branches[repo.current].head = id]
  BY DEF HeadMoved
<1> HIDE DEF moved
<1>3. /\ moved.branches = [repo.branches EXCEPT ![repo.current].head = id]
      /\ moved.current = repo.current
  BY <1>1, <1>2
<1>4. IsMoved(repo.checkpoints, repo.branches, moved.branches, repo.current, id)
  BY <1>1, <1>3, HeadIsSet
<1>5. CurrentName(moved) = rows.current
  BY <1>1, <1>3, <1>4 DEF CurrentName, IsMoved
<1> QED BY <1>5 DEF moved

(* A commit that ends writes all its rows, and keeps the invariant.          *)
LEMMA CommitKeeps ==
    ASSUME IInv, Commit
    PROVE  IInv' /\ Wrote(rows, rows', rows.current, IdOf(StagedCheckpoint), 5)
<1> DEFINE cp == StagedCheckpoint
           id == IdOf(cp)
           head == HeadOf(repo)
           moved == HeadMoved(repo, id, cp.parents)
           recorded == Recorded(moved, id)
           noted == IF staged \in rows.snapshots THEN Noted(recorded, id, "source") ELSE recorded
           written == Persisted(rows, moved, id, <<head>>, 5)
<1>1. CanCommit /\ Make(cp) /\ repo' = noted /\ staged' = staged
  BY DEF Commit
<1>2. cp.parents = <<head>> /\ cp \in Checkpoints /\ head \in repo.checkpoints
  BY <1>1, StagedIsCheckpoint
<1>3. rows' = StoreCheckpoint(written, noted.notes, id)
  BY <1>2 DEF Commit, Statements
<1>4. /\ repo = [branches |-> repo.branches, current |-> repo.current, notes |-> repo.notes,
                 checkpoints |-> repo.checkpoints, dag |-> repo.dag]
      /\ repo.branches \in Seq([name : Names, head : repo.checkpoints])
      /\ repo.current \in DOMAIN repo.branches
      /\ repo.checkpoints \subseteq rows.checkpoints /\ IsClosed(made, repo.checkpoints)
      /\ CurrentName(repo) = rows.current
  BY DEF IInv, IsCopy, CurrentName
<1>5. \E dag : moved = [repo EXCEPT !.dag = dag, !.branches[repo.current].head = id]
  BY DEF HeadMoved
<1> HIDE DEF moved, cp, id
<1>6. /\ moved = [branches |-> moved.branches, current |-> moved.current, notes |-> moved.notes,
                  checkpoints |-> moved.checkpoints, dag |-> moved.dag]
      /\ moved.branches = [repo.branches EXCEPT ![repo.current].head = id]
      /\ moved.current = repo.current /\ moved.checkpoints = repo.checkpoints
  BY <1>4, <1>5
<1>7. IsMoved(repo.checkpoints, repo.branches, moved.branches, repo.current, id)
  BY <1>4, <1>6, HeadIsSet
<1>9. /\ noted = [branches |-> noted.branches, current |-> noted.current, notes |-> noted.notes,
                  checkpoints |-> noted.checkpoints, dag |-> noted.dag]
      /\ noted.branches = moved.branches /\ noted.current = moved.current
      /\ noted.checkpoints = moved.checkpoints \cup {id}
  BY <1>6 DEF Recorded, Noted
<1>10. CurrentName(moved) = rows.current
  BY <1>4, <1>6, <1>7 DEF CurrentName, IsMoved
<1>11. IsStored(made', written)
  BY <1>1, <1>10, PersistedIsStored DEF cp, id
<1>12. Wrote(rows, written, rows.current, id, 5)
  BY <1>10, PersistedRows DEF IInv, IsStored
<1> HIDE DEF written, noted
<1>13. rows' = written
  BY <1>3, <1>12 DEF StoreCheckpoint, Wrote
<1>14. IsHistory(made') /\ IsClosed(made', repo.checkpoints \cup {id})
  <2>1. IsHistory(made) /\ \A k \in DOMAIN cp.parents : cp.parents[k] \in repo.checkpoints
    BY <1>2 DEF IInv
  <2> QED BY <1>1, <1>2, <1>4, <2>1, MakeKeeps DEF id
<1>15. IsCopy(made', written, noted)
  <2>1. noted.branches \in Seq([name : Names, head : noted.checkpoints])
    BY <1>6, <1>7, <1>9 DEF IsMoved
  <2>2. noted.checkpoints \subseteq written.checkpoints
    BY <1>4, <1>6, <1>9, <1>12 DEF Wrote
  <2>3. IsClosed(made', noted.checkpoints)
    BY <1>6, <1>9, <1>14
  <2>4. ASSUME NEW i \in DOMAIN noted.branches
        PROVE  /\ noted.branches[i].name \in DOMAIN written.branches
               /\ written.branches[noted.branches[i].name] = noted.branches[i].head
    <3>1. IsCopy(made, rows, repo)
      BY DEF IInv
    <3>2. /\ i \in DOMAIN repo.branches
          /\ noted.branches[i].name = repo.branches[i].name
          /\ noted.branches[i].head = (IF i = repo.current THEN id ELSE repo.branches[i].head)
      BY <1>7, <1>9, <2>4 DEF IsMoved
    <3>3. /\ repo.branches[i].name \in DOMAIN rows.branches
          /\ rows.branches[repo.branches[i].name] = repo.branches[i].head
          /\ repo.current \in DOMAIN repo.branches
          /\ (repo.branches[i].name = repo.branches[repo.current].name => i = repo.current)
          /\ rows.current = repo.branches[repo.current].name
      BY <1>4, <3>1, <3>2 DEF IsCopy, CurrentName
    <3>4. DOMAIN written.branches = DOMAIN rows.branches
      BY <1>12 DEF Wrote
    <3>5. \A m \in DOMAIN rows.branches :
             written.branches[m] = IF m = rows.current THEN id ELSE rows.branches[m]
      BY <1>12 DEF Wrote
    <3> QED BY <3>2, <3>3, <3>4, <3>5
  <2>5. /\ \A i, j \in DOMAIN noted.branches : noted.branches[i].name = noted.branches[j].name => i = j
        /\ \A n \in DOMAIN written.branches : \E i \in DOMAIN noted.branches : noted.branches[i].name = n
        /\ written.current = noted.branches[noted.current].name
        /\ noted.current \in DOMAIN noted.branches
    BY <1>4, <1>6, <1>7, <1>9, <1>12 DEF Wrote, IInv, IsCopy, CurrentName, IsMoved
  <2> QED BY <1>9, <2>1, <2>2, <2>3, <2>4, <2>5 DEF IsCopy
<1>16. IInv'
  BY <1>1, <1>11, <1>13, <1>14, <1>15 DEF IInv
<1>17. Wrote(rows, rows', rows.current, IdOf(StagedCheckpoint), 5)
  BY <1>12, <1>13 DEF id, cp
<1> QED BY <1>16, <1>17

(* The other requests, restarts and stops keep it too.                       *)
LEMMA StageKeeps == IInv /\ (\E s \in Snaps : Stage(s)) => IInv'
<1> SUFFICES ASSUME IInv, NEW s \in Snaps, Stage(s) PROVE IInv'
  OBVIOUS
<1>1. made' = made /\ repo' = repo /\ staged' \in Snaps
  BY DEF Stage
<1>2. /\ IsRows(rows') /\ rows'.checkpoints = rows.checkpoints
      /\ rows'.branches = rows.branches /\ rows'.current = rows.current
  BY DEF Stage, IInv, IsStored, IsRows
<1>3. IsStored(made', rows') /\ IsCopy(made', rows', repo')
  BY <1>1, <1>2 DEF IInv, IsStored, IsCopy
<1> QED BY <1>1, <1>3 DEF IInv

(* From r to new: the branch b                                               *)
BranchStored(r, new, b) ==
    new = [r EXCEPT !.branches = [m \in DOMAIN r.branches \cup {b.name} |->
                                    IF m = b.name THEN b.head ELSE r.branches[m]]]

(* One branch stored is one row of the table.                                *)
LEMMA StoreOneBranch ==
    ASSUME NEW r, NEW b
    PROVE  BranchStored(r, StoreBranches(r, <<b>>), b)
<1> DEFINE one == <<b>>
           names == {one[i].name : i \in DOMAIN one}
           found(m) == CHOOSE c \in {one[i] : i \in DOMAIN one} : c.name = m
<1>1. names = {b.name} /\ {one[i] : i \in DOMAIN one} = {b}
  OBVIOUS
<1>2. \A m \in names : found(m) = b
  BY <1>1
<1>3. StoreBranches(r, one) = [r EXCEPT !.branches = [m \in DOMAIN r.branches \cup names |->
                                    IF m \in names THEN found(m).head ELSE r.branches[m]]]
  BY DEF StoreBranches
<1> HIDE DEF names, found
<1>4. [m \in DOMAIN r.branches \cup names |-> IF m \in names THEN found(m).head ELSE r.branches[m]]
      = [m \in DOMAIN r.branches \cup {b.name} |-> IF m = b.name THEN b.head ELSE r.branches[m]]
  BY <1>1, <1>2
<1> QED BY <1>3, <1>4 DEF BranchStored

LEMMA BranchCreateKeeps == IInv /\ (\E n \in Names : BranchCreate(n)) => IInv'
<1> SUFFICES ASSUME IInv, NEW n \in Names, BranchCreate(n) PROVE IInv'
  OBVIOUS
<1> DEFINE head == HeadOf(repo)
           branch == [name |-> n, head |-> head]
           last == Len(repo.branches) + 1
           D == DOMAIN rows.branches
<1>1. made' = made /\ staged' = staged /\ FindBranch(repo, n) = {}
  BY DEF BranchCreate
<1>2. rows' = StoreBranches(rows, <<branch>>) /\ repo' = [repo EXCEPT !.branches = Append(@, branch)]
  BY DEF BranchCreate
<1>3. head \in repo.checkpoints /\ IsRows(rows)
  <2>1. /\ repo.branches \in Seq([name : Names, head : repo.checkpoints])
        /\ repo.current \in DOMAIN repo.branches /\ IsRows(rows)
    BY DEF IInv, IsCopy, IsStored
  <2>2. repo.branches[repo.current] \in [name : Names, head : repo.checkpoints]
    BY <2>1, LenProperties, ElementOfSeq
  <2> QED BY <2>1, <2>2 DEF HeadOf
<1>4. \A i \in DOMAIN repo.branches : repo.branches[i].name # n
  BY <1>1 DEF FindBranch
<1>5. n \notin D
  BY <1>4 DEF IInv, IsCopy
<1> HIDE DEF head
<1>6. /\ IsRows(rows') /\ rows'.checkpoints = rows.checkpoints /\ rows'.current = rows.current
      /\ DOMAIN rows'.branches = D \cup {n}
      /\ rows'.branches[n] = head /\ \A m \in D : rows'.branches[m] = rows.branches[m]
  <2>1. branch.name = n /\ branch.head = head
    OBVIOUS
  <2> HIDE DEF branch
  <2>2. BranchStored(rows, rows', branch)
    BY <1>2, StoreOneBranch
  <2> QED BY <1>3, <1>5, <2>1, <2>2 DEF IsRows, BranchStored
<1>7. IsStored(made', rows')
  <2>1. IsFiniteSet(D \cup {n})
    BY FS_AddElement DEF IInv, IsStored
  <2> QED BY <1>1, <1>3, <1>6, <2>1 DEF IInv, IsStored, IsCopy
<1>8. /\ repo' = [branches |-> repo'.branches, current |-> repo'.current, notes |-> repo'.notes,
                  checkpoints |-> repo'.checkpoints, dag |-> repo'.dag]
      /\ repo'.branches = Append(repo.branches, branch)
      /\ repo'.current = repo.current /\ repo'.checkpoints = repo.checkpoints
  BY <1>2 DEF IInv, IsCopy
<1>9. /\ repo'.branches \in Seq([name : Names, head : repo.checkpoints])
      /\ Len(repo.branches) \in Nat /\ DOMAIN repo.branches = 1..Len(repo.branches)
      /\ DOMAIN repo'.branches = DOMAIN repo.branches \cup {last}
      /\ repo'.branches[last] = branch
      /\ \A i \in DOMAIN repo.branches : repo'.branches[i] = repo.branches[i] /\ i # last
  <2>1. repo.branches \in Seq([name : Names, head : repo.checkpoints])
    BY DEF IInv, IsCopy
  <2>2. branch \in [name : Names, head : repo.checkpoints]
    BY <1>3
  <2> HIDE DEF branch
  <2> QED BY <1>8, <2>1, <2>2
<1>10. branch.name = n /\ branch.head = head
  OBVIOUS
<1> HIDE DEF branch, last, D
<1>11. IsCopy(made', rows', repo')
  <2>1. \A i, j \in DOMAIN repo'.branches : repo'.branches[i].name = repo'.branches[j].name => i = j
    BY <1>4, <1>9, <1>10 DEF IInv, IsCopy
  <2>2. ASSUME NEW i \in DOMAIN repo'.branches
        PROVE  /\ repo'.branches[i].name \in DOMAIN rows'.branches
               /\ rows'.branches[repo'.branches[i].name] = repo'.branches[i].head
    <3>1. CASE i = last
      BY <1>6, <1>9, <1>10, <3>1
    <3>2. CASE i # last
      <4>1. i \in DOMAIN repo.branches /\ repo'.branches[i] = repo.branches[i]
        BY <1>9, <3>2
      <4>2. repo.branches[i].name \in D /\ rows.branches[repo.branches[i].name] = repo.branches[i].head
        BY <4>1 DEF IInv, IsCopy, D
      <4> QED BY <1>6, <4>1, <4>2
    <3> QED BY <3>1, <3>2
  <2>3. ASSUME NEW m \in DOMAIN rows'.branches
        PROVE  \E i \in DOMAIN repo'.branches : repo'.branches[i].name = m
    <3>1. CASE m = n
      BY <1>9, <1>10, <3>1
    <3>2. CASE m # n
      <4>1. PICK i \in DOMAIN repo.branches : repo.branches[i].name = m
        BY <1>6, <3>2 DEF IInv, IsCopy, D
      <4> QED BY <1>9, <4>1
    <3> QED BY <3>1, <3>2
  <2>4. rows'.current = repo'.branches[repo'.current].name /\ repo'.current \in DOMAIN repo'.branches
    BY <1>6, <1>8, <1>9 DEF IInv, IsCopy
  <2>5. IsClosed(made', repo'.checkpoints) /\ repo'.checkpoints \subseteq rows'.checkpoints
    BY <1>1, <1>6, <1>8 DEF IInv, IsCopy
  <2> QED BY <1>8, <1>9, <2>1, <2>2, <2>3, <2>4, <2>5 DEF IsCopy
<1> QED BY <1>1, <1>7, <1>11 DEF IInv

(* The staged partition gets a snapshot that a checkpoint has.               *)
LEMMA FirstSnap ==
    ASSUME IsHistory(made), NEW id \in DOMAIN made, made[id].snaps # <<>>
    PROVE  made[id].snaps[1] \in Snaps
<1>1. made[id] \in Checkpoints
  BY ElementOfSeq DEF IsHistory
<1>2. made[id].snaps \in Seq(Snaps)
  BY <1>1 DEF Checkpoints
<1> QED BY <1>2

LEMMA BranchSwitchKeeps == IInv /\ (\E n \in Names : BranchSwitch(n)) => IInv'
<1> SUFFICES ASSUME IInv, NEW n \in Names, BranchSwitch(n) PROVE IInv'
  OBVIOUS
<1> DEFINE i == CHOOSE j \in FindBranch(repo, n) : TRUE
<1>1. /\ made' = made /\ n \in DOMAIN rows.branches /\ i \in FindBranch(repo, n)
      /\ repo' = [repo EXCEPT !.current = i] /\ rows' = [rows EXCEPT !.current = n]
  BY DEF BranchSwitch
<1>2. i \in DOMAIN repo.branches /\ repo.branches[i].name = n
  BY <1>1 DEF FindBranch
<1> HIDE DEF i
<1>3. /\ IsRows(rows') /\ rows'.checkpoints = rows.checkpoints
      /\ rows'.branches = rows.branches /\ rows'.current = n
  BY <1>1 DEF IInv, IsStored, IsRows
<1>4. /\ repo' = [branches |-> repo'.branches, current |-> repo'.current, notes |-> repo'.notes,
                  checkpoints |-> repo'.checkpoints, dag |-> repo'.dag]
      /\ repo'.branches = repo.branches /\ repo'.current = i /\ repo'.checkpoints = repo.checkpoints
  BY <1>1 DEF IInv, IsCopy
<1>5. IsStored(made', rows')
  BY <1>1, <1>3 DEF IInv, IsStored
<1>6. IsCopy(made', rows', repo')
  BY <1>1, <1>2, <1>3, <1>4 DEF IInv, IsCopy
<1>7. staged' \in Snaps
  <2> DEFINE head == rows.branches[n]
  <2>1. head \in DOMAIN made
    BY <1>1 DEF IInv, IsStored, IsClosed
  <2>2. made[head].snaps # <<>> => made[head].snaps[1] \in Snaps
    BY <2>1, FirstSnap DEF IInv
  <2> QED BY <2>2 DEF BranchSwitch, IInv
<1> QED BY <1>1, <1>5, <1>6, <1>7 DEF IInv

LEMMA CheckpointRollbackKeeps == IInv /\ (\E id \in Ids : CheckpointRollback(id)) => IInv'
<1> SUFFICES ASSUME IInv, NEW id \in Ids, CheckpointRollback(id) PROVE IInv'
  OBVIOUS
<1>1. made' = made /\ rows' = rows /\ repo' = repo
  BY DEF CheckpointRollback
<1>2. id \in DOMAIN made
  BY DEF CheckpointRollback, IInv, IsCopy, IsClosed
<1>3. staged' \in Snaps
  BY <1>2, FirstSnap DEF CheckpointRollback, IInv
<1> QED BY <1>1, <1>3 DEF IInv

LEMMA RestartKeeps == IInv /\ Restart => IInv'
<1> SUFFICES ASSUME IInv, Restart PROVE IInv'
  OBVIOUS
<1>1. made' = made /\ Reopen(rows) /\ IsStored(made', rows)
  BY DEF Restart, IInv
<1>2. IsStored(made', rows') /\ IsCopy(made', rows', repo') /\ staged' \in Snaps
  BY <1>1, ReopenKeeps DEF IInv
<1> QED BY <1>1, <1>2 DEF IInv

(* The rows that a stop in a commit leaves, and the history it leaves        *)
LEMMA StopLeaves ==
    ASSUME IInv, NEW k \in 1..4, StopDuringCommit(k)
    PROVE  LET id == IdOf(StagedCheckpoint) IN
           /\ CanCommit /\ Make(StagedCheckpoint)
           /\ IsHistory(made') /\ IsStored(made', rows')
           /\ IsCopy(made', rows', repo') /\ staged' \in Snaps
           /\ Wrote(rows, rows', rows.current, id, k)
<1> DEFINE cp == StagedCheckpoint
           id == IdOf(cp)
           head == HeadOf(repo)
           moved == HeadMoved(repo, id, cp.parents)
           written == Persisted(rows, moved, id, <<head>>, k)
<1>1. CanCommit /\ Make(cp) /\ Reopen(Persisted(rows, moved, id, cp.parents, k))
  BY DEF StopDuringCommit
<1>2. cp.parents = <<head>> /\ cp \in Checkpoints /\ head \in repo.checkpoints
  BY <1>1, StagedIsCheckpoint
<1>3. Reopen(written)
  BY <1>1, <1>2
<1>4. CurrentName(moved) = rows.current
  BY MovedName
<1>5. k \in 0..5
  OBVIOUS
<1>6. IsStored(made', written)
  BY <1>1, <1>4, <1>5, PersistedIsStored
<1>7. Wrote(rows, written, rows.current, id, k)
  BY <1>4, <1>5, PersistedRows DEF IInv, IsStored
<1>8. IsHistory(made')
  <2>1. IsHistory(made) /\ IsClosed(made, repo.checkpoints)
        /\ \A j \in DOMAIN cp.parents : cp.parents[j] \in repo.checkpoints
    BY <1>2 DEF IInv, IsCopy
  <2> QED BY <1>1, <1>2, <2>1, MakeKeeps
<1> HIDE DEF written
<1>9. rows' = written /\ IsStored(made', rows') /\ IsCopy(made', rows', repo') /\ staged' \in Snaps
  BY <1>3, <1>6, ReopenKeeps DEF IInv
<1> QED BY <1>1, <1>7, <1>8, <1>9

LEMMA StopDuringCommitKeeps == IInv /\ (\E k \in 1..4 : StopDuringCommit(k)) => IInv'
  BY StopLeaves DEF IInv

LEMMA InitHolds == Init => IInv
<1> SUFFICES ASSUME Init PROVE IInv
  OBVIOUS
<1> DEFINE root == [parents |-> <<>>, snaps |-> <<>>]
           main == [name |-> Main, head |-> Root]
<1>1. /\ made = <<root>> /\ staged \in Snaps
      /\ rows = [checkpoints |-> {Root}, notes |-> {}, branches |-> [n \in {Main} |-> Root],
                 current |-> Main, edges |-> {}, gens |-> <<>>, snapshots |-> {staged}]
      /\ repo = [branches |-> <<main>>, current |-> 1, checkpoints |-> {Root}, notes |-> {},
                 dag |-> AddNode(EmptyDag, Root)]
  BY DEF Init
<1>2. root \in Checkpoints /\ root.parents = <<>>
  BY DEF Checkpoints
<1>3. DOMAIN made = {1} /\ made[1] = root /\ made \in Seq(Checkpoints)
  <2> HIDE DEF root
  <2> QED BY <1>1, <1>2
<1>4. IsHistory(made) /\ IsClosed(made, {Root})
  BY <1>2, <1>3 DEF IsHistory, IsClosed, Root
<1>5. /\ IsRows(rows) /\ rows.checkpoints = {Root} /\ rows.current = Main
      /\ DOMAIN rows.branches = {Main} /\ rows.branches[Main] = Root
  BY <1>1 DEF IsRows
<1>6. IsStored(made, rows)
  BY <1>4, <1>5, MainAssumption, FS_Singleton DEF IsStored
<1>7. /\ repo = [branches |-> repo.branches, current |-> repo.current, checkpoints |-> repo.checkpoints,
                 notes |-> repo.notes, dag |-> repo.dag]
      /\ repo.branches = <<main>> /\ repo.current = 1 /\ repo.checkpoints = {Root}
  BY <1>1
<1>8. main \in [name : Names, head : {Root}] /\ main.name = Main /\ main.head = Root
  BY MainAssumption
<1>9. /\ repo.branches \in Seq([name : Names, head : {Root}])
      /\ DOMAIN repo.branches = {1} /\ repo.branches[1] = main
  <2> HIDE DEF main
  <2> QED BY <1>7, <1>8
<1> HIDE DEF main
<1>10. IsCopy(made, rows, repo)
  BY <1>4, <1>5, <1>7, <1>8, <1>9 DEF IsCopy
<1> QED BY <1>1, <1>4, <1>6, <1>10 DEF IInv

LEMMA NextHolds == IInv /\ [ServiceNext]_vars => IInv'
<1> SUFFICES ASSUME IInv, [ServiceNext]_vars PROVE IInv'
  OBVIOUS
<1>1. CASE ServiceNext
  BY <1>1, StageKeeps, CommitKeeps, BranchCreateKeeps, BranchSwitchKeeps,
     CheckpointRollbackKeeps, RestartKeeps, StopDuringCommitKeeps DEF ServiceNext
<1>2. CASE UNCHANGED vars
  BY <1>2 DEF vars, IInv
<1> QED BY <1>1, <1>2

(* The tables and the service's repository agree, after every request, every *)
(* restart and every stop between two statements of a commit                 *)
(* (checkpoint/repo.rs:156-239, 410-436).                                    *)
THEOREM MemoryIsCopy == ServiceSpec => []IInv
<1>1. Init => IInv
  BY InitHolds
<1>2. IInv /\ [ServiceNext]_vars => IInv'
  BY NextHolds
<1> QED BY <1>1, <1>2, PTL DEF ServiceSpec

(* No stop in a commit leaves a hole in the past of a stored branch, for any *)
(* number of branches and checkpoints (checkpoint/repo.rs:410-436).          *)
THEOREM HistoryStaysComplete == ServiceSpec => []HistoryComplete
<1>1. IInv => HistoryComplete
  BY HistoryInClosed DEF IInv, IsStored, HistoryComplete
<1> QED BY <1>1, MemoryIsCopy, PTL

(* "When storage is set, mutations auto-persist" (checkpoint/repo.rs:94):    *)
(* at any time another process would find what the service has in memory.    *)
THEOREM StaysPersisted == ServiceSpec => []AutoPersisted
<1>1. ASSUME IInv PROVE AutoPersisted
  <2>1. DOMAIN rows.branches = {repo.branches[i].name : i \in DOMAIN repo.branches}
    BY <1>1 DEF IInv, IsCopy
  <2>2. ASSUME NEW i \in DOMAIN repo.branches
        PROVE  /\ rows.branches[repo.branches[i].name] = repo.branches[i].head
               /\ History(made, repo.branches[i].head) \subseteq rows.checkpoints \cap repo.checkpoints
    <3>1. /\ repo.branches \in Seq([name : Names, head : repo.checkpoints])
          /\ IsClosed(made, repo.checkpoints) /\ repo.checkpoints \subseteq rows.checkpoints
      BY <1>1 DEF IInv, IsCopy
    <3>2. repo.branches[i] \in [name : Names, head : repo.checkpoints]
      BY <3>1, LenProperties, ElementOfSeq
    <3>3. History(made, repo.branches[i].head) \subseteq repo.checkpoints
      BY <3>1, <3>2, HistoryInClosed
    <3> QED BY <1>1, <3>1, <3>3 DEF IInv, IsCopy
  <2> QED BY <1>1, <2>1, <2>2 DEF AutoPersisted, IInv, IsCopy, CurrentName
<1> QED BY <1>1, MemoryIsCopy, PTL

-----------------------------------------------------------------------------
(* The refinement *)

lineage == ParentEdges(made, Ids)

(* A checkpoint made below head adds the pair of the two to the lineage.     *)
LEMMA MakeGrows ==
    ASSUME IsHistory(made), NEW head \in DOMAIN made, NEW cp \in Checkpoints,
           cp.parents = <<head>>, Make(cp), IsHistory(made')
    PROVE  /\ IdOf(cp) \in 1..MaxMade /\ IdOf(cp) # head
           /\ \A e \in lineage : e[2] = IdOf(cp) => head # e[1]
           /\ lineage' = lineage \cup {<<IdOf(cp), head>>}
<1> DEFINE id == IdOf(cp)
<1>1. made \in Seq(Checkpoints) /\ Len(made) \in Nat /\ DOMAIN made = Ids /\ Ids = 1..Len(made)
  BY DEF IsHistory, Ids
<1>2. /\ made' \in Seq(Checkpoints) /\ DOMAIN made' = DOMAIN made \cup {id}
      /\ made'[id] = cp /\ \A i \in DOMAIN made : made'[i] = made[i]
      /\ id \in Nat \ {0} /\ DOMAIN made' = Ids'
  <2>1. CASE \E i \in Ids : made[i] = cp
    <3>1. id \in Ids /\ made[id] = cp /\ made' = made
      BY <2>1 DEF IdOf, Make
    <3> QED BY <1>1, <3>1 DEF Ids
  <2>2. CASE ~ \E i \in Ids : made[i] = cp
    <3>1. id = Len(made) + 1
      BY <2>2 DEF IdOf
    <3>2. id \notin Ids
      BY <1>1, <3>1
    <3>3. made' = Append(made, cp)
      BY <3>2 DEF Make
    <3> QED BY <1>1, <3>1, <3>3 DEF Ids
  <2> QED BY <2>1, <2>2
<1>3. id <= MaxMade
  BY DEF Make
<1> HIDE DEF id
<1>4. id \in 1..MaxMade
  BY <1>2, <1>3, MaxMadeAssumption
<1>5. head \in Nat /\ head < id
  <2>1. \A k \in DOMAIN cp.parents : cp.parents[k] \in 1..(id - 1)
    BY <1>2 DEF IsHistory
  <2>2. head \in 1..(id - 1)
    BY <2>1
  <2> QED BY <1>2, <2>2
<1>6. ASSUME NEW e \in lineage, e[2] = id PROVE head # e[1]
  <2>1. e[1] \in Ids /\ e[1] \in Nat /\ id \in 1..(e[1] - 1)
    BY <1>1, <1>6 DEF lineage, ParentEdges, IsHistory
  <2> QED BY <1>2, <1>5, <2>1
<1>7. lineage' = lineage \cup {<<id, head>>}
  <2>1. lineage' = {e \in Ids' \X Ids' : \E i \in DOMAIN made'[e[1]].parents : made'[e[1]].parents[i] = e[2]}
    BY <1>2 DEF lineage, ParentEdges
  <2>2. lineage = {e \in Ids \X Ids : \E i \in DOMAIN made[e[1]].parents : made[e[1]].parents[i] = e[2]}
    BY <1>1 DEF lineage, ParentEdges
  <2>3. ASSUME NEW c \in Ids, NEW i \in DOMAIN made[c].parents PROVE made[c].parents[i] \in Ids
    <3>1. c \in Nat /\ made[c].parents[i] \in 1..(c - 1) /\ c <= Len(made)
      BY <1>1 DEF IsHistory
    <3> QED BY <1>1, <3>1
  <2>4. \A e : e \in lineage' => e \in lineage \/ e = <<id, head>>
    <3> SUFFICES ASSUME NEW c \in Ids', NEW p \in Ids', NEW i \in DOMAIN made'[c].parents,
                        made'[c].parents[i] = p
                 PROVE  <<c, p>> \in lineage \/ <<c, p>> = <<id, head>>
      BY <2>1
    <3>1. CASE c = id
      BY <1>2, <3>1
    <3>2. CASE c # id
      <4>1. c \in Ids /\ i \in DOMAIN made[c].parents /\ made[c].parents[i] = p
        BY <1>1, <1>2, <3>2
      <4> QED BY <2>2, <2>3, <4>1
    <3> QED BY <3>1, <3>2
  <2>5. \A e \in lineage : e \in lineage'
    BY <1>1, <1>2, <2>1, <2>2
  <2>6. <<id, head>> \in lineage'
    <3>1. id \in Ids' /\ head \in Ids' /\ made'[id].parents = <<head>> /\ 1 \in DOMAIN <<head>>
      BY <1>1, <1>2
    <3> QED BY <2>1, <3>1
  <2> QED BY <2>4, <2>5, <2>6
<1> QED BY <1>4, <1>5, <1>6, <1>7 DEF id

(* A commit makes its checkpoint below the current head of the ledger.       *)
LEMMA CommitGrows ==
    ASSUME IInv, IsHistory(made'), CanCommit, Make(StagedCheckpoint)
    PROVE  LET id == IdOf(StagedCheckpoint) IN
           /\ id \in 1..MaxMade /\ Ledger!Grow(id)
<1>1. /\ StagedCheckpoint \in Checkpoints /\ StagedCheckpoint.parents = <<HeadOf(repo)>>
      /\ HeadOf(repo) \in DOMAIN made /\ HeadOf(repo) = rows.branches[rows.current]
  BY StagedIsCheckpoint DEF IInv, IsCopy, IsClosed
<1>2. /\ IdOf(StagedCheckpoint) \in 1..MaxMade /\ IdOf(StagedCheckpoint) # HeadOf(repo)
      /\ \A e \in lineage : e[2] = IdOf(StagedCheckpoint) => HeadOf(repo) # e[1]
      /\ lineage' = lineage \cup {<<IdOf(StagedCheckpoint), HeadOf(repo)>>}
  BY <1>1, MakeGrows DEF IInv
<1> QED BY <1>1, <1>2 DEF Ledger!Grow, lineage

(* What the ledger sees of each step                                         *)
LEMMA CommitAdvances == IInv /\ Commit => \E id \in 1..MaxMade : Ledger!Advance(id)
<1> SUFFICES ASSUME IInv, Commit PROVE \E id \in 1..MaxMade : Ledger!Advance(id)
  OBVIOUS
<1> DEFINE id == IdOf(StagedCheckpoint)
<1>1. IInv' /\ Wrote(rows, rows', rows.current, id, 5)
  BY CommitKeeps
<1>2. id \in 1..MaxMade /\ Ledger!Grow(id)
  <2>1. CanCommit /\ Make(StagedCheckpoint) /\ IsHistory(made')
    BY <1>1 DEF Commit, IInv
  <2> QED BY <2>1, CommitGrows
<1> HIDE DEF id
<1>3. rows'.branches = [rows.branches EXCEPT ![rows.current] = id] /\ rows'.current = rows.current
  BY <1>1 DEF Wrote, IInv, IsStored, IsRows
<1> QED BY <1>2, <1>3 DEF Ledger!Advance

LEMMA StopAbandons ==
    ASSUME IInv, NEW k \in 1..4, StopDuringCommit(k)
    PROVE  \E id \in 1..MaxMade : Ledger!Abandon(id)
<1> DEFINE id == IdOf(StagedCheckpoint)
<1>1. /\ CanCommit /\ Make(StagedCheckpoint) /\ IsHistory(made') /\ IsStored(made', rows')
      /\ Wrote(rows, rows', rows.current, id, k)
  BY StopLeaves
<1>2. id \in 1..MaxMade /\ Ledger!Grow(id)
  BY <1>1, CommitGrows
<1> HIDE DEF id
<1>3. rows'.branches = rows.branches /\ rows'.current = rows.current
  <2>1. \A m \in DOMAIN rows.branches : rows'.branches[m] = rows.branches[m]
    BY <1>1 DEF Wrote
  <2> QED BY <1>1, <2>1 DEF Wrote, IInv, IsStored, IsRows
<1> QED BY <1>2, <1>3 DEF Ledger!Abandon

LEMMA BranchCreateForks == IInv /\ (\E n \in Names : BranchCreate(n)) => \E n \in Names : Ledger!Fork(n)
<1> SUFFICES ASSUME IInv, NEW n \in Names, BranchCreate(n) PROVE Ledger!Fork(n)
  OBVIOUS
<1> DEFINE branch == [name |-> n, head |-> HeadOf(repo)]
<1>1. made' = made /\ FindBranch(repo, n) = {} /\ rows' = StoreBranches(rows, <<branch>>)
  BY DEF BranchCreate
<1>2. n \notin DOMAIN rows.branches
  BY <1>1 DEF FindBranch, IInv, IsCopy
<1>3. HeadOf(repo) = rows.branches[rows.current]
  BY DEF HeadOf, IInv, IsCopy
<1>4. branch.name = n /\ branch.head = rows.branches[rows.current]
  BY <1>3
<1> HIDE DEF branch
<1>5. BranchStored(rows, rows', branch)
  BY <1>1, StoreOneBranch
<1>6. /\ rows'.branches = [m \in DOMAIN rows.branches \cup {n} |->
                              IF m = n THEN rows.branches[rows.current] ELSE rows.branches[m]]
      /\ rows'.current = rows.current
  BY <1>4, <1>5 DEF BranchStored, IInv, IsStored, IsRows
<1>7. lineage' = lineage
  BY <1>1 DEF lineage, Ids
<1> QED BY <1>2, <1>6, <1>7 DEF Ledger!Fork, lineage

LEMMA BranchSwitchChecksOut ==
    IInv /\ (\E n \in Names : BranchSwitch(n)) => \E n \in Names : Ledger!Checkout(n)
<1> SUFFICES ASSUME IInv, NEW n \in Names, BranchSwitch(n) PROVE Ledger!Checkout(n)
  OBVIOUS
<1>1. n \in DOMAIN rows.branches /\ made' = made /\ rows' = [rows EXCEPT !.current = n]
  BY DEF BranchSwitch
<1>2. rows'.branches = rows.branches /\ rows'.current = n
  BY <1>1 DEF IInv, IsStored, IsRows
<1> QED BY <1>1, <1>2 DEF Ledger!Checkout, Ids

(* Edits, rollbacks and restarts leave the ledger as it is.                  *)
LEMMA OthersStutter ==
    ASSUME IInv,
           \/ \E s \in Snaps : Stage(s)
           \/ \E id \in Ids : CheckpointRollback(id)
           \/ Restart
           \/ UNCHANGED vars
    PROVE  UNCHANGED Ledger!vars
<1>1. made' = made /\ rows'.branches = rows.branches /\ rows'.current = rows.current
  <2>1. CASE \E s \in Snaps : Stage(s)
    BY <2>1 DEF Stage, IInv, IsStored, IsRows
  <2>2. CASE \E id \in Ids : CheckpointRollback(id)
    BY <2>2 DEF CheckpointRollback
  <2>3. CASE Restart
    <3>1. made' = made /\ Reopen(rows) /\ IsStored(made', rows)
      BY <2>3 DEF Restart, IInv
    <3> QED BY <3>1, ReopenKeeps DEF IInv
  <2>4. CASE UNCHANGED vars
    BY <2>4 DEF vars
  <2> QED BY <2>1, <2>2, <2>3, <2>4
<1> QED BY <1>1 DEF Ledger!vars, Ids

LEMMA InitIsLedger == Init => Ledger!Init
<1> SUFFICES ASSUME Init PROVE Ledger!Init
  OBVIOUS
<1>1. rows.branches = [n \in {Main} |-> Root] /\ rows.current = Main
  BY DEF Init
<1>2. Ids = {1} /\ DOMAIN made[1].parents = {}
  BY DEF Init, Ids
<1>3. lineage = {}
  <2>1. \A e \in lineage : e[1] \in Ids /\ DOMAIN made[e[1]].parents # {}
    BY DEF lineage, ParentEdges
  <2> QED BY <1>2, <2>1
<1> QED BY <1>1, <1>3 DEF Ledger!Init, lineage

LEMMA StepIsLedger == IInv /\ [ServiceNext]_vars => [Ledger!Next]_(Ledger!vars)
<1> SUFFICES ASSUME IInv, [ServiceNext]_vars PROVE Ledger!Next \/ UNCHANGED Ledger!vars
  BY DEF Ledger!vars
<1>1. CASE Commit
  BY <1>1, CommitAdvances DEF Ledger!Next
<1>2. CASE \E k \in 1..4 : StopDuringCommit(k)
  BY <1>2, StopAbandons DEF Ledger!Next
<1>3. CASE \E n \in Names : BranchCreate(n)
  BY <1>3, BranchCreateForks DEF Ledger!Next
<1>4. CASE \E n \in Names : BranchSwitch(n)
  BY <1>4, BranchSwitchChecksOut DEF Ledger!Next
<1>5. CASE \/ \E s \in Snaps : Stage(s)
           \/ \E id \in Ids : CheckpointRollback(id)
           \/ Restart
           \/ UNCHANGED vars
  BY <1>5, OthersStutter
<1> QED BY <1>1, <1>2, <1>3, <1>4, <1>5 DEF ServiceNext

(* The tables are a branch ledger through every stop and restart: the        *)
(* current branch alone moves, to a checkpoint whose parent it pointed to    *)
(* (checkpoint/branch.rs:15, checkpoint/repo.rs:410-436).                    *)
THEOREM LedgerRefined == ServiceSpec => LedgerKept
<1>1. Init => Ledger!Init
  BY InitIsLedger
<1>2. IInv /\ [ServiceNext]_vars => [Ledger!Next]_(Ledger!vars)
  BY StepIsLedger
<1> QED BY <1>1, <1>2, MemoryIsCopy, PTL DEF ServiceSpec, LedgerKept, Ledger!Spec

(* Induction up to a bound, for a set instead of a predicate.                *)
LEMMA UpTo ==
    ASSUME NEW n \in Nat, NEW S, 0 \in S, \A i \in 1..n : i - 1 \in S => i \in S
    PROVE  \A i \in 0..n : i \in S
PROOF
  <1> DEFINE T == {i \in 0..n : i \notin S}
  <1>1. SUFFICES ASSUME T # {} PROVE FALSE
    OBVIOUS
  <1>2. T \subseteq Nat
    OBVIOUS
  <1>3. PICK x \in T : \A y \in T : ~ (<<y, x>> \in OpToRel(<, Nat))
    BY <1>1, <1>2, NatLessThanWellFounded, WFMin, Zenon
  <1>4. \A y \in T : ~ (y < x)
    BY <1>2, <1>3 DEF OpToRel
  <1>5. x \in 1..n /\ x - 1 \in 0..n /\ x - 1 < x
    <2>1. x \in 0..n /\ x \notin S
      BY <1>3
    <2>2. x # 0
      BY <2>1
    <2> QED BY <2>1, <2>2
  <1>6. x - 1 \in S
    BY <1>4, <1>5
  <1> QED BY <1>3, <1>5, <1>6

(* A non-empty set of numbers has a least one.                               *)
LEMMA Least ==
    ASSUME NEW T \in SUBSET Nat, T # {}
    PROVE  \E x \in T : \A y \in T : x <= y
PROOF
  <1>1. PICK x \in T : \A y \in T : ~ (<<y, x>> \in OpToRel(<, Nat))
    BY NatLessThanWellFounded, WFMin, Zenon
  <1>2. \A y \in T : ~ (y < x)
    BY <1>1 DEF OpToRel
  <1> QED BY <1>2

(* A loop of n steps over states V: g[i] is the state after i of them.        *)
LoopSteps(V, n) == [V \X (1..n) -> V]

IsLoop(V, n, base, step, g) ==
    /\ g \in [0..n -> V]
    /\ g[0] = base
    /\ \A i \in 1..n : g[i] = step[<<g[i - 1], i>>]

(* Every such loop has its states.                                           *)
LEMMA LoopRuns ==
    ASSUME NEW X, NEW n \in Nat, NEW base \in X, NEW step \in LoopSteps(X, n)
    PROVE  \E g : IsLoop(X, n, base, step, g)
PROOF
  <1> DEFINE Is(m, g) == /\ g \in [0..m -> X] /\ g[0] = base
                         /\ \A i \in 1..m : g[i] = step[<<g[i - 1], i>>]
             S == {m \in 0..n : \E g : Is(m, g)}
  <1> USE DEF LoopSteps
  <1>1. 0 \in S
    <2>1. Is(0, [i \in 0..0 |-> base])
      OBVIOUS
    <2> HIDE DEF Is
    <2> QED BY <2>1
  <1>2. ASSUME NEW m \in 1..n, m - 1 \in S PROVE m \in S
    <2>1. PICK g : Is(m - 1, g)
      <3>1. \A x \in S : \E g : Is(x, g)
        OBVIOUS
      <3> HIDE DEF Is, S
      <3> QED BY <1>2, <3>1
    <2> DEFINE h == [i \in 0..m |-> IF i = m THEN step[<<g[m - 1], m>>] ELSE g[i]]
    <2>2. g[m - 1] \in X
      BY <2>1
    <2>3. step[<<g[m - 1], m>>] \in X
      BY <2>2
    <2>4. h \in [0..m -> X]
      <3> SUFFICES ASSUME NEW i \in 0..m PROVE h[i] \in X
        OBVIOUS
      <3>1. CASE i = m
        BY <2>3, <3>1
      <3>2. CASE i # m
        <4>1. i \in 0..(m - 1)
          BY <3>2
        <4> QED BY <2>1, <3>2, <4>1
      <3> QED BY <3>1, <3>2
    <2>5. h[0] = base
      BY <2>1
    <2>6. ASSUME NEW i \in 1..m PROVE h[i] = step[<<h[i - 1], i>>]
      <3>1. i - 1 \in 0..m /\ i - 1 # m /\ i \in 0..m
        OBVIOUS
      <3>2. h[i - 1] = g[i - 1]
        BY <3>1
      <3>3. CASE i = m
        BY <3>1, <3>2, <3>3
      <3>4. CASE i # m
        <4>1. i \in 1..(m - 1) /\ h[i] = g[i]
          BY <3>1, <3>4
        <4> QED BY <2>1, <3>2, <4>1
      <3> QED BY <3>3, <3>4
    <2>7. Is(m, h)
      <3> HIDE DEF h
      <3> QED BY <2>4, <2>5, <2>6
    <2> HIDE DEF Is, h
    <2> QED BY <2>7
  <1>3. n \in S
    <2> HIDE DEF S
    <2>1. \A i \in 0..n : i \in S
      BY <1>1, <1>2, UpTo
    <2> QED BY <2>1
  <1>4. \E g : Is(n, g)
    <2>1. \A x \in S : \E g : Is(x, g)
      OBVIOUS
    <2> HIDE DEF Is, S
    <2> QED BY <1>3, <2>1
  <1> QED BY <1>4 DEF IsLoop

(* Graphs over a set of checkpoints                                          *)
Graphs(D) == [edges : SUBSET (D \X D), gens : UNION {[M -> Nat] : M \in SUBSET D}]

(* No generation is beyond d                                                 *)
Below(g, d) == \A n \in DOMAIN d : Gen(g, n) <= d[n]

LEMMA GraphParts ==
    ASSUME NEW D, NEW g \in Graphs(D)
    PROVE  /\ g = [edges |-> g.edges, gens |-> g.gens]
           /\ g.edges \in SUBSET (D \X D)
           /\ Nodes(g) \in SUBSET D
           /\ g.gens \in [Nodes(g) -> Nat]
           /\ \A n : Gen(g, n) \in Nat
PROOF
  <1>1. g = [edges |-> g.edges, gens |-> g.gens] /\ g.edges \in SUBSET (D \X D)
    BY DEF Graphs
  <1>2. PICK M \in SUBSET D : g.gens \in [M -> Nat]
    BY DEF Graphs
  <1>3. Nodes(g) = M
    BY <1>2 DEF Nodes
  <1> QED BY <1>1, <1>2, <1>3 DEF Gen

LEMMA IsGraphs ==
    ASSUME NEW D, NEW E \in SUBSET (D \X D), NEW M \in SUBSET D, NEW f \in [M -> Nat]
    PROVE  [edges |-> E, gens |-> f] \in Graphs(D)
BY DEF Graphs

LEMMA EmptyIsGraph ==
    ASSUME NEW D
    PROVE  EmptyDag \in Graphs(D) /\ EmptyDag.edges = {} /\ Nodes(EmptyDag) = {}
PROOF
  <1>1. DOMAIN <<>> = {} /\ <<>> \in [{} -> Nat]
    OBVIOUS
  <1> QED BY <1>1, IsGraphs DEF EmptyDag, Nodes

(* add_node leaves the generations of other nodes.                           *)
LEMMA NodeAdded ==
    ASSUME NEW D, NEW g \in Graphs(D), NEW n \in D
    PROVE  LET h == AddNode(g, n) IN
           /\ h \in Graphs(D) /\ h.edges = g.edges /\ Nodes(h) = Nodes(g) \cup {n}
           /\ \A m : Gen(h, m) = Gen(g, m)
PROOF
  <1> DEFINE f == [m \in Nodes(g) \cup {n} |-> Gen(g, m)]
             h == [edges |-> g.edges, gens |-> f]
  <1>1. AddNode(g, n) = h
    BY GraphParts DEF AddNode
  <1>2. Nodes(h) = Nodes(g) \cup {n}
    BY DEF Nodes
  <1>3. f \in [Nodes(g) \cup {n} -> Nat] /\ Nodes(g) \cup {n} \in SUBSET D
    BY GraphParts
  <1>4. h \in Graphs(D)
    <2> HIDE DEF f
    <2> QED BY <1>3, GraphParts, IsGraphs
  <1>5. \A m : Gen(h, m) = Gen(g, m)
    BY <1>2 DEF Gen
  <1> QED BY <1>1, <1>2, <1>4, <1>5

(* A graph with an edge more, whose child is below its parent, no further     *)
(* than it must be                                                           *)
IsLinked(g, p, c, h) ==
    /\ h.edges = g.edges \cup {<<p, c>>}
    /\ Nodes(h) = Nodes(g) \cup {p, c}
    /\ \A m : m # c => Gen(h, m) = Gen(g, m)
    /\ Gen(h, c) = IF Gen(g, p) + 1 > Gen(g, c) THEN Gen(g, p) + 1 ELSE Gen(g, c)

(* ... is what add_edge_unchecked makes.                                     *)
LEMMA EdgeAdded ==
    ASSUME NEW D, NEW g \in Graphs(D), NEW p \in D, NEW c \in D
    PROVE  /\ AddEdgeUnchecked(g, p, c) \in Graphs(D)
           /\ IsLinked(g, p, c, AddEdgeUnchecked(g, p, c))
PROOF
  <1> DEFINE below == IF Gen(g, p) + 1 > Gen(g, c) THEN Gen(g, p) + 1 ELSE Gen(g, c)
             f == [m \in Nodes(g) \cup {p, c} |-> IF m = c THEN below ELSE Gen(g, m)]
             h == [edges |-> g.edges \cup {<<p, c>>}, gens |-> f]
  <1>1. AddEdgeUnchecked(g, p, c) = h
    BY DEF AddEdgeUnchecked
  <1>2. Nodes(h) = Nodes(g) \cup {p, c}
    BY DEF Nodes
  <1>3. below \in Nat
    BY GraphParts
  <1>4. f \in [Nodes(g) \cup {p, c} -> Nat] /\ Nodes(g) \cup {p, c} \in SUBSET D
    <2> HIDE DEF below
    <2> QED BY <1>3, GraphParts
  <1>5. h \in Graphs(D)
    <2> HIDE DEF f
    <2>1. g.edges \cup {<<p, c>>} \in SUBSET (D \X D)
      BY GraphParts
    <2> QED BY <1>4, <2>1, IsGraphs
  <1>6. \A m : m # c => Gen(h, m) = Gen(g, m)
    BY <1>2 DEF Gen
  <1>7. Gen(h, c) = below
    <2> HIDE DEF below
    <2> QED BY <1>2 DEF Gen
  <1>8. IsLinked(g, p, c, h)
    <2>1. h.edges = g.edges \cup {<<p, c>>}
      OBVIOUS
    <2> HIDE DEF h
    <2> QED BY <1>2, <1>6, <1>7, <2>1 DEF IsLinked
  <1> HIDE DEF h
  <1> QED BY <1>1, <1>5, <1>8

(* A graph with a node and its children more                                 *)
HasChildren(g, n, children, h) ==
    /\ h.edges = g.edges \cup {<<n, c>> : c \in children}
    /\ Nodes(h) = Nodes(g) \cup {n} \cup children
    /\ \A m : Gen(h, m) = IF m \in children /\ Gen(g, n) + 1 > Gen(g, m)
                          THEN Gen(g, n) + 1 ELSE Gen(g, m)

LEMMA ChildrenAdded ==
    ASSUME NEW D, NEW g \in Graphs(D), NEW n \in D, NEW children \in SUBSET D
    PROVE  /\ WithChildren(g, n, children) \in Graphs(D)
           /\ HasChildren(g, n, children, WithChildren(g, n, children))
PROOF
  <1> DEFINE gen(m) == IF m \in children /\ Gen(g, n) + 1 > Gen(g, m)
                       THEN Gen(g, n) + 1 ELSE Gen(g, m)
             M == Nodes(g) \cup {n} \cup children
             f == [m \in M |-> gen(m)]
             E == g.edges \cup {<<n, c>> : c \in children}
             h == [edges |-> E, gens |-> f]
  <1>1. WithChildren(g, n, children) = h
    BY DEF WithChildren
  <1>2. Nodes(h) = M
    BY DEF Nodes
  <1>3. \A m : gen(m) \in Nat
    BY GraphParts
  <1>4. f \in [M -> Nat] /\ M \in SUBSET D
    <2> HIDE DEF gen
    <2> QED BY <1>3, GraphParts
  <1>5. h \in Graphs(D)
    <2> HIDE DEF f, M
    <2>1. E \in SUBSET (D \X D)
      BY GraphParts
    <2> QED BY <1>4, <2>1, IsGraphs
  <1>6. \A m : Gen(h, m) = gen(m)
    <2> SUFFICES ASSUME NEW m PROVE Gen(h, m) = gen(m)
      OBVIOUS
    <2>1. CASE m \in M
      <3> HIDE DEF gen, M
      <3> QED BY <1>2, <2>1 DEF Gen
    <2>2. CASE m \notin M
      <3>1. Gen(h, m) = 0
        <4> HIDE DEF M, h
        <4> QED BY <1>2, <2>2 DEF Gen
      <3>2. gen(m) = 0
        BY <2>2 DEF Gen
      <3> QED BY <3>1, <3>2
    <2> QED BY <2>1, <2>2
  <1>7. h.edges = E
    OBVIOUS
  <1> HIDE DEF h, f
  <1> QED BY <1>1, <1>2, <1>5, <1>6, <1>7 DEF HasChildren

(* A graph with a checkpoint and the edges from its parents more             *)
HasCheckpoint(g, n, parents, h) ==
    /\ h.edges = g.edges \cup {<<parents[k], n>> : k \in DOMAIN parents}
    /\ Nodes(h) = Nodes(g) \cup {n} \cup {parents[k] : k \in DOMAIN parents}

(* What build_dag_from_checkpoints does for one checkpoint: no generation    *)
(* passes the depth d.                                                       *)
LEMMA CheckpointAdded ==
    ASSUME NEW D, NEW d \in [D -> Nat], NEW g \in Graphs(D), NEW n \in D,
           NEW parents \in Seq(D), Below(g, d),
           \A k \in DOMAIN parents : d[parents[k]] < d[n]
    PROVE  /\ WithCheckpoint(g, n, parents) \in Graphs(D)
           /\ Below(WithCheckpoint(g, n, parents), d)
           /\ HasCheckpoint(g, n, parents, WithCheckpoint(g, n, parents))
PROOF
  <1> DEFINE X == Graphs(D)
             N == Len(parents)
             next == [w \in X \X (1..N) |-> AddEdgeUnchecked(w[1], parents[w[2]], n)]
             first == AddNode(g, n)
             Loop(f) == f = [i \in 0..N |-> IF i = 0 THEN first
                                            ELSE AddEdgeUnchecked(f[i - 1], parents[i], n)]
             graph == CHOOSE f : Loop(f)
  <1>1. N \in Nat /\ DOMAIN parents = 1..N /\ \A k \in 1..N : parents[k] \in D
    BY LenProperties
  <1>2. first \in X
    BY NodeAdded
  <1>3. next \in [X \X (1..N) -> X]
    <2> SUFFICES ASSUME NEW w \in X \X (1..N) PROVE AddEdgeUnchecked(w[1], parents[w[2]], n) \in X
      OBVIOUS
    <2>1. w[1] \in X /\ parents[w[2]] \in D
      BY <1>1
    <2> QED BY <2>1, EdgeAdded
  <1>4. \E f : Loop(f)
    <2>1. PICK f : IsLoop(X, N, first, next, f)
      <3>1. N \in Nat /\ next \in LoopSteps(X, N)
        BY <1>1, <1>3 DEF LoopSteps
      <3> HIDE DEF X, first, next, N
      <3> QED BY <3>1, <1>2, LoopRuns
    <2> USE DEF IsLoop
    <2>2. ASSUME NEW i \in 0..N
          PROVE  f[i] = IF i = 0 THEN first ELSE AddEdgeUnchecked(f[i - 1], parents[i], n)
      <3>1. CASE i = 0
        BY <2>1, <3>1
      <3>2. CASE i # 0
        <4>1. i \in 1..N /\ i - 1 \in 0..N
          BY <1>1, <3>2
        <4>2. <<f[i - 1], i>> \in X \X (1..N)
          BY <2>1, <4>1
        <4> QED BY <2>1, <3>2, <4>1, <4>2
      <3> QED BY <3>1, <3>2
    <2>3. Loop(f)
      <3> HIDE DEF next, first
      <3> QED BY <2>1, <2>2
    <2> HIDE DEF Loop
    <2> QED BY <2>3
  <1>5. graph = [i \in 0..N |-> IF i = 0 THEN first ELSE AddEdgeUnchecked(graph[i - 1], parents[i], n)]
    <2>1. Loop(graph)
      <3> HIDE DEF Loop
      <3> QED BY <1>4
    <2> HIDE DEF graph
    <2> QED BY <2>1
  <1>6. WithCheckpoint(g, n, parents) = graph[N]
    BY Zenon DEF WithCheckpoint
  <1> HIDE DEF graph, next, Loop
  <1> DEFINE Good(i, prev) == /\ prev \in X /\ Below(prev, d)
                           /\ prev.edges = g.edges \cup {<<parents[k], n>> : k \in 1..i}
                           /\ Nodes(prev) = Nodes(g) \cup {n} \cup {parents[k] : k \in 1..i}
             S == {i \in 0..N : Good(i, graph[i])}
  <1>7. 0 \in S
    <2>1. graph[0] = first
      BY <1>1, <1>5
    <2>2. Below(first, d)
      BY NodeAdded DEF Below
    <2>3. Good(0, first)
      BY <2>2, NodeAdded
    <2> QED BY <1>1, <2>1, <2>3
  <1>8. ASSUME NEW i \in 1..N, i - 1 \in S PROVE i \in S
    <2> DEFINE prev == graph[i - 1]
    <2>1. graph[i] = AddEdgeUnchecked(prev, parents[i], n) /\ parents[i] \in D
      BY <1>1, <1>5
    <2>2. Good(i - 1, prev)
      BY <1>8
    <2>3. prev \in Graphs(D)
      BY <2>2
    <2> HIDE DEF prev
    <2>4. PICK a : a = AddEdgeUnchecked(prev, parents[i], n)
      OBVIOUS
    <2>11. PICK p \in D : p = parents[i]
      BY <2>1
    <2>12. AddEdgeUnchecked(prev, p, n) \in Graphs(D) /\ IsLinked(prev, p, n, AddEdgeUnchecked(prev, p, n))
      BY <2>3, <2>11, EdgeAdded
    <2>5. /\ a \in X /\ a.edges = prev.edges \cup {<<parents[i], n>>}
          /\ Nodes(a) = Nodes(prev) \cup {parents[i], n}
          /\ \A m : m # n => Gen(a, m) = Gen(prev, m)
          /\ Gen(a, n) = IF Gen(prev, parents[i]) + 1 > Gen(prev, n) THEN Gen(prev, parents[i]) + 1 ELSE Gen(prev, n)
      BY <2>4, <2>11, <2>12 DEF IsLinked
    <2>6. Below(a, d)
      <3>1. Gen(prev, parents[i]) <= d[parents[i]] /\ d[parents[i]] < d[n] /\ Gen(prev, n) <= d[n]
        BY <1>1, <2>1, <2>2 DEF Below
      <3>2. Gen(prev, parents[i]) \in Nat /\ Gen(prev, n) \in Nat /\ d[n] \in Nat /\ d[parents[i]] \in Nat
        BY <2>1, <2>3, GraphParts
      <3>3. Gen(a, n) <= d[n]
        BY <2>5, <3>1, <3>2
      <3> QED BY <2>2, <2>5, <3>3 DEF Below
    <2>7. 1..i = (1..(i - 1)) \cup {i}
      BY <1>1
    <2>8. a.edges = g.edges \cup {<<parents[k], n>> : k \in 1..i}
      BY <2>2, <2>5, <2>7
    <2>9. Nodes(a) = Nodes(g) \cup {n} \cup {parents[k] : k \in 1..i}
      BY <2>2, <2>5, <2>7
    <2>10. Good(i, a)
      BY <2>5, <2>6, <2>8, <2>9
    <2> HIDE DEF Good
    <2> QED BY <1>1, <2>1, <2>4, <2>10
  <1>9. N \in S
    <2> HIDE DEF S
    <2>1. \A i \in 0..N : i \in S
      BY <1>1, <1>7, <1>8, UpTo
    <2> QED BY <1>1, <2>1
  <1>10. Good(N, graph[N])
    BY <1>9
  <1> HIDE DEF Good
  <1>11. PICK h : h = graph[N]
    OBVIOUS
  <1>12. HasCheckpoint(g, n, parents, h) /\ h \in X /\ Below(h, d)
    BY <1>1, <1>10, <1>11 DEF HasCheckpoint, Good
  <1> QED BY <1>6, <1>11, <1>12

(* The graph of the checkpoints S and their parents                          *)
IsBuilt(S, parents, h) ==
    /\ \A p, c : <<p, c>> \in h.edges <=> c \in S /\ \E k \in DOMAIN parents[c] : parents[c][k] = p
    /\ \A n : n \in Nodes(h) <=>
          n \in S \/ \E c \in S : \E k \in DOMAIN parents[c] : parents[c][k] = n

(* build_dag_from_checkpoints makes it whatever order its map has.           *)
(* What there is to build: checkpoints S of D, in an order, parents before   *)
(* them                                                                      *)
IsToBuild(D, d, S, parents, N, order) ==
    /\ d \in [D -> Nat] /\ S \in SUBSET D /\ parents \in [S -> Seq(D)]
    /\ N \in Nat /\ order \in [1..N -> S] /\ \A c \in S : \E i \in 1..N : order[i] = c
    /\ \A c \in S : \A k \in DOMAIN parents[c] : d[parents[c][k]] < d[c]

LEMMA DagBuilt ==
    ASSUME NEW D, NEW d, NEW S, NEW parents, NEW N, NEW order, IsToBuild(D, d, S, parents, N, order)
    PROVE  /\ BuildDag(parents, order) \in Graphs(D) /\ Below(BuildDag(parents, order), d)
           /\ IsBuilt(S, parents, BuildDag(parents, order))
PROOF
  <1>0. /\ d \in [D -> Nat] /\ S \in SUBSET D /\ parents \in [S -> Seq(D)]
        /\ N \in Nat /\ order \in [1..N -> S] /\ \A c \in S : \E i \in 1..N : order[i] = c
        /\ \A c \in S : \A k \in DOMAIN parents[c] : d[parents[c][k]] < d[c]
    BY DEF IsToBuild
  <1> USE <1>0
  <1> DEFINE X == Graphs(D)
             at(g, i) == WithCheckpoint(g, order[i], parents[order[i]])
             bounded == {g \in X : Below(g, d)}
             next == [w \in bounded \X (1..N) |-> at(w[1], w[2])]
             Loop(f) == f = [i \in 0..N |-> IF i = 0 THEN EmptyDag ELSE at(f[i - 1], i)]
             graph == CHOOSE f : Loop(f)
  <1>1. Len(order) = N
    OBVIOUS
  <1>2. EmptyDag \in bounded
    <2>1. \A n \in DOMAIN d : Gen(EmptyDag, n) = 0 /\ d[n] \in Nat
      BY EmptyIsGraph DEF Gen
    <2>2. Below(EmptyDag, d)
      BY <2>1 DEF Below
    <2> QED BY <2>2, EmptyIsGraph
  <1>3. ASSUME NEW g \in bounded, NEW i \in 1..N
        PROVE  /\ at(g, i) \in bounded
               /\ HasCheckpoint(g, order[i], parents[order[i]], at(g, i))
    <2>1. PICK n \in D, ps \in Seq(D) : n = order[i] /\ ps = parents[order[i]]
      OBVIOUS
    <2>2. g \in Graphs(D) /\ Below(g, d) /\ \A k \in DOMAIN ps : d[ps[k]] < d[n]
      BY <2>1
    <2>3. /\ WithCheckpoint(g, n, ps) \in Graphs(D) /\ Below(WithCheckpoint(g, n, ps), d)
          /\ HasCheckpoint(g, n, ps, WithCheckpoint(g, n, ps))
      BY <2>2, CheckpointAdded
    <2> QED BY <2>1, <2>3
  <1>4. \E f : Loop(f)
    <2>1. next \in LoopSteps(bounded, N)
      <3> HIDE DEF bounded, at
      <3> QED BY <1>3 DEF LoopSteps
    <2>2. PICK f : IsLoop(bounded, N, EmptyDag, next, f)
      <3> HIDE DEF bounded, next
      <3> QED BY <1>2, <2>1, LoopRuns
    <2>3. ASSUME NEW i \in 0..N
          PROVE  f[i] = IF i = 0 THEN EmptyDag ELSE at(f[i - 1], i)
      <3> HIDE DEF bounded, at
      <3>1. CASE i = 0
        BY <2>2, <3>1 DEF IsLoop
      <3>2. CASE i # 0
        <4>1. i \in 1..N /\ i - 1 \in 0..N
          BY <3>2
        <4>2. <<f[i - 1], i>> \in bounded \X (1..N)
          BY <2>2, <4>1 DEF IsLoop
        <4> QED BY <2>2, <3>2, <4>1, <4>2 DEF IsLoop
      <3> QED BY <3>1, <3>2
    <2>4. Loop(f)
      <3> HIDE DEF at
      <3> QED BY <2>2, <2>3 DEF IsLoop
    <2> HIDE DEF Loop
    <2> QED BY <2>4
  <1>5. graph = [i \in 0..N |-> IF i = 0 THEN EmptyDag ELSE at(graph[i - 1], i)]
    <2>1. Loop(graph)
      <3> HIDE DEF Loop
      <3> QED BY <1>4
    <2> HIDE DEF graph
    <2> QED BY <2>1
  <1>6. BuildDag(parents, order) = graph[N]
    <2>1. BuildDag(parents, order) = graph[Len(order)]
      BY <1>1, Zenon DEF BuildDag
    <2> QED BY <1>1, <2>1
  <1> HIDE DEF graph
  <1> DEFINE done(i) == {order[j] : j \in 1..i}
             Good(i) == graph[i] \in bounded /\ IsBuilt(done(i), parents, graph[i])
             T == {i \in 0..N : Good(i)}
  <1>7. 0 \in T
    <2>1. graph[0] = EmptyDag
      BY <1>5
    <2>2. IsBuilt({}, parents, EmptyDag)
      BY EmptyIsGraph DEF IsBuilt
    <2>3. done(0) = {}
      OBVIOUS
    <2>4. Good(0)
      <3> HIDE DEF bounded, done
      <3> QED BY <1>2, <2>1, <2>2, <2>3
    <2> HIDE DEF Good
    <2> QED BY <2>4
  <1>8. ASSUME NEW i \in 1..N, i - 1 \in T PROVE i \in T
    <2>1. PICK g : g = graph[i - 1]
      OBVIOUS
    <2>2. g \in bounded /\ IsBuilt(done(i - 1), parents, g)
      BY <1>8, <2>1
    <2>3. graph[i] = at(g, i)
      <3> HIDE DEF at
      <3> QED BY <1>5, <2>1
    <2>4. PICK h : h = at(g, i)
      OBVIOUS
    <2>5. h \in bounded /\ HasCheckpoint(g, order[i], parents[order[i]], h)
      <3> HIDE DEF bounded, at
      <3> QED BY <1>3, <2>2, <2>4
    <2>6. done(i) = done(i - 1) \cup {order[i]}
      <3>1. 1..i = (1..(i - 1)) \cup {i}
        OBVIOUS
      <3> QED BY <3>1
    <2>7. IsBuilt(done(i), parents, h)
      <3>1. PICK n, ps : n = order[i] /\ ps = parents[order[i]]
        OBVIOUS
      <3>2. PICK P, Q : P = done(i - 1) /\ Q = done(i)
        OBVIOUS
      <3> HIDE DEF done
      <3>3. /\ \A p, c : <<p, c>> \in g.edges <=> c \in P /\ \E k \in DOMAIN parents[c] : parents[c][k] = p
            /\ \A m : m \in Nodes(g) <=>
                 m \in P \/ \E c \in P : \E k \in DOMAIN parents[c] : parents[c][k] = m
        BY <2>2, <3>2 DEF IsBuilt
      <3>4. h.edges = g.edges \cup {<<ps[k], n>> : k \in DOMAIN ps}
        BY <2>5, <3>1 DEF HasCheckpoint
      <3>5. Nodes(h) = Nodes(g) \cup {n} \cup {ps[k] : k \in DOMAIN ps}
        BY <2>5, <3>1 DEF HasCheckpoint
      <3>6. Q = P \cup {n} /\ ps = parents[n]
        BY <2>6, <3>1, <3>2
      <3>7. \A p, c : <<p, c>> \in h.edges <=> c \in Q /\ \E k \in DOMAIN parents[c] : parents[c][k] = p
        <4> SUFFICES ASSUME NEW p, NEW c
                     PROVE  <<p, c>> \in h.edges <=> c \in Q /\ \E k \in DOMAIN parents[c] : parents[c][k] = p
          OBVIOUS
        <4>1. <<p, c>> \in h.edges <=> <<p, c>> \in g.edges \/ \E k \in DOMAIN ps : <<ps[k], n>> = <<p, c>>
          BY <3>4
        <4>2. \A k : <<ps[k], n>> = <<p, c>> <=> ps[k] = p /\ n = c
          OBVIOUS
        <4>3. <<p, c>> \in h.edges <=> <<p, c>> \in g.edges \/ (n = c /\ \E k \in DOMAIN ps : ps[k] = p)
          BY <4>1, <4>2
        <4>4. <<p, c>> \in g.edges <=> c \in P /\ \E k \in DOMAIN parents[c] : parents[c][k] = p
          BY <3>3
        <4> QED BY <3>6, <4>3, <4>4
      <3>8. \A m : m \in Nodes(h) <=>
              m \in Q \/ \E c \in Q : \E k \in DOMAIN parents[c] : parents[c][k] = m
        <4> HIDE <1>0
        <4> QED BY <3>3, <3>5, <3>6
      <3> QED BY <3>2, <3>7, <3>8 DEF IsBuilt
    <2> HIDE DEF bounded, done, at
    <2> QED BY <2>3, <2>4, <2>5, <2>7
  <1>9. N \in T
    <2> HIDE DEF T
    <2>1. \A i \in 0..N : i \in T
      BY <1>7, <1>8, UpTo
    <2> QED BY <2>1
  <1>10. done(N) = S
    OBVIOUS
  <1> HIDE DEF done
  <1> QED BY <1>6, <1>9, <1>10

Ends(edges) == {e[1] : e \in edges} \cup {e[2] : e \in edges}

(* The graph of the nodes S of edges and their children                      *)
IsFollowed(S, edges, h) ==
    /\ \A p, c : <<p, c>> \in h.edges <=> <<p, c>> \in edges /\ p \in S
    /\ \A n : n \in Nodes(h) <=> n \in S \/ \E p \in S : <<p, n>> \in edges

(* The graph of the tables, with their generations                           *)
IsLoaded(edges, gens, h) ==
    /\ h.edges = edges /\ Nodes(h) = Ends(edges)
    /\ \A n \in DOMAIN gens \cap Nodes(h) : Gen(h, n) = gens[n]

(* The loop of load makes it whatever order its map has.                     *)
(* What there is to load: edges between nodes of D and generations of M, the *)
(* nodes in an order                                                         *)
IsToLoad(D, d, E, M, gens, N, order) ==
    /\ d \in [D -> Nat] /\ E \in SUBSET (D \X D) /\ M \in SUBSET D
    /\ gens \in [M -> Nat] /\ \A p, c : <<p, c>> \in E => d[p] < d[c]
    /\ \A n \in M : gens[n] <= d[n]
    /\ N \in Nat /\ order \in [1..N -> Ends(E)]
    /\ \A n \in Ends(E) : \E i \in 1..N : order[i] = n

LEMMA DagLoaded ==
    ASSUME NEW D, NEW d, NEW E, NEW M, NEW gens, NEW N, NEW order, IsToLoad(D, d, E, M, gens, N, order)
    PROVE  /\ LoadDag(E, gens, order) \in Graphs(D) /\ Below(LoadDag(E, gens, order), d)
           /\ IsLoaded(E, gens, LoadDag(E, gens, order))
PROOF
  <1>0. /\ d \in [D -> Nat] /\ E \in SUBSET (D \X D) /\ M \in SUBSET D
        /\ gens \in [M -> Nat] /\ \A p, c : <<p, c>> \in E => d[p] < d[c]
        /\ \A n \in M : gens[n] <= d[n]
        /\ N \in Nat /\ order \in [1..N -> Ends(E)]
        /\ \A n \in Ends(E) : \E i \in 1..N : order[i] = n
    BY DEF IsToLoad
  <1> USE <1>0
  <1> DEFINE children(i) == {e[2] : e \in {f \in E : f[1] = order[i]}}
           X == Graphs(D)
             at(g, i) == WithChildren(g, order[i], children(i))
             bounded == {g \in X : Below(g, d)}
             next == [w \in bounded \X (1..N) |-> at(w[1], w[2])]
             Loop(f) == f = [i \in 0..N |-> IF i = 0 THEN EmptyDag ELSE at(f[i - 1], i)]
             graph == CHOOSE f : Loop(f)
  <1>1. Len(order) = N
    OBVIOUS
  <1>2. EmptyDag \in bounded
    <2>1. \A n \in DOMAIN d : Gen(EmptyDag, n) = 0 /\ d[n] \in Nat
      BY EmptyIsGraph DEF Gen
    <2>2. Below(EmptyDag, d)
      BY <2>1 DEF Below
    <2> QED BY <2>2, EmptyIsGraph
  <1>11. Ends(E) \in SUBSET D
    BY DEF Ends
  <1>12. ASSUME NEW i \in 1..N PROVE order[i] \in D /\ children(i) \in SUBSET D
    BY <1>11
  <1>13. \A n, i : n \in children(i) <=> <<order[i], n>> \in E
    <2> SUFFICES ASSUME NEW n, NEW i PROVE n \in children(i) <=> <<order[i], n>> \in E
      OBVIOUS
    <2>1. ASSUME NEW e \in E, e[1] = order[i], e[2] = n PROVE <<order[i], n>> \in E
      <3>1. e = <<e[1], e[2]>>
        OBVIOUS
      <3> QED BY <2>1, <3>1
    <2>2. ASSUME <<order[i], n>> \in E PROVE n \in children(i)
      <3>1. PICK e : e = <<order[i], n>>
        OBVIOUS
      <3>2. e \in E /\ e[1] = order[i] /\ e[2] = n
        BY <2>2, <3>1
      <3> QED BY <3>2
    <2> QED BY <2>1, <2>2
  <1>3. ASSUME NEW g \in bounded, NEW i \in 1..N
        PROVE  /\ at(g, i) \in bounded
               /\ HasChildren(g, order[i], children(i), at(g, i))
    <2>1. PICK n \in D, S \in SUBSET D : n = order[i] /\ S = children(i)
      BY <1>12, Zenon
    <2>2. g \in Graphs(D) /\ Below(g, d)
      OBVIOUS
    <2>3. /\ WithChildren(g, n, S) \in Graphs(D)
          /\ HasChildren(g, n, S, WithChildren(g, n, S))
      BY <2>2, ChildrenAdded
    <2>4. \A m \in S : d[n] < d[m]
      <3> HIDE DEF children
      <3> QED BY <1>13, <2>1
    <2>5. Below(WithChildren(g, n, S), d)
      <3> SUFFICES ASSUME NEW m \in D PROVE Gen(WithChildren(g, n, S), m) <= d[m]
        BY DEF Below
      <3>1. Gen(g, m) <= d[m] /\ Gen(g, n) <= d[n]
        BY <2>2 DEF Below
      <3>2. Gen(g, m) \in Nat /\ Gen(g, n) \in Nat /\ d[n] \in Nat /\ d[m] \in Nat
        BY <2>2, GraphParts
      <3>3. Gen(WithChildren(g, n, S), m) =
              IF m \in S /\ Gen(g, n) + 1 > Gen(g, m) THEN Gen(g, n) + 1 ELSE Gen(g, m)
        BY <2>3 DEF HasChildren
      <3> QED BY <2>4, <3>1, <3>2, <3>3
    <2> HIDE DEF children
    <2> QED BY <2>1, <2>3, <2>5
  <1> HIDE DEF children
  <1>4. \E f : Loop(f)
    <2>1. next \in LoopSteps(bounded, N)
      <3> HIDE DEF bounded, at
      <3> QED BY <1>3 DEF LoopSteps
    <2>2. PICK f : IsLoop(bounded, N, EmptyDag, next, f)
      <3> HIDE DEF bounded, next
      <3> QED BY <1>2, <2>1, LoopRuns
    <2>3. ASSUME NEW i \in 0..N
          PROVE  f[i] = IF i = 0 THEN EmptyDag ELSE at(f[i - 1], i)
      <3> HIDE DEF bounded, at
      <3>1. CASE i = 0
        BY <2>2, <3>1 DEF IsLoop
      <3>2. CASE i # 0
        <4>1. i \in 1..N /\ i - 1 \in 0..N
          BY <3>2
        <4>2. <<f[i - 1], i>> \in bounded \X (1..N)
          BY <2>2, <4>1 DEF IsLoop
        <4> QED BY <2>2, <3>2, <4>1, <4>2 DEF IsLoop
      <3> QED BY <3>1, <3>2
    <2>4. Loop(f)
      <3> HIDE DEF at
      <3> QED BY <2>2, <2>3 DEF IsLoop
    <2> HIDE DEF Loop
    <2> QED BY <2>4
  <1>5. graph = [i \in 0..N |-> IF i = 0 THEN EmptyDag ELSE at(graph[i - 1], i)]
    <2>1. Loop(graph)
      <3> HIDE DEF Loop
      <3> QED BY <1>4
    <2> HIDE DEF graph
    <2> QED BY <2>1
  <1>6. LoadDag(E, gens, order) =
          [graph[N] EXCEPT !.gens = [m \in Nodes(graph[N]) |->
              IF m \in DOMAIN gens THEN gens[m] ELSE graph[N].gens[m]]]
    <2> DEFINE raw == CHOOSE f : f = [i \in 0..Len(order) |-> IF i = 0 THEN EmptyDag ELSE
                        WithChildren(f[i - 1], order[i], {e[2] : e \in {x \in E : x[1] = order[i]}})]
               last == raw[Len(order)]
    <2>1. LoadDag(E, gens, order) = [last EXCEPT !.gens = [m \in Nodes(last) |->
                IF m \in DOMAIN gens THEN gens[m] ELSE last.gens[m]]]
      BY Zenon DEF LoadDag
    <2>2. raw = graph
      BY <1>1, Zenon DEF children
    <2>3. last = graph[N]
      <3> HIDE DEF raw, graph
      <3> QED BY <1>1, <2>2
    <2> HIDE DEF last, graph
    <2> QED BY <2>1, <2>3
  <1> HIDE DEF graph
  <1> DEFINE done(i) == {order[j] : j \in 1..i}
             Good(i) == graph[i] \in bounded /\ IsFollowed(done(i), E, graph[i])
             T == {i \in 0..N : Good(i)}
  <1>7. 0 \in T
    <2>1. graph[0] = EmptyDag
      BY <1>5
    <2>2. IsFollowed({}, E, EmptyDag)
      BY EmptyIsGraph DEF IsFollowed
    <2>3. done(0) = {}
      OBVIOUS
    <2>4. Good(0)
      <3> HIDE DEF bounded, done
      <3> QED BY <1>2, <2>1, <2>2, <2>3
    <2> HIDE DEF Good
    <2> QED BY <2>4
  <1>8. ASSUME NEW i \in 1..N, i - 1 \in T PROVE i \in T
    <2>1. PICK g : g = graph[i - 1]
      OBVIOUS
    <2>2. g \in bounded /\ IsFollowed(done(i - 1), E, g)
      BY <1>8, <2>1
    <2>3. graph[i] = at(g, i)
      <3> HIDE DEF at
      <3> QED BY <1>5, <2>1
    <2>4. PICK h : h = at(g, i)
      OBVIOUS
    <2>5. h \in bounded /\ HasChildren(g, order[i], children(i), h)
      <3> HIDE DEF bounded, at
      <3> QED BY <1>3, <2>2, <2>4
    <2>6. done(i) = done(i - 1) \cup {order[i]}
      <3>1. 1..i = (1..(i - 1)) \cup {i}
        OBVIOUS
      <3> QED BY <3>1
    <2>7. IsFollowed(done(i), E, h)
      <3>1. PICK n, S : n = order[i] /\ S = children(i)
        OBVIOUS
      <3>2. PICK P, Q : P = done(i - 1) /\ Q = done(i)
        OBVIOUS
      <3> HIDE DEF done
      <3>3. /\ \A p, c : <<p, c>> \in g.edges <=> <<p, c>> \in E /\ p \in P
            /\ \A m : m \in Nodes(g) <=> m \in P \/ \E p \in P : <<p, m>> \in E
        BY <2>2, <3>2 DEF IsFollowed
      <3>4. h.edges = g.edges \cup {<<n, c>> : c \in S}
        BY <2>5, <3>1 DEF HasChildren
      <3>5. Nodes(h) = Nodes(g) \cup {n} \cup S
        BY <2>5, <3>1 DEF HasChildren
      <3>6. Q = P \cup {n} /\ \A c : c \in S <=> <<n, c>> \in E
        BY <1>13, <2>6, <3>1, <3>2
      <3>7. \A p, c : <<p, c>> \in h.edges <=> <<p, c>> \in E /\ p \in Q
        <4> SUFFICES ASSUME NEW p, NEW c PROVE <<p, c>> \in h.edges <=> <<p, c>> \in E /\ p \in Q
          OBVIOUS
        <4>1. <<p, c>> \in h.edges <=> <<p, c>> \in g.edges \/ \E e \in S : <<n, e>> = <<p, c>>
          BY <3>4
        <4>2. \A e : <<n, e>> = <<p, c>> <=> n = p /\ e = c
          OBVIOUS
        <4>3. <<p, c>> \in h.edges <=> <<p, c>> \in g.edges \/ (n = p /\ c \in S)
          BY <4>1, <4>2
        <4> QED BY <3>3, <3>6, <4>3
      <3>8. \A m : m \in Nodes(h) <=> m \in Q \/ \E p \in Q : <<p, m>> \in E
        BY <3>3, <3>5, <3>6
      <3> QED BY <3>2, <3>7, <3>8 DEF IsFollowed
    <2> HIDE DEF bounded, done, at
    <2> QED BY <2>3, <2>4, <2>5, <2>7
  <1>9. N \in T
    <2> HIDE DEF T
    <2>1. \A i \in 0..N : i \in T
      BY <1>7, <1>8, UpTo
    <2> QED BY <2>1
  <1>10. done(N) = Ends(E)
    OBVIOUS
  <1> HIDE DEF done
  <1>14. PICK g \in bounded : g = graph[N] /\ IsFollowed(Ends(E), E, g)
    BY <1>9, <1>10
  <1> DEFINE f == [m \in Nodes(g) |-> IF m \in DOMAIN gens THEN gens[m] ELSE g.gens[m]]
             h == [edges |-> g.edges, gens |-> f]
  <1>15. LoadDag(E, gens, order) = h
    <2>1. g = [edges |-> g.edges, gens |-> g.gens]
      BY GraphParts
    <2>2. LoadDag(E, gens, order) = [g EXCEPT !.gens = f]
      BY <1>6, <1>14, Zenon
    <2> HIDE DEF f
    <2> QED BY <2>1, <2>2
  <1>16. g.edges = E
    <2>1. g.edges \in SUBSET (D \X D)
      BY GraphParts
    <2>2. \A e \in D \X D : e = <<e[1], e[2]>>
      OBVIOUS
    <2>3. \A p, c : <<p, c>> \in E => p \in Ends(E)
      <3> SUFFICES ASSUME NEW p, NEW c, <<p, c>> \in E PROVE p \in Ends(E)
        OBVIOUS
      <3>1. <<p, c>>[1] = p
        OBVIOUS
      <3> QED BY <3>1 DEF Ends
    <2>4. \A p, c : <<p, c>> \in g.edges <=> <<p, c>> \in E
      BY <1>14, <2>3 DEF IsFollowed
    <2>5. ASSUME NEW e \in D \X D PROVE e \in g.edges <=> e \in E
      BY <2>2, <2>4
    <2> QED BY <2>1, <2>5
  <1>17. Nodes(g) = Ends(E)
    <2>1. \A p, c : <<p, c>> \in E => c \in Ends(E)
      <3> SUFFICES ASSUME NEW p, NEW c, <<p, c>> \in E PROVE c \in Ends(E)
        OBVIOUS
      <3>1. <<p, c>>[2] = c
        OBVIOUS
      <3> QED BY <3>1 DEF Ends
    <2>2. \A n : n \in Nodes(g) <=> n \in Ends(E)
      BY <1>14, <2>1 DEF IsFollowed
    <2> QED BY <2>2
  <1>18. Nodes(h) = Nodes(g)
    BY DEF Nodes
  <1>19. f \in [Nodes(g) -> Nat] /\ Nodes(g) \in SUBSET D
    BY GraphParts
  <1>20. h \in Graphs(D)
    <2> HIDE DEF f
    <2> QED BY <1>16, <1>19, IsGraphs
  <1>21. \A n \in Nodes(g) : Gen(h, n) = IF n \in M THEN gens[n] ELSE Gen(g, n)
    BY <1>18 DEF Gen
  <1>22. Below(h, d)
    <2> SUFFICES ASSUME NEW n \in D PROVE Gen(h, n) <= d[n]
      BY DEF Below
    <2>1. Gen(g, n) <= d[n] /\ d[n] \in Nat
      BY DEF Below
    <2>2. CASE n \in Nodes(g)
      <3> HIDE DEF h
      <3> QED BY <1>21, <2>1, <2>2
    <2>3. CASE n \notin Nodes(g)
      <3>1. Gen(h, n) = 0
        <4> HIDE DEF h
        <4> QED BY <1>18, <2>3 DEF Gen
      <3> QED BY <2>1, <3>1
    <2> QED BY <2>2, <2>3
  <1>23. h.edges = E
    BY <1>16
  <1> HIDE DEF h
  <1> QED BY <1>15, <1>17, <1>18, <1>20, <1>21, <1>22, <1>23 DEF IsLoaded

-----------------------------------------------------------------------------
(* Searches *)

(* A search visits where it starts, and what an edge leads to from there.    *)
LEMMA VisitedStart ==
    ASSUME NEW edges, NEW x
    PROVE  x \in Visited(edges, x)
BY DEF Visited

LEMMA VisitedStep ==
    ASSUME NEW edges, NEW x, NEW y \in Visited(edges, x), NEW z, <<y, z>> \in edges
    PROVE  z \in Visited(edges, x)
PROOF
  <1> DEFINE ends == {x} \cup {e[1] : e \in edges} \cup {e[2] : e \in edges}
  <1>1. PICK e \in edges : e = <<y, z>>
    OBVIOUS
  <1>2. e[1] = y /\ e[2] = z
    BY <1>1
  <1>3. z \in ends
    BY <1>2
  <1>4. ASSUME NEW S \in SUBSET ends, x \in S, \A f \in edges : f[1] \in S => f[2] \in S
        PROVE  z \in S
    <2>1. y \in S
      BY <1>4 DEF Visited
    <2> QED BY <1>2, <1>4, <2>1
  <1> QED BY <1>3, <1>4 DEF Visited

(* It stays in what holds its start and is closed under edges.               *)
LEMMA VisitedStays ==
    ASSUME NEW edges, NEW x, NEW S, x \in S, \A e \in edges : e[1] \in S => e[2] \in S
    PROVE  Visited(edges, x) \subseteq S
PROOF
  <1> DEFINE ends == {x} \cup {e[1] : e \in edges} \cup {e[2] : e \in edges}
             inside == S \cap ends
  <1>1. inside \in SUBSET ends /\ x \in inside
    OBVIOUS
  <1>2. \A e \in edges : e[1] \in inside => e[2] \in inside
    OBVIOUS
  <1>3. Visited(edges, x) \subseteq inside
    BY <1>1, <1>2 DEF Visited
  <1> QED BY <1>3

(* More edges, more visits.                                                  *)
LEMMA VisitedGrows ==
    ASSUME NEW D, NEW few \in SUBSET (D \X D), NEW many, few \subseteq many, NEW x
    PROVE  Visited(few, x) \subseteq Visited(many, x)
PROOF
  <1> DEFINE S == Visited(many, x)
  <1>1. x \in S
    BY VisitedStart
  <1>2. ASSUME NEW e \in few, e[1] \in S PROVE e[2] \in S
    <2>1. e = <<e[1], e[2]>> /\ e \in many
      OBVIOUS
    <2>2. <<e[1], e[2]>> \in many
      BY <2>1
    <2> QED BY <1>2, <2>2, VisitedStep
  <1> HIDE DEF S
  <1>3. Visited(few, x) \subseteq S
    BY <1>1, <1>2, VisitedStays
  <1> QED BY <1>3 DEF S

(* What an edge leads to visits no more than where it comes from.            *)
LEMMA VisitedFirst ==
    ASSUME NEW D, NEW edges \in SUBSET (D \X D), NEW x, NEW y, <<x, y>> \in edges
    PROVE  Visited(edges, y) \subseteq Visited(edges, x)
PROOF
  <1> DEFINE S == Visited(edges, x)
  <1>1. y \in S
    BY VisitedStart, VisitedStep
  <1>2. ASSUME NEW e \in edges, e[1] \in S PROVE e[2] \in S
    <2>1. <<e[1], e[2]>> \in edges
      <3>1. e = <<e[1], e[2]>>
        OBVIOUS
      <3> QED BY <3>1
    <2> QED BY <1>2, <2>1, VisitedStep
  <1> HIDE DEF S
  <1>3. Visited(edges, y) \subseteq S
    BY <1>1, <1>2, VisitedStays
  <1> QED BY <1>3 DEF S

-----------------------------------------------------------------------------
(* Checkpoints and their graphs *)

(* Every checkpoint but the root has one parent or two.                      *)
IsRooted(ms) ==
    /\ IsHistory(ms) /\ Root \in DOMAIN ms
    /\ \A c \in DOMAIN ms \ {Root} : Len(ms[c].parents) \in 1..2

(* d is the length of the longest way from the root.                         *)
IsDepth(ms, d) ==
    /\ d \in [DOMAIN ms -> Nat] /\ d[Root] = 0
    /\ \A c \in DOMAIN ms : \A k \in DOMAIN ms[c].parents : d[ms[c].parents[k]] < d[c]
    /\ \A c \in DOMAIN ms \ {Root} : \E k \in DOMAIN ms[c].parents : d[c] = d[ms[c].parents[k]] + 1

(* From parents to children                                                  *)
IsLineage(ms, edges) ==
    /\ edges \in SUBSET ((DOMAIN ms) \X (DOMAIN ms))
    /\ \A p, c : <<p, c>> \in edges => \E k \in DOMAIN ms[c].parents : ms[c].parents[k] = p

(* A graph, of the tables or in memory, whose nodes the root leads to and    *)
(* whose generations are nowhere beyond the depth                            *)
IsGraph(ms, d, g) ==
    /\ IsLineage(ms, g.edges)
    /\ Nodes(g) \in SUBSET DOMAIN ms /\ g.gens \in [Nodes(g) -> Nat]
    /\ Below(g, d)
    /\ Nodes(g) \cup Ends(g.edges) \subseteq Visited(g.edges, Root)

(* The checkpoints that it knows all about                                   *)
Complete(ms, d, g) ==
    {c \in DOMAIN ms : /\ Gen(g, c) = d[c]
                       /\ \A k \in DOMAIN ms[c].parents : /\ <<ms[c].parents[k], c>> \in g.edges
                                                          /\ ms[c].parents[k] \in Nodes(g)}

(* It knows all about a checkpoint and its ancestors.                        *)
Settles(ms, d, g, h) == \E S \in SUBSET Complete(ms, d, g) : IsClosed(ms, S) /\ h \in S

(* From g to h nothing is lost.                                              *)
GraphGrows(ms, g, h) ==
    /\ g.edges \subseteq h.edges /\ Nodes(g) \subseteq Nodes(h)
    /\ \A n \in DOMAIN ms : Gen(g, n) <= Gen(h, n)

LEMMA RootedIds ==
    ASSUME NEW ms, IsRooted(ms)
    PROVE  /\ Len(ms) \in Nat /\ DOMAIN ms = 1..Len(ms) /\ IsClosed(ms, DOMAIN ms)
           /\ \A c \in DOMAIN ms : ms[c] \in Checkpoints /\ ms[c].parents \in Seq(Nat)
           /\ \A c \in DOMAIN ms : \A k \in DOMAIN ms[c].parents :
                 ms[c].parents[k] \in DOMAIN ms /\ ms[c].parents[k] < c
           /\ \A c \in DOMAIN ms \ {Root} : DOMAIN ms[c].parents # {}
PROOF
  <1>1. ms \in Seq(Checkpoints) /\ Len(ms) \in Nat /\ DOMAIN ms = 1..Len(ms)
    BY DEF IsRooted, IsHistory
  <1>2. \A c \in DOMAIN ms : ms[c] \in Checkpoints
    BY <1>1
  <1>3. \A c \in DOMAIN ms : ms[c].parents \in Seq(Nat)
    BY <1>2 DEF Checkpoints
  <1>4. \A c \in DOMAIN ms : \A k \in DOMAIN ms[c].parents :
                 ms[c].parents[k] \in DOMAIN ms /\ ms[c].parents[k] < c
    BY <1>1 DEF IsRooted, IsHistory
  <1>5. ASSUME NEW c \in DOMAIN ms \ {Root} PROVE DOMAIN ms[c].parents # {}
    <2>1. PICK ps \in Seq(Nat) : ps = ms[c].parents
      BY <1>3
    <2>2. Len(ps) \in 1..2
      BY <2>1 DEF IsRooted
    <2>3. 1 \in DOMAIN ps
      BY <2>2
    <2> QED BY <2>1, <2>3
  <1> QED BY <1>1, <1>2, <1>3, <1>4, <1>5 DEF IsClosed

LEMMA CompleteGrows ==
    ASSUME NEW ms, IsRooted(ms), NEW d, IsDepth(ms, d), NEW g, NEW h, IsGraph(ms, d, h), IsGraph(ms, d, g),
           GraphGrows(ms, g, h)
    PROVE  /\ Complete(ms, d, g) \subseteq Complete(ms, d, h)
           /\ \A c : Settles(ms, d, g, c) => Settles(ms, d, h, c)
PROOF
  <1>1. ASSUME NEW c \in Complete(ms, d, g) PROVE c \in Complete(ms, d, h)
    <2>1. c \in DOMAIN ms /\ Gen(g, c) = d[c] /\ d[c] \in Nat
      BY DEF Complete, IsDepth
    <2>2. Gen(h, c) <= d[c] /\ Gen(g, c) <= Gen(h, c) /\ Gen(h, c) \in Nat
      BY <2>1 DEF GraphGrows, IsGraph, Below, IsDepth, Gen
    <2>3. Gen(h, c) = d[c]
      BY <2>1, <2>2
    <2> QED BY <2>1, <2>3 DEF Complete, GraphGrows
  <1> QED BY <1>1 DEF Settles

(* The past of every checkpoint goes back to the root, within any closed set *)
(* that holds it.                                                            *)
LEMMA PastHasRoot ==
    ASSUME NEW ms, IsRooted(ms), NEW S, IsClosed(ms, S), NEW x \in S
    PROVE  Root \in Visited(ParentEdges(ms, S), x)
PROOF
  <1> DEFINE edges == ParentEdges(ms, S)
             T == Visited(edges, x) \cap S
  <1>1. T \subseteq Nat /\ x \in T
    <2>1. S \subseteq Nat
      BY RootedIds DEF IsClosed
    <2> QED BY <2>1, VisitedStart
  <1>2. PICK c \in T : \A y \in T : c <= y
    BY <1>1, Least
  <1>3. c \in DOMAIN ms
    BY DEF IsClosed
  <1>4. CASE c = Root
    BY <1>4
  <1>5. CASE c # Root
    <2>1. PICK k \in DOMAIN ms[c].parents : TRUE
      BY <1>3, <1>5, RootedIds
    <2>2. PICK p : p = ms[c].parents[k]
      OBVIOUS
    <2>3. p \in S /\ p \in DOMAIN ms /\ p < c
      BY <1>3, <2>2, RootedIds DEF IsClosed
    <2>4. <<c, p>> \in edges
      BY <2>2, <2>3 DEF ParentEdges
    <2>5. p \in T
      BY <2>3, <2>4, VisitedStep
    <2>6. p \in Nat /\ c \in Nat /\ c <= p
      BY <1>1, <1>2, <2>5
    <2> QED BY <2>3, <2>6
  <1> QED BY <1>4, <1>5

(* Edges lead from earlier checkpoints to later ones, so none that a commit  *)
(* adds makes a cycle.                                                       *)
LEMMA EdgeIsTaken ==
    ASSUME NEW ms, IsRooted(ms), NEW dag, IsLineage(ms, dag.edges),
           NEW p \in DOMAIN ms, NEW c \in DOMAIN ms, p < c
    PROVE  AddEdge(dag, p, c) = AddEdgeUnchecked(dag, p, c)
PROOF
  <1> DEFINE S == {n \in DOMAIN ms : c <= n}
  <1>1. c \in S /\ p \notin S /\ p # c
    BY RootedIds
  <1>2. ASSUME NEW e \in dag.edges, e[1] \in S PROVE e[2] \in S
    <2>1. e = <<e[1], e[2]>> /\ e[1] \in DOMAIN ms /\ e[2] \in DOMAIN ms
      BY DEF IsLineage
    <2>2. \E k \in DOMAIN ms[e[2]].parents : ms[e[2]].parents[k] = e[1]
      BY <2>1 DEF IsLineage
    <2>3. e[1] < e[2]
      BY <2>1, <2>2, RootedIds
    <2> QED BY <1>2, <2>1, <2>3, RootedIds
  <1> HIDE DEF S
  <1>3. Visited(dag.edges, c) \subseteq S
    BY <1>1, <1>2, VisitedStays
  <1>4. ~ WouldCreateCycle(dag, p, c)
    BY <1>1, <1>3 DEF WouldCreateCycle
  <1> QED BY <1>4 DEF AddEdge

(* A graph with all its nodes reached from the root keeps that with an edge  *)
(* from one of its nodes, or from the root.                                  *)
IsReached(ms, edges, p, c, more) ==
    /\ IsLineage(ms, more)
    /\ Visited(edges, Root) \cup {p, c} \subseteq Visited(more, Root)
    /\ Ends(more) = Ends(edges) \cup {p, c}

LEMMA ReachedGrows ==
    ASSUME NEW ms, IsRooted(ms), NEW edges, IsLineage(ms, edges), NEW p, NEW c \in DOMAIN ms,
           \E k \in DOMAIN ms[c].parents : ms[c].parents[k] = p,
           p \in Visited(edges, Root)
    PROVE  IsReached(ms, edges, p, c, edges \cup {<<p, c>>})
PROOF
  <1> DEFINE more == edges \cup {<<p, c>>}
             D == DOMAIN ms
  <1>1. p \in D
    BY RootedIds
  <1>2. IsLineage(ms, more)
    <2>1. more \in SUBSET (D \X D)
      BY <1>1 DEF IsLineage
    <2>2. ASSUME NEW q, NEW n, <<q, n>> \in more
          PROVE  \E k \in DOMAIN ms[n].parents : ms[n].parents[k] = q
      <3>1. CASE <<q, n>> \in edges
        BY <3>1 DEF IsLineage
      <3>2. CASE <<q, n>> = <<p, c>>
        <4>1. q = p /\ n = c
          BY <3>2
        <4> QED BY <4>1
      <3> QED BY <2>2, <3>1, <3>2
    <2> HIDE DEF more
    <2> QED BY <2>1, <2>2 DEF IsLineage
  <1>3. Visited(edges, Root) \subseteq Visited(more, Root)
    <2>1. edges \in SUBSET (D \X D) /\ edges \subseteq more
      BY DEF IsLineage
    <2> HIDE DEF more, D
    <2> QED BY <2>1, VisitedGrows
  <1>4. c \in Visited(more, Root)
    <2>1. <<p, c>> \in more /\ p \in Visited(more, Root)
      BY <1>3
    <2> HIDE DEF more
    <2> QED BY <2>1, VisitedStep
  <1>5. Ends(more) = Ends(edges) \cup {p, c}
    <2>1. <<p, c>>[1] = p /\ <<p, c>>[2] = c
      OBVIOUS
    <2>2. {e[1] : e \in more} = {e[1] : e \in edges} \cup {p}
      BY <2>1
    <2>3. {e[2] : e \in more} = {e[2] : e \in edges} \cup {c}
      BY <2>1
    <2> HIDE DEF more
    <2> QED BY <2>2, <2>3 DEF Ends
  <1>6. Visited(edges, Root) \cup {p, c} \subseteq Visited(more, Root)
    BY <1>3, <1>4
  <1>7. IsReached(ms, edges, p, c, more)
    <2> HIDE DEF more
    <2> QED BY <1>2, <1>5, <1>6 DEF IsReached
  <1> QED BY <1>7

-----------------------------------------------------------------------------
(* The tables and the repositories loaded from them *)

(* A head of the tables, or of a repository that was loaded from them        *)
IsHead(ms, d, r, h) ==
    /\ h \in r.checkpoints /\ Settles(ms, d, r, h)
    /\ h = Root \/ Root \in Nodes(r)

IsTables(ms, d, r) ==
    /\ IsRows(r)
    /\ IsClosed(ms, r.checkpoints)
    /\ DOMAIN r.branches \subseteq Names /\ IsFiniteSet(DOMAIN r.branches) /\ DOMAIN r.branches # {}
    /\ IsGraph(ms, d, r)
    /\ \A n \in DOMAIN r.branches : IsHead(ms, d, r, r.branches[n])

IsRepository(ms, d, r, rep) ==
    /\ rep = [branches |-> rep.branches, current |-> rep.current, checkpoints |-> rep.checkpoints,
              notes |-> rep.notes, dag |-> rep.dag]
    /\ rep.dag = [edges |-> rep.dag.edges, gens |-> rep.dag.gens]
    /\ rep.branches \in Seq([name : Names, head : rep.checkpoints]) /\ DOMAIN rep.branches # {}
    /\ IsClosed(ms, rep.checkpoints) /\ rep.checkpoints \subseteq r.checkpoints
    /\ IsGraph(ms, d, rep.dag) /\ Ends(rep.dag.edges) \subseteq Nodes(rep.dag)
    /\ \A i \in DOMAIN rep.branches : /\ IsHead(ms, d, r, rep.branches[i].head)
                                      /\ Settles(ms, d, rep.dag, rep.branches[i].head)

(* The inductive invariant, with any number of copies                        *)
SharedInv ==
    /\ IsRooted(made) /\ staged \in Snaps
    /\ \E d : /\ IsDepth(made, d)
              /\ IsTables(made, d, rows)
              /\ IsRepository(made, d, rows, repo)
              /\ \A rep \in request : IsRepository(made, d, rows, rep)

LEMMA HeadsInRepository ==
    ASSUME NEW ms, NEW d, NEW r, NEW rep, IsRepository(ms, d, r, rep), NEW i \in DOMAIN rep.branches
    PROVE  /\ rep.branches[i] \in [name : Names, head : rep.checkpoints]
           /\ rep.branches[i].name \in Names
           /\ rep.branches[i].head \in rep.checkpoints /\ rep.branches[i].head \in DOMAIN ms
PROOF
  <1>1. rep.branches[i] \in [name : Names, head : rep.checkpoints]
    BY LenProperties, ElementOfSeq DEF IsRepository
  <1> QED BY <1>1 DEF IsRepository, IsClosed

(* All that a repository knows of is reached from the root, which every      *)
(* branch protects: there is no garbage.                                     *)
LEMMA NoGarbage ==
    ASSUME NEW d, NEW r, NEW rep, IsRooted(made), IsRepository(made, d, r, rep)
    PROVE  Garbage(rep) = {}
PROOF
  <1>1. PICK i \in DOMAIN rep.branches : TRUE
    BY DEF IsRepository
  <1>2. rep.branches[i].head \in rep.checkpoints /\ IsClosed(made, rep.checkpoints)
    BY HeadsInRepository DEF IsRepository
  <1>3. Root \in Visited(ParentEdges(made, rep.checkpoints), rep.branches[i].head)
    BY <1>2, PastHasRoot
  <1>4. Root \in CollectProtected(rep)
    BY <1>3 DEF CollectProtected
  <1>5. Nodes(rep.dag) \subseteq Visited(rep.dag.edges, Root)
    BY DEF IsRepository, IsGraph
  <1>6. Nodes(rep.dag) \subseteq MarkReachable(rep, CollectProtected(rep))
    BY <1>4, <1>5 DEF MarkReachable
  <1> QED BY <1>6 DEF Garbage

-----------------------------------------------------------------------------
(* More checkpoints *)

(* What was made stays.                                                      *)
Extended(ms, d, ms2, d2) ==
    /\ DOMAIN ms \subseteq DOMAIN ms2
    /\ \A i \in DOMAIN ms : ms2[i] = ms[i] /\ d2[i] = d[i]

LEMMA ClosedStays ==
    ASSUME NEW ms, NEW d, NEW ms2, NEW d2, Extended(ms, d, ms2, d2), NEW S, IsClosed(ms, S)
    PROVE  IsClosed(ms2, S)
BY DEF IsClosed, Extended

LEMMA SettlesStays ==
    ASSUME NEW ms, NEW d, NEW ms2, NEW d2, Extended(ms, d, ms2, d2), NEW g, NEW h, Settles(ms, d, g, h)
    PROVE  Settles(ms2, d2, g, h)
PROOF
  <1>1. PICK S \in SUBSET Complete(ms, d, g) : IsClosed(ms, S) /\ h \in S
    BY DEF Settles
  <1>2. Complete(ms, d, g) \subseteq Complete(ms2, d2, g)
    BY DEF Complete, Extended
  <1>3. IsClosed(ms2, S)
    BY <1>1, ClosedStays
  <1> QED BY <1>1, <1>2, <1>3 DEF Settles

LEMMA GraphStays ==
    ASSUME NEW ms, NEW d, NEW ms2, NEW d2, Extended(ms, d, ms2, d2), IsDepth(ms, d), IsDepth(ms2, d2),
           NEW g, IsGraph(ms, d, g)
    PROVE  IsGraph(ms2, d2, g)
PROOF
  <1>1. IsLineage(ms2, g.edges)
    <2>1. g.edges \in SUBSET ((DOMAIN ms2) \X (DOMAIN ms2))
      BY DEF Extended, IsGraph, IsLineage
    <2>2. ASSUME NEW p, NEW c, <<p, c>> \in g.edges
          PROVE  \E k \in DOMAIN ms2[c].parents : ms2[c].parents[k] = p
      <3>1. c \in DOMAIN ms /\ \E k \in DOMAIN ms[c].parents : ms[c].parents[k] = p
        BY <2>2 DEF IsGraph, IsLineage
      <3> QED BY <3>1 DEF Extended
    <2> QED BY <2>1, <2>2 DEF IsLineage
  <1>2. Below(g, d2)
    <2> SUFFICES ASSUME NEW n \in DOMAIN d2 PROVE Gen(g, n) <= d2[n]
      BY DEF Below
    <2>1. CASE n \in DOMAIN ms
      BY <2>1 DEF IsGraph, Below, IsDepth, Extended
    <2>2. CASE n \notin DOMAIN ms
      <3>1. Gen(g, n) = 0
        BY <2>2 DEF IsGraph, Gen
      <3> QED BY <3>1 DEF IsDepth
    <2> QED BY <2>1, <2>2
  <1> QED BY <1>1, <1>2 DEF IsGraph, Extended

LEMMA TablesStay ==
    ASSUME NEW ms, NEW d, NEW ms2, NEW d2, Extended(ms, d, ms2, d2), IsDepth(ms, d), IsDepth(ms2, d2),
           NEW r, IsTables(ms, d, r)
    PROVE  IsTables(ms2, d2, r)
PROOF
  <1>1. IsGraph(ms2, d2, r) /\ IsClosed(ms2, r.checkpoints)
    BY GraphStays, ClosedStays DEF IsTables
  <1>2. \A n \in DOMAIN r.branches : IsHead(ms2, d2, r, r.branches[n])
    BY SettlesStays DEF IsTables, IsHead
  <1> QED BY <1>1, <1>2 DEF IsTables

LEMMA RepositoryStays ==
    ASSUME NEW ms, NEW d, NEW ms2, NEW d2, Extended(ms, d, ms2, d2), IsDepth(ms, d), IsDepth(ms2, d2),
           NEW r, NEW rep, IsRepository(ms, d, r, rep)
    PROVE  IsRepository(ms2, d2, r, rep)
PROOF
  <1>1. IsGraph(ms2, d2, rep.dag) /\ IsClosed(ms2, rep.checkpoints)
    BY GraphStays, ClosedStays DEF IsRepository
  <1>2. \A i \in DOMAIN rep.branches : /\ IsHead(ms2, d2, r, rep.branches[i].head)
                                       /\ Settles(ms2, d2, rep.dag, rep.branches[i].head)
    BY SettlesStays DEF IsRepository, IsHead
  <1> QED BY <1>1, <1>2 DEF IsRepository

(* A checkpoint made, or made again, leaves what was and has a depth.        *)
LEMMA DepthExtends ==
    ASSUME IsRooted(made), NEW d, IsDepth(made, d), NEW cp \in Checkpoints, Len(cp.parents) \in 1..2,
           \A k \in DOMAIN cp.parents : cp.parents[k] \in DOMAIN made, Make(cp)
    PROVE  /\ IsRooted(made') /\ IdOf(cp) \in DOMAIN made' /\ made'[IdOf(cp)] = cp /\ IdOf(cp) # Root
           /\ \E e : IsDepth(made', e) /\ Extended(made, d, made', e)
PROOF
  <1>1. /\ Len(made) \in Nat /\ DOMAIN made = 1..Len(made) /\ IsClosed(made, DOMAIN made)
        /\ made \in Seq(Checkpoints)
    BY RootedIds DEF IsRooted, IsHistory
  <1>2. /\ IsHistory(made') /\ IdOf(cp) \in DOMAIN made' /\ made'[IdOf(cp)] = cp
    BY <1>1, MakeKeeps DEF IsRooted
  <1>3. cp.parents \in Seq(Nat)
    BY DEF Checkpoints
  <1>4. DOMAIN cp.parents # {}
    <2>1. 1 \in DOMAIN cp.parents
      <3>1. PICK ps \in Seq(Nat) : ps = cp.parents
        BY <1>3
      <3> QED BY <3>1
    <2> QED BY <2>1
  <1>5. IdOf(cp) # Root
    <2>1. \A k \in DOMAIN made'[Root].parents : made'[Root].parents[k] \in 1..(Root - 1)
      BY <1>1, <1>2 DEF IsHistory, IsRooted, Make
    <2>2. DOMAIN made'[Root].parents = {}
      BY <2>1 DEF Root
    <2> QED BY <1>2, <1>4, <2>2
  <1>6. CASE IdOf(cp) \in Ids
    <2>1. made' = made
      BY <1>6 DEF Make
    <2>2. Extended(made, d, made, d)
      BY DEF Extended
    <2> QED BY <1>2, <1>5, <2>1, <2>2
  <1>7. CASE IdOf(cp) \notin Ids
    <2> DEFINE new == Len(made) + 1
               deep(k) == d[cp.parents[k]] + 1
    <2>1. made' = Append(made, cp)
      BY <1>7 DEF Make
    <2>2. /\ DOMAIN made' = DOMAIN made \cup {new} /\ new \notin DOMAIN made
          /\ made'[new] = cp /\ \A i \in DOMAIN made : made'[i] = made[i]
      BY <1>1, <2>1
    <2>3. \A k \in DOMAIN cp.parents : deep(k) \in Nat
      BY DEF IsDepth
    <2>4. PICK m \in DOMAIN cp.parents : \A k \in DOMAIN cp.parents : deep(k) <= deep(m)
      <3>1. PICK ps \in Seq(Nat) : ps = cp.parents
        BY <1>3
      <3>2. DOMAIN cp.parents = {1} \/ DOMAIN cp.parents = {1, 2}
        BY <3>1
      <3>3. PICK P : P = DOMAIN cp.parents
        OBVIOUS
      <3>4. PICK f : f = [k \in P |-> deep(k)]
        OBVIOUS
      <3>5. \A k \in P : f[k] = deep(k) /\ f[k] \in Nat
        BY <2>3, <3>3, <3>4
      <3>6. \E m \in P : \A k \in P : f[k] <= f[m]
        <4>1. CASE P = {1}
          BY <3>5, <4>1
        <4>2. CASE P = {1, 2}
          <5>1. f[1] <= f[2] \/ f[2] <= f[1]
            BY <3>5, <4>2
          <5>2. f[1] <= f[1] /\ f[2] <= f[2]
            BY <3>5, <4>2
          <5> QED BY <4>2, <5>1, <5>2
        <4> QED BY <3>2, <3>3, <4>1, <4>2
      <3> HIDE DEF deep
      <3> QED BY <3>3, <3>5, <3>6
    <2> DEFINE e == [i \in DOMAIN made' |-> IF i = new THEN deep(m) ELSE d[i]]
    <2>5. e \in [DOMAIN made' -> Nat]
      <3> HIDE DEF deep, new
      <3> QED BY <2>2, <2>3, <2>4 DEF IsDepth
    <2>6. \A i \in DOMAIN made : e[i] = d[i]
      BY <2>2
    <2>7. e[new] = deep(m)
      BY <2>2
    <2>8. Extended(made, d, made', e)
      <3> HIDE DEF e, new
      <3> QED BY <2>2, <2>6 DEF Extended
    <2>9. IsDepth(made', e)
      <3>1. Root \in DOMAIN made /\ e[Root] = 0
        BY <2>6 DEF IsRooted, IsDepth
      <3>2. ASSUME NEW c \in DOMAIN made', NEW k \in DOMAIN made'[c].parents
            PROVE  e[made'[c].parents[k]] < e[c]
        <4>1. CASE c = new
          <5>1. made'[c].parents = cp.parents /\ cp.parents[k] \in DOMAIN made /\ k \in DOMAIN cp.parents
            BY <2>2, <4>1
          <5>2. e[cp.parents[k]] = d[cp.parents[k]] /\ d[cp.parents[k]] \in Nat
            BY <2>6, <5>1 DEF IsDepth
          <5>3. d[cp.parents[k]] + 1 <= e[c] /\ e[c] \in Nat
            BY <2>3, <2>4, <2>7, <4>1, <5>1
          <5> HIDE DEF e
          <5> QED BY <5>1, <5>2, <5>3
        <4>2. CASE c # new
          <5>1. c \in DOMAIN made /\ made'[c] = made[c]
            BY <2>2, <4>2
          <5>2. made[c].parents[k] \in DOMAIN made /\ d[made[c].parents[k]] < d[c]
            BY <5>1, RootedIds DEF IsDepth
          <5> HIDE DEF e
          <5> QED BY <2>6, <5>1, <5>2
        <4> QED BY <4>1, <4>2
      <3>3. ASSUME NEW c \in DOMAIN made' \ {Root}
            PROVE  \E k \in DOMAIN made'[c].parents : e[c] = e[made'[c].parents[k]] + 1
        <4>1. CASE c = new
          <5>1. made'[c].parents = cp.parents /\ cp.parents[m] \in DOMAIN made
            BY <2>2, <4>1
          <5>2. e[c] = e[cp.parents[m]] + 1
            <6> HIDE DEF e
            <6> QED BY <2>6, <2>7, <4>1, <5>1
          <5> HIDE DEF e, new
          <5> QED BY <5>1, <5>2
        <4>2. CASE c # new
          <5>1. c \in DOMAIN made \ {Root} /\ made'[c] = made[c]
            BY <2>2, <4>2
          <5>2. PICK k \in DOMAIN made[c].parents : d[c] = d[made[c].parents[k]] + 1
            BY <5>1 DEF IsDepth
          <5>3. made[c].parents[k] \in DOMAIN made
            BY <5>1, RootedIds
          <5> HIDE DEF e, new
          <5> QED BY <2>6, <5>1, <5>2, <5>3
        <4> QED BY <4>1, <4>2
      <3> HIDE DEF e
      <3> QED BY <2>5, <3>1, <3>2, <3>3 DEF IsDepth
    <2>10. IsRooted(made')
      <3>1. \A c \in DOMAIN made' \ {Root} : Len(made'[c].parents) \in 1..2
        BY <2>2 DEF IsRooted
      <3> QED BY <1>2, <2>2, <3>1 DEF IsRooted
    <2> HIDE DEF e
    <2> QED BY <1>2, <1>5, <2>8, <2>9, <2>10
  <1> QED BY <1>6, <1>7

-----------------------------------------------------------------------------
(* More rows *)

LEMMA SettledNode ==
    ASSUME NEW ms, NEW d, IsDepth(ms, d), IsRooted(ms), NEW g, NEW c, Settles(ms, d, g, c)
    PROVE  /\ c \in DOMAIN ms /\ Gen(g, c) = d[c] /\ c \in Complete(ms, d, g)
           /\ c = Root \/ c \in Nodes(g)
PROOF
  <1>1. c \in Complete(ms, d, g) /\ c \in DOMAIN ms /\ Gen(g, c) = d[c]
    BY DEF Settles, Complete
  <1>2. CASE c # Root
    <2>1. PICK k \in DOMAIN ms[c].parents : d[c] = d[ms[c].parents[k]] + 1
      BY <1>1, <1>2 DEF IsDepth
    <2>2. d[ms[c].parents[k]] \in Nat
      BY <1>1, RootedIds DEF IsDepth
    <2>3. Gen(g, c) # 0
      BY <1>1, <2>1, <2>2
    <2> QED BY <1>1, <2>3 DEF Gen
  <1> QED BY <1>1, <1>2

(* A checkpoint whose parents are known all about is, once its own edges and *)
(* generation are.                                                           *)
LEMMA SettlesChild ==
    ASSUME NEW ms, NEW d, NEW g, NEW c \in Complete(ms, d, g),
           \A k \in DOMAIN ms[c].parents : Settles(ms, d, g, ms[c].parents[k])
    PROVE  Settles(ms, d, g, c)
PROOF
  <1> DEFINE S == {x \in Complete(ms, d, g) : Settles(ms, d, g, x)} \cup {c}
  <1>1. S \in SUBSET Complete(ms, d, g)
    OBVIOUS
  <1>2. ASSUME NEW x \in S, NEW k \in DOMAIN ms[x].parents PROVE ms[x].parents[k] \in S
    <2>1. Settles(ms, d, g, ms[x].parents[k])
      <3>1. CASE x = c
        BY <3>1
      <3>2. CASE x # c
        <4>1. PICK T \in SUBSET Complete(ms, d, g) : IsClosed(ms, T) /\ x \in T
          BY <3>2 DEF Settles
        <4>2. ms[x].parents[k] \in T
          BY <4>1 DEF IsClosed
        <4> QED BY <4>1, <4>2 DEF Settles
      <3> QED BY <3>1, <3>2
    <2>2. ms[x].parents[k] \in Complete(ms, d, g)
      BY <2>1 DEF Settles
    <2> QED BY <2>1, <2>2
  <1>3. IsClosed(ms, S)
    <2>1. S \subseteq DOMAIN ms
      BY DEF Complete
    <2> HIDE DEF S
    <2> QED BY <1>2, <2>1 DEF IsClosed
  <1>4. c \in S
    OBVIOUS
  <1> HIDE DEF S
  <1> QED BY <1>1, <1>3, <1>4 DEF Settles

TablesGrow(ms, r, new) == r.checkpoints \subseteq new.checkpoints /\ GraphGrows(ms, r, new)

LEMMA HeadOutlives ==
    ASSUME NEW ms, IsRooted(ms), NEW d, IsDepth(ms, d), NEW r, NEW new,
           IsGraph(ms, d, r), IsGraph(ms, d, new), TablesGrow(ms, r, new), NEW h, IsHead(ms, d, r, h)
    PROVE  IsHead(ms, d, new, h)
PROOF
  <1>1. GraphGrows(ms, r, new) /\ Settles(ms, d, r, h)
    BY DEF TablesGrow, IsHead
  <1>2. Settles(ms, d, new, h)
    BY <1>1, CompleteGrows
  <1> QED BY <1>2 DEF IsHead, TablesGrow, GraphGrows

LEMMA RepositoryOutlives ==
    ASSUME NEW ms, IsRooted(ms), NEW d, IsDepth(ms, d), NEW r, NEW new,
           IsGraph(ms, d, r), IsGraph(ms, d, new), TablesGrow(ms, r, new),
           NEW rep, IsRepository(ms, d, r, rep)
    PROVE  IsRepository(ms, d, new, rep)
PROOF
  <1>1. rep.checkpoints \subseteq new.checkpoints
    BY DEF TablesGrow, IsRepository
  <1>2. \A i \in DOMAIN rep.branches : IsHead(ms, d, new, rep.branches[i].head)
    <2>1. \A i \in DOMAIN rep.branches : IsHead(ms, d, r, rep.branches[i].head)
      BY DEF IsRepository
    <2> QED BY <2>1, HeadOutlives
  <1> QED BY <1>1, <1>2 DEF IsRepository

(* One edge more, of a graph in memory                                       *)
LEMMA LinkedGraph ==
    ASSUME NEW ms, IsRooted(ms), NEW d, IsDepth(ms, d), NEW g, IsGraph(ms, d, g),
           Ends(g.edges) \subseteq Nodes(g),
           NEW c \in DOMAIN ms, NEW p, \E k \in DOMAIN ms[c].parents : ms[c].parents[k] = p,
           p = Root \/ p \in Nodes(g),
           NEW h \in Graphs(DOMAIN ms), IsLinked(g, p, c, h)
    PROVE  /\ IsGraph(ms, d, h) /\ Ends(h.edges) \subseteq Nodes(h) /\ GraphGrows(ms, g, h)
           /\ <<p, c>> \in h.edges /\ {p, c} \subseteq Nodes(h) /\ Gen(g, p) + 1 <= Gen(h, c)
PROOF
  <1>1. IsLineage(ms, g.edges) /\ p \in Visited(g.edges, Root) /\ p \in DOMAIN ms
    BY VisitedStart, RootedIds DEF IsGraph
  <1>2. h.edges = g.edges \cup {<<p, c>>} /\ Nodes(h) = Nodes(g) \cup {p, c}
    BY DEF IsLinked
  <1>3. /\ IsLineage(ms, h.edges) /\ Ends(h.edges) = Ends(g.edges) \cup {p, c}
        /\ Visited(g.edges, Root) \cup {p, c} \subseteq Visited(h.edges, Root)
    <2>1. IsReached(ms, g.edges, p, c, g.edges \cup {<<p, c>>})
      BY <1>1, ReachedGrows
    <2> QED BY <1>2, <2>1 DEF IsReached
  <1>4. Nodes(h) \cup Ends(h.edges) \subseteq Visited(h.edges, Root)
    BY <1>2, <1>3 DEF IsGraph
  <1>5. \A n \in DOMAIN ms : Gen(g, n) \in Nat /\ d[n] \in Nat /\ Gen(g, n) <= d[n]
    BY DEF IsGraph, Gen, IsDepth, Below
  <1>6. d[p] < d[c]
    BY DEF IsDepth
  <1>7. /\ \A m : m # c => Gen(h, m) = Gen(g, m)
        /\ Gen(h, c) = IF Gen(g, p) + 1 > Gen(g, c) THEN Gen(g, p) + 1 ELSE Gen(g, c)
    BY DEF IsLinked
  <1>8. Gen(h, c) <= d[c] /\ Gen(g, c) <= Gen(h, c) /\ Gen(g, p) + 1 <= Gen(h, c)
    BY <1>1, <1>5, <1>6, <1>7
  <1>9. Below(h, d)
    <2>1. \A n \in DOMAIN d : Gen(h, n) <= d[n]
      BY <1>5, <1>7, <1>8 DEF IsDepth
    <2> QED BY <2>1 DEF Below
  <1>10. Nodes(h) \in SUBSET DOMAIN ms /\ h.gens \in [Nodes(h) -> Nat]
    BY GraphParts
  <1>11. \A n \in DOMAIN ms : Gen(g, n) <= Gen(h, n)
    BY <1>5, <1>7, <1>8
  <1>12. IsGraph(ms, d, h)
    BY <1>3, <1>4, <1>9, <1>10 DEF IsGraph
  <1> QED BY <1>2, <1>3, <1>8, <1>11, <1>12 DEF GraphGrows

(* ... and of the tables, whichever of its statements come to be executed    *)
LEMMA EdgeStored ==
    ASSUME NEW ms, IsRooted(ms), NEW d, IsDepth(ms, d), NEW r, IsRows(r), IsGraph(ms, d, r),
           NEW c \in DOMAIN ms, NEW p, \E k \in DOMAIN ms[c].parents : ms[c].parents[k] = p,
           p = Root \/ p \in Nodes(r), NEW k \in Int
    PROVE  LET new == StoreDagEdge(r, p, c, d[c], k) IN
           /\ IsGraph(ms, d, new) /\ GraphGrows(ms, r, new)
           /\ k >= 3 => <<p, c>> \in new.edges /\ {p, c} \subseteq Nodes(new) /\ Gen(new, c) = d[c]
PROOF
  <1> DEFINE edges == IF k >= 1 THEN r.edges \cup {<<p, c>>} ELSE r.edges
             stored == IF k >= 2
                       THEN [n \in DOMAIN r.gens \cup {c} |-> IF n = c THEN d[c] ELSE r.gens[n]]
                       ELSE r.gens
             gens == IF k >= 3 /\ p \notin DOMAIN stored
                     THEN [n \in DOMAIN stored \cup {p} |-> IF n = p THEN 0 ELSE stored[n]]
                     ELSE stored
             new == StoreDagEdge(r, p, c, d[c], k)
  <1>1. IsLineage(ms, r.edges) /\ p \in Visited(r.edges, Root) /\ p \in DOMAIN ms
    BY VisitedStart, RootedIds DEF IsGraph
  <1>2. new.edges = edges /\ new.gens = gens
    <2>1. new = [r EXCEPT !.edges = edges, !.gens = gens]
      BY DEF StoreDagEdge
    <2> HIDE DEF edges, gens, new
    <2> QED BY <2>1 DEF IsRows
  <1>3. \A n \in DOMAIN ms : Gen(r, n) \in Nat /\ d[n] \in Nat /\ Gen(r, n) <= d[n]
    BY DEF IsGraph, Gen, IsDepth, Below
  <1>4. DOMAIN r.gens \in SUBSET DOMAIN ms /\ r.gens \in [DOMAIN r.gens -> Nat]
    BY DEF IsGraph, Nodes
  <1>5. /\ DOMAIN stored = (IF k >= 2 THEN DOMAIN r.gens \cup {c} ELSE DOMAIN r.gens)
        /\ \A n \in DOMAIN stored : stored[n] = IF k >= 2 /\ n = c THEN d[c] ELSE r.gens[n]
        /\ \A n \in DOMAIN stored : stored[n] \in Nat
        /\ stored = [n \in DOMAIN stored |-> stored[n]]
    BY <1>3, <1>4
  <1> HIDE DEF stored
  <1>6. /\ DOMAIN gens = (IF k >= 3 THEN DOMAIN stored \cup {p} ELSE DOMAIN stored)
        /\ \A n \in DOMAIN gens : gens[n] = IF n \in DOMAIN stored THEN stored[n] ELSE 0
        /\ gens = [n \in DOMAIN gens |-> gens[n]]
    BY <1>5
  <1> HIDE DEF gens, edges, new
  <1>7. Nodes(new) = DOMAIN gens
    BY <1>2 DEF Nodes
  <1>8. \A n \in DOMAIN ms : Gen(new, n) = IF k >= 2 /\ n = c THEN d[c] ELSE Gen(r, n)
    BY <1>2, <1>5, <1>6, <1>7 DEF Gen, Nodes
  <1>9. Below(new, d) /\ \A n \in DOMAIN ms : Gen(r, n) <= Gen(new, n)
    <2>1. \A n \in DOMAIN ms : Gen(new, n) <= d[n] /\ Gen(r, n) <= Gen(new, n)
      BY <1>3, <1>8
    <2> QED BY <2>1 DEF Below, IsDepth
  <1>10. Nodes(new) \in SUBSET DOMAIN ms /\ new.gens \in [Nodes(new) -> Nat]
    <2>1. Nodes(new) \in SUBSET DOMAIN ms
      BY <1>1, <1>4, <1>5, <1>6, <1>7
    <2>2. \A n \in DOMAIN gens : gens[n] \in Nat
      BY <1>5, <1>6
    <2> QED BY <1>2, <1>6, <1>7, <2>1, <2>2
  <1>11. /\ IsLineage(ms, new.edges) /\ r.edges \subseteq new.edges
         /\ Nodes(new) \cup Ends(new.edges) \subseteq Visited(new.edges, Root)
    <2>1. CASE k >= 1
      <3>1. new.edges = r.edges \cup {<<p, c>>}
        BY <1>2, <2>1 DEF edges
      <3>2. /\ IsLineage(ms, new.edges) /\ Ends(new.edges) = Ends(r.edges) \cup {p, c}
            /\ Visited(r.edges, Root) \cup {p, c} \subseteq Visited(new.edges, Root)
        <4>1. IsReached(ms, r.edges, p, c, r.edges \cup {<<p, c>>})
          BY <1>1, ReachedGrows
        <4> QED BY <3>1, <4>1 DEF IsReached
      <3>3. Nodes(new) \subseteq Nodes(r) \cup {p, c}
        BY <1>5, <1>6, <1>7 DEF Nodes
      <3> QED BY <3>1, <3>2, <3>3 DEF IsGraph
    <2>2. CASE ~ (k >= 1)
      <3>1. new.edges = r.edges
        BY <1>2, <2>2 DEF edges
      <3>2. Nodes(new) = Nodes(r)
        BY <1>5, <1>6, <1>7, <2>2 DEF Nodes
      <3> QED BY <1>1, <3>1, <3>2 DEF IsGraph
    <2> QED BY <2>1, <2>2
  <1>12. Nodes(r) \subseteq Nodes(new)
    BY <1>5, <1>6, <1>7 DEF Nodes
  <1>13. ASSUME k >= 3 PROVE <<p, c>> \in new.edges /\ {p, c} \subseteq Nodes(new) /\ Gen(new, c) = d[c]
    BY <1>2, <1>5, <1>6, <1>7, <1>8, <1>13 DEF edges
  <1>14. IsGraph(ms, d, new) /\ GraphGrows(ms, r, new)
    BY <1>9, <1>10, <1>11, <1>12 DEF IsGraph, GraphGrows
  <1> QED BY <1>13, <1>14 DEF new

-----------------------------------------------------------------------------
(* A checkpoint more, in memory *)

(* The graph that HeadMoved leaves                                           *)
DagMoved(dag, id, parents) ==
    LET linked == AddEdge(AddNode(dag, id), parents[1], id)
    IN  IF Len(parents) = 1 THEN linked ELSE AddEdge(linked, parents[2], id)

IsDag(ms, d, dag) ==
    /\ dag = [edges |-> dag.edges, gens |-> dag.gens]
    /\ IsGraph(ms, d, dag) /\ Ends(dag.edges) \subseteq Nodes(dag)

LEMMA DagInGraphs ==
    ASSUME NEW ms, NEW d, NEW dag, IsDag(ms, d, dag)
    PROVE  dag \in Graphs(DOMAIN ms)
PROOF
  <1>1. /\ dag.edges \in SUBSET ((DOMAIN ms) \X (DOMAIN ms)) /\ Nodes(dag) \in SUBSET DOMAIN ms
        /\ dag.gens \in [Nodes(dag) -> Nat]
    BY DEF IsDag, IsGraph, IsLineage
  <1>2. [edges |-> dag.edges, gens |-> dag.gens] \in Graphs(DOMAIN ms)
    BY <1>1, IsGraphs
  <1> QED BY <1>2 DEF IsDag

(* From g to h: an edge from the parent p to c                               *)
LinksTo(ms, d, g, p, c, h) ==
    /\ IsDag(ms, d, h) /\ GraphGrows(ms, g, h)
    /\ <<p, c>> \in h.edges /\ {p, c} \subseteq Nodes(h) /\ Gen(g, p) + 1 <= Gen(h, c)

LEMMA EdgeLinks ==
    ASSUME NEW ms, IsRooted(ms), NEW d, IsDepth(ms, d), NEW g, IsDag(ms, d, g),
           NEW c \in DOMAIN ms, NEW p, \E k \in DOMAIN ms[c].parents : ms[c].parents[k] = p,
           p = Root \/ p \in Nodes(g),
           NEW from, from = g \/ from = AddNode(g, c)
    PROVE  LinksTo(ms, d, g, p, c, AddEdge(from, p, c))
PROOF
  <1> DEFINE D == DOMAIN ms
             h == AddEdgeUnchecked(from, p, c)
  <1>1. g \in Graphs(D) /\ IsGraph(ms, d, g) /\ Ends(g.edges) \subseteq Nodes(g) /\ IsLineage(ms, g.edges)
    BY DagInGraphs DEF IsDag, IsGraph
  <1>2. p \in D /\ p < c
    BY RootedIds
  <1>3. /\ from \in Graphs(D) /\ from.edges = g.edges
        /\ Nodes(from) \cup {c} = Nodes(g) \cup {c} /\ \A m : Gen(from, m) = Gen(g, m)
    <2>1. CASE from = g
      BY <1>1, <2>1
    <2>2. CASE from = AddNode(g, c)
      BY <1>1, <2>2, NodeAdded
    <2> QED BY <2>1, <2>2
  <1>4. AddEdge(from, p, c) = h
    <2>1. IsLineage(ms, from.edges)
      BY <1>1, <1>3
    <2> QED BY <1>2, <2>1, EdgeIsTaken
  <1>5. h \in Graphs(D) /\ IsLinked(from, p, c, h)
    BY <1>2, <1>3, EdgeAdded
  <1> HIDE DEF h
  <1>6. IsLinked(g, p, c, h)
    <2>1. Nodes(h) = Nodes(g) \cup {p, c}
      BY <1>3, <1>5 DEF IsLinked
    <2> QED BY <1>3, <1>5, <2>1 DEF IsLinked
  <1>7. /\ IsGraph(ms, d, h) /\ Ends(h.edges) \subseteq Nodes(h) /\ GraphGrows(ms, g, h)
        /\ <<p, c>> \in h.edges /\ {p, c} \subseteq Nodes(h) /\ Gen(g, p) + 1 <= Gen(h, c)
    BY <1>1, <1>5, <1>6, LinkedGraph
  <1>8. h = [edges |-> h.edges, gens |-> h.gens]
    BY <1>5, GraphParts
  <1>9. LinksTo(ms, d, g, p, c, h)
    BY <1>7, <1>8 DEF LinksTo, IsDag
  <1> QED BY <1>4, <1>9

LEMMA GrowsOn ==
    ASSUME NEW ms, IsRooted(ms), NEW d, IsDepth(ms, d), NEW f, IsGraph(ms, d, f),
           NEW g, IsGraph(ms, d, g), NEW h, IsGraph(ms, d, h),
           GraphGrows(ms, f, g), GraphGrows(ms, g, h)
    PROVE  GraphGrows(ms, f, h)
PROOF
  <1>1. \A n \in DOMAIN ms : Gen(f, n) \in Nat /\ Gen(g, n) \in Nat /\ Gen(h, n) \in Nat
    BY DEF IsGraph, Gen
  <1>2. \A n \in DOMAIN ms : Gen(f, n) <= Gen(h, n)
    BY <1>1 DEF GraphGrows
  <1> QED BY <1>2 DEF GraphGrows

(* A graph that knows all about the parents comes to know all about the new  *)
(* checkpoint.                                                               *)
MovesDag(ms, d, dag, id, new) ==
    /\ IsDag(ms, d, new) /\ GraphGrows(ms, dag, new) /\ Settles(ms, d, new, id)
    /\ id \in Nodes(new) /\ new.gens[id] = d[id]

LEMMA DagMoves ==
    ASSUME NEW ms, IsRooted(ms), NEW d, IsDepth(ms, d), NEW dag, IsDag(ms, d, dag),
           NEW id \in DOMAIN ms, id # Root,
           \A k \in DOMAIN ms[id].parents : Settles(ms, d, dag, ms[id].parents[k])
    PROVE  MovesDag(ms, d, dag, id, DagMoved(dag, id, ms[id].parents))
PROOF
  <1>1. PICK ps \in Seq(Nat) : ps = ms[id].parents
    BY RootedIds
  <1>2. Len(ps) \in 1..2
    BY <1>1 DEF IsRooted
  <1>3. IsGraph(ms, d, dag)
    BY DEF IsDag
  <1>4. \A k \in DOMAIN ps : /\ Gen(dag, ps[k]) = d[ps[k]] /\ ps[k] \in DOMAIN ms
                             /\ ps[k] = Root \/ ps[k] \in Nodes(dag)
    BY <1>1, SettledNode
  <1>5. PICK one : one = AddEdge(AddNode(dag, id), ps[1], id)
    OBVIOUS
  <1>6. 1 \in DOMAIN ps /\ \E k \in DOMAIN ms[id].parents : ms[id].parents[k] = ps[1]
    <2>1. 1 \in DOMAIN ps
      BY <1>2
    <2> QED BY <1>1, <2>1
  <1>7. LinksTo(ms, d, dag, ps[1], id, one)
    <2>1. PICK from : from = AddNode(dag, id)
      OBVIOUS
    <2>2. LinksTo(ms, d, dag, ps[1], id, AddEdge(from, ps[1], id))
      BY <1>4, <1>6, <2>1, EdgeLinks
    <2> QED BY <1>5, <2>1, <2>2
  <1>8. IsDag(ms, d, one) /\ IsGraph(ms, d, one) /\ GraphGrows(ms, dag, one)
    BY <1>7 DEF LinksTo, IsDag
  <1>9. PICK new : new = DagMoved(dag, id, ps)
    OBVIOUS
  <1>10. /\ IsDag(ms, d, new) /\ GraphGrows(ms, dag, new)
         /\ \A k \in DOMAIN ps : /\ <<ps[k], id>> \in new.edges /\ {ps[k], id} \subseteq Nodes(new)
                                 /\ d[ps[k]] + 1 <= Gen(new, id)
    <2>1. CASE Len(ps) = 1
      <3>1. new = one
        BY <1>5, <1>9, <2>1 DEF DagMoved
      <3>2. \A k \in DOMAIN ps : k = 1
        BY <2>1
      <3> QED BY <1>4, <1>7, <1>8, <3>1, <3>2 DEF LinksTo
    <2>2. CASE Len(ps) = 2
      <3>1. new = AddEdge(one, ps[2], id)
        BY <1>5, <1>9, <2>2 DEF DagMoved
      <3>2. 2 \in DOMAIN ps /\ \A k \in DOMAIN ps : k = 1 \/ k = 2
        BY <2>2
      <3>3. ps[2] = Root \/ ps[2] \in Nodes(one)
        BY <1>4, <1>8, <3>2 DEF GraphGrows
      <3>4. \E k \in DOMAIN ms[id].parents : ms[id].parents[k] = ps[2]
        BY <1>1, <3>2
      <3>5. LinksTo(ms, d, one, ps[2], id, new)
        <4>1. LinksTo(ms, d, one, ps[2], id, AddEdge(one, ps[2], id))
          BY <1>8, <3>3, <3>4, EdgeLinks
        <4> QED BY <3>1, <4>1
      <3>6. IsDag(ms, d, new) /\ GraphGrows(ms, one, new) /\ IsGraph(ms, d, new)
        BY <3>5 DEF LinksTo, IsDag
      <3>7. GraphGrows(ms, dag, new)
        BY <1>3, <1>8, <3>6, GrowsOn
      <3>8. /\ <<ps[1], id>> \in new.edges /\ <<ps[2], id>> \in new.edges
            /\ {ps[1], ps[2], id} \subseteq Nodes(new)
        BY <1>7, <3>5, <3>6 DEF LinksTo, GraphGrows
      <3>9. \A n \in DOMAIN ms : Gen(dag, n) \in Nat /\ Gen(one, n) \in Nat /\ Gen(new, n) \in Nat
        BY <1>3, <1>8, <3>6 DEF IsGraph, Gen
      <3>10. Gen(dag, ps[1]) + 1 <= Gen(one, id) /\ Gen(one, ps[2]) + 1 <= Gen(new, id)
        BY <1>7, <3>5 DEF LinksTo
      <3>11. Gen(one, id) <= Gen(new, id) /\ Gen(dag, ps[2]) <= Gen(one, ps[2])
        BY <1>4, <1>8, <3>2, <3>6 DEF GraphGrows
      <3>12. d[ps[1]] + 1 <= Gen(new, id)
        <4>1. Gen(dag, ps[1]) \in Nat /\ Gen(one, id) \in Nat /\ Gen(new, id) \in Nat
          BY <1>4, <1>6, <3>9
        <4>2. Gen(dag, ps[1]) + 1 <= Gen(new, id)
          BY <3>10, <3>11, <4>1
        <4> QED BY <1>4, <1>6, <4>2
      <3>13. d[ps[2]] + 1 <= Gen(new, id)
        <4>1. Gen(dag, ps[2]) \in Nat /\ Gen(one, ps[2]) \in Nat /\ Gen(new, id) \in Nat
          BY <1>4, <3>2, <3>9
        <4>2. Gen(dag, ps[2]) + 1 <= Gen(new, id)
          BY <3>10, <3>11, <4>1
        <4> QED BY <1>4, <3>2, <4>2
      <3> QED BY <3>2, <3>6, <3>7, <3>8, <3>12, <3>13
    <2> QED BY <1>2, <2>1, <2>2
  <1>11. IsGraph(ms, d, new)
    BY <1>10 DEF IsDag
  <1>12. Gen(new, id) = d[id]
    <2>1. PICK k \in DOMAIN ps : d[id] = d[ps[k]] + 1
      BY <1>1 DEF IsDepth
    <2>2. d[ps[k]] + 1 <= Gen(new, id) /\ d[id] \in Nat
      BY <1>10 DEF IsDepth
    <2>3. Gen(new, id) <= d[id] /\ Gen(new, id) \in Nat
      BY <1>11 DEF IsGraph, Below, IsDepth, Gen
    <2> QED BY <2>1, <2>2, <2>3
  <1>13. id \in Complete(ms, d, new)
    BY <1>1, <1>10, <1>12 DEF Complete
  <1>14. \A k \in DOMAIN ms[id].parents : Settles(ms, d, new, ms[id].parents[k])
    BY <1>3, <1>10, <1>11, CompleteGrows
  <1>15. Settles(ms, d, new, id)
    BY <1>13, <1>14, SettlesChild
  <1>16. id \in Nodes(new)
    BY <1>6, <1>10
  <1>17. new.gens[id] = d[id]
    BY <1>12, <1>16 DEF Gen
  <1>18. MovesDag(ms, d, dag, id, new)
    BY <1>10, <1>15, <1>16, <1>17 DEF MovesDag
  <1> QED BY <1>1, <1>9, <1>18

-----------------------------------------------------------------------------
(* The statements of a request *)

SameGraph(g, h) == h.edges = g.edges /\ h.gens = g.gens

LEMMA SameIsGraph ==
    ASSUME NEW ms, IsRooted(ms), NEW d, NEW g, IsGraph(ms, d, g), NEW h, SameGraph(g, h)
    PROVE  IsGraph(ms, d, h) /\ GraphGrows(ms, g, h)
PROOF
  <1>1. Nodes(h) = Nodes(g) /\ \A n : Gen(h, n) = Gen(g, n)
    BY DEF SameGraph, Nodes, Gen
  <1>2. IsGraph(ms, d, h)
    BY <1>1 DEF SameGraph, IsGraph, Below
  <1>3. \A n \in DOMAIN ms : Gen(g, n) <= Gen(h, n)
    <2>1. \A n \in DOMAIN ms : Gen(g, n) \in Nat
      BY DEF IsGraph, Gen
    <2> QED BY <1>1, <2>1
  <1> QED BY <1>1, <1>2, <1>3 DEF SameGraph, GraphGrows

(* Tables with other branches, all of whose heads the graph knows            *)
KeepsHeads(ms, d, r, new) ==
    /\ IsRows(new)
    /\ new.checkpoints = r.checkpoints /\ SameGraph(r, new)
    /\ DOMAIN new.branches \subseteq Names /\ IsFiniteSet(DOMAIN new.branches)
    /\ \A n \in DOMAIN new.branches : IsHead(ms, d, r, new.branches[n])

MovesHeads(ms, d, r, new) ==
    /\ KeepsHeads(ms, d, r, new)
    /\ DOMAIN new.branches # {}

LEMMA HeadsStored ==
    ASSUME NEW ms, IsRooted(ms), NEW d, IsDepth(ms, d), NEW r, IsTables(ms, d, r),
           NEW new, MovesHeads(ms, d, r, new)
    PROVE  IsTables(ms, d, new) /\ TablesGrow(ms, r, new)
PROOF
  <1>1. IsGraph(ms, d, r)
    BY DEF IsTables
  <1>2. IsGraph(ms, d, new) /\ TablesGrow(ms, r, new)
    BY <1>1, SameIsGraph DEF TablesGrow, MovesHeads, KeepsHeads
  <1>3. \A n \in DOMAIN new.branches : IsHead(ms, d, new, new.branches[n])
    BY <1>1, <1>2, HeadOutlives DEF MovesHeads, KeepsHeads
  <1>4. IsClosed(ms, new.checkpoints)
    BY DEF IsTables, MovesHeads, KeepsHeads
  <1> QED BY <1>2, <1>3, <1>4 DEF IsTables, MovesHeads, KeepsHeads

LEMMA TablesGrowOn ==
    ASSUME NEW ms, IsRooted(ms), NEW d, IsDepth(ms, d), NEW q, IsGraph(ms, d, q),
           NEW r, IsGraph(ms, d, r), NEW new, IsGraph(ms, d, new),
           TablesGrow(ms, q, r), TablesGrow(ms, r, new)
    PROVE  TablesGrow(ms, q, new)
PROOF
  <1>1. GraphGrows(ms, q, new)
    BY GrowsOn DEF TablesGrow
  <1> QED BY <1>1 DEF TablesGrow

(* A checkpoint whose parents are heads, and its edges, as far as they are   *)
(* written                                                                   *)
LEMMA CheckpointStored ==
    ASSUME NEW ms, IsRooted(ms), NEW d, IsDepth(ms, d), NEW r, IsTables(ms, d, r),
           NEW id \in DOMAIN ms, \A k \in DOMAIN ms[id].parents : ms[id].parents[k] \in r.checkpoints,
           NEW notes
    PROVE  LET new == StoreCheckpoint(r, notes, id) IN
           /\ IsTables(ms, d, new) /\ TablesGrow(ms, r, new) /\ new.branches = r.branches
           /\ id \in new.checkpoints
PROOF
  <1> DEFINE new == StoreCheckpoint(r, notes, id)
  <1>1. IsRows(r) /\ IsGraph(ms, d, r) /\ IsClosed(ms, r.checkpoints)
    BY DEF IsTables
  <1>2. /\ IsRows(new) /\ SameGraph(r, new) /\ new.branches = r.branches
        /\ new.checkpoints = r.checkpoints \cup {id}
    BY <1>1 DEF StoreCheckpoint, IsRows, SameGraph
  <1> HIDE DEF new
  <1>3. IsClosed(ms, new.checkpoints)
    BY <1>1, <1>2 DEF IsClosed
  <1>4. IsGraph(ms, d, new) /\ TablesGrow(ms, r, new)
    <2>1. IsGraph(ms, d, new) /\ GraphGrows(ms, r, new)
      BY <1>1, <1>2, SameIsGraph
    <2> QED BY <1>2, <2>1 DEF TablesGrow
  <1>5. \A n \in DOMAIN new.branches : IsHead(ms, d, new, new.branches[n])
    <2>1. \A n \in DOMAIN r.branches : IsHead(ms, d, r, r.branches[n])
      BY DEF IsTables
    <2> QED BY <1>1, <1>2, <1>4, <2>1, HeadOutlives
  <1>6. IsTables(ms, d, new)
    BY <1>2, <1>3, <1>4, <1>5 DEF IsTables
  <1> QED BY <1>2, <1>4, <1>6 DEF new

WritesEdge(ms, d, r, p, c, k, new) ==
    /\ IsTables(ms, d, new) /\ TablesGrow(ms, r, new) /\ DOMAIN new.branches = DOMAIN r.branches
    /\ new.checkpoints = r.checkpoints
    /\ k >= 3 => <<p, c>> \in new.edges /\ {p, c} \subseteq Nodes(new) /\ Gen(new, c) = d[c]

LEMMA EdgeWritten ==
    ASSUME NEW ms, IsRooted(ms), NEW d, IsDepth(ms, d), NEW r, IsTables(ms, d, r),
           NEW c \in DOMAIN ms, NEW p, \E k \in DOMAIN ms[c].parents : ms[c].parents[k] = p,
           p = Root \/ p \in Nodes(r), NEW k \in Int
    PROVE  WritesEdge(ms, d, r, p, c, k, StoreDagEdge(r, p, c, d[c], k))
PROOF
  <1> DEFINE new == StoreDagEdge(r, p, c, d[c], k)
  <1>1. IsRows(r) /\ IsGraph(ms, d, r)
    BY DEF IsTables
  <1>2. /\ IsGraph(ms, d, new) /\ GraphGrows(ms, r, new)
        /\ k >= 3 => <<p, c>> \in new.edges /\ {p, c} \subseteq Nodes(new) /\ Gen(new, c) = d[c]
    BY <1>1, EdgeStored
  <1>3. /\ IsRows(new) /\ new.branches = r.branches /\ new.current = r.current
        /\ new.checkpoints = r.checkpoints
    BY <1>1, DagEdgeRows
  <1> HIDE DEF new
  <1>4. TablesGrow(ms, r, new)
    BY <1>2, <1>3 DEF TablesGrow
  <1>5. \A n \in DOMAIN new.branches : IsHead(ms, d, new, new.branches[n])
    <2>1. \A n \in DOMAIN r.branches : IsHead(ms, d, r, r.branches[n])
      BY DEF IsTables
    <2> QED BY <1>1, <1>2, <1>3, <1>4, <2>1, HeadOutlives
  <1>6. IsTables(ms, d, new)
    BY <1>2, <1>3, <1>5 DEF IsTables
  <1>7. WritesEdge(ms, d, r, p, c, k, new)
    BY <1>2, <1>3, <1>4, <1>6 DEF WritesEdge
  <1> QED BY <1>7 DEF new

(* From r to new: the first k statements with which checkpoint id is stored  *)
WritesCheckpoint(ms, d, r, id, k, new) ==
    /\ IsTables(ms, d, new) /\ TablesGrow(ms, r, new)
    /\ k >= Statements(ms[id].parents) => IsHead(ms, d, new, id)

LEMMA PersistedTables ==
    ASSUME NEW ms, IsRooted(ms), NEW d, IsDepth(ms, d), NEW r, IsTables(ms, d, r),
           NEW id \in DOMAIN ms, id # Root,
           \A k \in DOMAIN ms[id].parents : IsHead(ms, d, r, ms[id].parents[k]),
           NEW rep, rep.dag.gens[id] = d[id], NEW k \in Nat
    PROVE  WritesCheckpoint(ms, d, r, id, k, Persisted(r, rep, id, ms[id].parents, k))
PROOF
  <1>1. PICK ps \in Seq(Nat) : ps = ms[id].parents
    BY RootedIds
  <1>2. Len(ps) \in 1..2
    BY <1>1 DEF IsRooted
  <1>3. \A i \in DOMAIN ps : /\ ps[i] \in r.checkpoints /\ ps[i] \in DOMAIN ms
                             /\ ps[i] = Root \/ ps[i] \in Nodes(r)
                             /\ ps[i] = Root \/ Root \in Nodes(r)
    BY <1>1, SettledNode DEF IsHead
  <1>4. IsGraph(ms, d, r)
    BY DEF IsTables
  <1>5. PICK stored : stored = IF k >= 1 THEN StoreCheckpoint(r, rep.notes, id) ELSE r
    OBVIOUS
  <1>6. /\ IsTables(ms, d, stored) /\ TablesGrow(ms, r, stored) /\ stored.branches = r.branches
        /\ k >= 1 => id \in stored.checkpoints
    <2>1. CASE k >= 1
      BY <1>1, <1>3, <1>5, <2>1, CheckpointStored
    <2>2. CASE ~ (k >= 1)
      <3>1. SameGraph(r, r)
        BY DEF SameGraph
      <3>2. GraphGrows(ms, r, r)
        BY <1>4, <3>1, SameIsGraph
      <3> QED BY <1>5, <2>2, <3>2 DEF TablesGrow
    <2> QED BY <2>1, <2>2
  <1>7. 1 \in DOMAIN ps /\ \E i \in DOMAIN ms[id].parents : ms[id].parents[i] = ps[1]
    <2>1. 1 \in DOMAIN ps
      BY <1>2
    <2> QED BY <1>1, <2>1
  <1>8. PICK first : first = StoreDagEdge(stored, ps[1], id, d[id], k - 1)
    OBVIOUS
  <1>9. WritesEdge(ms, d, stored, ps[1], id, k - 1, first)
    <2>1. ps[1] = Root \/ ps[1] \in Nodes(stored)
      BY <1>3, <1>6, <1>7 DEF TablesGrow, GraphGrows
    <2>2. k - 1 \in Int
      OBVIOUS
    <2> QED BY <1>6, <1>7, <1>8, <2>1, <2>2, EdgeWritten
  <1>10. /\ IsTables(ms, d, first) /\ IsGraph(ms, d, first) /\ TablesGrow(ms, r, first)
         /\ DOMAIN first.branches = DOMAIN r.branches /\ first.checkpoints = stored.checkpoints
    <2>1. /\ IsTables(ms, d, first) /\ TablesGrow(ms, stored, first)
          /\ DOMAIN first.branches = DOMAIN r.branches /\ first.checkpoints = stored.checkpoints
      BY <1>6, <1>9 DEF WritesEdge
    <2>2. IsGraph(ms, d, stored) /\ IsGraph(ms, d, first)
      BY <1>6, <2>1 DEF IsTables
    <2> QED BY <1>4, <1>6, <2>1, <2>2, TablesGrowOn
  <1>11. PICK linked : linked = IF Len(ps) = 1 THEN first
                                ELSE StoreDagEdge(first, ps[2], id, d[id], k - 4)
    OBVIOUS
  <1>12. /\ IsTables(ms, d, linked) /\ IsGraph(ms, d, linked) /\ TablesGrow(ms, r, linked)
         /\ DOMAIN linked.branches = DOMAIN r.branches /\ linked.checkpoints = stored.checkpoints
         /\ k >= Statements(ps) =>
               /\ Gen(linked, id) = d[id] /\ ps[1] \in Nodes(linked)
               /\ \A i \in DOMAIN ps : <<ps[i], id>> \in linked.edges /\ ps[i] \in Nodes(linked)
    <2>1. CASE Len(ps) = 1
      <3>1. linked = first /\ \A i \in DOMAIN ps : i = 1
        BY <1>11, <2>1
      <3>2. k >= Statements(ps) => k - 1 >= 3
        BY <2>1 DEF Statements
      <3> QED BY <1>9, <1>10, <3>1, <3>2 DEF WritesEdge
    <2>2. CASE Len(ps) = 2
      <3>1. 2 \in DOMAIN ps /\ \A i \in DOMAIN ps : i = 1 \/ i = 2
        BY <2>2
      <3>2. ps[2] = Root \/ ps[2] \in Nodes(first)
        BY <1>3, <1>10, <3>1 DEF TablesGrow, GraphGrows
      <3>3. \E i \in DOMAIN ms[id].parents : ms[id].parents[i] = ps[2]
        BY <1>1, <3>1
      <3>4. WritesEdge(ms, d, first, ps[2], id, k - 4, linked)
        <4>1. linked = StoreDagEdge(first, ps[2], id, d[id], k - 4)
          BY <1>11, <2>2
        <4>2. k - 4 \in Int
          OBVIOUS
        <4> QED BY <1>10, <3>2, <3>3, <4>1, <4>2, EdgeWritten
      <3>5. IsGraph(ms, d, linked)
        BY <3>4 DEF WritesEdge, IsTables
      <3>6. TablesGrow(ms, r, linked)
        <4>1. TablesGrow(ms, first, linked)
          BY <3>4 DEF WritesEdge
        <4> QED BY <1>4, <1>10, <3>5, <4>1, TablesGrowOn
      <3>7. ASSUME k >= Statements(ps)
            PROVE  /\ Gen(linked, id) = d[id] /\ ps[1] \in Nodes(linked)
                   /\ \A i \in DOMAIN ps : <<ps[i], id>> \in linked.edges /\ ps[i] \in Nodes(linked)
        <4>1. k - 1 >= 3 /\ k - 4 >= 3
          BY <2>2, <3>7 DEF Statements
        <4>2. <<ps[1], id>> \in first.edges /\ ps[1] \in Nodes(first)
          BY <1>9, <4>1 DEF WritesEdge
        <4>3. first.edges \subseteq linked.edges /\ Nodes(first) \subseteq Nodes(linked)
          BY <3>4 DEF WritesEdge, TablesGrow, GraphGrows
        <4>4. <<ps[2], id>> \in linked.edges /\ ps[2] \in Nodes(linked) /\ Gen(linked, id) = d[id]
          BY <3>4, <4>1 DEF WritesEdge
        <4> QED BY <3>1, <4>2, <4>3, <4>4
      <3> QED BY <1>10, <3>4, <3>5, <3>6, <3>7 DEF WritesEdge
    <2> QED BY <1>2, <2>1, <2>2
  <1>13. ASSUME k >= Statements(ps) PROVE IsHead(ms, d, linked, id)
    <2>1. id \in linked.checkpoints
      <3>1. k >= 1
        BY <1>2, <1>13 DEF Statements
      <3> QED BY <1>6, <1>12, <3>1
    <2>2. id \in Complete(ms, d, linked)
      BY <1>1, <1>12, <1>13 DEF Complete
    <2>3. GraphGrows(ms, r, linked)
      BY <1>12 DEF TablesGrow
    <2>4. \A i \in DOMAIN ms[id].parents : Settles(ms, d, linked, ms[id].parents[i])
      <3>1. \A i \in DOMAIN ms[id].parents : Settles(ms, d, r, ms[id].parents[i])
        BY DEF IsHead
      <3> QED BY <1>4, <1>12, <2>3, <3>1, CompleteGrows
    <2>5. Settles(ms, d, linked, id)
      BY <2>2, <2>4, SettlesChild
    <2>6. Root \in Nodes(linked)
      BY <1>3, <1>7, <1>12, <1>13, <2>3 DEF GraphGrows
    <2> QED BY <2>1, <2>5, <2>6 DEF IsHead
  <1>14. PICK new : new = IF k >= Statements(ps) THEN UpdateBranchHead(linked, CurrentName(rep), id)
                          ELSE linked
    OBVIOUS
  <1>15. new = Persisted(r, rep, id, ps, k)
    BY <1>5, <1>8, <1>11, <1>14 DEF Persisted
  <1>16. WritesCheckpoint(ms, d, r, id, k, new)
    <2>1. CASE k >= Statements(ps)
      <3>1. IsHead(ms, d, linked, id)
        BY <1>13, <2>1
      <3>2. new = UpdateBranchHead(linked, CurrentName(rep), id)
        BY <1>14, <2>1
      <3>3. IsRows(linked) /\ \A n \in DOMAIN linked.branches : IsHead(ms, d, linked, linked.branches[n])
        BY <1>12 DEF IsTables
      <3>4. /\ IsRows(new) /\ new.checkpoints = linked.checkpoints /\ SameGraph(linked, new)
            /\ DOMAIN new.branches = DOMAIN linked.branches
            /\ \A n \in DOMAIN new.branches : new.branches[n] = id \/ new.branches[n] = linked.branches[n]
        BY <3>2, <3>3 DEF UpdateBranchHead, IsRows, SameGraph
      <3>5. \A n \in DOMAIN new.branches : IsHead(ms, d, linked, new.branches[n])
        BY <3>1, <3>3, <3>4
      <3>6. IsTables(ms, d, new) /\ TablesGrow(ms, linked, new)
        <4>1. /\ DOMAIN linked.branches \subseteq Names /\ IsFiniteSet(DOMAIN linked.branches)
              /\ DOMAIN linked.branches # {}
          BY <1>12 DEF IsTables
        <4>2. MovesHeads(ms, d, linked, new)
          BY <3>4, <3>5, <4>1 DEF MovesHeads, KeepsHeads
        <4> QED BY <1>12, <4>2, HeadsStored
      <3>7. IsGraph(ms, d, new)
        BY <3>6 DEF IsTables
      <3>8. TablesGrow(ms, r, new)
        BY <1>4, <1>12, <3>6, <3>7, TablesGrowOn
      <3>9. IsHead(ms, d, new, id)
        BY <1>12, <3>1, <3>6, <3>7, HeadOutlives
      <3> QED BY <3>6, <3>8, <3>9 DEF WritesCheckpoint
    <2>2. CASE ~ (k >= Statements(ps))
      <3>1. new = linked
        BY <1>14, <2>2
      <3> QED BY <1>1, <1>12, <2>2, <3>1 DEF WritesCheckpoint
    <2> QED BY <2>1, <2>2
  <1> QED BY <1>1, <1>15, <1>16

-----------------------------------------------------------------------------
(* Branches of a repository, written to the tables *)

(* A list of branches whose heads the tables know                            *)
IsListed(ms, d, r, branches) ==
    /\ DOMAIN branches = 1..Len(branches) /\ Len(branches) \in Nat
    /\ \A i \in DOMAIN branches : branches[i].name \in Names /\ IsHead(ms, d, r, branches[i].head)

(* A list of some branches                                                   *)
IsWhole(branches) == DOMAIN branches # {}

(* From mid to new: these branches more                                      *)
AddsBranches(ms, d, r, mid, branches, new) ==
    /\ KeepsHeads(ms, d, r, new)
    /\ DOMAIN new.branches = DOMAIN mid.branches \cup {branches[i].name : i \in DOMAIN branches}

LEMMA BranchesWritten ==
    ASSUME NEW ms, NEW d, NEW r, NEW mid, KeepsHeads(ms, d, r, mid),
           NEW branches, IsListed(ms, d, r, branches)
    PROVE  AddsBranches(ms, d, r, mid, branches, StoreBranches(mid, branches))
PROOF
  <1> DEFINE names == {branches[i].name : i \in DOMAIN branches}
             listed == {branches[i] : i \in DOMAIN branches}
             heads == [n \in DOMAIN mid.branches \cup names |->
                          IF n \in names THEN (CHOOSE b \in listed : b.name = n).head ELSE mid.branches[n]]
  <1>1. PICK new : new = StoreBranches(mid, branches)
    OBVIOUS
  <1>2. new = [mid EXCEPT !.branches = heads]
    BY <1>1 DEF StoreBranches
  <1>3. IsFiniteSet(names) /\ names \subseteq Names
    <2>1. IsFiniteSet(DOMAIN branches)
      BY FS_Interval DEF IsListed
    <2>2. PICK f : f = [i \in DOMAIN branches |-> branches[i].name]
      OBVIOUS
    <2>3. f \in Surjection(DOMAIN branches, names)
      BY <2>2 DEF Surjection
    <2> HIDE DEF names
    <2>4. IsFiniteSet(names)
      BY <2>1, <2>3, FS_Surjection
    <2>5. names \subseteq Names
      BY DEF IsListed, names
    <2> QED BY <2>4, <2>5
  <1>4. ASSUME NEW n \in names PROVE IsHead(ms, d, r, (CHOOSE b \in listed : b.name = n).head)
    <2>1. \E b \in listed : b.name = n
      OBVIOUS
    <2>2. PICK b : b = CHOOSE c \in listed : c.name = n
      OBVIOUS
    <2>3. b \in listed
      BY <2>1, <2>2
    <2>4. IsHead(ms, d, r, b.head)
      BY <2>3 DEF IsListed
    <2> QED BY <2>2, <2>4
  <1>5. /\ DOMAIN heads = DOMAIN mid.branches \cup names
        /\ \A n \in DOMAIN heads : IsHead(ms, d, r, heads[n])
        /\ heads = [n \in DOMAIN heads |-> heads[n]]
    <2>1. DOMAIN heads = DOMAIN mid.branches \cup names /\ heads = [n \in DOMAIN heads |-> heads[n]]
      OBVIOUS
    <2>2. ASSUME NEW n \in DOMAIN heads PROVE IsHead(ms, d, r, heads[n])
      <3>1. CASE n \in names
        BY <1>4, <3>1
      <3>2. CASE n \notin names
        <4>1. n \in DOMAIN mid.branches /\ heads[n] = mid.branches[n]
          BY <3>2
        <4> HIDE DEF heads
        <4> QED BY <4>1 DEF KeepsHeads
      <3> QED BY <3>1, <3>2
    <2> QED BY <2>1, <2>2
  <1> HIDE DEF heads, names
  <1>6. /\ IsRows(new) /\ new.checkpoints = r.checkpoints /\ SameGraph(r, new)
        /\ new.branches = heads
    <2>1. IsRows(mid)
      BY DEF KeepsHeads
    <2> QED BY <1>2, <1>5, <2>1 DEF KeepsHeads, IsRows, SameGraph
  <1>7. DOMAIN mid.branches \subseteq Names /\ IsFiniteSet(DOMAIN mid.branches)
    BY DEF KeepsHeads
  <1>8. IsFiniteSet(DOMAIN heads)
    <2>1. PICK D : D = DOMAIN mid.branches
      OBVIOUS
    <2>2. IsFiniteSet(D \cup names)
      BY <1>3, <1>7, <2>1, FS_Union
    <2> QED BY <1>5, <2>1, <2>2
  <1>9. KeepsHeads(ms, d, r, new)
    BY <1>3, <1>5, <1>6, <1>7, <1>8 DEF KeepsHeads
  <1>10. AddsBranches(ms, d, r, mid, branches, new)
    BY <1>5, <1>6, <1>9 DEF AddsBranches, names
  <1> QED BY <1>1, <1>10

LEMMA ListedInRepository ==
    ASSUME NEW ms, NEW d, NEW r, NEW rep, IsRepository(ms, d, r, rep)
    PROVE  IsListed(ms, d, r, rep.branches) /\ IsWhole(rep.branches)
PROOF
  <1>1. Len(rep.branches) \in Nat /\ DOMAIN rep.branches = 1..Len(rep.branches)
    BY LenProperties DEF IsRepository
  <1>2. \A i \in DOMAIN rep.branches : rep.branches[i].name \in Names
    BY HeadsInRepository
  <1> QED BY <1>1, <1>2 DEF IsListed, IsRepository, IsWhole

(* What differs in neither checkpoints nor branches nor graph                *)
LEMMA RowsKept ==
    ASSUME NEW ms, NEW d, NEW r, IsTables(ms, d, r), NEW new, IsRows(new), SameGraph(r, new),
           new.checkpoints = r.checkpoints, new.branches = r.branches
    PROVE  MovesHeads(ms, d, r, new) /\ KeepsHeads(ms, d, r, new)
BY DEF MovesHeads, KeepsHeads, IsTables

LEMMA SnapshotsKept ==
    ASSUME NEW ms, IsRooted(ms), NEW d, IsDepth(ms, d), NEW r, IsTables(ms, d, r),
           NEW snapshots, NEW new, new = [r EXCEPT !.snapshots = snapshots]
    PROVE  IsTables(ms, d, new) /\ TablesGrow(ms, r, new)
PROOF
  <1>1. IsRows(r)
    BY DEF IsTables
  <1>2. /\ IsRows(new) /\ SameGraph(r, new)
        /\ new.checkpoints = r.checkpoints /\ new.branches = r.branches
    BY <1>1 DEF IsRows, SameGraph
  <1>3. MovesHeads(ms, d, r, new)
    BY <1>2, RowsKept
  <1> QED BY <1>3, HeadsStored

(* sync_all of a repository that was loaded from the tables r, or from what  *)
(* they were before, to mid, which holds what r does but some branches       *)
LEMMA SyncedTables ==
    ASSUME NEW ms, IsRooted(ms), NEW d, IsDepth(ms, d), NEW r, IsTables(ms, d, r),
           NEW mid, KeepsHeads(ms, d, r, mid),
           NEW rep, IsListed(ms, d, r, rep.branches), IsWhole(rep.branches)
    PROVE  IsTables(ms, d, Synced(mid, rep)) /\ TablesGrow(ms, r, Synced(mid, rep))
PROOF
  <1>1. PICK written : written = StoreBranches(mid, rep.branches)
    OBVIOUS
  <1>2. AddsBranches(ms, d, r, mid, rep.branches, written)
    BY <1>1, BranchesWritten
  <1>3. MovesHeads(ms, d, r, written)
    BY <1>2 DEF AddsBranches, MovesHeads, IsWhole
  <1>4. PICK new : new = Synced(mid, rep)
    OBVIOUS
  <1>5. new = written \/ new = [written EXCEPT !.current = CurrentName(rep)]
    BY <1>1, <1>4 DEF Synced
  <1>6. MovesHeads(ms, d, r, new)
    <2>1. CASE new = written
      BY <1>3, <2>1
    <2>2. CASE new = [written EXCEPT !.current = CurrentName(rep)]
      <3>1. /\ IsRows(new) /\ new.checkpoints = written.checkpoints /\ new.branches = written.branches
            /\ new.edges = written.edges /\ new.gens = written.gens
        BY <1>3, <2>2 DEF MovesHeads, KeepsHeads, IsRows
      <3> QED BY <1>3, <3>1 DEF MovesHeads, KeepsHeads, SameGraph
    <2> QED BY <1>5, <2>1, <2>2
  <1> QED BY <1>4, <1>6, HeadsStored

-----------------------------------------------------------------------------
(* The last checkpoint is a head of the repository: the tables, as far as    *)
(* they are written, and the repository                                      *)
CommitsTo(ms, d, r, moved, id, k) ==
    LET new == Persisted(r, moved, id, ms[id].parents, k)
    IN  /\ IsTables(ms, d, new) /\ TablesGrow(ms, r, new)
        /\ k >= Statements(ms[id].parents) =>
              IsHead(ms, d, new, id) /\ IsRepository(ms, d, new, Recorded(moved, id))

LEMMA RepositoryMoves ==
    ASSUME NEW ms, IsRooted(ms), NEW d, IsDepth(ms, d), NEW r, IsTables(ms, d, r),
           NEW rep, IsRepository(ms, d, r, rep), rep.current \in DOMAIN rep.branches,
           NEW id \in DOMAIN ms, id # Root,
           \A k \in DOMAIN ms[id].parents : \E i \in DOMAIN rep.branches :
              rep.branches[i].head = ms[id].parents[k],
           NEW k \in Nat
    PROVE  CommitsTo(ms, d, r, HeadMoved(rep, id, ms[id].parents), id, k)
PROOF
  <1>1. PICK ps : ps = ms[id].parents
    OBVIOUS
  <1>2. PICK moved : moved = HeadMoved(rep, id, ps)
    OBVIOUS
  <1>3. PICK dag : dag = DagMoved(rep.dag, id, ps)
    OBVIOUS
  <1>4. IsDag(ms, d, rep.dag) /\ IsClosed(ms, rep.checkpoints) /\ rep.checkpoints \subseteq r.checkpoints
    BY DEF IsRepository, IsDag
  <1>5. \A i \in DOMAIN ps : IsHead(ms, d, r, ps[i]) /\ Settles(ms, d, rep.dag, ps[i])
    BY <1>1 DEF IsRepository
  <1>6. MovesDag(ms, d, rep.dag, id, dag)
    BY <1>1, <1>3, <1>4, <1>5, DagMoves
  <1>7. moved = [rep EXCEPT !.dag = dag, !.branches[rep.current].head = id]
    BY <1>2, <1>3 DEF HeadMoved, DagMoved
  <1>8. /\ moved = [branches |-> moved.branches, current |-> moved.current, notes |-> moved.notes,
                    checkpoints |-> moved.checkpoints, dag |-> moved.dag]
        /\ moved.branches = [rep.branches EXCEPT ![rep.current].head = id]
        /\ moved.current = rep.current /\ moved.checkpoints = rep.checkpoints /\ moved.dag = dag
    <2>1. rep = [branches |-> rep.branches, current |-> rep.current, checkpoints |-> rep.checkpoints,
                 notes |-> rep.notes, dag |-> rep.dag]
      BY DEF IsRepository
    <2> QED BY <1>7, <2>1
  <1>9. IsMoved(rep.checkpoints, rep.branches, moved.branches, rep.current, id)
    <2>1. rep.branches \in Seq([name : Names, head : rep.checkpoints])
      BY DEF IsRepository
    <2>2. PICK branches : branches = [rep.branches EXCEPT ![rep.current].head = id]
      OBVIOUS
    <2>3. IsMoved(rep.checkpoints, rep.branches, branches, rep.current, id)
      BY <2>1, <2>2, HeadIsSet
    <2> QED BY <1>8, <2>2, <2>3
  <1>10. PICK new : new = Persisted(r, moved, id, ps, k)
    OBVIOUS
  <1>11. WritesCheckpoint(ms, d, r, id, k, new)
    <2>1. moved.dag.gens[id] = d[id]
      BY <1>6, <1>8 DEF MovesDag
    <2> QED BY <1>1, <1>5, <1>10, <2>1, PersistedTables
  <1>12. ASSUME k >= Statements(ps) 
        PROVE  IsHead(ms, d, new, id) /\ IsRepository(ms, d, new, Recorded(moved, id))
    <2>1. PICK rec : rec = Recorded(moved, id)
      OBVIOUS
    <2>2. /\ rec = [branches |-> rec.branches, current |-> rec.current, checkpoints |-> rec.checkpoints,
                    notes |-> rec.notes, dag |-> rec.dag]
          /\ rec.branches = moved.branches /\ rec.checkpoints = rep.checkpoints \cup {id} /\ rec.dag = dag
      BY <1>8, <2>1 DEF Recorded
    <2>3. IsTables(ms, d, new) /\ TablesGrow(ms, r, new) /\ IsHead(ms, d, new, id)
      BY <1>1, <1>11, <1>12 DEF WritesCheckpoint
    <2>4. IsGraph(ms, d, r) /\ IsGraph(ms, d, new)
      BY <2>3 DEF IsTables
    <2>5. rec.branches \in Seq([name : Names, head : rec.checkpoints]) /\ DOMAIN rec.branches # {}
          /\ DOMAIN rec.branches = DOMAIN rep.branches
      BY <1>9, <2>2 DEF IsMoved
    <2>7. IsClosed(ms, rec.checkpoints) /\ rec.checkpoints \subseteq new.checkpoints
      <3>1. \A j \in DOMAIN ms[id].parents : ms[id].parents[j] \in rep.checkpoints
        BY HeadsInRepository
      <3>2. id \in new.checkpoints /\ r.checkpoints \subseteq new.checkpoints
        BY <2>3 DEF IsHead, TablesGrow
      <3> QED BY <1>4, <2>2, <3>1, <3>2 DEF IsClosed
    <2>8. IsDag(ms, d, dag) /\ Settles(ms, d, dag, id) /\ GraphGrows(ms, rep.dag, dag)
      BY <1>6 DEF MovesDag
    <2>9. ASSUME NEW i \in DOMAIN rec.branches
          PROVE  IsHead(ms, d, new, rec.branches[i].head) /\ Settles(ms, d, dag, rec.branches[i].head)
      <3>1. i \in DOMAIN rep.branches /\ (rec.branches[i].head = id \/ rec.branches[i].head = rep.branches[i].head)
        BY <1>9, <2>2, <2>5 DEF IsMoved
      <3>2. IsHead(ms, d, r, rep.branches[i].head) /\ Settles(ms, d, rep.dag, rep.branches[i].head)
        BY <3>1 DEF IsRepository
      <3>3. IsHead(ms, d, new, rep.branches[i].head)
        BY <2>3, <2>4, <3>2, HeadOutlives
      <3>4. Settles(ms, d, dag, rep.branches[i].head)
        BY <1>4, <2>8, <3>2, CompleteGrows DEF IsDag
      <3> QED BY <2>3, <2>8, <3>1, <3>3, <3>4
    <2>10. IsRepository(ms, d, new, rec)
      BY <2>2, <2>5, <2>7, <2>8, <2>9 DEF IsRepository, IsDag
    <2> QED BY <2>1, <2>3, <2>10
  <1>13. /\ IsTables(ms, d, new) /\ TablesGrow(ms, r, new)
         /\ k >= Statements(ps) =>
              IsHead(ms, d, new, id) /\ IsRepository(ms, d, new, Recorded(moved, id))
    BY <1>11, <1>12 DEF WritesCheckpoint
  <1>14. CommitsTo(ms, d, r, moved, id, k)
    BY <1>1, <1>10, <1>13 DEF CommitsTo
  <1> QED BY <1>1, <1>2, <1>14

-----------------------------------------------------------------------------
(* Loading *)

LEMMA HasOrder ==
    ASSUME NEW S, IsFiniteSet(S)
    PROVE  Orders(S) # {} /\ Cardinality(S) \in Nat
PROOF
  <1>1. PICK n \in Nat : ExistsBijection(1..n, S)
    BY FS_NatBijection
  <1>2. Cardinality(S) = n
    BY <1>1, FS_CountingElements
  <1>3. PICK o \in Bijection(1..n, S) : TRUE
    BY <1>1 DEF ExistsBijection
  <1>4. o \in [1..n -> S] /\ \A x \in S : \E i \in 1..n : o[i] = x
    BY <1>3 DEF Bijection, Injection, Surjection
  <1>5. o \in Orders(S)
    BY <1>2, <1>4 DEF Orders
  <1> QED BY <1>2, <1>5

(* A graph that knows all about every head of the tables                     *)
KnowsHeads(ms, d, r, dag) ==
    /\ IsDag(ms, d, dag)
    /\ \A h : IsHead(ms, d, r, h) => Settles(ms, d, dag, h)

(* From the graph tables                                                     *)
LEMMA GraphLoads ==
    ASSUME NEW ms, IsRooted(ms), NEW d, IsDepth(ms, d), NEW r, IsGraph(ms, d, r),
           NEW o \in Orders(Ends(r.edges))
    PROVE  KnowsHeads(ms, d, r, LoadDag(r.edges, r.gens, o))
PROOF
  <1> DEFINE D == DOMAIN ms
  <1>1. PICK E \in SUBSET (D \X D) : E = r.edges
    BY DEF IsGraph, IsLineage
  <1>2. PICK M \in SUBSET D : M = Nodes(r)
    BY DEF IsGraph
  <1>3. PICK gens \in [M -> Nat] : gens = r.gens
    BY <1>2 DEF IsGraph
  <1>4. \A p, c : <<p, c>> \in E => d[p] < d[c]
    <2> SUFFICES ASSUME NEW p, NEW c, <<p, c>> \in E PROVE d[p] < d[c]
      OBVIOUS
    <2>1. c \in D /\ \E k \in DOMAIN ms[c].parents : ms[c].parents[k] = p
      BY <1>1 DEF IsGraph, IsLineage
    <2> QED BY <2>1 DEF IsDepth
  <1>5. \A n \in M : gens[n] <= d[n]
    BY <1>2, <1>3 DEF IsGraph, Below, Gen, IsDepth
  <1>6. \A n \in D : d[n] \in Nat
    BY DEF IsDepth
  <1>7. IsFiniteSet(Ends(E)) /\ Ends(E) \subseteq D
    <2>1. D = 1..Len(ms) /\ Len(ms) \in Nat
      BY RootedIds
    <2>2. IsFiniteSet(D)
      BY <2>1, FS_Interval
    <2>3. Ends(E) \subseteq D
      BY DEF Ends
    <2> QED BY <2>2, <2>3, FS_Subset
  <1>8. PICK N \in Nat : N = Cardinality(Ends(E))
    BY <1>7, FS_CardinalityType
  <1>9. PICK order \in [1..N -> Ends(E)] : order = o
    BY <1>1, <1>8 DEF Orders
  <1>10. \A n \in Ends(E) : \E i \in 1..N : order[i] = n
    BY <1>1, <1>8, <1>9 DEF Orders
  <1>11. PICK g : g = LoadDag(E, gens, order)
    OBVIOUS
  <1>12. d \in [D -> Nat]
    BY DEF IsDepth
  <1>13. g \in Graphs(D) /\ Below(g, d) /\ IsLoaded(E, gens, g)
    <2> HIDE DEF D
    <2>1. IsToLoad(D, d, E, M, gens, N, order)
      BY <1>4, <1>5, <1>10, <1>12 DEF IsToLoad
    <2> QED BY <1>11, <2>1, DagLoaded
  <1>14. /\ g = [edges |-> g.edges, gens |-> g.gens] /\ Nodes(g) \in SUBSET D
         /\ g.gens \in [Nodes(g) -> Nat] /\ \A n : Gen(g, n) \in Nat
    BY <1>13, GraphParts
  <1>15. g.edges = r.edges /\ Nodes(g) = Ends(r.edges)
         /\ \A n \in Nodes(r) \cap Nodes(g) : Gen(g, n) = Gen(r, n)
    <2>1. \A n \in Nodes(r) : Gen(r, n) = r.gens[n]
      BY DEF Gen
    <2>2. DOMAIN gens = Nodes(r)
      BY <1>2
    <2> QED BY <1>1, <1>3, <1>13, <2>1, <2>2 DEF IsLoaded
  <1>16. IsGraph(ms, d, g)
    BY <1>13, <1>14, <1>15 DEF IsGraph
  <1>17. IsDag(ms, d, g)
    BY <1>14, <1>15, <1>16 DEF IsDag
  <1>18. ASSUME NEW h, IsHead(ms, d, r, h) PROVE Settles(ms, d, g, h)
    <2>1. PICK S \in SUBSET Complete(ms, d, r) : IsClosed(ms, S) /\ h \in S
      BY <1>18 DEF IsHead, Settles
    <2>2. ASSUME NEW c \in Complete(ms, d, r) PROVE c \in Complete(ms, d, g)
      <3>1. /\ c \in D /\ Gen(r, c) = d[c] /\ d[c] \in Nat
            /\ \A k \in DOMAIN ms[c].parents : <<ms[c].parents[k], c>> \in r.edges
        BY <1>6 DEF Complete
      <3>2. \A k \in DOMAIN ms[c].parents : ms[c].parents[k] \in Nodes(g) /\ c \in Nodes(g)
        <4> SUFFICES ASSUME NEW k \in DOMAIN ms[c].parents
                     PROVE  ms[c].parents[k] \in Nodes(g) /\ c \in Nodes(g)
          OBVIOUS
        <4>1. PICK e \in r.edges : e = <<ms[c].parents[k], c>>
          BY <3>1
        <4>2. e[1] = ms[c].parents[k] /\ e[2] = c
          BY <4>1
        <4> QED BY <1>15, <4>2 DEF Ends
      <3>3. Gen(g, c) = d[c]
        <4>1. Gen(g, c) <= d[c] /\ Gen(g, c) \in Nat
          BY <1>13, <1>14, <3>1, <1>12 DEF Below
        <4>2. CASE c \in Nodes(g) /\ c \in Nodes(r)
          BY <1>15, <3>1, <4>2
        <4>3. CASE c \in Nodes(g) /\ c \notin Nodes(r)
          <5>1. Gen(r, c) = 0
            BY <4>3 DEF Gen
          <5> QED BY <3>1, <4>1, <5>1
        <4>4. CASE c \notin Nodes(g)
          <5>1. c = Root
            <6>1. DOMAIN ms[c].parents = {}
              BY <3>2, <4>4
            <6> QED BY <3>1, <6>1, RootedIds
          <5>2. d[c] = 0
            BY <5>1 DEF IsDepth
          <5> QED BY <4>1, <5>2
        <4> QED BY <4>2, <4>3, <4>4
      <3> QED BY <1>15, <3>1, <3>2, <3>3 DEF Complete
    <2> QED BY <2>1, <2>2 DEF Settles
  <1>19. KnowsHeads(ms, d, r, g)
    BY <1>17, <1>18 DEF KnowsHeads
  <1> QED BY <1>1, <1>3, <1>9, <1>11, <1>19

(* From the checkpoints, when the root is the only head                      *)
LEMMA GraphBuilds ==
    ASSUME NEW ms, IsRooted(ms), NEW d, IsDepth(ms, d), NEW r, IsClosed(ms, r.checkpoints),
           Root \notin Nodes(r), NEW o \in Orders(r.checkpoints)
    PROVE  KnowsHeads(ms, d, r, BuildDag([n \in r.checkpoints |-> ms[n].parents], o))
PROOF
  <1> DEFINE D == DOMAIN ms
  <1>1. PICK S \in SUBSET D : S = r.checkpoints
    BY DEF IsClosed
  <1>2. PICK parents : parents = [n \in S |-> ms[n].parents]
    OBVIOUS
  <1>3. /\ \A n \in S : parents[n] = ms[n].parents /\ parents[n] \in Seq(D)
        /\ parents \in [S -> Seq(D)]
    <2>1. ASSUME NEW n \in S PROVE ms[n].parents \in Seq(D)
      <3>1. PICK ps \in Seq(Nat) : ps = ms[n].parents
        BY RootedIds
      <3>2. \A k \in 1..Len(ps) : ps[k] \in D
        BY <3>1, RootedIds
      <3>3. Len(ps) \in Nat /\ ps = [k \in 1..Len(ps) |-> ps[k]]
        OBVIOUS
      <3>4. ps \in [1..Len(ps) -> D]
        <4> HIDE DEF D
        <4> QED BY <3>2, <3>3
      <3> HIDE DEF D
      <3> QED BY <3>1, <3>3, <3>4, FunctionIsSeq
    <2> HIDE DEF D
    <2> QED BY <1>2, <2>1
  <1>4. \A c \in S : \A k \in DOMAIN parents[c] : d[parents[c][k]] < d[c]
    BY <1>3 DEF IsDepth
  <1>5. d \in [D -> Nat]
    BY DEF IsDepth
  <1>6. IsFiniteSet(S)
    <2>1. D = 1..Len(ms) /\ Len(ms) \in Nat
      BY RootedIds
    <2>2. IsFiniteSet(D)
      BY <2>1, FS_Interval
    <2> HIDE DEF D
    <2> QED BY <2>2, FS_Subset
  <1>7. PICK N \in Nat : N = Cardinality(S)
    BY <1>6, FS_CardinalityType
  <1>8. PICK order \in [1..N -> S] : order = o
    BY <1>1, <1>7 DEF Orders
  <1>9. \A n \in S : \E i \in 1..N : order[i] = n
    BY <1>1, <1>7, <1>8 DEF Orders
  <1>10. PICK g : g = BuildDag(parents, order)
    OBVIOUS
  <1>11. g \in Graphs(D) /\ Below(g, d) /\ IsBuilt(S, parents, g)
    <2> HIDE DEF D
    <2>1. IsToBuild(D, d, S, parents, N, order)
      BY <1>3, <1>4, <1>5, <1>9 DEF IsToBuild
    <2> QED BY <1>10, <2>1, DagBuilt
  <1>12. /\ g = [edges |-> g.edges, gens |-> g.gens] /\ g.edges \in SUBSET (D \X D)
         /\ g.gens \in [Nodes(g) -> Nat] /\ \A n : Gen(g, n) \in Nat
    BY <1>11, GraphParts
  <1>13. /\ \A p, c : <<p, c>> \in g.edges <=> c \in S /\ \E k \in DOMAIN ms[c].parents : ms[c].parents[k] = p
         /\ Nodes(g) = S
    <2>1. \A c \in S : \A k \in DOMAIN parents[c] : parents[c][k] \in S
      BY <1>1, <1>3 DEF IsClosed
    <2>2. \A p, c : <<p, c>> \in g.edges <=> c \in S /\ \E k \in DOMAIN ms[c].parents : ms[c].parents[k] = p
      <3>1. \A p, c : <<p, c>> \in g.edges <=>
                c \in S /\ \E k \in DOMAIN parents[c] : parents[c][k] = p
        BY <1>11 DEF IsBuilt
      <3>2. \A c \in S : parents[c] = ms[c].parents
        BY <1>3
      <3> SUFFICES ASSUME NEW p, NEW c
                   PROVE  <<p, c>> \in g.edges <=>
                              c \in S /\ \E k \in DOMAIN ms[c].parents : ms[c].parents[k] = p
        OBVIOUS
      <3>3. CASE c \in S
        <4>1. PICK ps : ps = parents[c] /\ ps = ms[c].parents
          BY <3>2, <3>3
        <4>2. <<p, c>> \in g.edges <=> \E k \in DOMAIN ps : ps[k] = p
          <5>1. <<p, c>> \in g.edges <=> c \in S /\ \E k \in DOMAIN parents[c] : parents[c][k] = p
            BY <3>1
          <5> QED BY <3>3, <4>1, <5>1
        <4> QED BY <3>3, <4>1, <4>2
      <3>4. CASE c \notin S
        BY <3>1, <3>4
      <3> QED BY <3>3, <3>4
    <2>3. \A n : n \in Nodes(g) <=> n \in S
      <3>1. \A n : n \in Nodes(g) <=>
                n \in S \/ \E c \in S : \E k \in DOMAIN parents[c] : parents[c][k] = n
        BY <1>11 DEF IsBuilt
      <3> QED BY <2>1, <3>1
    <2> QED BY <2>2, <2>3
  <1>14. IsLineage(ms, g.edges)
    BY <1>12, <1>13 DEF IsLineage
  <1>15. S \subseteq Visited(g.edges, Root)
    <2> DEFINE T == S \ Visited(g.edges, Root)
    <2> SUFFICES ASSUME T # {} PROVE FALSE
      OBVIOUS
    <2>1. T \in SUBSET Nat
      BY RootedIds
    <2>2. PICK c \in T : \A y \in T : c <= y
      BY <2>1, Least
    <2>3. c # Root /\ c \in D
      BY VisitedStart
    <2>4. PICK k \in DOMAIN ms[c].parents : TRUE
      BY <2>3, RootedIds
    <2>5. PICK p : p = ms[c].parents[k]
      OBVIOUS
    <2>6. p \in S /\ p < c /\ p \in Nat /\ c \in Nat
      BY <1>1, <2>3, <2>5, RootedIds DEF IsClosed
    <2>7. p \in Visited(g.edges, Root)
      BY <2>2, <2>6
    <2>8. <<p, c>> \in g.edges
      BY <1>13, <2>5
    <2>9. c \in Visited(g.edges, Root)
      BY <2>7, <2>8, VisitedStep
    <2> QED BY <2>9
  <1>16. Ends(g.edges) \subseteq S
    <2> SUFFICES ASSUME NEW e \in g.edges PROVE e[1] \in S /\ e[2] \in S
      BY DEF Ends
    <2>1. e = <<e[1], e[2]>>
      BY <1>12
    <2>2. PICK p, c : p = e[1] /\ c = e[2]
      OBVIOUS
    <2>3. c \in S /\ \E k \in DOMAIN ms[c].parents : ms[c].parents[k] = p
      BY <1>13, <2>1, <2>2
    <2> QED BY <1>1, <2>2, <2>3 DEF IsClosed
  <1>17. IsDag(ms, d, g)
    <2>1. IsGraph(ms, d, g)
      BY <1>11, <1>12, <1>13, <1>14, <1>15, <1>16 DEF IsGraph
    <2> QED BY <1>12, <1>13, <1>16, <2>1 DEF IsDag
  <1>18. ASSUME NEW h, IsHead(ms, d, r, h) PROVE Settles(ms, d, g, h)
    <2>1. h = Root
      BY <1>18 DEF IsHead
    <2>2. DOMAIN ms[Root].parents = {} /\ Root \in D
      <3>1. \A k \in DOMAIN ms[Root].parents : ms[Root].parents[k] \in 1..(Root - 1)
        BY DEF IsRooted, IsHistory
      <3> QED BY <3>1 DEF Root, IsRooted
    <2>3. Gen(g, Root) = d[Root]
      BY <1>11, <1>12, <2>2 DEF Below, IsDepth
    <2>4. {Root} \in SUBSET Complete(ms, d, g) /\ IsClosed(ms, {Root})
      BY <2>2, <2>3 DEF Complete, IsClosed
    <2> QED BY <2>1, <2>4 DEF Settles
  <1>19. KnowsHeads(ms, d, r, g)
    BY <1>17, <1>18 DEF KnowsHeads
  <1> QED BY <1>1, <1>2, <1>8, <1>10, <1>19

(* What load makes of tables is a repository of theirs.                      *)
LEMMA LoadedIsRepository ==
    ASSUME NEW ms, IsRooted(ms), NEW d, IsDepth(ms, d), NEW r, IsTables(ms, d, r),
           NEW dag \in LoadedDags(r, ms)
    PROVE  IsRepository(ms, d, r, Loaded(r, dag))
PROOF
  <1> DEFINE list == SortedBranches(r)
             linked == {e[1] : e \in r.edges} \cup {e[2] : e \in r.edges}
             orders == IF linked \subseteq DOMAIN r.gens THEN {CHOOSE o \in Orders(linked) : TRUE}
                       ELSE Orders(linked)
  <1>1. /\ IsGraph(ms, d, r) /\ IsClosed(ms, r.checkpoints)
        /\ DOMAIN r.branches \subseteq Names /\ IsFiniteSet(DOMAIN r.branches) /\ DOMAIN r.branches # {}
        /\ \A n \in DOMAIN r.branches : IsHead(ms, d, r, r.branches[n]) /\ r.branches[n] \in r.checkpoints
    BY DEF IsTables, IsHead
  <1>2. /\ list \in Seq([name : Names, head : r.checkpoints])
        /\ \A i \in DOMAIN list : /\ list[i].name \in DOMAIN r.branches
                                  /\ r.branches[list[i].name] = list[i].head
        /\ \A n \in DOMAIN r.branches : \E i \in DOMAIN list : list[i].name = n
    BY <1>1, BranchesListed
  <1>3. linked = Ends(r.edges)
    BY DEF Ends
  <1> HIDE DEF list, linked
  <1>4. IsFiniteSet(linked)
    <2>1. DOMAIN ms = 1..Len(ms) /\ Len(ms) \in Nat
      BY RootedIds
    <2>2. IsFiniteSet(DOMAIN ms)
      BY <2>1, FS_Interval
    <2>3. linked \subseteq DOMAIN ms
      BY <1>1, <1>3 DEF IsGraph, IsLineage, Ends
    <2> QED BY <2>2, <2>3, FS_Subset
  <1>5. orders \subseteq Orders(linked)
    <2>1. Orders(linked) # {}
      BY <1>4, HasOrder
    <2> QED BY <2>1
  <1> HIDE DEF orders
  <1>6. DOMAIN list # {} /\ list # <<>> /\ 1 \in DOMAIN list
    <2>1. Len(list) \in Nat /\ DOMAIN list = 1..Len(list)
      BY <1>2, LenProperties
    <2>2. DOMAIN list # {}
      BY <1>1, <1>2
    <2>3. Len(list) # 0
      BY <2>1, <2>2
    <2>4. list # <<>>
      BY <2>2
    <2> QED BY <2>1, <2>2, <2>3, <2>4
  <1>7. \A i \in DOMAIN list : IsHead(ms, d, r, list[i].head)
    BY <1>1, <1>2
  <1>8. dag \in (IF list # <<>> /\ list[1].head \in DOMAIN r.gens
                 THEN {LoadDag(r.edges, r.gens, o) : o \in orders}
                 ELSE {BuildDag([n \in r.checkpoints |-> ms[n].parents], o) : o \in Orders(r.checkpoints)})
    BY DEF LoadedDags, list, orders, linked
  <1>9. KnowsHeads(ms, d, r, dag)
    <2>1. CASE list[1].head \in DOMAIN r.gens
      <3>1. PICK o \in Orders(Ends(r.edges)) : dag = LoadDag(r.edges, r.gens, o)
        BY <1>3, <1>5, <1>6, <1>8, <2>1
      <3> QED BY <1>1, <3>1, GraphLoads
    <2>2. CASE list[1].head \notin DOMAIN r.gens
      <3>1. PICK o \in Orders(r.checkpoints) : dag = BuildDag([n \in r.checkpoints |-> ms[n].parents], o)
        BY <1>8, <2>2
      <3>2. Root \notin Nodes(r)
        <4>1. PICK h : h = list[1].head
          OBVIOUS
        <4>2. IsHead(ms, d, r, h) /\ Settles(ms, d, r, h)
          BY <1>6, <1>7, <4>1 DEF IsHead
        <4>3. h = Root \/ h \in Nodes(r)
          BY <4>2, SettledNode
        <4> QED BY <2>2, <4>1, <4>3 DEF Nodes
      <3> QED BY <1>1, <3>1, <3>2, GraphBuilds
    <2> QED BY <2>1, <2>2
  <1>10. PICK rep : rep = Loaded(r, dag)
    OBVIOUS
  <1>11. /\ rep = [branches |-> rep.branches, current |-> rep.current, checkpoints |-> rep.checkpoints,
                   notes |-> rep.notes, dag |-> rep.dag]
         /\ rep.branches = list /\ rep.checkpoints = r.checkpoints /\ rep.dag = dag
    BY <1>10 DEF Loaded, list
  <1>13. \A i \in DOMAIN rep.branches : /\ IsHead(ms, d, r, rep.branches[i].head)
                                        /\ Settles(ms, d, rep.dag, rep.branches[i].head)
    BY <1>7, <1>9, <1>11 DEF KnowsHeads
  <1>14. IsRepository(ms, d, r, rep)
    BY <1>1, <1>2, <1>6, <1>9, <1>11, <1>13 DEF IsRepository, KnowsHeads, IsDag
  <1> QED BY <1>10, <1>14

LEMMA OpenedTables ==
    ASSUME NEW ms, NEW d, NEW r, IsTables(ms, d, r)
    PROVE  Opened(r) = r
PROOF
  <1>1. r.checkpoints # {}
    BY DEF IsTables, IsHead
  <1> QED BY <1>1 DEF Opened

-----------------------------------------------------------------------------
(* Steps *)

SharedBy(d) ==
    /\ IsRooted(made) /\ staged \in Snaps
    /\ IsDepth(made, d)
    /\ IsTables(made, d, rows)
    /\ IsRepository(made, d, rows, repo)
    /\ \A rep \in request : IsRepository(made, d, rows, rep)

(* A step that writes tables, and leaves the repositories that it keeps      *)
LEMMA OthersOutlive ==
    ASSUME NEW d, SharedBy(d), IsRooted(made'), NEW e, IsDepth(made', e), Extended(made, d, made', e),
           IsTables(made', e, rows'), TablesGrow(made', rows, rows'),
           NEW rep, IsRepository(made, d, rows, rep)
    PROVE  IsRepository(made', e, rows', rep)
PROOF
  <1>1. IsTables(made, d, rows) /\ IsDepth(made, d)
    BY DEF SharedBy
  <1>2. IsRepository(made', e, rows, rep) /\ IsTables(made', e, rows)
    BY <1>1, RepositoryStays, TablesStay
  <1>3. IsGraph(made', e, rows) /\ IsGraph(made', e, rows')
    BY <1>2 DEF IsTables
  <1> QED BY <1>2, <1>3, RepositoryOutlives

(* From one step to the next: what was made has a depth again.               *)
Deepens(d, e) ==
    /\ IsRooted(made') /\ IsDepth(made', e) /\ Extended(made, d, made', e)

LEMMA NothingMade ==
    ASSUME NEW d, SharedBy(d), made' = made
    PROVE  Deepens(d, d)
BY DEF SharedBy, Deepens, Extended

(* A step that writes tables of which nothing is lost, and keeps or loads    *)
(* its repositories                                                          *)
LEMMA StepKeeps ==
    ASSUME NEW d, SharedBy(d), NEW e, Deepens(d, e), staged' \in Snaps,
           IsTables(made', e, rows'), TablesGrow(made', rows, rows'),
           repo' = repo \/ IsRepository(made', e, rows', repo'),
           \A rep \in request' : rep \in request \/ IsRepository(made', e, rows', rep)
    PROVE  SharedInv'
PROOF
  <1>1. IsRooted(made') /\ IsDepth(made', e) /\ Extended(made, d, made', e)
    BY DEF Deepens
  <1>2. IsRepository(made, d, rows, repo) /\ \A rep \in request : IsRepository(made, d, rows, rep)
    BY DEF SharedBy
  <1>3. IsRepository(made', e, rows', repo')
    <2>1. CASE repo' = repo
      <3>1. IsRepository(made', e, rows', repo)
        BY <1>1, <1>2, OthersOutlive
      <3> QED BY <2>1, <3>1
    <2> QED BY <2>1
  <1>4. ASSUME NEW rep \in request' PROVE IsRepository(made', e, rows', rep)
    <2>1. CASE rep \in request
      BY <1>1, <1>2, <2>1, OthersOutlive
    <2> QED BY <2>1
  <1> QED BY <1>1, <1>3, <1>4 DEF SharedInv

(* A process that opens tables begins with a repository of them.             *)
LEMMA ReopenShares ==
    ASSUME NEW e, IsRooted(made'), IsDepth(made', e), NEW r, IsTables(made', e, r),
           staged \in Snaps, Reopen(r)
    PROVE  SharedInv'
PROOF
  <1>1. Opened(r) = r
    BY OpenedTables
  <1>2. /\ rows' = r /\ request' = {} /\ staged' = staged
        /\ \E dag \in LoadedDags(r, made') : repo' = Loaded(r, dag)
    BY <1>1 DEF Reopen
  <1>3. IsRepository(made', e, r, repo')
    BY <1>2, LoadedIsRepository
  <1> QED BY <1>2, <1>3 DEF SharedInv

LEMMA NotesKept ==
    ASSUME NEW ms, NEW d, NEW r, NEW rep, IsRepository(ms, d, r, rep), NEW id, NEW key
    PROVE  IsRepository(ms, d, r, Noted(rep, id, key)) /\ Noted(rep, id, key).branches = rep.branches
PROOF
  <1>1. PICK new : new = Noted(rep, id, key)
    OBVIOUS
  <1>2. rep = [branches |-> rep.branches, current |-> rep.current, checkpoints |-> rep.checkpoints,
               notes |-> rep.notes, dag |-> rep.dag]
    BY DEF IsRepository
  <1>3. /\ new = [branches |-> new.branches, current |-> new.current, checkpoints |-> new.checkpoints,
                  notes |-> new.notes, dag |-> new.dag]
        /\ new.branches = rep.branches /\ new.checkpoints = rep.checkpoints /\ new.dag = rep.dag
    BY <1>1, <1>2 DEF Noted
  <1>4. IsRepository(ms, d, r, new)
    BY <1>3 DEF IsRepository
  <1> QED BY <1>1, <1>3, <1>4

-----------------------------------------------------------------------------
(* A checkpoint that a repository makes: below its head, or below its head   *)
(* and another one                                                           *)
IsBelowHeads(rep, cp) ==
    /\ rep.current \in DOMAIN rep.branches
    /\ \E snaps \in Seq(Snaps), j \in DOMAIN rep.branches :
          \/ cp = [parents |-> <<HeadOf(rep)>>, snaps |-> snaps]
          \/ cp = [parents |-> <<HeadOf(rep), rep.branches[j].head>>, snaps |-> snaps]

MadeBelow(d, rep, cp, e) ==
    /\ Deepens(d, e) /\ IsTables(made', e, rows)
    /\ \A k \in Nat : CommitsTo(made', e, rows, HeadMoved(rep, IdOf(cp), cp.parents), IdOf(cp), k)
    /\ made'[IdOf(cp)] = cp

LEMMA BelowHeads ==
    ASSUME NEW d, SharedBy(d), NEW rep, IsRepository(made, d, rows, rep), NEW cp, IsBelowHeads(rep, cp),
           Make(cp)
    PROVE  \E e : MadeBelow(d, rep, cp, e)
PROOF
  <1>1. PICK snaps \in Seq(Snaps), j \in DOMAIN rep.branches :
           \/ cp = [parents |-> <<HeadOf(rep)>>, snaps |-> snaps]
           \/ cp = [parents |-> <<HeadOf(rep), rep.branches[j].head>>, snaps |-> snaps]
    BY DEF IsBelowHeads
  <1>2. PICK head, other : head = HeadOf(rep) /\ other = rep.branches[j].head
    OBVIOUS
  <1>3. PICK i \in DOMAIN rep.branches : rep.branches[i].head = head
    BY <1>2 DEF IsBelowHeads, HeadOf
  <1>4. head \in DOMAIN made /\ other \in DOMAIN made
    BY <1>2, <1>3, HeadsInRepository
  <1>5. IsRooted(made) /\ IsDepth(made, d) /\ IsTables(made, d, rows)
    BY DEF SharedBy
  <1>6. DOMAIN made \subseteq Nat
    BY <1>5, RootedIds
  <1>7. PICK ps : ps = <<head>> \/ ps = <<head, other>>
    OBVIOUS
  <1>8. /\ cp \in Checkpoints /\ Len(cp.parents) \in 1..2
        /\ \A k \in DOMAIN cp.parents : cp.parents[k] = head \/ cp.parents[k] = other
    <2>1. CASE cp = [parents |-> <<head>>, snaps |-> snaps]
      <3>1. <<head>> \in Seq(Nat)
        BY <1>4, <1>6
      <3> QED BY <2>1, <3>1 DEF Checkpoints
    <2>2. CASE cp = [parents |-> <<head, other>>, snaps |-> snaps]
      <3>1. <<head, other>> \in Seq(Nat)
        BY <1>4, <1>6
      <3>2. \A k \in 1..2 : k = 1 \/ k = 2
        OBVIOUS
      <3> QED BY <2>2, <3>1, <3>2 DEF Checkpoints
    <2> QED BY <1>1, <1>2, <2>1, <2>2
  <1>9. \A k \in DOMAIN cp.parents : cp.parents[k] \in DOMAIN made
    BY <1>4, <1>8
  <1>10. /\ IsRooted(made') /\ IdOf(cp) \in DOMAIN made' /\ made'[IdOf(cp)] = cp /\ IdOf(cp) # Root
         /\ \E e : IsDepth(made', e) /\ Extended(made, d, made', e)
    BY <1>5, <1>8, <1>9, DepthExtends
  <1>11. PICK e : IsDepth(made', e) /\ Extended(made, d, made', e)
    BY <1>10
  <1>12. IsTables(made', e, rows) /\ IsRepository(made', e, rows, rep)
    BY <1>5, <1>11, TablesStay, RepositoryStays
  <1>13. PICK id : id = IdOf(cp)
    OBVIOUS
  <1>14. ASSUME NEW k \in Nat
         PROVE  CommitsTo(made', e, rows, HeadMoved(rep, id, cp.parents), id, k)
    <2>1. \A m \in DOMAIN made'[id].parents : \E n \in DOMAIN rep.branches :
             rep.branches[n].head = made'[id].parents[m]
      BY <1>2, <1>3, <1>8, <1>10, <1>13
    <2>2. rep.current \in DOMAIN rep.branches
      BY DEF IsBelowHeads
    <2>3. id \in DOMAIN made' /\ id # Root /\ made'[id].parents = cp.parents /\ IsRooted(made')
      BY <1>10, <1>13
    <2>4. CommitsTo(made', e, rows, HeadMoved(rep, id, made'[id].parents), id, k)
      BY <1>11, <1>12, <2>1, <2>2, <2>3, RepositoryMoves
    <2> QED BY <2>3, <2>4
  <1> QED BY <1>10, <1>11, <1>12, <1>13, <1>14 DEF MadeBelow, Deepens

(* The commit or merge that ends                                             *)
Stores(e, rep, cp, new) ==
    /\ IsTables(made', e, new) /\ TablesGrow(made', rows, new)
    /\ IdOf(cp) \in new.checkpoints
    /\ IsRepository(made', e, new, Recorded(HeadMoved(rep, IdOf(cp), cp.parents), IdOf(cp)))

LEMMA AllStored ==
    ASSUME NEW d, NEW rep, NEW cp, NEW e, MadeBelow(d, rep, cp, e), Len(cp.parents) \in Nat
    PROVE  Stores(e, rep, cp, Persisted(rows, HeadMoved(rep, IdOf(cp), cp.parents), IdOf(cp), cp.parents,
                                        Statements(cp.parents)))
PROOF
  <1>1. PICK k \in Nat : k = Statements(cp.parents)
    BY DEF Statements
  <1>2. PICK id : id = IdOf(cp)
    OBVIOUS
  <1>3. CommitsTo(made', e, rows, HeadMoved(rep, id, cp.parents), id, k) /\ made'[id] = cp
    BY <1>2 DEF MadeBelow
  <1>4. k >= Statements(made'[id].parents)
    BY <1>1, <1>3
  <1>5. PICK new : new = Persisted(rows, HeadMoved(rep, id, cp.parents), id, cp.parents, k)
    OBVIOUS
  <1>6. /\ IsTables(made', e, new) /\ TablesGrow(made', rows, new) /\ IsHead(made', e, new, id)
        /\ IsRepository(made', e, new, Recorded(HeadMoved(rep, id, cp.parents), id))
    BY <1>3, <1>4, <1>5 DEF CommitsTo
  <1>7. Stores(e, rep, cp, new)
    BY <1>2, <1>6 DEF Stores, IsHead
  <1> QED BY <1>1, <1>2, <1>5, <1>7

LEMMA RemovedList ==
    ASSUME NEW T, NEW list \in Seq(T), NEW k \in DOMAIN list
    PROVE  /\ Without(list, k) \in Seq(T)
           /\ \A i \in DOMAIN Without(list, k) : \E j \in DOMAIN list : Without(list, k)[i] = list[j]
           /\ \A j \in DOMAIN list : j # k => \E i \in DOMAIN Without(list, k) : Without(list, k)[i] = list[j]
PROOF
  <1> DEFINE N == Len(list)
  <1>1. N \in Nat /\ DOMAIN list = 1..N /\ k \in 1..N /\ N - 1 \in Nat
    OBVIOUS
  <1>2. PICK new : new = Without(list, k)
    OBVIOUS
  <1>3. DOMAIN new = 1..(N - 1) /\ new = [i \in 1..(N - 1) |-> new[i]]
        /\ \A i \in 1..(N - 1) : new[i] = list[IF i < k THEN i ELSE i + 1]
    BY <1>2 DEF Without
  <1> HIDE DEF N
  <1>4. \A i \in 1..(N - 1) : (IF i < k THEN i ELSE i + 1) \in 1..N
    BY <1>1
  <1>5. \A i \in 1..(N - 1) : \E j \in 1..N : new[i] = list[j]
    BY <1>3, <1>4
  <1>6. \A i \in 1..(N - 1) : new[i] \in T
    <2>1. \A j \in 1..N : list[j] \in T
      BY <1>1, ElementOfSeq DEF N
    <2> QED BY <1>5, <2>1
  <1>7. new \in Seq(T)
    <2>1. new \in [1..(N - 1) -> T]
      BY <1>3, <1>6
    <2> QED BY <1>1, <2>1, FunctionIsSeq
  <1>8. ASSUME NEW j \in 1..N, j # k PROVE \E i \in 1..(N - 1) : new[i] = list[j]
    <2>1. CASE j < k
      <3>1. j \in 1..(N - 1) /\ new[j] = list[j]
        BY <1>1, <1>3, <2>1
      <3> QED BY <3>1
    <2>2. CASE j > k
      <3>1. j - 1 \in 1..(N - 1) /\ ~ (j - 1 < k) /\ (j - 1) + 1 = j
        BY <1>1, <2>2
      <3>2. new[j - 1] = list[j]
        BY <1>3, <3>1
      <3> QED BY <3>1, <3>2
    <2> QED BY <1>1, <1>8, <2>1, <2>2
  <1> QED BY <1>1, <1>2, <1>3, <1>5, <1>7, <1>8

(* A repository stays one when a branch is removed that is not its only one. *)
LEMMA RemovedIsRepository ==
    ASSUME NEW ms, NEW d, NEW r, NEW rep, IsRepository(ms, d, r, rep),
           NEW n \in Names, FindBranch(rep, n) # {}, \E i \in DOMAIN rep.branches : rep.branches[i].name # n
    PROVE  IsRepository(ms, d, r, BranchRemoved(rep, n))
PROOF
  <1> DEFINE T == [name : Names, head : rep.checkpoints]
  <1>1. PICK list \in Seq(T) : list = rep.branches
    BY DEF IsRepository
  <1>2. PICK k : k = CHOOSE i \in FindBranch(rep, n) : TRUE
    OBVIOUS
  <1>3. k \in DOMAIN list /\ list[k].name = n
    BY <1>1, <1>2 DEF FindBranch
  <1>4. PICK new : new = Without(list, k)
    OBVIOUS
  <1>5. /\ new \in Seq(T)
        /\ \A i \in DOMAIN new : \E j \in DOMAIN list : new[i] = list[j]
        /\ \A j \in DOMAIN list : j # k => \E i \in DOMAIN new : new[i] = list[j]
    <2> HIDE DEF T
    <2> QED BY <1>3, <1>4, RemovedList
  <1>6. \A j \in DOMAIN list : list[j].name # n => \E i \in DOMAIN new : new[i].name = list[j].name
    <2> SUFFICES ASSUME NEW j \in DOMAIN list, list[j].name # n
                 PROVE  \E i \in DOMAIN new : new[i].name = list[j].name
      OBVIOUS
    <2>1. j # k
      BY <1>3
    <2>2. PICK i \in DOMAIN new : new[i] = list[j]
      BY <1>5, <2>1
    <2> QED BY <2>2
  <1>7. DOMAIN new # {}
    BY <1>1, <1>6
  <1>8. PICK left : left = BranchRemoved(rep, n)
    OBVIOUS
  <1>9. rep = [branches |-> rep.branches, current |-> rep.current, checkpoints |-> rep.checkpoints,
               notes |-> rep.notes, dag |-> rep.dag]
    BY DEF IsRepository
  <1>10. left = [rep EXCEPT !.branches = new]
    BY <1>1, <1>2, <1>4, <1>8 DEF BranchRemoved
  <1>11. /\ left = [branches |-> left.branches, current |-> left.current, checkpoints |-> left.checkpoints,
                    notes |-> left.notes, dag |-> left.dag]
         /\ left.branches = new /\ left.checkpoints = rep.checkpoints /\ left.dag = rep.dag
    BY <1>9, <1>10
  <1>13. \A i \in DOMAIN new : IsHead(ms, d, r, new[i].head) /\ Settles(ms, d, rep.dag, new[i].head)
    BY <1>1, <1>5 DEF IsRepository
  <1>14. IsRepository(ms, d, r, left)
    BY <1>5, <1>7, <1>11, <1>13 DEF IsRepository
  <1> QED BY <1>8, <1>14

(* delete_checkpoint for nothing, from tables that lack a branch or not      *)
LEMMA NothingDeleted ==
    ASSUME NEW ms, NEW d, NEW r, IsTables(ms, d, r), NEW mid, KeepsHeads(ms, d, r, mid),
           NEW rep, IsRepository(ms, d, r, rep)
    PROVE  /\ KeepsHeads(ms, d, r, DeleteCheckpoints(mid, {}))
           /\ RemoveCheckpoints(rep, {}).branches = rep.branches
PROOF
  <1>1. PICK new : new = DeleteCheckpoints(mid, {})
    OBVIOUS
  <1>2. IsRows(mid) /\ mid.gens = r.gens
    BY DEF KeepsHeads, SameGraph
  <1>3. r.gens = [n \in DOMAIN r.gens |-> r.gens[n]]
    BY DEF IsTables, IsGraph
  <1>4. [n \in DOMAIN mid.gens \ {} |-> mid.gens[n]] = mid.gens
    BY <1>2, <1>3
  <1>5. {e \in mid.edges : e[1] \notin {} /\ e[2] \notin {}} = mid.edges /\ mid.checkpoints \ {} = mid.checkpoints
    OBVIOUS
  <1>6. PICK cps, notes, edges, gens :
           /\ cps = mid.checkpoints \ {} /\ notes = {n \in mid.notes : n.id \notin {}}
           /\ edges = {e \in mid.edges : e[1] \notin {} /\ e[2] \notin {}}
           /\ gens = [n \in DOMAIN mid.gens \ {} |-> mid.gens[n]]
    OBVIOUS
  <1>7. new = [mid EXCEPT !.checkpoints = cps, !.notes = notes, !.edges = edges, !.gens = gens]
    BY <1>1, <1>6 DEF DeleteCheckpoints
  <1>8. /\ IsRows(new) /\ new.checkpoints = mid.checkpoints /\ new.branches = mid.branches
        /\ new.edges = mid.edges /\ new.gens = mid.gens
    <2>1. cps = mid.checkpoints /\ edges = mid.edges /\ gens = mid.gens
      BY <1>4, <1>5, <1>6
    <2>2. /\ IsRows(new) /\ new.checkpoints = cps /\ new.branches = mid.branches
          /\ new.edges = edges /\ new.gens = gens
      BY <1>2, <1>7 DEF IsRows
    <2> QED BY <2>1, <2>2
  <1>9. KeepsHeads(ms, d, r, new)
    BY <1>8 DEF KeepsHeads, SameGraph
  <1>10. RemoveCheckpoints(rep, {}).branches = rep.branches
    <2>1. rep = [branches |-> rep.branches, current |-> rep.current, checkpoints |-> rep.checkpoints,
                 notes |-> rep.notes, dag |-> rep.dag]
      BY DEF IsRepository
    <2> QED BY <2>1 DEF RemoveCheckpoints
  <1> QED BY <1>1, <1>9, <1>10

(* sync_all after a collection that found nothing                            *)
LEMMA CollectedTables ==
    ASSUME NEW ms, IsRooted(ms), NEW d, IsDepth(ms, d), NEW r, IsTables(ms, d, r),
           NEW mid, KeepsHeads(ms, d, r, mid), NEW rep, IsRepository(ms, d, r, rep)
    PROVE  LET new == Synced(DeleteCheckpoints(mid, {}), RemoveCheckpoints(rep, {})) IN
           IsTables(ms, d, new) /\ TablesGrow(ms, r, new)
PROOF
  <1>1. PICK left : left = DeleteCheckpoints(mid, {})
    OBVIOUS
  <1>2. PICK kept : kept = RemoveCheckpoints(rep, {})
    OBVIOUS
  <1>3. KeepsHeads(ms, d, r, left) /\ kept.branches = rep.branches
    BY <1>1, <1>2, NothingDeleted
  <1>4. IsListed(ms, d, r, kept.branches) /\ IsWhole(kept.branches)
    BY <1>3, ListedInRepository
  <1>5. IsTables(ms, d, Synced(left, kept)) /\ TablesGrow(ms, r, Synced(left, kept))
    BY <1>3, <1>4, SyncedTables
  <1> QED BY <1>1, <1>2, <1>5

LEMMA BranchDeleted ==
    ASSUME NEW ms, NEW d, NEW r, IsTables(ms, d, r), NEW n
    PROVE  KeepsHeads(ms, d, r, DeleteBranch(r, n))
PROOF
  <1>1. PICK new : new = DeleteBranch(r, n)
    OBVIOUS
  <1>2. IsRows(r)
    BY DEF IsTables
  <1>3. /\ IsRows(new) /\ new.checkpoints = r.checkpoints /\ SameGraph(r, new)
        /\ new.branches = [m \in DOMAIN r.branches \ {n} |-> r.branches[m]]
    BY <1>1, <1>2 DEF DeleteBranch, IsRows, SameGraph
  <1>4. DOMAIN new.branches = DOMAIN r.branches \ {n} /\ \A m \in DOMAIN new.branches : new.branches[m] = r.branches[m]
    BY <1>3
  <1>5. DOMAIN new.branches \subseteq Names /\ IsFiniteSet(DOMAIN new.branches)
    <2>1. PICK D : D = DOMAIN r.branches
      OBVIOUS
    <2>2. D \subseteq Names /\ IsFiniteSet(D)
      BY <2>1 DEF IsTables
    <2>3. IsFiniteSet(D \ {n})
      BY <2>2, FS_Subset
    <2> QED BY <1>4, <2>1, <2>2, <2>3
  <1>6. KeepsHeads(ms, d, r, new)
    BY <1>3, <1>4, <1>5 DEF KeepsHeads, IsTables
  <1> QED BY <1>1, <1>6

-----------------------------------------------------------------------------
(* One lemma per request *)

LEMMA StageShares ==
    ASSUME NEW d, SharedBy(d), NEW s \in Snaps, Stage(s)
    PROVE  SharedInv'
PROOF
  <1>1. /\ made' = made /\ repo' = repo /\ request' = request /\ staged' \in Snaps
        /\ rows' = [rows EXCEPT !.snapshots = rows.snapshots \cup {s}]
    BY DEF Stage
  <1>2. IsTables(made, d, rows') /\ TablesGrow(made, rows, rows')
    BY <1>1, SnapshotsKept DEF SharedBy
  <1> QED BY <1>1, <1>2, NothingMade, StepKeeps

LEMMA CommitShares ==
    ASSUME NEW d, SharedBy(d), Commit
    PROVE  SharedInv'
PROOF
  <1> DEFINE cp == StagedCheckpoint
             id == IdOf(cp)
             recorded == Recorded(HeadMoved(repo, id, cp.parents), id)
             noted == IF staged \in rows.snapshots THEN Noted(recorded, id, "source") ELSE recorded
             new == Persisted(rows, HeadMoved(repo, id, cp.parents), id, cp.parents, Statements(cp.parents))
  <1>1. /\ CanCommit /\ Make(cp) /\ repo' = noted /\ rows' = StoreCheckpoint(new, noted.notes, id)
        /\ staged' = staged /\ request' = request
    BY DEF Commit
  <1>2. IsRepository(made, d, rows, repo) /\ staged \in Snaps
    BY DEF SharedBy
  <1>3. cp = [parents |-> <<HeadOf(repo)>>, snaps |-> <<staged>>] /\ <<staged>> \in Seq(Snaps)
    BY <1>2 DEF StagedCheckpoint
  <1>4. IsBelowHeads(repo, cp)
    <2>1. repo.current \in DOMAIN repo.branches
      BY <1>1 DEF CanCommit, HasCurrent
    <2> HIDE DEF cp
    <2> QED BY <1>3, <2>1 DEF IsBelowHeads
  <1>5. Len(cp.parents) \in Nat
    BY <1>3
  <1> HIDE DEF cp
  <1>6. PICK e : MadeBelow(d, repo, cp, e)
    BY <1>1, <1>2, <1>4, BelowHeads
  <1>7. Stores(e, repo, cp, new)
    BY <1>5, <1>6, AllStored
  <1> HIDE DEF new
  <1>8. rows' = new
    BY <1>1, <1>7 DEF Stores, StoreCheckpoint
  <1>9. IsRepository(made', e, new, noted)
    <2>1. IsRepository(made', e, new, recorded)
      BY <1>7 DEF Stores
    <2> HIDE DEF recorded
    <2>2. IsRepository(made', e, new, Noted(recorded, id, "source"))
      BY <2>1, NotesKept
    <2> QED BY <2>1, <2>2
  <1> HIDE DEF noted
  <1>10. Deepens(d, e) /\ IsTables(made', e, rows') /\ TablesGrow(made', rows, rows')
    BY <1>6, <1>7, <1>8 DEF MadeBelow, Stores
  <1>11. IsRepository(made', e, rows', repo') /\ staged' \in Snaps
    BY <1>1, <1>2, <1>8, <1>9
  <1> QED BY <1>1, <1>10, <1>11, StepKeeps

LEMMA StopShares ==
    ASSUME NEW d, SharedBy(d), NEW k \in 1..4, StopDuringCommit(k)
    PROVE  SharedInv'
PROOF
  <1> DEFINE cp == StagedCheckpoint
             id == IdOf(cp)
             new == Persisted(rows, HeadMoved(repo, id, cp.parents), id, cp.parents, k)
  <1>1. CanCommit /\ Make(cp) /\ Reopen(new)
    BY DEF StopDuringCommit
  <1>2. IsRepository(made, d, rows, repo) /\ staged \in Snaps
    BY DEF SharedBy
  <1>3. cp = [parents |-> <<HeadOf(repo)>>, snaps |-> <<staged>>] /\ <<staged>> \in Seq(Snaps)
    BY <1>2 DEF StagedCheckpoint
  <1>4. IsBelowHeads(repo, cp)
    <2>1. repo.current \in DOMAIN repo.branches
      BY <1>1 DEF CanCommit, HasCurrent
    <2> HIDE DEF cp
    <2> QED BY <1>3, <2>1 DEF IsBelowHeads
  <1> HIDE DEF cp
  <1>5. PICK e : MadeBelow(d, repo, cp, e)
    BY <1>1, <1>2, <1>4, BelowHeads
  <1>6. IsTables(made', e, new) /\ IsRooted(made') /\ IsDepth(made', e)
    <2>1. CommitsTo(made', e, rows, HeadMoved(repo, id, cp.parents), id, k) /\ made'[id] = cp
      BY <1>5 DEF MadeBelow
    <2> QED BY <1>5, <2>1 DEF CommitsTo, MadeBelow, Deepens
  <1> HIDE DEF new
  <1> QED BY <1>1, <1>2, <1>6, ReopenShares

LEMMA BranchCreateShares ==
    ASSUME NEW d, SharedBy(d), NEW n \in Names, BranchCreate(n)
    PROVE  SharedInv'
PROOF
  <1> DEFINE branch == [name |-> n, head |-> HeadOf(repo)]
             T == [name : Names, head : repo.checkpoints]
  <1>1. /\ made' = made /\ staged' = staged /\ request' = request
        /\ repo.current \in DOMAIN repo.branches
        /\ rows' = StoreBranches(rows, <<branch>>)
        /\ repo' = [repo EXCEPT !.branches = Append(repo.branches, branch)]
    BY DEF BranchCreate, HasCurrent
  <1>2. IsRooted(made) /\ IsDepth(made, d) /\ IsTables(made, d, rows) /\ IsRepository(made, d, rows, repo)
        /\ staged \in Snaps
    BY DEF SharedBy
  <1>3. /\ IsHead(made, d, rows, HeadOf(repo)) /\ Settles(made, d, repo.dag, HeadOf(repo))
        /\ HeadOf(repo) \in repo.checkpoints
    <2>1. PICK c \in DOMAIN repo.branches : c = repo.current
      BY <1>1
    <2>2. IsHead(made, d, rows, repo.branches[c].head) /\ Settles(made, d, repo.dag, repo.branches[c].head)
      BY <1>2 DEF IsRepository
    <2>3. repo.branches[c].head \in repo.checkpoints
      BY <1>2, HeadsInRepository
    <2> QED BY <2>1, <2>2, <2>3 DEF HeadOf
  <1>4. branch \in T /\ branch.name \in Names /\ branch.head = HeadOf(repo)
    BY <1>3
  <1> HIDE DEF branch
  <1>5. IsTables(made, d, rows') /\ TablesGrow(made, rows, rows')
    <2>1. PICK one : one = <<branch>>
      OBVIOUS
    <2>2. DOMAIN one = 1..1 /\ Len(one) = 1 /\ \A i \in 1..1 : one[i] = branch
      BY <2>1
    <2>3. IsListed(made, d, rows, one)
      BY <1>3, <1>4, <2>2 DEF IsListed
    <2>4. KeepsHeads(made, d, rows, rows)
      BY <1>2, RowsKept DEF IsTables, SameGraph
    <2>5. AddsBranches(made, d, rows, rows, one, rows')
      BY <1>1, <2>1, <2>3, <2>4, BranchesWritten
    <2>6. MovesHeads(made, d, rows, rows')
      BY <1>2, <2>5 DEF AddsBranches, MovesHeads, IsTables
    <2> QED BY <1>2, <2>6, HeadsStored
  <1>6. IsRepository(made, d, rows, repo')
    <2>1. PICK old \in Seq(T) : old = repo.branches
      BY <1>2 DEF IsRepository
    <2>2. PICK new : new = Append(old, branch)
      OBVIOUS
    <2>3. /\ new \in Seq(T) /\ DOMAIN new = DOMAIN old \cup {Len(old) + 1}
          /\ new[Len(old) + 1] = branch /\ \A i \in DOMAIN old : new[i] = old[i]
      <3> HIDE DEF T
      <3> QED BY <1>4, <2>2
    <2>4. repo = [branches |-> repo.branches, current |-> repo.current, checkpoints |-> repo.checkpoints,
                  notes |-> repo.notes, dag |-> repo.dag]
      BY <1>2 DEF IsRepository
    <2>5. /\ repo' = [branches |-> repo'.branches, current |-> repo'.current,
                      checkpoints |-> repo'.checkpoints, notes |-> repo'.notes, dag |-> repo'.dag]
          /\ repo'.branches = new /\ repo'.checkpoints = repo.checkpoints /\ repo'.dag = repo.dag
      BY <1>1, <2>1, <2>2, <2>4
    <2>6. \A i \in DOMAIN new : IsHead(made, d, rows, new[i].head) /\ Settles(made, d, repo.dag, new[i].head)
      <3>1. \A i \in DOMAIN old : IsHead(made, d, rows, old[i].head) /\ Settles(made, d, repo.dag, old[i].head)
        BY <1>2, <2>1 DEF IsRepository
      <3> QED BY <1>3, <1>4, <2>3, <3>1
    <2>8. DOMAIN new # {}
      BY <2>3
    <2> QED BY <1>2, <2>3, <2>5, <2>6, <2>8 DEF IsRepository
  <1>7. IsRepository(made, d, rows', repo')
    <2>1. IsGraph(made, d, rows) /\ IsGraph(made, d, rows')
      BY <1>2, <1>5 DEF IsTables
    <2> QED BY <1>2, <1>5, <1>6, <2>1, RepositoryOutlives
  <1> QED BY <1>1, <1>2, <1>5, <1>7, NothingMade, StepKeeps

LEMMA BranchSwitchShares ==
    ASSUME NEW d, SharedBy(d), NEW n \in Names, BranchSwitch(n)
    PROVE  SharedInv'
PROOF
  <1>1. /\ made' = made /\ request' = request
        /\ \E current : repo' = [repo EXCEPT !.current = current]
        /\ rows' = [rows EXCEPT !.current = n]
        /\ \/ staged' = staged
           \/ rows.branches[n] \in rows.checkpoints /\ made[rows.branches[n]].snaps # <<>>
              /\ staged' = made[rows.branches[n]].snaps[1]
    BY DEF BranchSwitch
  <1>2. IsRooted(made) /\ IsDepth(made, d) /\ IsTables(made, d, rows) /\ IsRepository(made, d, rows, repo)
        /\ staged \in Snaps
    BY DEF SharedBy
  <1>3. staged' \in Snaps
    <2>1. CASE rows.branches[n] \in rows.checkpoints /\ made[rows.branches[n]].snaps # <<>>
               /\ staged' = made[rows.branches[n]].snaps[1]
      <3>1. IsHistory(made) /\ rows.branches[n] \in DOMAIN made
        BY <1>2, <2>1 DEF IsTables, IsClosed, IsRooted
      <3> QED BY <2>1, <3>1, FirstSnap
    <2> QED BY <1>1, <1>2, <2>1
  <1>4. IsTables(made, d, rows') /\ TablesGrow(made, rows, rows')
    <2>1. IsRows(rows)
      BY <1>2 DEF IsTables
    <2>2. IsRows(rows') /\ SameGraph(rows, rows') /\ rows'.checkpoints = rows.checkpoints
          /\ rows'.branches = rows.branches
      BY <1>1, <2>1 DEF IsRows, SameGraph
    <2>3. MovesHeads(made, d, rows, rows')
      BY <1>2, <2>2, RowsKept
    <2> QED BY <1>2, <2>3, HeadsStored
  <1>5. IsRepository(made, d, rows, repo')
    <2>1. repo = [branches |-> repo.branches, current |-> repo.current, checkpoints |-> repo.checkpoints,
                  notes |-> repo.notes, dag |-> repo.dag]
      BY <1>2 DEF IsRepository
    <2>2. /\ repo' = [branches |-> repo'.branches, current |-> repo'.current,
                      checkpoints |-> repo'.checkpoints, notes |-> repo'.notes, dag |-> repo'.dag]
          /\ repo'.branches = repo.branches /\ repo'.checkpoints = repo.checkpoints /\ repo'.dag = repo.dag
      BY <1>1, <2>1
    <2> QED BY <1>2, <2>2 DEF IsRepository
  <1>6. IsRepository(made, d, rows', repo')
    <2>1. IsGraph(made, d, rows) /\ IsGraph(made, d, rows')
      BY <1>2, <1>4 DEF IsTables
    <2> QED BY <1>2, <1>4, <1>5, <2>1, RepositoryOutlives
  <1> QED BY <1>1, <1>3, <1>4, <1>6, NothingMade, StepKeeps

LEMMA TablesSame ==
    ASSUME NEW d, SharedBy(d)
    PROVE  TablesGrow(made, rows, rows)
PROOF
  <1>1. IsGraph(made, d, rows) /\ SameGraph(rows, rows) /\ IsRooted(made)
    BY DEF SharedBy, IsTables, SameGraph
  <1>2. GraphGrows(made, rows, rows)
    BY <1>1, SameIsGraph
  <1> QED BY <1>2 DEF TablesGrow

LEMMA CheckpointRollbackShares ==
    ASSUME NEW d, SharedBy(d), NEW id \in Ids, CheckpointRollback(id)
    PROVE  SharedInv'
PROOF
  <1>1. /\ made' = made /\ rows' = rows /\ repo' = repo /\ request' = request
        /\ made[id].snaps # <<>> /\ staged' = made[id].snaps[1]
    BY DEF CheckpointRollback
  <1>2. IsRooted(made) /\ IsTables(made, d, rows)
    BY DEF SharedBy
  <1>3. staged' \in Snaps
    <2>1. IsHistory(made) /\ id \in DOMAIN made
      BY <1>2, RootedIds DEF Ids, IsRooted
    <2> QED BY <1>1, <2>1, FirstSnap
  <1> QED BY <1>1, <1>2, <1>3, NothingMade, TablesSame, StepKeeps

LEMMA RestartShares ==
    ASSUME NEW d, SharedBy(d), Restart
    PROVE  SharedInv'
PROOF
  <1>1. made' = made /\ Reopen(rows)
    BY DEF Restart
  <1>2. IsRooted(made') /\ IsDepth(made', d) /\ IsTables(made', d, rows) /\ staged \in Snaps
    BY <1>1 DEF SharedBy
  <1> QED BY <1>1, <1>2, ReopenShares

(* A step of a request that ends with it: its tables                         *)
LEMMA AnswerShares ==
    ASSUME NEW d, SharedBy(d), made' = made, repo' = repo, staged' = staged, request' = {},
           IsTables(made, d, rows'), TablesGrow(made, rows, rows')
    PROVE  SharedInv'
PROOF
  <1>1. Deepens(d, d) /\ staged' \in Snaps /\ IsTables(made', d, rows') /\ TablesGrow(made', rows, rows')
    BY NothingMade DEF SharedBy
  <1> QED BY <1>1, StepKeeps

LEMMA LoadRepoShares ==
    ASSUME NEW d, SharedBy(d), LoadRepo
    PROVE  SharedInv'
PROOF
  <1>1. IsRooted(made) /\ IsDepth(made, d) /\ IsTables(made, d, rows) /\ staged \in Snaps
    BY DEF SharedBy
  <1>2. Opened(rows) = rows
    BY <1>1, OpenedTables
  <1>3. /\ made' = made /\ repo' = repo /\ staged' = staged /\ rows' = rows
        /\ \E dag \in LoadedDags(rows, made) : request' = {Loaded(rows, dag)}
    BY <1>2 DEF LoadRepo
  <1>4. \A rep \in request' : IsRepository(made, d, rows, rep)
    BY <1>1, <1>3, LoadedIsRepository
  <1> QED BY <1>1, <1>3, <1>4, NothingMade, TablesSame, StepKeeps

LEMMA MergeShares ==
    ASSUME NEW d, SharedBy(d), NEW rep \in request, NEW n \in Names, Merge(rep, n)
    PROVE  SharedInv'
PROOF
  <1> DEFINE source == HeadNamed(rep, n)
             cp == [parents |-> <<HeadOf(rep), source>>, snaps |-> made[source].snaps]
             id == IdOf(cp)
             new == Persisted(rows, HeadMoved(rep, id, cp.parents), id, cp.parents, Statements(cp.parents))
  <1>1. /\ rep.current \in DOMAIN rep.branches /\ FindBranch(rep, n) # {}
        /\ cp.snaps # <<>> /\ Make(cp) /\ staged' = cp.snaps[Len(cp.snaps)]
        /\ rows' = new /\ request' = {} /\ repo' = repo
    BY DEF Merge, HasCurrent, Answer
  <1>2. IsRooted(made) /\ IsRepository(made, d, rows, rep)
    BY DEF SharedBy
  <1>3. PICK j \in DOMAIN rep.branches : source = rep.branches[j].head
    <2>1. PICK j : j = CHOOSE i \in FindBranch(rep, n) : TRUE
      OBVIOUS
    <2>2. j \in FindBranch(rep, n)
      BY <1>1, <2>1
    <2> QED BY <2>1, <2>2 DEF HeadNamed, FindBranch
  <1>4. PICK snaps \in Seq(Snaps) : snaps = made[source].snaps
    <2>1. made[source] \in Checkpoints
      BY <1>2, <1>3, HeadsInRepository, RootedIds
    <2> QED BY <2>1 DEF Checkpoints
  <1>5. cp = [parents |-> <<HeadOf(rep), rep.branches[j].head>>, snaps |-> snaps]
        /\ Len(cp.parents) \in Nat
    BY <1>3, <1>4
  <1>6. staged' \in Snaps
    <2>1. cp.snaps = snaps
      BY <1>4
    <2>2. snaps # <<>> /\ staged' = snaps[Len(snaps)]
      BY <1>1, <2>1
    <2> HIDE DEF cp, new
    <2> QED BY <2>2
  <1> HIDE DEF cp, source
  <1>7. IsBelowHeads(rep, cp)
    BY <1>1, <1>5 DEF IsBelowHeads
  <1>8. PICK e : MadeBelow(d, rep, cp, e)
    BY <1>1, <1>2, <1>7, BelowHeads
  <1>9. Stores(e, rep, cp, new)
    BY <1>5, <1>8, AllStored
  <1> HIDE DEF new
  <1>10. Deepens(d, e) /\ IsTables(made', e, rows') /\ TablesGrow(made', rows, rows')
    BY <1>1, <1>8, <1>9 DEF MadeBelow, Stores
  <1> QED BY <1>1, <1>6, <1>10, StepKeeps

LEMMA GcShares ==
    ASSUME NEW d, SharedBy(d), NEW rep \in request, Gc(rep)
    PROVE  SharedInv'
PROOF
  <1>1. IsRooted(made) /\ IsDepth(made, d) /\ IsTables(made, d, rows) /\ IsRepository(made, d, rows, rep)
    BY DEF SharedBy
  <1>2. Garbage(rep) = {}
    BY <1>1, NoGarbage
  <1>3. /\ made' = made /\ repo' = repo /\ staged' = staged /\ request' = {}
        /\ rows' = Synced(DeleteCheckpoints(rows, {}), RemoveCheckpoints(rep, {}))
    BY <1>2 DEF Gc, Answer
  <1>4. KeepsHeads(made, d, rows, rows)
    BY <1>1, RowsKept DEF IsTables, SameGraph
  <1>5. IsTables(made, d, rows') /\ TablesGrow(made, rows, rows')
    BY <1>1, <1>3, <1>4, CollectedTables
  <1> QED BY <1>3, <1>5, AnswerShares

LEMMA GitCommitShares ==
    ASSUME NEW d, SharedBy(d), NEW rep \in request, GitCommit(rep)
    PROVE  SharedInv'
PROOF
  <1>1. IsRooted(made) /\ IsDepth(made, d) /\ IsTables(made, d, rows) /\ IsRepository(made, d, rows, rep)
    BY DEF SharedBy
  <1>2. PICK noted : noted = Noted(rep, HeadOf(rep), "git_anchor")
    OBVIOUS
  <1>3. /\ made' = made /\ repo' = repo /\ staged' = staged /\ request' = {}
        /\ rows' = Synced(rows, noted)
    BY <1>2 DEF GitCommit, Answer
  <1>4. IsRepository(made, d, rows, noted)
    BY <1>1, <1>2, NotesKept
  <1>5. IsListed(made, d, rows, noted.branches) /\ IsWhole(noted.branches)
    BY <1>4, ListedInRepository
  <1>6. KeepsHeads(made, d, rows, rows)
    BY <1>1, RowsKept DEF IsTables, SameGraph
  <1>7. IsTables(made, d, rows') /\ TablesGrow(made, rows, rows')
    BY <1>1, <1>3, <1>5, <1>6, SyncedTables
  <1> QED BY <1>3, <1>7, AnswerShares

(* clean of another branch than the only one of the copy                     *)
LEMMA CleanShares ==
    ASSUME NEW d, SharedBy(d), NEW rep \in request, NEW n \in Names, Clean(rep, n),
           \E i \in DOMAIN rep.branches : rep.branches[i].name # n
    PROVE  SharedInv'
PROOF
  <1> DEFINE removed == BranchRemoved(rep, n)
             garbage == Garbage(removed)
             synced == Synced(DeleteCheckpoints(DeleteBranch(rows, n), garbage),
                              RemoveCheckpoints(removed, garbage))
  <1>1. IsRooted(made) /\ IsDepth(made, d) /\ IsTables(made, d, rows) /\ IsRepository(made, d, rows, rep)
    BY DEF SharedBy
  <1>2. /\ made' = made /\ repo' = repo /\ staged' = staged /\ request' = {}
        /\ rows' = IF FindBranch(rep, n) = {} THEN CleanupOrphanSnapshots(rows)
                   ELSE IF HasCurrent(removed) THEN CleanupOrphanSnapshots(synced)
                   ELSE synced
    BY DEF Clean, Answer
  <1> HIDE DEF synced
  <1>3. CASE FindBranch(rep, n) = {}
    <2>1. rows' = [rows EXCEPT !.snapshots = {}]
      BY <1>2, <1>3 DEF CleanupOrphanSnapshots
    <2>2. IsTables(made, d, rows') /\ TablesGrow(made, rows, rows')
      BY <1>1, <2>1, SnapshotsKept
    <2> QED BY <1>2, <2>2, AnswerShares
  <1>4. CASE FindBranch(rep, n) # {}
    <2>1. IsRepository(made, d, rows, removed)
      BY <1>1, <1>4, RemovedIsRepository
    <2> HIDE DEF removed
    <2>2. garbage = {}
      BY <1>1, <2>1, NoGarbage
    <2>3. KeepsHeads(made, d, rows, DeleteBranch(rows, n))
      BY <1>1, BranchDeleted
    <2>4. IsTables(made, d, synced) /\ TablesGrow(made, rows, synced)
      <3>1. synced = Synced(DeleteCheckpoints(DeleteBranch(rows, n), {}), RemoveCheckpoints(removed, {}))
        BY <2>2 DEF synced
      <3> QED BY <1>1, <2>1, <2>3, <3>1, CollectedTables
    <2>5. CASE rows' = synced
      BY <1>2, <2>4, <2>5, AnswerShares
    <2>6. CASE rows' = CleanupOrphanSnapshots(synced)
      <3>1. rows' = [synced EXCEPT !.snapshots = {}]
        BY <2>6 DEF CleanupOrphanSnapshots
      <3>2. IsTables(made, d, rows') /\ TablesGrow(made, synced, rows')
        BY <1>1, <2>4, <3>1, SnapshotsKept
      <3>3. TablesGrow(made, rows, rows')
        BY <1>1, <2>4, <3>2, TablesGrowOn DEF IsTables
      <3> QED BY <1>2, <3>2, <3>3, AnswerShares
    <2> QED BY <1>2, <1>4, <2>5, <2>6
  <1> QED BY <1>3, <1>4

LEMMA PullShares ==
    ASSUME NEW d, SharedBy(d), NEW rep \in request, NEW s \in Snaps, Pull(rep, s)
    PROVE  SharedInv'
PROOF
  <1> DEFINE cp == [parents |-> <<HeadOf(rep)>>, snaps |-> <<s>>]
             id == IdOf(cp)
             recorded == Recorded(HeadMoved(rep, id, cp.parents), id)
             noted == Noted(recorded, id, "git_anchor")
             done == Persisted(rows, HeadMoved(rep, id, cp.parents), id, cp.parents, Statements(cp.parents))
             synced == Synced(done, noted)
  <1>1. /\ rep.current \in DOMAIN rep.branches /\ Make(cp)
        /\ rows' = [synced EXCEPT !.snapshots = synced.snapshots \cup {s}]
        /\ request' = {} /\ repo' = repo /\ staged' = staged
    BY DEF Pull, HasCurrent, Answer
  <1>2. IsRepository(made, d, rows, rep) /\ staged \in Snaps
    BY DEF SharedBy
  <1>3. cp = [parents |-> <<HeadOf(rep)>>, snaps |-> <<s>>] /\ <<s>> \in Seq(Snaps) /\ Len(cp.parents) \in Nat
    OBVIOUS
  <1> HIDE DEF cp
  <1>4. IsBelowHeads(rep, cp)
    BY <1>1, <1>3 DEF IsBelowHeads
  <1>5. PICK e : MadeBelow(d, rep, cp, e)
    BY <1>1, <1>2, <1>4, BelowHeads
  <1>6. Stores(e, rep, cp, done)
    BY <1>3, <1>5, AllStored
  <1>7. Deepens(d, e) /\ IsRooted(made') /\ IsDepth(made', e) /\ IsTables(made', e, rows)
    BY <1>5 DEF MadeBelow, Deepens
  <1> HIDE DEF done, recorded
  <1>8. /\ IsTables(made', e, done) /\ TablesGrow(made', rows, done)
        /\ IsRepository(made', e, done, recorded)
    BY <1>6 DEF Stores, recorded
  <1>9. IsRepository(made', e, done, noted)
    BY <1>8, NotesKept
  <1> HIDE DEF noted
  <1>10. IsListed(made', e, done, noted.branches) /\ IsWhole(noted.branches)
    BY <1>9, ListedInRepository
  <1>11. KeepsHeads(made', e, done, done)
    BY <1>8, RowsKept DEF IsTables, SameGraph
  <1>12. IsTables(made', e, synced) /\ TablesGrow(made', done, synced)
    BY <1>7, <1>8, <1>10, <1>11, SyncedTables
  <1> HIDE DEF synced
  <1>13. IsTables(made', e, rows') /\ TablesGrow(made', synced, rows')
    BY <1>1, <1>7, <1>12, SnapshotsKept
  <1>14. /\ IsGraph(made', e, rows) /\ IsGraph(made', e, done) /\ IsGraph(made', e, synced)
         /\ IsGraph(made', e, rows')
    BY <1>7, <1>8, <1>12, <1>13 DEF IsTables
  <1>15. TablesGrow(made', rows, synced)
    BY <1>7, <1>8, <1>12, <1>14, TablesGrowOn
  <1>16. TablesGrow(made', rows, rows')
    BY <1>7, <1>13, <1>14, <1>15, TablesGrowOn
  <1> QED BY <1>1, <1>2, <1>7, <1>13, <1>16, StepKeeps

LEMMA PullFindsNothingShares ==
    ASSUME NEW d, SharedBy(d), NEW rep \in request, NEW s \in Snaps, PullFindsNothing(rep, s)
    PROVE  SharedInv'
PROOF
  <1>1. /\ made' = made /\ repo' = repo /\ staged' = staged /\ request' = {}
        /\ rows' = [rows EXCEPT !.snapshots = rows.snapshots \cup {s}]
    BY DEF PullFindsNothing, Answer
  <1>2. IsTables(made, d, rows') /\ TablesGrow(made, rows, rows')
    BY <1>1, SnapshotsKept DEF SharedBy
  <1> QED BY <1>1, <1>2, AnswerShares

LEMMA RequestFailsShares ==
    ASSUME NEW d, SharedBy(d), RequestFails
    PROVE  SharedInv'
PROOF
  <1>1. made' = made /\ repo' = repo /\ staged' = staged /\ rows' = rows /\ request' = {}
    BY DEF RequestFails, Answer
  <1>2. IsTables(made, d, rows') /\ TablesGrow(made, rows, rows')
    BY <1>1, TablesSame DEF SharedBy
  <1> QED BY <1>1, <1>2, AnswerShares

LEMMA InitShares == Init => SharedInv
PROOF
  <1> SUFFICES ASSUME Init PROVE SharedInv
    OBVIOUS
  <1> DEFINE first == [parents |-> <<>>, snaps |-> <<>>]
             T == [name : Names, head : repo.checkpoints]
  <1>1. /\ made = <<first>> /\ staged \in Snaps /\ request = {}
        /\ rows = [checkpoints |-> {Root}, notes |-> {}, branches |-> [n \in {Main} |-> Root],
                   current |-> Main, edges |-> {}, gens |-> <<>>, snapshots |-> {staged}]
        /\ repo = [branches |-> <<[name |-> Main, head |-> Root]>>, current |-> 1,
                   checkpoints |-> {Root}, notes |-> {}, dag |-> AddNode(EmptyDag, Root)]
    BY DEF Init
  <1>2. DOMAIN made = {Root} /\ made[Root].parents = <<>> /\ made \in Seq(Checkpoints)
    <2>1. first \in Checkpoints
      BY DEF Checkpoints
    <2> QED BY <1>1, <2>1 DEF Root
  <1>3. PICK d : d = [c \in {Root} |-> 0]
    OBVIOUS
  <1>4. IsRooted(made) /\ IsDepth(made, d)
    BY <1>2, <1>3 DEF IsRooted, IsHistory, IsDepth
  <1>5. IsClosed(made, {Root})
    BY <1>2 DEF IsClosed
  <1>6. ASSUME NEW g, g.edges = {}, Nodes(g) \in SUBSET {Root}, g.gens \in [Nodes(g) -> Nat], Gen(g, Root) = 0
        PROVE  IsGraph(made, d, g) /\ Settles(made, d, g, Root) /\ Ends(g.edges) = {}
    <2>1. Ends(g.edges) = {}
      BY <1>6 DEF Ends
    <2>2. Below(g, d) /\ IsLineage(made, g.edges)
      BY <1>2, <1>3, <1>6 DEF Below, IsLineage
    <2>3. Nodes(g) \subseteq Visited(g.edges, Root)
      BY <1>6, VisitedStart
    <2>4. Root \in Complete(made, d, g)
      BY <1>2, <1>3, <1>6 DEF Complete
    <2>5. {Root} \in SUBSET Complete(made, d, g)
      BY <2>4
    <2>6. Settles(made, d, g, Root)
      BY <1>5, <2>5 DEF Settles
    <2> QED BY <1>2, <1>6, <2>1, <2>2, <2>3, <2>6 DEF IsGraph
  <1>7. IsGraph(made, d, rows) /\ IsHead(made, d, rows, Root)
    <2>1. rows.edges = {} /\ rows.gens = <<>> /\ DOMAIN rows.gens = {}
      BY <1>1
    <2>2. Nodes(rows) = {} /\ Gen(rows, Root) = 0 /\ rows.gens \in [Nodes(rows) -> Nat]
      BY <2>1 DEF Nodes, Gen
    <2>3. IsGraph(made, d, rows) /\ Settles(made, d, rows, Root)
      BY <1>6, <2>1, <2>2
    <2> QED BY <1>1, <2>3 DEF IsHead
  <1>8. IsTables(made, d, rows)
    <2>1. DOMAIN rows.branches = {Main} /\ rows.branches[Main] = Root /\ IsRows(rows)
      BY <1>1 DEF IsRows
    <2>2. IsFiniteSet({Main})
      BY FS_Singleton
    <2> QED BY <1>1, <1>5, <1>7, <2>1, <2>2, MainAssumption DEF IsTables
  <1>9. IsDag(made, d, repo.dag) /\ Settles(made, d, repo.dag, Root)
    <2>1. repo.dag = [edges |-> {}, gens |-> [m \in {Root} |-> 0]]
      <3>1. Nodes(EmptyDag) = {} /\ EmptyDag.edges = {} /\ EmptyDag = [edges |-> {}, gens |-> <<>>]
        BY DEF EmptyDag, Nodes
      <3>2. [m \in Nodes(EmptyDag) \cup {Root} |-> Gen(EmptyDag, m)] = [m \in {Root} |-> 0]
        BY <3>1 DEF Gen
      <3>3. AddNode(EmptyDag, Root) = [EmptyDag EXCEPT !.gens = [m \in {Root} |-> 0]]
        BY <3>2 DEF AddNode
      <3> QED BY <1>1, <3>1, <3>3
    <2>2. /\ Nodes(repo.dag) = {Root} /\ Gen(repo.dag, Root) = 0 /\ repo.dag.edges = {}
          /\ repo.dag.gens \in [Nodes(repo.dag) -> Nat]
      BY <2>1 DEF Nodes, Gen
    <2>3. IsGraph(made, d, repo.dag) /\ Settles(made, d, repo.dag, Root) /\ Ends(repo.dag.edges) = {}
      BY <1>6, <2>2
    <2> QED BY <2>1, <2>3 DEF IsDag
  <1>10. IsRepository(made, d, rows, repo)
    <2>1. PICK branch : branch = [name |-> Main, head |-> Root]
      OBVIOUS
    <2>2. repo.branches = <<branch>> /\ repo.checkpoints = {Root} /\ rows.checkpoints = {Root}
      BY <1>1, <2>1
    <2>3. branch \in T /\ branch.name = Main /\ branch.head = Root
      BY <2>1, <2>2, MainAssumption
    <2>4. repo.branches \in Seq(T) /\ DOMAIN repo.branches = {1} /\ repo.branches[1] = branch
      <3> HIDE DEF T
      <3> QED BY <2>2, <2>3
    <2>5. repo = [branches |-> repo.branches, current |-> repo.current, checkpoints |-> repo.checkpoints,
                  notes |-> repo.notes, dag |-> repo.dag]
      BY <1>1
    <2> QED BY <1>5, <1>7, <1>9, <2>2, <2>3, <2>4, <2>5 DEF IsRepository, IsDag
  <1> QED BY <1>1, <1>4, <1>8, <1>10 DEF SharedInv

LEMMA NextShares == SharedInv /\ [Next]_vars /\ ~ LastBranchCleaned => SharedInv'
PROOF
  <1> SUFFICES ASSUME SharedInv, [Next]_vars, ~ LastBranchCleaned PROVE SharedInv'
    OBVIOUS
  <1>1. PICK d : SharedBy(d)
    BY DEF SharedInv, SharedBy
  <1>2. ASSUME NEW s \in Snaps, Stage(s) PROVE SharedInv'
    BY <1>1, <1>2, StageShares
  <1>3. CASE Commit
    BY <1>1, <1>3, CommitShares
  <1>4. ASSUME NEW n \in Names, BranchCreate(n) PROVE SharedInv'
    BY <1>1, <1>4, BranchCreateShares
  <1>5. ASSUME NEW n \in Names, BranchSwitch(n) PROVE SharedInv'
    BY <1>1, <1>5, BranchSwitchShares
  <1>6. ASSUME NEW id \in Ids, CheckpointRollback(id) PROVE SharedInv'
    BY <1>1, <1>6, CheckpointRollbackShares
  <1>7. CASE Restart
    BY <1>1, <1>7, RestartShares
  <1>8. ASSUME NEW k \in 1..4, StopDuringCommit(k) PROVE SharedInv'
    BY <1>1, <1>8, StopShares
  <1>9. CASE LoadRepo
    BY <1>1, <1>9, LoadRepoShares
  <1>10. ASSUME NEW rep \in request, NEW n \in Names, Merge(rep, n) PROVE SharedInv'
    BY <1>1, <1>10, MergeShares
  <1>11. ASSUME NEW rep \in request, Gc(rep) PROVE SharedInv'
    BY <1>1, <1>11, GcShares
  <1>12. ASSUME NEW rep \in request, GitCommit(rep) PROVE SharedInv'
    BY <1>1, <1>12, GitCommitShares
  <1>13. ASSUME NEW rep \in request, NEW n \in Names, Clean(rep, n) PROVE SharedInv'
    <2>1. \E i \in DOMAIN rep.branches : rep.branches[i].name # n
      BY <1>13 DEF LastBranchCleaned
    <2> QED BY <1>1, <1>13, <2>1, CleanShares
  <1>14. ASSUME NEW rep \in request, NEW s \in Snaps, Pull(rep, s) PROVE SharedInv'
    BY <1>1, <1>14, PullShares
  <1>15. ASSUME NEW rep \in request, NEW s \in Snaps, PullFindsNothing(rep, s) PROVE SharedInv'
    BY <1>1, <1>15, PullFindsNothingShares
  <1>16. CASE RequestFails
    BY <1>1, <1>16, RequestFailsShares
  <1>17. CASE UNCHANGED vars
    BY <1>17 DEF vars, SharedInv
  <1>18. ASSUME ServiceNext PROVE SharedInv'
    BY <1>2, <1>3, <1>4, <1>5, <1>6, <1>7, <1>8, <1>18 DEF ServiceNext
  <1>19. ASSUME RequestNext PROVE SharedInv'
    BY <1>9, <1>10, <1>11, <1>12, <1>13, <1>14, <1>15, <1>16, <1>19 DEF RequestNext
  <1> QED BY <1>17, <1>18, <1>19 DEF Next

LEMMA HistoryFollows == SharedInv => HistoryComplete
PROOF
  <1> SUFFICES ASSUME SharedInv, NEW n \in DOMAIN rows.branches
               PROVE  History(made, rows.branches[n]) \subseteq rows.checkpoints
    BY DEF HistoryComplete
  <1>1. IsClosed(made, rows.checkpoints) /\ rows.branches[n] \in rows.checkpoints
    BY DEF SharedInv, IsTables, IsHead
  <1> QED BY <1>1, HistoryInClosed

(* Of what a graph knows all about, it knows who comes before whom.          *)
LEMMA AncestorsKnown ==
    ASSUME NEW ms, NEW d, IsDepth(ms, d), NEW dag, IsDag(ms, d, dag), NEW h, Settles(ms, d, dag, h),
           NEW y \in History(ms, h), NEW x \in History(ms, y)
    PROVE  IsAncestor(dag, x, y)
PROOF
  <1>1. PICK S \in SUBSET Complete(ms, d, dag) : IsClosed(ms, S) /\ h \in S
    BY DEF Settles
  <1>2. y \in S
    BY <1>1, HistoryInClosed
  <1> DEFINE Z == {z \in S : (z = y \/ d[z] < d[y]) /\ y \in Visited(dag.edges, z)}
  <1>3. \A c \in S : c \in DOMAIN ms /\ Gen(dag, c) = d[c] /\ d[c] \in Nat
    BY <1>1 DEF Complete, IsDepth
  <1>4. dag.edges \in SUBSET ((DOMAIN ms) \X (DOMAIN ms))
    BY DEF IsDag, IsGraph, IsLineage
  <1>5. ASSUME NEW z \in Z, NEW k \in DOMAIN ms[z].parents PROVE ms[z].parents[k] \in Z
    <2>1. PICK p : p = ms[z].parents[k]
      OBVIOUS
    <2>2. p \in S /\ z \in S /\ <<p, z>> \in dag.edges
      BY <1>1, <2>1 DEF IsClosed, Complete
    <2>3. d[p] < d[z]
      BY <1>3, <2>1, <2>2 DEF IsDepth
    <2>4. y \in Visited(dag.edges, z) /\ (z = y \/ d[z] < d[y])
      BY VisitedStart
    <2>5. y \in Visited(dag.edges, p)
      BY <1>4, <2>2, <2>4, VisitedFirst
    <2>6. d[p] < d[y]
      BY <1>2, <1>3, <2>2, <2>3, <2>4
    <2> QED BY <2>1, <2>2, <2>5, <2>6
  <1>6. IsClosed(ms, Z) /\ y \in Z
    <2>1. S \subseteq DOMAIN ms
      BY <1>1 DEF IsClosed
    <2>2. Z \subseteq S
      OBVIOUS
    <2>3. y \in Z
      BY <1>2, VisitedStart
    <2> HIDE DEF Z
    <2> QED BY <1>5, <2>1, <2>2, <2>3 DEF IsClosed
  <1>7. x \in Z
    <2> HIDE DEF Z
    <2> QED BY <1>6, HistoryInClosed
  <1>8. CASE x = y
    BY <1>8 DEF IsAncestor
  <1>9. CASE x # y
    <2>1. x \in S /\ d[x] < d[y] /\ y \in Visited(dag.edges, x)
      BY <1>7, <1>9
    <2>2. {x, y} \subseteq Nodes(dag) => dag.gens[x] < dag.gens[y]
      BY <1>2, <1>3, <2>1 DEF Gen
    <2> QED BY <2>1, <2>2 DEF IsAncestor
  <1> QED BY <1>8, <1>9

LEMMA AncestryFollows == SharedInv => AncestryAnswered
PROOF
  <1> SUFFICES ASSUME SharedInv, NEW i \in DOMAIN repo.branches, NEW y \in History(made, repo.branches[i].head),
                      NEW x \in History(made, y)
               PROVE  IsAncestor(repo.dag, x, y)
    BY DEF AncestryAnswered
  <1>1. PICK d : IsDepth(made, d) /\ IsRepository(made, d, rows, repo)
    BY DEF SharedInv
  <1>2. IsDag(made, d, repo.dag) /\ Settles(made, d, repo.dag, repo.branches[i].head)
    BY <1>1 DEF IsRepository, IsDag
  <1> QED BY <1>1, <1>2, AncestorsKnown

(* Requests on copies of the repository, loaded before others committed,     *)
(* merged or collected, share the tables and the service's graph: every head *)
(* has a stored past that its graphs know all about.                         *)
THEOREM CopiesShare == Spec /\ [][~ LastBranchCleaned]_vars => []SharedInv
PROOF
  <1>1. Init => SharedInv
    BY InitShares
  <1>2. SharedInv /\ [Next]_vars /\ [~ LastBranchCleaned]_vars => SharedInv'
    <2>1. SharedInv /\ UNCHANGED vars => SharedInv'
      BY DEF SharedInv, vars
    <2> QED BY <2>1, NextShares
  <1> QED BY <1>1, <1>2, PTL DEF Spec

(* checkpoint/repo.rs, git_sync/gc.rs: no stop in a commit, no copy of the   *)
(* repository and no collection leaves a hole in a branch's past, unless a   *)
(* clean removes the last branch that its copy has.                          *)
THEOREM HistorySurvivesCopies == Spec /\ [][~ LastBranchCleaned]_vars => []HistoryComplete
PROOF
  <1>1. SharedInv => HistoryComplete
    BY HistoryFollows
  <1> QED BY <1>1, CopiesShare, PTL

(* Then is_ancestor answers right for all pairs in the past of a branch.     *)
THEOREM AncestrySurvivesCopies == Spec /\ [][~ LastBranchCleaned]_vars => []AncestryAnswered
PROOF
  <1>1. SharedInv => AncestryAnswered
    BY AncestryFollows
  <1> QED BY <1>1, CopiesShare, PTL
=============================================================================
