------------------------ MODULE LayerRequestsProofs ------------------------
(***************************************************************************)
(* Theorems about LayerRequests, for any number of clients, agents,        *)
(* features and requests.                                                  *)
(*                                                                         *)
(* A request acts on what it has read, and others write in between.  What  *)
(* stays true of its readings is little: the partitions are still there,   *)
(* on the same baseline, and the pointers it read were current once, so    *)
(* they name stored snapshots of a type the partition may hold.  That is   *)
(* enough, because every step finds what it needs read before (Planned)    *)
(* and none needs the pointers to be current.                              *)
(*                                                                         *)
(* A request that is served alone finds them current.  Then its calls, one *)
(* after the other, do what the operation does at once (the last part).    *)
(***************************************************************************)
EXTENDS LayerRequests, LayerOperationsProofs

(* What the steps of a request are made of.                                  *)
Merges ==
    [merge : {"edit"}, part : BySource, path : Paths, new : Text]
      \cup [merge : {"manual"}]
      \cup [merge : {"submit"}, agent : Agents]
      \cup [merge : {"approve"}, agent : Agents, feature : Features]
      \cup [merge : {"round"}, feature : Features]

Steps ==
    [do : {"get", "reset"}, at : Partitions]
      \cup [do : {"ensure"}, part : Partitions, like : Partitions, row : {"current", "baseline"}]
      \cup [do : {"create", "move"}, at : Partitions, to : Nat]
      \cup [do : {"make"}, what : Merges]
      \cup [do : {"list", "commit", "switch"}]
      \cup [do : {"rounds"}, left : SUBSET Features]

(* The partitions a step writes.                                             *)
WritesTo(st) ==
    CASE st.do \in {"create", "move", "reset"} -> {st.at}
      [] st.do = "ensure" -> {st.part}
      [] st.do = "make" -> {Target(st.what)}
      [] OTHER -> {}

(* The steps a request may still take: what they write next is stored and of *)
(* a type the partition may hold, and the partition of an agent is the       *)
(* request's own.                                                            *)
Legal(d, req) ==
    {st \in Steps :
        /\ st.do = "ensure" => st.part # Manual /\ (st.row = "current" => st.like = Staged)
        /\ st.do = "create" => /\ st.at # Manual
                               /\ st.to \in Stored(d) /\ TypeAt(d, st.to) \in Ground
        /\ st.do = "move" => st.to \in Stored(d) /\ TypeAt(d, st.to) \in MayHold(st.at)
        /\ \A a \in Agents : Agent(a) \in WritesTo(st) => a \in Named(req)}

(* What a request has read: pointers that were current once, of partitions   *)
(* whose baselines never change.                                             *)
Readings == [pointer : [Partitions -> Nat], history : [Partitions -> Seq(Nat)]]

HasRead(read) == {p \in Partitions : read.pointer[p] # NoSnap}

Recalls(d, read) ==
    \A p \in HasRead(read) :
        /\ Exists(d, p)
        /\ read.pointer[p] \in Stored(d) /\ TypeAt(d, read.pointer[p]) \in MayHold(p)
        /\ read.history[p] = <<Baseline(d, p)>>

(* The partitions a step reads, those it works on, and whether the request   *)
(* forgets what it had read.                                                 *)
Supplies(st) ==
    CASE st.do \in {"get", "create"} -> {st.at}
      [] st.do = "ensure" -> {st.part}
      [] OTHER -> {}

Sources(what) ==
    CASE what.merge = "edit"    -> {what.part}
      [] what.merge = "manual"  -> {Staged, Manual}
      [] what.merge = "submit"  -> {Approval(what.agent), Agent(what.agent)}
      [] what.merge = "approve" -> {Feature(what.feature), Approval(what.agent)}
      [] what.merge = "round"   -> {Staged, Feature(what.feature)}

Needs(st) ==
    CASE st.do = "ensure" -> {st.like}
      [] st.do = "make" -> Sources(st.what)
      [] st.do = "commit" -> {Staged}
      [] OTHER -> {}

Clears(st) == st.do \in {"make", "reset", "list", "rounds", "commit", "switch"}

(* The partition a step moves or resets, which has to be there.              *)
Touches(st) == IF st.do \in {"move", "reset"} THEN {st.at} ELSE {}

(* Each step finds what it needs: read before, and not forgotten since, or   *)
(* read by a step that comes before it; what it moves is there or is found   *)
(* by a step that comes before it.                                           *)
Planned(todo, have, there) ==
    \A k \in 1..Len(todo) :
        /\ \A p \in Needs(todo[k]) :
              \/ p \in have /\ \A i \in 1..(k - 1) : ~ Clears(todo[i])
              \/ \E j \in 1..(k - 1) : /\ p \in Supplies(todo[j])
                                       /\ \A i \in (j + 1)..(k - 1) : ~ Clears(todo[i])
        /\ \A p \in Touches(todo[k]) :
              p \in there \/ \E j \in 1..(k - 1) : p \in Supplies(todo[j])

Present(d) == {p \in Partitions : Exists(d, p)}

Jobs ==
    [request : RequestKinds \cup {[op |-> "none"]}, todo : Seq(Steps), read : Readings,
     alone : BOOLEAN, solo : BOOLEAN, began : SUBSET Databases]

JobInv(d, job) ==
    /\ job.todo \in Seq(Legal(d, job.request))
    /\ Recalls(d, job.read)
    /\ Planned(job.todo, HasRead(job.read), Present(d))

TablesInv ==
    /\ Sound(db)
    /\ committed \subseteq Stored(db)
    /\ head \in committed \cup {NoSnap}
    /\ \A id \in committed : TypeAt(db, id) \in Ground

Inv ==
    /\ TablesInv
    /\ client \in [Clients -> Jobs]
    /\ \A c \in Clients : JobInv(db, client[c])

(* An edit of an agent that no other request on the agent has overlapped: it *)
(* is still to be computed, from the current snapshot once that is read, or  *)
(* its snapshot is still to be made current, or the partition reads as it.   *)
EditOf(req) ==
    [merge |-> "edit", part |-> Agent(req.agent), path |-> req.path, new |-> req.new]

Ready(todo, req) ==
    /\ Len(todo) > 0
    /\ todo[Len(todo)] = Make(EditOf(req))
    /\ \A k \in 1..(Len(todo) - 1) : todo[k].do \in {"get", "ensure", "create"}

Computing(d, job) ==
    /\ Ready(job.todo, job.request)
    /\ job.read.pointer[Agent(job.request.agent)]
          \in {NoSnap, d.pointer[Agent(job.request.agent)]}

Moving(d, job) ==
    \E id \in Stored(d) : /\ job.todo = <<Move(Agent(job.request.agent), id)>>
                          /\ Yields(d.snaps[id], job.request.new)

Edited(d, job) ==
    LET p == Agent(job.request.agent)
    IN  /\ job.todo = << >> /\ Exists(d, p)
        /\ ReadsBack(d, p) => CurrentText(d, p) = job.request.new

Editing(d, job) == Computing(d, job) \/ Moving(d, job) \/ Edited(d, job)

IsolationInv ==
    /\ \A b, c \in Busy : b # c /\ client[c].solo =>
          Named(client[b].request) \cap Named(client[c].request) = {}
    /\ \A c \in Clients : client[c].solo /\ client[c].request.op = "agent_edit" =>
          Editing(db, client[c])

-----------------------------------------------------------------------------
(* Plans                                                                     *)

(* Once its first step is taken, a plan has what the step read, and what it  *)
(* had before unless the step made the request forget it.                    *)
LEMMA PlannedTail ==
    ASSUME NEW S, NEW todo \in Seq(S), todo # << >>, NEW have, NEW there,
           Planned(todo, have, there),
           NEW h, NEW t,
           Supplies(Head(todo)) \subseteq h,
           Clears(Head(todo)) \/ have \subseteq h,
           there \cup Supplies(Head(todo)) \subseteq t
    PROVE  Planned(Tail(todo), h, t)
PROOF
  <1>1. PICK n \in Nat : Len(todo) = n + 1
    <2>1. Len(todo) \in Nat \ {0}
      BY EmptySeq, LenProperties
    <2>2. Len(todo) - 1 \in Nat /\ Len(todo) = (Len(todo) - 1) + 1
      BY <2>1
    <2> QED BY <2>2
  <1>2. PICK rest : rest = Tail(todo)
    OBVIOUS
  <1>3. /\ Len(rest) = n
        /\ Head(todo) = todo[1]
        /\ \A i \in 1..n : rest[i] = todo[i + 1]
    BY <1>1, <1>2
  <1> SUFFICES ASSUME NEW k \in 1..n
               PROVE  /\ \A p \in Needs(rest[k]) :
                            \/ p \in h /\ \A i \in 1..(k - 1) : ~ Clears(rest[i])
                            \/ \E j \in 1..(k - 1) : /\ p \in Supplies(rest[j])
                                                     /\ \A i \in (j + 1)..(k - 1) : ~ Clears(rest[i])
                      /\ \A p \in Touches(rest[k]) :
                            p \in t \/ \E j \in 1..(k - 1) : p \in Supplies(rest[j])
    BY <1>2, <1>3 DEF Planned
  <1>4. k + 1 \in 1..Len(todo) /\ (k + 1) - 1 = k
    BY <1>1
  <1>5. /\ \A p \in Needs(todo[k + 1]) :
              \/ p \in have /\ \A i \in 1..k : ~ Clears(todo[i])
              \/ \E j \in 1..k : /\ p \in Supplies(todo[j])
                                 /\ \A i \in (j + 1)..k : ~ Clears(todo[i])
        /\ \A p \in Touches(todo[k + 1]) :
              p \in there \/ \E j \in 1..k : p \in Supplies(todo[j])
    BY <1>4 DEF Planned
  <1>6. \A i \in 1..(k - 1) : i + 1 \in 2..k /\ rest[i] = todo[i + 1]
    BY <1>3
  <1>7. ASSUME NEW p \in Needs(todo[k + 1])
        PROVE  \/ p \in h /\ \A i \in 1..(k - 1) : ~ Clears(rest[i])
               \/ \E j \in 1..(k - 1) : /\ p \in Supplies(rest[j])
                                        /\ \A i \in (j + 1)..(k - 1) : ~ Clears(rest[i])
    <2>1. CASE p \in have /\ \A i \in 1..k : ~ Clears(todo[i])
      BY <1>3, <1>6, <2>1
    <2>2. ASSUME NEW j \in 1..k, p \in Supplies(todo[j]),
                 \A i \in (j + 1)..k : ~ Clears(todo[i])
          PROVE  \/ p \in h /\ \A i \in 1..(k - 1) : ~ Clears(rest[i])
                 \/ \E m \in 1..(k - 1) : /\ p \in Supplies(rest[m])
                                          /\ \A i \in (m + 1)..(k - 1) : ~ Clears(rest[i])
      <3>1. \A i \in 1..(k - 1) : j <= i => ~ Clears(rest[i])
        <4> SUFFICES ASSUME NEW i \in 1..(k - 1), j <= i
                     PROVE  ~ Clears(rest[i])
          OBVIOUS
        <4>1. i + 1 \in (j + 1)..k
          OBVIOUS
        <4> QED BY <1>6, <2>2, <4>1
      <3>2. CASE j = 1
        BY <1>3, <2>2, <3>1, <3>2
      <3>3. CASE j # 1
        <4>1. PICK m \in 1..(k - 1) : j = m + 1
          <5>1. j - 1 \in 1..(k - 1) /\ j = (j - 1) + 1
            BY <3>3
          <5> QED BY <5>1
        <4>2. \A i \in (m + 1)..(k - 1) : i \in 1..(k - 1) /\ j <= i
          BY <4>1
        <4> QED BY <1>6, <2>2, <3>1, <4>1, <4>2
      <3> QED BY <3>2, <3>3
    <2> QED BY <1>5, <2>1, <2>2
  <1>8. ASSUME NEW p \in Touches(todo[k + 1])
        PROVE  p \in t \/ \E j \in 1..(k - 1) : p \in Supplies(rest[j])
    <2>1. ASSUME NEW j \in 1..k, p \in Supplies(todo[j]), j # 1
          PROVE  \E m \in 1..(k - 1) : p \in Supplies(rest[m])
      <3>1. PICK m \in 1..(k - 1) : j = m + 1
        <4>1. j - 1 \in 1..(k - 1) /\ j = (j - 1) + 1
          BY <2>1
        <4> QED BY <4>1
      <3> QED BY <1>6, <2>1, <3>1
    <2> QED BY <1>3, <1>5, <2>1
  <1>9. rest[k] = todo[k + 1]
    BY <1>3
  <1> QED BY <1>7, <1>8, <1>9

(* Two plans, the second of which reads all it needs itself, make one.       *)
LEMMA PlannedJoin ==
    ASSUME NEW S, NEW todo \in Seq(S), NEW rest \in Seq(S), NEW have, NEW there,
           Planned(todo, have, there), Planned(rest, {}, there)
    PROVE  Planned(todo \o rest, have, there)
PROOF
  <1>1. PICK n \in Nat : n = Len(todo)
    BY LenProperties
  <1>2. PICK m \in Nat : m = Len(rest)
    BY LenProperties
  <1>3. PICK all : all = todo \o rest
    OBVIOUS
  <1>4. /\ Len(all) = n + m
        /\ \A i \in 1..n : all[i] = todo[i]
        /\ \A i \in 1..m : all[i + n] = rest[i]
    BY <1>1, <1>2, <1>3
  <1> SUFFICES ASSUME NEW k \in 1..(n + m)
               PROVE  /\ \A p \in Needs(all[k]) :
                            \/ p \in have /\ \A i \in 1..(k - 1) : ~ Clears(all[i])
                            \/ \E j \in 1..(k - 1) : /\ p \in Supplies(all[j])
                                                     /\ \A i \in (j + 1)..(k - 1) : ~ Clears(all[i])
                      /\ \A p \in Touches(all[k]) :
                            p \in there \/ \E j \in 1..(k - 1) : p \in Supplies(all[j])
    BY <1>3, <1>4 DEF Planned
  <1>5. CASE k <= n
    <2>1. k \in 1..n /\ \A i \in 1..k : all[i] = todo[i]
      BY <1>4, <1>5
    <2>2. /\ \A p \in Needs(todo[k]) :
                \/ p \in have /\ \A i \in 1..(k - 1) : ~ Clears(todo[i])
                \/ \E j \in 1..(k - 1) : /\ p \in Supplies(todo[j])
                                         /\ \A i \in (j + 1)..(k - 1) : ~ Clears(todo[i])
          /\ \A p \in Touches(todo[k]) :
                p \in there \/ \E j \in 1..(k - 1) : p \in Supplies(todo[j])
      BY <1>1, <2>1 DEF Planned
    <2>3. all[k] = todo[k] /\ \A i \in 1..(k - 1) : i \in 1..k /\ all[i] = todo[i]
      BY <2>1
    <2>4. ASSUME NEW p \in Needs(todo[k])
          PROVE  \/ p \in have /\ \A i \in 1..(k - 1) : ~ Clears(all[i])
                 \/ \E j \in 1..(k - 1) : /\ p \in Supplies(all[j])
                                          /\ \A i \in (j + 1)..(k - 1) : ~ Clears(all[i])
      <3>1. CASE p \in have /\ \A i \in 1..(k - 1) : ~ Clears(todo[i])
        BY <2>3, <3>1
      <3>2. ASSUME NEW j \in 1..(k - 1), p \in Supplies(todo[j]),
                   \A i \in (j + 1)..(k - 1) : ~ Clears(todo[i])
            PROVE  p \in Supplies(all[j]) /\ \A i \in (j + 1)..(k - 1) : ~ Clears(all[i])
        <4>1. \A i \in (j + 1)..(k - 1) : i \in 1..(k - 1)
          OBVIOUS
        <4> QED BY <2>3, <3>2, <4>1
      <3> QED BY <2>2, <3>1, <3>2
    <2>5. ASSUME NEW p \in Touches(todo[k])
          PROVE  p \in there \/ \E j \in 1..(k - 1) : p \in Supplies(all[j])
      BY <2>2, <2>3
    <2> QED BY <2>3, <2>4, <2>5
  <1>6. CASE k > n
    <2>1. PICK l \in 1..m : k = l + n
      BY <1>6
    <2>2. /\ \A p \in Needs(rest[l]) :
                \E j \in 1..(l - 1) : /\ p \in Supplies(rest[j])
                                      /\ \A i \in (j + 1)..(l - 1) : ~ Clears(rest[i])
          /\ \A p \in Touches(rest[l]) :
                p \in there \/ \E j \in 1..(l - 1) : p \in Supplies(rest[j])
      BY <1>2 DEF Planned
    <2>3. all[k] = rest[l]
      BY <1>4, <2>1
    <2>4. ASSUME NEW p, NEW j \in 1..(l - 1), p \in Supplies(rest[j])
          PROVE  /\ j + n \in 1..(k - 1) /\ p \in Supplies(all[j + n])
                 /\ (\A i \in (j + 1)..(l - 1) : ~ Clears(rest[i])) =>
                       \A i \in (j + n + 1)..(k - 1) : ~ Clears(all[i])
      <3>1. j + n \in 1..(k - 1) /\ p \in Supplies(all[j + n])
        BY <1>4, <2>1, <2>4
      <3>2. ASSUME \A i \in (j + 1)..(l - 1) : ~ Clears(rest[i]), NEW i \in (j + n + 1)..(k - 1)
            PROVE  ~ Clears(all[i])
        <4>1. PICK x \in (j + 1)..(l - 1) : i = x + n
          BY <2>1
        <4>2. all[i] = rest[x]
          BY <1>4, <4>1
        <4> QED BY <3>2, <4>2
      <3> QED BY <3>1, <3>2
    <2>5. ASSUME NEW p \in Needs(rest[l])
          PROVE  \E j \in 1..(k - 1) : /\ p \in Supplies(all[j])
                                       /\ \A i \in (j + 1)..(k - 1) : ~ Clears(all[i])
      <3>1. PICK j \in 1..(l - 1) : /\ p \in Supplies(rest[j])
                                    /\ \A i \in (j + 1)..(l - 1) : ~ Clears(rest[i])
        BY <2>2
      <3>2. /\ j + n \in 1..(k - 1) /\ p \in Supplies(all[j + n])
            /\ \A i \in (j + n + 1)..(k - 1) : ~ Clears(all[i])
        BY <2>4, <3>1
      <3> QED BY <3>2
    <2>6. ASSUME NEW p \in Touches(rest[l])
          PROVE  p \in there \/ \E j \in 1..(k - 1) : p \in Supplies(all[j])
      BY <2>2, <2>4
    <2> QED BY <2>3, <2>5, <2>6
  <1> QED BY <1>1, <1>2, <1>5, <1>6

(* A step that reads takes nothing away from the plan that follows it.       *)
LEMMA PlannedPush ==
    ASSUME NEW S, NEW st, NEW todo \in Seq(S), NEW have, NEW there,
           Needs(st) = {}, Touches(st) = {}, ~ Clears(st),
           Planned(todo, have \cup Supplies(st), there \cup Supplies(st))
    PROVE  Planned(<<st>> \o todo, have, there)
PROOF
  <1>1. PICK n \in Nat : n = Len(todo)
    BY LenProperties
  <1>2. PICK all : all = <<st>> \o todo
    OBVIOUS
  <1>3. /\ Len(all) = n + 1
        /\ all[1] = st
        /\ \A i \in 1..n : all[i + 1] = todo[i]
    BY <1>1, <1>2
  <1> SUFFICES ASSUME NEW k \in 1..(n + 1)
               PROVE  /\ \A p \in Needs(all[k]) :
                            \/ p \in have /\ \A i \in 1..(k - 1) : ~ Clears(all[i])
                            \/ \E j \in 1..(k - 1) : /\ p \in Supplies(all[j])
                                                     /\ \A i \in (j + 1)..(k - 1) : ~ Clears(all[i])
                      /\ \A p \in Touches(all[k]) :
                            p \in there \/ \E j \in 1..(k - 1) : p \in Supplies(all[j])
    BY <1>2, <1>3 DEF Planned
  <1>4. CASE k = 1
    BY <1>3, <1>4
  <1>5. CASE k # 1
    <2>1. PICK l \in 1..n : k = l + 1
      BY <1>5
    <2>2. /\ \A p \in Needs(todo[l]) :
                \/ p \in have \cup Supplies(st) /\ \A i \in 1..(l - 1) : ~ Clears(todo[i])
                \/ \E j \in 1..(l - 1) : /\ p \in Supplies(todo[j])
                                         /\ \A i \in (j + 1)..(l - 1) : ~ Clears(todo[i])
          /\ \A p \in Touches(todo[l]) :
                p \in there \cup Supplies(st) \/ \E j \in 1..(l - 1) : p \in Supplies(todo[j])
      BY <1>1 DEF Planned
    <2>3. all[k] = todo[l] /\ \A j \in 1..(l - 1) : j + 1 \in 1..(k - 1) /\ all[j + 1] = todo[j]
      BY <1>3, <2>1
    <2>4. ASSUME NEW j \in 0..(l - 1), \A i \in (j + 1)..(l - 1) : ~ Clears(todo[i]),
                 NEW i \in (j + 2)..(k - 1)
          PROVE  ~ Clears(all[i])
      <3>1. PICK x \in (j + 1)..(l - 1) : i = x + 1
        <4>1. i - 1 \in (j + 1)..(l - 1) /\ i = (i - 1) + 1
          BY <2>1
        <4> QED BY <4>1
      <3>2. x \in 1..n
        OBVIOUS
      <3> QED BY <1>3, <2>4, <3>1, <3>2
    <2>5. ASSUME NEW p \in Needs(todo[l])
          PROVE  \/ p \in have /\ \A i \in 1..(k - 1) : ~ Clears(all[i])
                 \/ \E j \in 1..(k - 1) : /\ p \in Supplies(all[j])
                                          /\ \A i \in (j + 1)..(k - 1) : ~ Clears(all[i])
      <3>1. CASE p \in have \cup Supplies(st) /\ \A i \in 1..(l - 1) : ~ Clears(todo[i])
        <4>1. \A i \in 2..(k - 1) : ~ Clears(all[i])
          <5>1. 0 \in 0..(l - 1) /\ \A i \in (0 + 1)..(l - 1) : ~ Clears(todo[i])
            BY <3>1
          <5> QED BY <2>4, <5>1
        <4>2. 1 \in 1..(k - 1) /\ ~ Clears(all[1])
          BY <1>3, <2>1
        <4>3. \A i \in 1..(k - 1) : ~ Clears(all[i])
          BY <4>1, <4>2
        <4> QED BY <1>3, <3>1, <4>1, <4>2, <4>3
      <3>2. ASSUME NEW j \in 1..(l - 1), p \in Supplies(todo[j]),
                   \A i \in (j + 1)..(l - 1) : ~ Clears(todo[i])
            PROVE  \E m \in 1..(k - 1) : /\ p \in Supplies(all[m])
                                         /\ \A i \in (m + 1)..(k - 1) : ~ Clears(all[i])
        <4>1. j \in 0..(l - 1) /\ (j + 1) + 1 = j + 2
          OBVIOUS
        <4>2. \A i \in ((j + 1) + 1)..(k - 1) : ~ Clears(all[i])
          BY <2>4, <3>2, <4>1
        <4> QED BY <2>3, <3>2, <4>2
      <3> QED BY <2>2, <3>1, <3>2
    <2>6. ASSUME NEW p \in Touches(todo[l])
          PROVE  p \in there \/ \E j \in 1..(k - 1) : p \in Supplies(all[j])
      <3>1. 1 \in 1..(k - 1)
        BY <2>1
      <3> QED BY <1>3, <2>2, <2>3, <3>1
    <2> QED BY <2>3, <2>5, <2>6
  <1> QED BY <1>4, <1>5

(* What is there and what has been read may only grow.                       *)
LEMMA PlannedMore ==
    ASSUME NEW todo, NEW have, NEW there, Planned(todo, have, there),
           NEW h, NEW t, have \subseteq h, there \subseteq t
    PROVE  Planned(todo, h, t)
PROOF
  BY DEF Planned

(* Steps that read, and one that works on what they have read.               *)
LEMMA PlannedReads ==
    ASSUME NEW todo, NEW n \in Nat, Len(todo) = n,
           \A k \in 1..n : k < n => ~ Clears(todo[k]),
           \A k \in 1..n : \A p \in Needs(todo[k]) \cup Touches(todo[k]) :
              \E j \in 1..(k - 1) : p \in Supplies(todo[j]),
           NEW have, NEW there
    PROVE  Planned(todo, have, there)
PROOF
  <1> SUFFICES ASSUME NEW k \in 1..n, NEW j \in 1..(k - 1), NEW i \in (j + 1)..(k - 1)
               PROVE  ~ Clears(todo[i])
    BY DEF Planned
  <1>1. i \in 1..n /\ i < n
    OBVIOUS
  <1> QED BY <1>1

-----------------------------------------------------------------------------
(* Steps                                                                     *)

Create(p, id) == [do |-> "create", at |-> p, to |-> id]

RoundsLeft(left) == [do |-> "rounds", left |-> left]

(* What the steps read, work on, move and forget.                            *)
LEMMA StepTable ==
    /\ \A p : LET st == Get(p)
              IN  /\ Supplies(st) = {p} /\ ~ Clears(st)
                  /\ Needs(st) = {} /\ Touches(st) = {}
    /\ \A p, q, at : LET st == Found(p, q, at)
                     IN  /\ Supplies(st) = {p} /\ ~ Clears(st)
                         /\ Needs(st) = {q} /\ Touches(st) = {}
    /\ \A p, id : LET st == Create(p, id)
                  IN  /\ Supplies(st) = {p} /\ ~ Clears(st)
                      /\ Needs(st) = {} /\ Touches(st) = {}
    /\ \A what : LET st == Make(what)
                 IN  /\ Supplies(st) = {} /\ Clears(st)
                     /\ Needs(st) = Sources(what) /\ Touches(st) = {}
    /\ \A p, id : LET st == Move(p, id)
                  IN  /\ Supplies(st) = {} /\ ~ Clears(st)
                      /\ Needs(st) = {} /\ Touches(st) = {p}
    /\ \A p : LET st == Reset(p)
              IN  /\ Supplies(st) = {} /\ Clears(st)
                  /\ Needs(st) = {} /\ Touches(st) = {p}
    /\ \A left : LET st == RoundsLeft(left)
                 IN  /\ Supplies(st) = {} /\ Clears(st)
                     /\ Needs(st) = {} /\ Touches(st) = {}
    /\ \A name \in {"list", "switch"} :
          LET st == Step(name)
          IN  /\ Supplies(st) = {} /\ Clears(st)
              /\ Needs(st) = {} /\ Touches(st) = {}
    /\ LET st == Step("commit")
       IN  /\ Supplies(st) = {} /\ Clears(st)
           /\ Needs(st) = {Staged} /\ Touches(st) = {}
PROOF
  BY DEF Get, Found, Create, Make, Move, Reset, RoundsLeft, Step, Supplies, Clears, Needs, Touches

(* A request may write any partition but those of agents it does not name.   *)
Owns(req, p) == \A a \in Agents : p = Agent(a) => a \in Named(req)

LEMMA LegalSteps ==
    ASSUME NEW d, NEW req
    PROVE  /\ \A p \in Partitions : Get(p) \in Legal(d, req)
           /\ \A p \in Partitions \ {Manual}, q \in Partitions, at \in {"current", "baseline"} :
                 (at = "current" => q = Staged) /\ Owns(req, p)
                    => Found(p, q, at) \in Legal(d, req)
           /\ \A p \in Partitions \ {Manual}, id \in Stored(d) :
                 TypeAt(d, id) \in Ground /\ Owns(req, p) => Create(p, id) \in Legal(d, req)
           /\ \A what \in Merges :
                 Owns(req, Target(what)) => Make(what) \in Legal(d, req)
           /\ \A p \in Partitions, id \in Stored(d) :
                 TypeAt(d, id) \in MayHold(p) /\ Owns(req, p) => Move(p, id) \in Legal(d, req)
           /\ \A p \in Partitions : Owns(req, p) => Reset(p) \in Legal(d, req)
           /\ \A name \in {"list", "commit", "switch"} : Step(name) \in Legal(d, req)
           /\ \A left \in SUBSET Features : RoundsLeft(left) \in Legal(d, req)
PROOF
  <1>1. \A p \in Partitions : Get(p) \in Legal(d, req)
    BY DEF Get, Legal, Steps, WritesTo
  <1>2. \A p \in Partitions \ {Manual}, q \in Partitions, at \in {"current", "baseline"} :
           (at = "current" => q = Staged) /\ Owns(req, p) => Found(p, q, at) \in Legal(d, req)
    BY DEF Found, Legal, Steps, WritesTo, Owns
  <1>3. \A p \in Partitions \ {Manual}, id \in Stored(d) :
           TypeAt(d, id) \in Ground /\ Owns(req, p) => Create(p, id) \in Legal(d, req)
    BY DEF Create, Legal, Steps, WritesTo, Owns, Stored
  <1>4. \A what \in Merges : Owns(req, Target(what)) => Make(what) \in Legal(d, req)
    BY DEF Make, Legal, Steps, WritesTo, Owns
  <1>5. \A p \in Partitions, id \in Stored(d) :
           TypeAt(d, id) \in MayHold(p) /\ Owns(req, p) => Move(p, id) \in Legal(d, req)
    BY DEF Move, Legal, Steps, WritesTo, Owns, Stored
  <1>6. \A p \in Partitions : Owns(req, p) => Reset(p) \in Legal(d, req)
    BY DEF Reset, Legal, Steps, WritesTo, Owns
  <1>7. \A name \in {"list", "commit", "switch"} : Step(name) \in Legal(d, req)
    BY DEF Step, Legal, Steps, WritesTo
  <1>8. \A left \in SUBSET Features : RoundsLeft(left) \in Legal(d, req)
    BY DEF RoundsLeft, Legal, Steps, WritesTo
  <1> QED BY <1>1, <1>2, <1>3, <1>4, <1>5, <1>6, <1>7, <1>8

(* A step is of the kind its name says.                                      *)
LEMMA LegalKinds ==
    ASSUME NEW d, NEW req, NEW st \in Legal(d, req)
    PROVE  /\ st.do = "get" => st.at \in Partitions /\ st = Get(st.at)
           /\ st.do = "ensure" =>
                 /\ st = Found(st.part, st.like, st.row)
                 /\ st.part \in Partitions \ {Manual} /\ st.like \in Partitions
                 /\ st.row = "current" => st.like = Staged
                 /\ Owns(req, st.part)
           /\ st.do = "create" =>
                 /\ st = Create(st.at, st.to)
                 /\ st.at \in Partitions \ {Manual}
                 /\ st.to \in Stored(d) /\ TypeAt(d, st.to) \in Ground
                 /\ Owns(req, st.at)
           /\ st.do = "make" =>
                 st = Make(st.what) /\ st.what \in Merges /\ Owns(req, Target(st.what))
           /\ st.do = "move" =>
                 /\ st = Move(st.at, st.to)
                 /\ st.at \in Partitions
                 /\ st.to \in Stored(d) /\ TypeAt(d, st.to) \in MayHold(st.at)
                 /\ Owns(req, st.at)
           /\ st.do = "reset" =>
                 st = Reset(st.at) /\ st.at \in Partitions /\ Owns(req, st.at)
           /\ st.do \in {"list", "commit", "switch"} => st = Step(st.do)
           /\ st.do = "rounds" => st = RoundsLeft(st.left) /\ st.left \in SUBSET Features
PROOF
  <1>1. st.do = "get" => st.at \in Partitions /\ st = Get(st.at)
    BY DEF Get, Legal, Steps
  <1>2. st.do = "ensure" =>
           /\ st = Found(st.part, st.like, st.row)
           /\ st.part \in Partitions \ {Manual} /\ st.like \in Partitions
           /\ st.row = "current" => st.like = Staged
           /\ Owns(req, st.part)
    BY DEF Found, Legal, Steps, WritesTo, Owns
  <1>3. st.do = "create" =>
           /\ st = Create(st.at, st.to)
           /\ st.at \in Partitions \ {Manual}
           /\ st.to \in Stored(d) /\ TypeAt(d, st.to) \in Ground
           /\ Owns(req, st.at)
    BY DEF Create, Legal, Steps, WritesTo, Owns
  <1>4. st.do = "make" =>
           st = Make(st.what) /\ st.what \in Merges /\ Owns(req, Target(st.what))
    BY DEF Make, Legal, Steps, WritesTo, Owns
  <1>5. st.do = "move" =>
           /\ st = Move(st.at, st.to)
           /\ st.at \in Partitions
           /\ st.to \in Stored(d) /\ TypeAt(d, st.to) \in MayHold(st.at)
           /\ Owns(req, st.at)
    BY DEF Move, Legal, Steps, WritesTo, Owns
  <1>6. st.do = "reset" => st = Reset(st.at) /\ st.at \in Partitions /\ Owns(req, st.at)
    BY DEF Reset, Legal, Steps, WritesTo, Owns
  <1>7. st.do \in {"list", "commit", "switch"} => st = Step(st.do)
    BY DEF Step, Legal, Steps
  <1>8. st.do = "rounds" => st = RoundsLeft(st.left) /\ st.left \in SUBSET Features
    BY DEF RoundsLeft, Legal, Steps
  <1> QED BY <1>1, <1>2, <1>3, <1>4, <1>5, <1>6, <1>7, <1>8

(* A merge moves one of the partitions it works on.                          *)
LEMMA MergeKinds ==
    ASSUME NEW what \in Merges
    PROVE  /\ Target(what) \in Partitions
           /\ Target(what) \in Sources(what) /\ Sources(what) \subseteq Partitions
           /\ what.merge = "edit" =>
                 /\ what.part \in {Manual} \cup {Agent(a) : a \in Agents}
                 /\ what.path \in Paths /\ what.new \in Text
                 /\ Target(what) = what.part /\ Sources(what) = {what.part}
           /\ what.merge = "manual" => Target(what) = Staged /\ Sources(what) = {Staged, Manual}
           /\ what.merge = "submit" =>
                 /\ what.agent \in Agents
                 /\ Target(what) = Approval(what.agent)
                 /\ Sources(what) = {Approval(what.agent), Agent(what.agent)}
           /\ what.merge = "approve" =>
                 /\ what.agent \in Agents /\ what.feature \in Features
                 /\ Target(what) = Feature(what.feature)
                 /\ Sources(what) = {Feature(what.feature), Approval(what.agent)}
           /\ what.merge = "round" =>
                 /\ what.feature \in Features
                 /\ Target(what) = Staged
                 /\ Sources(what) = {Staged, Feature(what.feature)}
           /\ what.merge \in {"edit", "manual", "submit", "approve", "round"}
PROOF
  <1>1. what.merge \in {"edit", "manual", "submit", "approve", "round"}
    BY DEF Merges
  <1>2. CASE what.merge = "edit"
    BY <1>2, PartitionNames DEF Merges, Target, Sources, BySource, Partitions
  <1>3. CASE what.merge = "manual"
    BY <1>3, PartitionNames DEF Merges, Target, Sources
  <1>4. CASE what.merge = "submit"
    BY <1>4, PartitionNames DEF Merges, Target, Sources
  <1>5. CASE what.merge = "approve"
    BY <1>5, PartitionNames DEF Merges, Target, Sources
  <1>6. CASE what.merge = "round"
    BY <1>6, PartitionNames DEF Merges, Target, Sources
  <1> QED BY <1>1, <1>2, <1>3, <1>4, <1>5, <1>6

-----------------------------------------------------------------------------
(* What other requests write leaves a request its plan                       *)

LEMMA LegalLater ==
    ASSUME NEW d, NEW e, Later(d, e), NEW req
    PROVE  Legal(d, req) \subseteq Legal(e, req)
PROOF
  BY DEF Legal, Later, TypeAt

LEMMA RecallsLater ==
    ASSUME NEW d, NEW e, Later(d, e), NEW read, Recalls(d, read)
    PROVE  Recalls(e, read)
PROOF
  <1> SUFFICES ASSUME NEW p \in HasRead(read)
               PROVE  /\ Exists(e, p)
                      /\ read.pointer[p] \in Stored(e) /\ TypeAt(e, read.pointer[p]) \in MayHold(p)
                      /\ read.history[p] = <<Baseline(e, p)>>
    BY DEF Recalls
  <1>1. p \in Partitions
    BY DEF HasRead
  <1> QED BY <1>1 DEF Recalls, Later, TypeAt

LEMMA JobLater ==
    ASSUME NEW d, NEW e, Later(d, e), NEW job, JobInv(d, job)
    PROVE  JobInv(e, job)
PROOF
  <1>1. Legal(d, job.request) \subseteq Legal(e, job.request)
    BY LegalLater
  <1>2. job.todo \in Seq(Legal(e, job.request))
    BY <1>1 DEF JobInv
  <1>3. Recalls(e, job.read)
    BY RecallsLater DEF JobInv
  <1>4. Present(d) \subseteq Present(e)
    BY DEF Present, Later
  <1>5. Planned(job.todo, HasRead(job.read), Present(e))
    BY <1>4, PlannedMore DEF JobInv
  <1> QED BY <1>2, <1>3, <1>5 DEF JobInv

-----------------------------------------------------------------------------
(* What a request starts with                                                *)

(* The loop of merge_features_to_staged takes the first of those left.       *)
LEMMA FirstOfLeft ==
    ASSUME NEW left \in SUBSET Features, left # {}
    PROVE  FirstOf(left) \in left /\ \A f \in left : Rank[FirstOf(left)] <= Rank[f]
PROOF
  <1> DEFINE ranks == {Rank[f] : f \in left}
  <1>1. ranks \subseteq Nat /\ ranks # {}
    BY RankAssumption
  <1>2. PICK x \in ranks : \A y \in ranks : ~ (<<y, x>> \in OpToRel(<, Nat))
    BY <1>1, NatLessThanWellFounded, WFMin, Zenon
  <1>3. \A y \in ranks : ~ (y < x)
    BY <1>1, <1>2 DEF OpToRel
  <1>4. PICK f \in left : x = Rank[f]
    BY <1>2
  <1>5. \E g \in left : \A h \in left : Rank[g] <= Rank[h]
    <2>1. \A h \in left : /\ Rank[f] \in Nat /\ Rank[h] \in Nat
                          /\ ~ (Rank[h] < Rank[f])
      BY <1>3, <1>4, RankAssumption
    <2> QED BY <1>4, <2>1
  <1> QED BY <1>5, Zenon DEF FirstOf

(* Plans of the requests and of the rounds that do without anything read.    *)
Plan(d, req, todo) ==
    /\ todo \in Seq(Legal(d, req))
    /\ \A there : Planned(todo, {}, there)

LEMMA PlanJoin ==
    ASSUME NEW d, NEW req, NEW todo, NEW rest, Plan(d, req, todo), Plan(d, req, rest)
    PROVE  Plan(d, req, todo \o rest)
PROOF
  <1>1. todo \o rest \in Seq(Legal(d, req))
    BY DEF Plan
  <1>2. ASSUME NEW there
        PROVE  Planned(todo \o rest, {}, there)
    BY PlannedJoin DEF Plan
  <1> QED BY <1>1, <1>2 DEF Plan

(* One step that needs nothing.                                              *)
LEMMA PlanOne ==
    ASSUME NEW d, NEW req, NEW st \in Legal(d, req), Needs(st) = {}, Touches(st) = {}
    PROVE  Plan(d, req, <<st>>)
PROOF
  <1>1. <<st>> \in Seq(Legal(d, req)) /\ Len(<<st>>) = 1 /\ <<st>>[1] = st
    OBVIOUS
  <1>2. ASSUME NEW there
        PROVE  Planned(<<st>>, {}, there)
    BY <1>1 DEF Planned
  <1> QED BY <1>1, <1>2 DEF Plan

(* One that needs what the one before it reads.                              *)
LEMMA PlanTwo ==
    ASSUME NEW d, NEW req, NEW g \in Legal(d, req), NEW st \in Legal(d, req),
           Needs(g) = {}, Touches(g) = {}, ~ Clears(g),
           Needs(st) \cup Touches(st) \subseteq Supplies(g)
    PROVE  Plan(d, req, <<g, st>>)
PROOF
  <1> DEFINE todo == <<g, st>>
  <1>1. todo \in Seq(Legal(d, req)) /\ Len(todo) = 2 /\ todo[1] = g /\ todo[2] = st
    OBVIOUS
  <1> HIDE DEF todo
  <1>2. \A k \in 1..2 : \A p \in Needs(todo[k]) \cup Touches(todo[k]) :
            \E j \in 1..(k - 1) : p \in Supplies(todo[j])
    <2>1. ASSUME NEW p \in Needs(todo[2]) \cup Touches(todo[2])
          PROVE  p \in Supplies(todo[1])
      BY <1>1
    <2> QED BY <1>1, <2>1
  <1>3. \A k \in 1..2 : k < 2 => ~ Clears(todo[k])
    BY <1>1
  <1>4. ASSUME NEW there
        PROVE  Planned(todo, {}, there)
    BY <1>1, <1>2, <1>3, PlannedReads
  <1> QED BY <1>1, <1>4 DEF Plan, todo

(* One that needs what the two before it read.                               *)
LEMMA PlanThree ==
    ASSUME NEW d, NEW req, NEW g \in Legal(d, req), NEW h \in Legal(d, req), NEW st \in Legal(d, req),
           Needs(g) = {}, Touches(g) = {}, ~ Clears(g),
           Needs(h) \subseteq Supplies(g), Touches(h) = {}, ~ Clears(h),
           Needs(st) \subseteq Supplies(g) \cup Supplies(h), Touches(st) = {}
    PROVE  Plan(d, req, <<g, h, st>>)
PROOF
  <1> DEFINE todo == <<g, h, st>>
  <1>1. /\ todo \in Seq(Legal(d, req)) /\ Len(todo) = 3
        /\ todo[1] = g /\ todo[2] = h /\ todo[3] = st
    OBVIOUS
  <1> HIDE DEF todo
  <1>2. \A k \in 1..3 : \A p \in Needs(todo[k]) \cup Touches(todo[k]) :
            \E j \in 1..(k - 1) : p \in Supplies(todo[j])
    <2>1. ASSUME NEW p \in Needs(todo[2]) \cup Touches(todo[2])
          PROVE  p \in Supplies(todo[1])
      BY <1>1
    <2>2. ASSUME NEW p \in Needs(todo[3]) \cup Touches(todo[3])
          PROVE  p \in Supplies(todo[1]) \/ p \in Supplies(todo[2])
      BY <1>1
    <2> QED BY <1>1, <2>1, <2>2
  <1>3. \A k \in 1..3 : k < 3 => ~ Clears(todo[k])
    BY <1>1
  <1>4. ASSUME NEW there
        PROVE  Planned(todo, {}, there)
    BY <1>1, <1>2, <1>3, PlannedReads
  <1> QED BY <1>1, <1>4 DEF Plan, todo

(* The five steps of a submission.                                           *)
LEMMA PlanFive ==
    ASSUME NEW d, NEW req,
           NEW g1 \in Legal(d, req), NEW g2 \in Legal(d, req), NEW g3 \in Legal(d, req),
           NEW g4 \in Legal(d, req), NEW st \in Legal(d, req),
           \A g \in {g1, g2, g3, g4} : Touches(g) = {} /\ ~ Clears(g),
           Needs(g1) = {}, Needs(g2) \subseteq Supplies(g1), Needs(g3) = {}, Needs(g4) = {},
           Needs(st) \subseteq Supplies(g3) \cup Supplies(g4), Touches(st) = {}
    PROVE  Plan(d, req, <<g1, g2, g3, g4, st>>)
PROOF
  <1> DEFINE todo == <<g1, g2, g3, g4, st>>
  <1>1. /\ todo \in Seq(Legal(d, req)) /\ Len(todo) = 5
        /\ todo[1] = g1 /\ todo[2] = g2 /\ todo[3] = g3 /\ todo[4] = g4 /\ todo[5] = st
    OBVIOUS
  <1> HIDE DEF todo
  <1>2. \A k \in 1..5 : \A p \in Needs(todo[k]) \cup Touches(todo[k]) :
            \E j \in 1..(k - 1) : p \in Supplies(todo[j])
    <2>1. ASSUME NEW p \in Needs(todo[2]) \cup Touches(todo[2])
          PROVE  p \in Supplies(todo[1])
      BY <1>1
    <2>2. ASSUME NEW p \in Needs(todo[5]) \cup Touches(todo[5])
          PROVE  p \in Supplies(todo[3]) \/ p \in Supplies(todo[4])
      BY <1>1
    <2> QED BY <1>1, <2>1, <2>2
  <1>3. \A k \in 1..5 : k < 5 => ~ Clears(todo[k])
    BY <1>1
  <1>4. ASSUME NEW there
        PROVE  Planned(todo, {}, there)
    BY <1>1, <1>2, <1>3, PlannedReads
  <1> QED BY <1>1, <1>4 DEF Plan, todo

LEMMA EditPlan ==
    ASSUME NEW d, NEW req, NEW p \in {Manual} \cup {Agent(a) : a \in Agents}, Owns(req, p),
           NEW path \in Paths, NEW new \in Text
    PROVE  Plan(d, req, EditSteps(p, path, new))
PROOF
  <1> DEFINE what == [merge |-> "edit", part |-> p, path |-> path, new |-> new]
  <1>1. what \in Merges /\ what.merge = "edit" /\ p \in Partitions
    BY PartitionNames DEF Merges, BySource
  <1>2. Target(what) = p /\ Sources(what) = {p}
    BY <1>1, MergeKinds
  <1> HIDE DEF what
  <1>3. Get(p) \in Legal(d, req) /\ Make(what) \in Legal(d, req)
    BY <1>1, <1>2, LegalSteps
  <1>4. Plan(d, req, <<Get(p), Make(what)>>)
    BY <1>2, <1>3, StepTable, PlanTwo
  <1> QED BY <1>4 DEF EditSteps, what

LEMMA ManualMergePlan ==
    ASSUME NEW d, NEW req
    PROVE  Plan(d, req, <<Get(Manual), Get(Staged), Make([merge |-> "manual"])>>)
PROOF
  <1> DEFINE what == [merge |-> "manual"]
  <1>1. what \in Merges /\ what.merge = "manual"
    BY DEF Merges
  <1>2. Target(what) = Staged /\ Sources(what) = {Staged, Manual} /\ Owns(req, Staged)
    BY <1>1, MergeKinds, LayerNamesDiffer DEF Owns
  <1> HIDE DEF what
  <1>3. /\ Get(Manual) \in Legal(d, req) /\ Get(Staged) \in Legal(d, req)
        /\ Make(what) \in Legal(d, req)
    BY <1>1, <1>2, LegalSteps, PartitionNames
  <1>4. Plan(d, req, <<Get(Manual), Get(Staged), Make(what)>>)
    BY <1>2, <1>3, StepTable, PlanThree
  <1> QED BY <1>4 DEF what

LEMMA SubmitPlan ==
    ASSUME NEW d, NEW req, NEW a \in Agents
    PROVE  Plan(d, req, << Get(Staged), Found(Approval(a), Staged, "current"),
                           Get(Agent(a)), Get(Approval(a)),
                           Make([merge |-> "submit", agent |-> a]) >>)
PROOF
  <1> DEFINE what == [merge |-> "submit", agent |-> a]
  <1>1. what \in Merges /\ what.merge = "submit" /\ what.agent = a
    BY DEF Merges
  <1>2. /\ Target(what) = Approval(a) /\ Sources(what) = {Approval(a), Agent(a)}
        /\ Owns(req, Approval(a))
    BY <1>1, MergeKinds, LayerNamesDiffer DEF Owns
  <1> HIDE DEF what
  <1>3. /\ Get(Staged) \in Legal(d, req) /\ Get(Agent(a)) \in Legal(d, req)
        /\ Get(Approval(a)) \in Legal(d, req) /\ Make(what) \in Legal(d, req)
        /\ Found(Approval(a), Staged, "current") \in Legal(d, req)
    BY <1>1, <1>2, LegalSteps, PartitionNames, LayerNamesDiffer
  <1>4. /\ \A g \in {Get(Staged), Found(Approval(a), Staged, "current"),
                     Get(Agent(a)), Get(Approval(a))} : Touches(g) = {} /\ ~ Clears(g)
        /\ Needs(Get(Staged)) = {} /\ Needs(Get(Agent(a))) = {} /\ Needs(Get(Approval(a))) = {}
        /\ Needs(Found(Approval(a), Staged, "current")) \subseteq Supplies(Get(Staged))
        /\ Needs(Make(what)) \subseteq Supplies(Get(Agent(a))) \cup Supplies(Get(Approval(a)))
        /\ Touches(Make(what)) = {}
    BY <1>2, StepTable
  <1>5. Plan(d, req, << Get(Staged), Found(Approval(a), Staged, "current"),
                        Get(Agent(a)), Get(Approval(a)), Make(what) >>)
    BY <1>3, <1>4, PlanFive
  <1> QED BY <1>5 DEF what

LEMMA ApprovePlan ==
    ASSUME NEW d, NEW req, NEW a \in Agents, NEW f \in Features
    PROVE  Plan(d, req, ApproveAgentSteps(a, f))
PROOF
  <1> DEFINE what == [merge |-> "approve", agent |-> a, feature |-> f]
  <1>1. what \in Merges /\ what.merge = "approve" /\ what.agent = a /\ what.feature = f
    BY DEF Merges
  <1>2. /\ Target(what) = Feature(f) /\ Sources(what) = {Feature(f), Approval(a)}
        /\ Owns(req, Feature(f))
    BY <1>1, MergeKinds DEF Owns, Feature, Agent
  <1> HIDE DEF what
  <1>3. /\ Get(Approval(a)) \in Legal(d, req) /\ Make(what) \in Legal(d, req)
        /\ Found(Feature(f), Approval(a), "baseline") \in Legal(d, req)
    BY <1>1, <1>2, LegalSteps, PartitionNames, LayerNamesDiffer
  <1>4. Plan(d, req, <<Get(Approval(a)), Found(Feature(f), Approval(a), "baseline"), Make(what)>>)
    BY <1>2, <1>3, StepTable, PlanThree
  <1> QED BY <1>4 DEF ApproveAgentSteps, what

LEMMA RoundsPlan ==
    ASSUME NEW d, NEW req, NEW left \in SUBSET Features
    PROVE  Plan(d, req, RoundsOver(left))
PROOF
  <1>1. CASE left = {}
    <2>1. << >> \in Seq(Legal(d, req)) /\ Len(<< >>) = 0
      OBVIOUS
    <2> QED BY <1>1, <2>1 DEF RoundsOver, Plan, Planned
  <1>2. CASE left # {}
    <2> DEFINE f == FirstOf(left)
               what == [merge |-> "round", feature |-> f]
    <2>1. f \in Features
      BY <1>2, FirstOfLeft
    <2>2. what \in Merges /\ what.merge = "round" /\ what.feature = f
      BY <2>1 DEF Merges
    <2>3. Target(what) = Staged /\ Sources(what) = {Staged, Feature(f)} /\ Owns(req, Staged)
      BY <2>2, MergeKinds, LayerNamesDiffer DEF Owns
    <2>4. RoundsOver(left) =
            <<Get(Feature(f)), Get(Staged), Make(what)>> \o <<RoundsLeft(left \ {f})>>
      BY <1>2 DEF RoundsOver, RoundSteps, RoundsLeft
    <2> HIDE DEF f, what
    <2>5. /\ Get(Feature(f)) \in Legal(d, req) /\ Get(Staged) \in Legal(d, req)
          /\ Make(what) \in Legal(d, req) /\ RoundsLeft(left \ {f}) \in Legal(d, req)
      BY <2>1, <2>2, <2>3, LegalSteps, PartitionNames
    <2>6. Plan(d, req, <<Get(Feature(f)), Get(Staged), Make(what)>>)
      BY <2>3, <2>5, StepTable, PlanThree
    <2>7. Plan(d, req, <<RoundsLeft(left \ {f})>>)
      BY <2>5, StepTable, PlanOne
    <2> QED BY <2>4, <2>6, <2>7, PlanJoin
  <1> QED BY <1>1, <1>2

(* Every request that a transport accepts can be served to its end.          *)
LEMMA RequestPlan ==
    ASSUME NEW d, NEW req \in RequestKinds
    PROVE  Plan(d, req, StepsOf(req))
PROOF
  <1>1. CASE req.op = "edit"
    <2>1. req.path \in Paths /\ req.new \in Text /\ Owns(req, Manual)
      BY <1>1, LayerNamesDiffer DEF RequestKinds, Owns
    <2>2. StepsOf(req) = EditSteps(Manual, req.path, req.new)
                           \o <<Get(Manual), Get(Staged), Make([merge |-> "manual"])>>
      BY <1>1 DEF StepsOf
    <2> QED BY <2>1, <2>2, EditPlan, ManualMergePlan, PlanJoin
  <1>2. CASE req.op = "agent_edit"
    <2> DEFINE p == Agent(req.agent)
    <2>1. /\ req.agent \in Agents /\ req.path \in Paths /\ req.new \in Text
          /\ Named(req) = {req.agent}
      BY <1>2 DEF RequestKinds, Named
    <2>2. p \in Partitions \ {Manual} /\ Owns(req, p)
      BY <2>1, PartitionNames, LayerNamesDiffer DEF Owns, Agent
    <2>3. StepsOf(req) = <<Get(Staged), Found(p, Staged, "current")>>
                           \o EditSteps(p, req.path, req.new)
      BY <1>2 DEF StepsOf
    <2>4. Get(Staged) \in Legal(d, req) /\ Found(p, Staged, "current") \in Legal(d, req)
      BY <2>2, LegalSteps, PartitionNames
    <2>5. Plan(d, req, <<Get(Staged), Found(p, Staged, "current")>>)
      BY <2>4, StepTable, PlanTwo
    <2>6. Plan(d, req, EditSteps(p, req.path, req.new))
      BY <2>1, <2>2, EditPlan
    <2> QED BY <2>3, <2>5, <2>6, PlanJoin
  <1>3. CASE req.op = "agent_submit"
    <2>1. req.agent \in Agents
      BY <1>3 DEF RequestKinds
    <2> QED BY <1>3, <2>1, SubmitPlan DEF StepsOf
  <1>4. CASE req.op = "approve_agent"
    <2>1. req.agent \in Agents /\ req.feature \in Features
      BY <1>4 DEF RequestKinds
    <2> QED BY <1>4, <2>1, ApprovePlan DEF StepsOf
  <1>5. Plan(d, req, <<Step("list")>>) /\ Plan(d, req, <<Step("switch")>>)
    BY LegalSteps, StepTable, PlanOne
  <1>6. CASE req.op = "approve"
    <2>1. req.agent \in Agents /\ FeatureOf[req.agent] \in Features
      BY <1>6, FeatureOfAssumption DEF RequestKinds
    <2>2. StepsOf(req) = ApproveAgentSteps(req.agent, FeatureOf[req.agent]) \o <<Step("list")>>
      BY <1>6 DEF StepsOf
    <2> QED BY <1>5, <2>1, <2>2, ApprovePlan, PlanJoin
  <1>7. CASE req.op = "reject_agent"
    <2> DEFINE p == Approval(req.agent)
    <2>1. p \in Partitions /\ Owns(req, p)
      BY <1>7, PartitionNames, LayerNamesDiffer DEF RequestKinds, Owns
    <2>2. StepsOf(req) = <<Get(p), Reset(p)>>
      BY <1>7 DEF StepsOf
    <2> HIDE DEF p
    <2>3. Get(p) \in Legal(d, req) /\ Reset(p) \in Legal(d, req)
      BY <2>1, LegalSteps
    <2> QED BY <2>2, <2>3, StepTable, PlanTwo
  <1>8. CASE req.op = "merge_to_staged"
    BY <1>5, <1>8 DEF StepsOf
  <1>9. CASE req.op = "commit"
    <2>1. Get(Staged) \in Legal(d, req) /\ Step("commit") \in Legal(d, req)
      BY LegalSteps, PartitionNames
    <2>2. Plan(d, req, <<Get(Staged), Step("commit")>>)
      BY <2>1, StepTable, PlanTwo
    <2> QED BY <1>9, <2>2 DEF StepsOf
  <1>10. CASE req.op = "branch_switch"
    BY <1>5, <1>10 DEF StepsOf
  <1>11. req.op \in {"edit", "agent_edit", "agent_submit", "approve_agent", "approve",
                     "reject_agent", "merge_to_staged", "commit", "branch_switch"}
    BY DEF RequestKinds
  <1> QED BY <1>1, <1>2, <1>3, <1>4, <1>6, <1>7, <1>8, <1>9, <1>10, <1>11

-----------------------------------------------------------------------------
(* Edits and merges of what has been read                                    *)

(* Read when they were current, the pointers a merge works on name snapshots *)
(* of their layers, and the baselines ones that every layer may be made of.  *)
Readable(d, what) ==
    /\ d \in Databases /\ SnapshotGraph(d)
    /\ \A p \in Sources(what) :
          /\ d.pointer[p] \in Stored(d) /\ TypeAt(d, d.pointer[p]) \in MayHold(p)
          /\ Baseline(d, p) \in Stored(d) /\ TypeAt(d, Baseline(d, p)) \in Ground

(* A snapshot of the target's that may be made of what it is made of, or     *)
(* nothing to do.                                                            *)
MakesOne(d, e, p) ==
    \E s : Fits(d, s) /\ s.type = p /\ e \in {d, Advance(d, p, s)}

LEMMA MergeMakes ==
    ASSUME NEW d, NEW dst, NEW ids, NEW b, NEW o, NEW t, NEW source,
           Sides(d, dst, ids, b, o, t, source), Neighbours(d, dst, ids)
    PROVE  MakesOne(d, MergeInto(d, dst, ids, b, o, t, source), dst)
PROOF
  <1>1. PICK s : /\ Storable(d, s)
                 /\ s.type = dst /\ s.parents = ids
                 /\ MergeInto(d, dst, ids, b, o, t, source) \in {d, Advance(d, dst, s)}
    <2>1. PICK s : /\ Storable(d, s)
                   /\ s.type = dst /\ s.parents = ids
                   /\ MergeInto(d, dst, ids, b, o, t, source) =
                         IF Settled(d, ids, b, o, t) THEN d ELSE Advance(d, dst, s)
      BY MergeRow
    <2> QED BY <2>1
  <1>2. Fits(d, s)
    BY <1>1 DEF Fits, Neighbours
  <1> QED BY <1>1, <1>2 DEF MakesOne

LEMMA PairOfParents ==
    ASSUME NEW d \in Databases, NEW i \in Stored(d), NEW j \in Stored(d), NEW dst,
           TypeAt(d, i) \in MadeOf(dst), TypeAt(d, i) \in MayHold(dst), TypeAt(d, j) \in MadeOf(dst)
    PROVE  /\ <<i, j>> \in Seq(Nat) /\ Len(<<i, j>>) >= 2
           /\ \A k \in 1..Len(<<i, j>>) : <<i, j>>[k] \in Stored(d)
           /\ Neighbours(d, dst, <<i, j>>)
PROOF
  <1> DEFINE ids == <<i, j>>
  <1>1. ids \in Seq(Nat) /\ Len(ids) = 2 /\ ids[1] = i /\ ids[2] = j
    BY DEF Stored
  <1> HIDE DEF ids
  <1>2. \A k \in 1..2 : ids[k] \in Stored(d) /\ TypeAt(d, ids[k]) \in MadeOf(dst)
    BY <1>1
  <1>3. Neighbours(d, dst, ids)
    BY <1>1, <1>2 DEF Neighbours
  <1> QED BY <1>1, <1>2, <1>3 DEF ids

LEMMA EditMakes ==
    ASSUME NEW d, NEW what \in Merges, what.merge = "edit", Readable(d, what)
    PROVE  \E s : /\ Fits(d, s) /\ s.type = what.part /\ Yields(s, what.new)
                  /\ Effect(what, d) = IF CurrentText(d, what.part) = what.new
                                       THEN d ELSE Advance(d, what.part, s)
PROOF
  <1> DEFINE p == what.part
  <1>1. /\ p \in {Manual} \cup {Agent(a) : a \in Agents}
        /\ what.path \in Paths /\ what.new \in Text /\ Sources(what) = {p}
    BY MergeKinds
  <1>2. p \in Partitions /\ p \in BySource /\ MayHold(p) \subseteq MadeOf(p)
    BY <1>1, PartitionNames, MadeOfLayers, HeldTypes
  <1>3. d \in Databases /\ d.pointer[p] \in Stored(d) /\ TypeAt(d, d.pointer[p]) \in MayHold(p)
    BY <1>1 DEF Readable
  <1>4. PICK s : /\ Storable(d, s)
                 /\ s.type = p /\ s.parents = <<d.pointer[p]>>
                 /\ Yields(s, what.new)
                 /\ ApplyEdit(d, p, what.path, what.new) =
                       IF CurrentText(d, p) = what.new THEN d ELSE Advance(d, p, s)
    <2>1. PICK path \in Paths : path = what.path
      BY <1>1
    <2>2. PICK new \in Text : new = what.new
      BY <1>1
    <2> HIDE DEF p
    <2>3. \E s : /\ Storable(d, s)
                 /\ s.type = p /\ s.parents = <<d.pointer[p]>>
                 /\ Yields(s, new)
                 /\ ApplyEdit(d, p, path, new) = IF CurrentText(d, p) = new THEN d ELSE Advance(d, p, s)
      BY <1>2, <1>3, EditRow
    <2> QED BY <2>1, <2>2, <2>3
  <1>5. Effect(what, d) = ApplyEdit(d, p, what.path, what.new)
    BY DEF Effect
  <1>6. Fits(d, s)
    <2>1. Len(s.parents) = 1 /\ s.parents[1] = d.pointer[p]
      BY <1>4
    <2> QED BY <1>2, <1>3, <1>4, <2>1 DEF Fits
  <1> QED BY <1>4, <1>5, <1>6

LEMMA EffectMakes ==
    ASSUME NEW d, NEW what \in Merges, Readable(d, what)
    PROVE  MakesOne(d, Effect(what, d), Target(what))
PROOF
  <1>0. d \in Databases /\ SnapshotGraph(d)
    BY DEF Readable
  <1>1. CASE what.merge = "edit"
    <2>1. Target(what) = what.part
      BY <1>1, MergeKinds
    <2>2. PICK s : /\ Fits(d, s) /\ s.type = what.part
                   /\ Effect(what, d) = IF CurrentText(d, what.part) = what.new
                                        THEN d ELSE Advance(d, what.part, s)
      BY <1>1, EditMakes
    <2> QED BY <2>1, <2>2 DEF MakesOne
  <1>2. CASE what.merge = "manual"
    <2> DEFINE staged == d.pointer[Staged]
               manual == d.pointer[Manual]
               ids == <<staged, manual>>
    <2>1. Target(what) = Staged /\ Sources(what) = {Staged, Manual}
      BY <1>2, MergeKinds
    <2>2. /\ staged \in Stored(d) /\ TypeAt(d, staged) \in Ground
          /\ manual \in Stored(d) /\ TypeAt(d, manual) \in Ground
      BY <2>1, HeldTypes DEF Readable, Ground
    <2>3. /\ ids \in Seq(Nat) /\ Len(ids) >= 2
          /\ \A k \in 1..Len(ids) : ids[k] \in Stored(d)
          /\ Neighbours(d, Staged, ids)
      BY <1>0, <2>2, MadeOfLayers, HeldTypes, PairOfParents
    <2> HIDE DEF ids
    <2>4. Sides(d, Staged, ids, staged, staged, manual, Manual)
      BY <1>0, <2>2, <2>3, PartitionNames DEF Sides
    <2>5. Effect(what, d) = MergeInto(d, Staged, ids, staged, staged, manual, Manual)
      BY <1>2 DEF Effect, MergeManualToStaged, ids
    <2> QED BY <2>1, <2>3, <2>4, <2>5, MergeMakes
  <1>3. CASE what.merge = "submit"
    <2> DEFINE a == what.agent
               approval == d.pointer[Approval(a)]
               agent == d.pointer[Agent(a)]
               baseline == Baseline(d, Approval(a))
               ids == <<approval, agent>>
    <2>1. /\ a \in Agents /\ Target(what) = Approval(a)
          /\ Sources(what) = {Approval(a), Agent(a)}
      BY <1>3, MergeKinds
    <2>2. /\ approval \in Stored(d) /\ TypeAt(d, approval) \in Ground \cup {Approval(a)}
          /\ agent \in Stored(d) /\ TypeAt(d, agent) \in Ground \cup {Agent(a)}
          /\ baseline \in Stored(d)
      BY <2>1, HeldTypes DEF Readable
    <2>3. /\ ids \in Seq(Nat) /\ Len(ids) >= 2
          /\ \A k \in 1..Len(ids) : ids[k] \in Stored(d)
          /\ Neighbours(d, Approval(a), ids)
      <3>1. /\ TypeAt(d, approval) \in MadeOf(Approval(a))
            /\ TypeAt(d, approval) \in MayHold(Approval(a))
            /\ TypeAt(d, agent) \in MadeOf(Approval(a))
        BY <2>1, <2>2, MadeOfLayers, HeldTypes
      <3> QED BY <1>0, <2>2, <3>1, PairOfParents
    <2> HIDE DEF ids
    <2>4. Sides(d, Approval(a), ids, baseline, approval, agent, Agent(a))
      BY <1>0, <2>1, <2>2, <2>3, PartitionNames DEF Sides
    <2>5. Effect(what, d) = MergeInto(d, Approval(a), ids, baseline, approval, agent, Agent(a))
      BY <1>3 DEF Effect, MoveAgentToApproval, ids
    <2> QED BY <2>1, <2>3, <2>4, <2>5, MergeMakes
  <1>4. CASE what.merge = "approve"
    <2> DEFINE a == what.agent
               f == what.feature
               approval == d.pointer[Approval(a)]
               feature == d.pointer[Feature(f)]
               baseline == Baseline(d, Feature(f))
               ids == <<feature, approval, baseline>>
    <2>1. /\ a \in Agents /\ f \in Features /\ Target(what) = Feature(f)
          /\ Sources(what) = {Feature(f), Approval(a)}
      BY <1>4, MergeKinds
    <2>2. /\ approval \in Stored(d) /\ TypeAt(d, approval) \in Ground \cup {Approval(a)}
          /\ feature \in Stored(d) /\ TypeAt(d, feature) \in Ground \cup {Feature(f)}
          /\ baseline \in Stored(d) /\ TypeAt(d, baseline) \in Ground
      BY <2>1, HeldTypes DEF Readable
    <2>3. /\ ids \in Seq(Nat) /\ Len(ids) = 3
          /\ ids[1] = feature /\ ids[2] = approval /\ ids[3] = baseline
      BY <2>2 DEF Stored
    <2> HIDE DEF ids
    <2>4. \A k \in 1..3 : ids[k] \in Stored(d) /\ TypeAt(d, ids[k]) \in MadeOf(Feature(f))
      <3>1. /\ TypeAt(d, feature) \in MadeOf(Feature(f))
            /\ TypeAt(d, approval) \in MadeOf(Feature(f))
            /\ TypeAt(d, baseline) \in MadeOf(Feature(f))
        BY <2>1, <2>2, MadeOfLayers
      <3> QED BY <2>2, <2>3, <3>1
    <2>5. Neighbours(d, Feature(f), ids)
      <3>1. TypeAt(d, feature) \in MayHold(Feature(f))
        BY <2>1, <2>2, HeldTypes
      <3> QED BY <2>3, <2>4, <3>1 DEF Neighbours
    <2>6. Sides(d, Feature(f), ids, baseline, approval, feature, Agent(a))
      BY <1>0, <2>1, <2>2, <2>3, <2>4, PartitionNames DEF Sides
    <2>7. Effect(what, d) = MergeInto(d, Feature(f), ids, baseline, approval, feature, Agent(a))
      BY <1>4 DEF Effect, MergeApprovalIntoFeature, ids
    <2> QED BY <2>1, <2>5, <2>6, <2>7, MergeMakes
  <1>5. CASE what.merge = "round"
    <2> DEFINE f == what.feature
               staged == d.pointer[Staged]
               feature == d.pointer[Feature(f)]
               baseline == Baseline(d, Feature(f))
               ids == <<staged, feature>>
    <2>1. f \in Features /\ Target(what) = Staged /\ Sources(what) = {Staged, Feature(f)}
      BY <1>5, MergeKinds
    <2>2. /\ staged \in Stored(d) /\ TypeAt(d, staged) \in Ground
          /\ feature \in Stored(d) /\ TypeAt(d, feature) \in Ground \cup {Feature(f)}
          /\ baseline \in Stored(d)
      BY <2>1, HeldTypes DEF Readable
    <2>3. /\ ids \in Seq(Nat) /\ Len(ids) >= 2
          /\ \A k \in 1..Len(ids) : ids[k] \in Stored(d)
          /\ Neighbours(d, Staged, ids)
      <3>1. /\ TypeAt(d, staged) \in MadeOf(Staged) /\ TypeAt(d, staged) \in MayHold(Staged)
            /\ TypeAt(d, feature) \in MadeOf(Staged)
        BY <2>1, <2>2, MadeOfLayers, HeldTypes
      <3> QED BY <1>0, <2>2, <3>1, PairOfParents
    <2> HIDE DEF ids
    <2>4. Sides(d, Staged, ids, baseline, staged, feature, Manual)
      BY <1>0, <2>2, <2>3, PartitionNames DEF Sides
    <2>5. Effect(what, d) = MergeInto(d, Staged, ids, baseline, staged, feature, Manual)
      BY <1>5 DEF Effect, MergeFeatureToStaged, ids
    <2> QED BY <2>1, <2>3, <2>4, <2>5, MergeMakes
  <1> QED BY <1>1, <1>2, <1>3, <1>4, <1>5, MergeKinds

-----------------------------------------------------------------------------
(* One step of a request                                                     *)

LEMMA NothingIsRead ==
    /\ NothingRead \in Readings /\ HasRead(NothingRead) = {}
    /\ \A d : Recalls(d, NothingRead)
PROOF
  <1>1. NothingRead \in Readings
    BY DEF NothingRead, Readings, NoSnap
  <1>2. HasRead(NothingRead) = {}
    BY DEF NothingRead, HasRead
  <1> QED BY <1>1, <1>2 DEF Recalls

LEMMA IdleJob ==
    /\ Idle \in Jobs
    /\ \A d : JobInv(d, Idle)
PROOF
  <1>1. /\ Idle.todo = << >> /\ Idle.read = NothingRead /\ Idle.request = [op |-> "none"]
        /\ Len(<< >>) = 0
    BY DEF Idle
  <1>2. Idle \in Jobs
    BY NothingIsRead DEF Idle, Jobs
  <1>3. ASSUME NEW d
        PROVE  JobInv(d, Idle)
    <2>1. << >> \in Seq(Legal(d, Idle.request))
      OBVIOUS
    <2>2. Planned(<< >>, HasRead(NothingRead), Present(d))
      BY <1>1 DEF Planned
    <2> QED BY <1>1, <2>1, <2>2, NothingIsRead DEF JobInv
  <1> QED BY <1>2, <1>3

(* What the invariant says of the step a request takes next, and of the plan *)
(* it leaves.                                                                *)
LEMMA FirstStep ==
    ASSUME Inv, NEW c \in Clients, client[c].todo # << >>
    PROVE  /\ Sound(db) /\ client[c] \in Jobs
           /\ Now(c) \in Legal(db, client[c].request)
           /\ Rest(c) \in Seq(Legal(db, client[c].request))
           /\ Recalls(db, client[c].read)
           /\ Needs(Now(c)) \subseteq HasRead(client[c].read)
           /\ Touches(Now(c)) \subseteq Present(db)
           /\ \A h, t : /\ Supplies(Now(c)) \subseteq h
                        /\ Clears(Now(c)) \/ HasRead(client[c].read) \subseteq h
                        /\ Present(db) \cup Supplies(Now(c)) \subseteq t
                        => Planned(Rest(c), h, t)
PROOF
  <1>1. PICK todo : todo = client[c].todo
    OBVIOUS
  <1>2. PICK S : S = Legal(db, client[c].request)
    OBVIOUS
  <1>3. /\ Sound(db) /\ client[c] \in Jobs
        /\ todo \in Seq(S) /\ todo # << >>
        /\ Recalls(db, client[c].read)
        /\ Planned(todo, HasRead(client[c].read), Present(db))
    BY <1>1, <1>2 DEF Inv, TablesInv, JobInv
  <1>4. Now(c) = Head(todo) /\ Rest(c) = Tail(todo)
    BY <1>1 DEF Now, Rest
  <1>5. Head(todo) \in S /\ Tail(todo) \in Seq(S) /\ Head(todo) = todo[1] /\ Len(todo) \in Nat \ {0}
    BY <1>3
  <1>6. /\ Needs(todo[1]) \subseteq HasRead(client[c].read)
        /\ Touches(todo[1]) \subseteq Present(db)
    <2>1. 1 \in 1..Len(todo)
      BY <1>5
    <2> QED BY <1>3, <2>1 DEF Planned
  <1>7. ASSUME NEW h, NEW t,
               Supplies(Head(todo)) \subseteq h,
               Clears(Head(todo)) \/ HasRead(client[c].read) \subseteq h,
               Present(db) \cup Supplies(Head(todo)) \subseteq t
        PROVE  Planned(Tail(todo), h, t)
    <2>1. PICK have : have = HasRead(client[c].read)
      OBVIOUS
    <2>2. PICK there : there = Present(db)
      OBVIOUS
    <2> QED BY <1>3, <1>7, <2>1, <2>2, PlannedTail
  <1> QED BY <1>2, <1>3, <1>4, <1>5, <1>6, <1>7

(* The request goes on with a plan, or is done.                              *)
Continues(c) ==
    \E job \in Jobs :
        /\ client' = [client EXCEPT ![c] = job]
        /\ JobInv(db', job)
        /\ \/ job = Idle
           \/ /\ job.request = client[c].request
              /\ job.solo => client[c].solo

LEMMA RefusedContinues ==
    ASSUME NEW c \in Clients, Refused(c)
    PROVE  Continues(c)
PROOF
  BY IdleJob DEF Refused, Continues

LEMMA GoesOnContinues ==
    ASSUME Inv, NEW c \in Clients, NEW todo, NEW read, GoesOn(c, todo, read), Later(db, db'),
           todo \in Seq(Legal(db', client[c].request)),
           read \in Readings, Recalls(db', read), Planned(todo, HasRead(read), Present(db'))
    PROVE  Continues(c)
PROOF
  <1> DEFINE old == client[c]
             job == [old EXCEPT !.todo = todo, !.read = read]
  <1>1. client \in [Clients -> Jobs] /\ old \in Jobs
    BY DEF Inv
  <1>2. /\ job.todo = todo /\ job.read = read
        /\ job.request = old.request /\ job.solo = old.solo
    BY <1>1 DEF Jobs
  <1>3. todo \in Seq(Steps)
    BY DEF Legal
  <1>4. job \in Jobs
    BY <1>1, <1>3 DEF Jobs
  <1>5. client' = [client EXCEPT ![c] = job]
    BY <1>1 DEF GoesOn
  <1>6. JobInv(db', job)
    <2> HIDE DEF job, old
    <2> QED BY <1>2 DEF JobInv, old
  <1> QED BY <1>2, <1>4, <1>5, <1>6 DEF Continues

(* What a step of a request does, to the tables and to the request.          *)
Served(c) ==
    /\ TablesInv'
    /\ Later(db, db')
    /\ \A a \in Agents \ Named(client[c].request) : db'.pointer[Agent(a)] = db.pointer[Agent(a)]
    /\ Continues(c)

LEMMA TablesGoOn ==
    ASSUME TablesInv, Sound(db'), Later(db, db'), UNCHANGED <<head, committed>>
    PROVE  TablesInv'
PROOF
  <1>1. /\ committed' = committed /\ head' = head /\ committed \subseteq Stored(db)
        /\ \A id \in committed : TypeAt(db, id) \in Ground
        /\ head \in committed \cup {NoSnap}
    BY DEF TablesInv
  <1>2. \A id \in committed : id \in Stored(db') /\ TypeAt(db', id) = TypeAt(db, id)
    BY <1>1 DEF Later, TypeAt
  <1>3. committed' \subseteq Stored(db') /\ \A id \in committed' : TypeAt(db', id) \in Ground
    BY <1>1, <1>2
  <1> QED BY <1>1, <1>3 DEF TablesInv

LEMMA TablesStay ==
    ASSUME Inv, UNCHANGED <<db, head, committed>>
    PROVE  /\ TablesInv' /\ Later(db, db') /\ db' = db
           /\ \A a \in Agents : db'.pointer[Agent(a)] = db.pointer[Agent(a)]
PROOF
  BY TablesGoOn, LaterReflexive DEF Inv, TablesInv

(* A partition read as it is now is recalled.                                *)
LEMMA RecallsNow ==
    ASSUME NEW d, Sound(d), NEW read \in Readings, Recalls(d, read),
           NEW p \in Partitions, Exists(d, p)
    PROVE  LET now == Reads(read, p, d.pointer[p], Baseline(d, p))
           IN  /\ now \in Readings /\ Recalls(d, now)
               /\ HasRead(now) = HasRead(read) \cup {p}
PROOF
  <1> DEFINE now == Reads(read, p, d.pointer[p], Baseline(d, p))
  <1>1. /\ d.pointer[p] \in Stored(d) /\ Baseline(d, p) \in Stored(d)
        /\ TypeAt(d, d.pointer[p]) \in MayHold(p)
    BY PointersAreStored, HeldIsAllowed DEF Sound
  <1>2. read.pointer \in [Partitions -> Nat] /\ read.history \in [Partitions -> Seq(Nat)]
    BY DEF Readings
  <1>3. d.pointer[p] \in Nat \ {NoSnap} /\ Baseline(d, p) \in Nat
    BY <1>1 DEF Stored, NoSnap
  <1>4. /\ now.pointer = [read.pointer EXCEPT ![p] = d.pointer[p]]
        /\ now.history = [read.history EXCEPT ![p] = <<Baseline(d, p)>>]
    BY DEF Reads
  <1>5. now \in Readings
    <2>1. /\ [read.pointer EXCEPT ![p] = d.pointer[p]] \in [Partitions -> Nat]
          /\ [read.history EXCEPT ![p] = <<Baseline(d, p)>>] \in [Partitions -> Seq(Nat)]
      BY <1>2, <1>3
    <2>2. now = [pointer |-> [read.pointer EXCEPT ![p] = d.pointer[p]],
                 history |-> [read.history EXCEPT ![p] = <<Baseline(d, p)>>]]
      BY DEF Reads
    <2> QED BY <2>1, <2>2 DEF Readings
  <1> HIDE DEF now
  <1>6. HasRead(now) = HasRead(read) \cup {p}
    BY <1>2, <1>3, <1>4 DEF HasRead
  <1>7. Recalls(d, now)
    BY <1>1, <1>2, <1>4, <1>6 DEF Recalls, HasRead
  <1> QED BY <1>5, <1>6, <1>7 DEF now

-----------------------------------------------------------------------------
(* The storage calls                                                         *)

LEMMA GetPartitionServed ==
    ASSUME Inv, NEW c \in Clients, GetPartition(c)
    PROVE  Served(c)
PROOF
  <1> DEFINE p == Now(c).at
             old == client[c].read
             read == Reads(old, p, db.pointer[p], Baseline(db, p))
  <1>1. /\ UNCHANGED <<db, head, committed>>
        /\ client[c].todo # << >> /\ Now(c).do = "get"
    BY DEF GetPartition, Next1, Now
  <1>2. /\ TablesInv' /\ Later(db, db') /\ db' = db
        /\ \A a \in Agents : db'.pointer[Agent(a)] = db.pointer[Agent(a)]
    BY <1>1, TablesStay
  <1>3. p \in Partitions /\ Now(c) = Get(p)
    BY <1>1, FirstStep, LegalKinds
  <1>4. CASE ~ Exists(db, p)
    BY <1>2, <1>4, RefusedContinues DEF GetPartition, Served
  <1>5. CASE Exists(db, p)
    <2>1. GoesOn(c, Rest(c), read)
      BY <1>5 DEF GetPartition
    <2>2. Sound(db) /\ old \in Readings /\ Recalls(db, old)
      BY <1>1, FirstStep DEF Jobs
    <2>3. read \in Readings /\ Recalls(db, read) /\ HasRead(read) = HasRead(old) \cup {p}
      BY <1>3, <1>5, <2>2, RecallsNow
    <2>4. Present(db) \cup {p} \subseteq Present(db)
      BY <1>3, <1>5 DEF Present
    <2>5. Rest(c) \in Seq(Legal(db, client[c].request)) /\ Planned(Rest(c), HasRead(read), Present(db))
      <3> HIDE DEF read, p
      <3> QED BY <1>1, <1>3, <2>3, <2>4, FirstStep, StepTable DEF old
    <2>6. Continues(c)
      <3> HIDE DEF read
      <3> QED BY <1>2, <2>1, <2>3, <2>5, GoesOnContinues
    <2> QED BY <1>2, <2>6 DEF Served
  <1> QED BY <1>4, <1>5

LEMMA EnsurePartitionServed ==
    ASSUME Inv, NEW c \in Clients, EnsurePartition(c)
    PROVE  Served(c)
PROOF
  <1> DEFINE p == Now(c).part
             like == Now(c).like
             old == client[c].read
             id == IF Now(c).row = "current" THEN old.pointer[like] ELSE Head(old.history[like])
             read == Reads(old, p, db.pointer[p], Baseline(db, p))
             req == client[c].request
  <1>1. /\ UNCHANGED <<db, head, committed>>
        /\ client[c].todo # << >> /\ Now(c).do = "ensure"
    BY DEF EnsurePartition, Next1, Now
  <1>2. /\ TablesInv' /\ Later(db, db') /\ db' = db
        /\ \A a \in Agents : db'.pointer[Agent(a)] = db.pointer[Agent(a)]
    BY <1>1, TablesStay
  <1>3. /\ p \in Partitions \ {Manual} /\ like \in Partitions
        /\ Now(c).row = "current" => like = Staged
        /\ Owns(req, p)
        /\ Now(c) = Found(p, like, Now(c).row)
    BY <1>1, FirstStep, LegalKinds
  <1>4. /\ Sound(db) /\ old \in Readings /\ Recalls(db, old)
        /\ Rest(c) \in Seq(Legal(db, req))
        /\ like \in HasRead(old)
    <2>1. Needs(Now(c)) = {like}
      BY <1>3, StepTable
    <2> QED BY <1>1, <2>1, FirstStep DEF Jobs
  <1>5. \A h, t : {p} \subseteq h /\ HasRead(old) \subseteq h /\ Present(db) \cup {p} \subseteq t
                     => Planned(Rest(c), h, t)
    <2>1. Supplies(Now(c)) = {p}
      BY <1>3, StepTable
    <2> QED BY <1>1, <2>1, FirstStep
  <1>6. CASE Exists(db, p)
    <2>1. GoesOn(c, Rest(c), read)
      BY <1>6 DEF EnsurePartition
    <2>2. read \in Readings /\ Recalls(db, read) /\ HasRead(read) = HasRead(old) \cup {p}
      BY <1>3, <1>4, <1>6, RecallsNow
    <2>3. p \in Present(db)
      BY <1>3, <1>6 DEF Present
    <2> HIDE DEF read, p, old
    <2>4. Planned(Rest(c), HasRead(read), Present(db))
      BY <1>5, <2>2, <2>3
    <2>5. Continues(c)
      BY <1>2, <1>4, <2>1, <2>2, <2>4, GoesOnContinues
    <2> QED BY <1>2, <2>5 DEF Served
  <1>7. CASE ~ Exists(db, p)
    <2>1. GoesOn(c, <<Create(p, id)>> \o Rest(c), old)
      BY <1>7 DEF EnsurePartition, Create
    <2>2. id \in Stored(db) /\ TypeAt(db, id) \in Ground
      <3>1. /\ Exists(db, like) /\ old.pointer[like] \in Stored(db)
            /\ TypeAt(db, old.pointer[like]) \in MayHold(like)
            /\ old.history[like] = <<Baseline(db, like)>>
        BY <1>4 DEF Recalls
      <3>2. CASE Now(c).row = "current"
        BY <1>3, <3>1, <3>2, HeldTypes
      <3>3. CASE Now(c).row # "current"
        <4>1. id = Baseline(db, like)
          BY <3>1, <3>3
        <4> QED BY <1>3, <1>4, <3>1, <4>1, PointersAreStored, HeldIsAllowed DEF Sound
      <3> QED BY <3>2, <3>3
    <2> HIDE DEF id, p, old, req
    <2>3. Create(p, id) \in Legal(db, req)
      BY <1>3, <2>2, LegalSteps
    <2>4. <<Create(p, id)>> \o Rest(c) \in Seq(Legal(db, req))
      BY <1>4, <2>3
    <2>5. Planned(<<Create(p, id)>> \o Rest(c), HasRead(old), Present(db))
      <3>1. Planned(Rest(c), HasRead(old) \cup {p}, Present(db) \cup {p})
        BY <1>5
      <3> QED BY <1>4, <3>1, StepTable, PlannedPush
    <2>6. Continues(c)
      BY <1>2, <1>4, <2>1, <2>4, <2>5, GoesOnContinues DEF old, req
    <2> QED BY <1>2, <2>6 DEF Served
  <1> QED BY <1>6, <1>7

LEMMA CreatePartitionServed ==
    ASSUME Inv, NEW c \in Clients, CreatePartition(c)
    PROVE  Served(c)
PROOF
  <1> DEFINE p == Now(c).at
             id == Now(c).to
             old == client[c].read
             read == Reads(old, p, id, id)
             req == client[c].request
  <1>1. /\ UNCHANGED <<head, committed>>
        /\ client[c].todo # << >> /\ Now(c).do = "create"
    BY DEF CreatePartition, Next1, Now
  <1>2. /\ p \in Partitions \ {Manual}
        /\ id \in Stored(db) /\ TypeAt(db, id) \in Ground
        /\ Owns(req, p)
        /\ Now(c) = Create(p, id)
    BY <1>1, FirstStep, LegalKinds
  <1>3. CASE Exists(db, p)
    <2>1. Refused(c) /\ UNCHANGED db
      BY <1>3 DEF CreatePartition
    <2> QED BY <1>1, <2>1, TablesStay, RefusedContinues DEF Served
  <1>4. CASE ~ Exists(db, p)
    <2>1. /\ db' = Ensure(db, p, id)
          /\ GoesOn(c, Rest(c), read)
      BY <1>4 DEF CreatePartition, Ensure
    <2>2. /\ Sound(db) /\ old \in Readings /\ Recalls(db, old)
          /\ Rest(c) \in Seq(Legal(db, req))
      BY <1>1, FirstStep DEF Jobs
    <2>3. Sound(db') /\ Later(db, db') /\ Exists(db', p)
      BY <1>2, <2>1, <2>2, EnsureSound, EnsureKeeps DEF Sound
    <2>4. db'.pointer[p] = id /\ Baseline(db', p) = id
      <3>1. /\ db.pointer \in [Partitions -> Nat] /\ db.history \in [Partitions -> Seq(Nat)]
            /\ db \in Databases
        BY <2>2 DEF Sound, WellFormed, Databases
      <3>2. db'.pointer = [db.pointer EXCEPT ![p] = id] /\ db'.history = [db.history EXCEPT ![p] = <<id>>]
        BY <1>4, <2>1, <3>1 DEF Ensure, Databases
      <3> QED BY <1>2, <3>1, <3>2 DEF Baseline
    <2>5. \A a \in Agents \ Named(req) : db'.pointer[Agent(a)] = db.pointer[Agent(a)]
      <3>1. \A a \in Agents \ Named(req) : Agent(a) # p /\ Agent(a) \in Partitions
        BY <1>2, PartitionNames DEF Owns
      <3>2. \A q \in Partitions : q # p => db'.pointer[q] = db.pointer[q]
        BY <1>2, <2>1, <2>2, EnsureGrows DEF Sound
      <3> QED BY <3>1, <3>2
    <2>6. TablesInv'
      BY <1>1, <2>3, TablesGoOn DEF Inv
    <2>7. read \in Readings /\ Recalls(db', read) /\ HasRead(read) = HasRead(old) \cup {p}
      <3>1. Recalls(db', old)
        BY <2>2, <2>3, RecallsLater
      <3>2. read = Reads(old, p, db'.pointer[p], Baseline(db', p))
        BY <2>4
      <3> HIDE DEF read, p, id, old
      <3> QED BY <1>2, <2>2, <2>3, <3>1, <3>2, RecallsNow
    <2>8. Planned(Rest(c), HasRead(read), Present(db'))
      <3>1. Supplies(Now(c)) = {p}
        BY <1>2, StepTable
      <3>2. Present(db) \cup {p} \subseteq Present(db')
        BY <1>2, <2>3 DEF Present, Later
      <3> HIDE DEF read, p
      <3> QED BY <1>1, <2>7, <3>1, <3>2, FirstStep DEF old
    <2>9. Rest(c) \in Seq(Legal(db', req))
      <3>1. Legal(db, req) \subseteq Legal(db', req)
        BY <2>3, LegalLater
      <3> QED BY <2>2, <3>1
    <2>10. Continues(c)
      <3> HIDE DEF read
      <3> QED BY <2>1, <2>3, <2>7, <2>8, <2>9, GoesOnContinues
    <2> QED BY <2>3, <2>5, <2>6, <2>10 DEF Served
  <1> QED BY <1>3, <1>4

(* What the snapshot of an edit or merge is computed from.                   *)
LEMMA SeenReadable ==
    ASSUME Inv, NEW c \in Clients, client[c].todo # << >>, Now(c).do = "make"
    PROVE  /\ Now(c) = Make(Now(c).what) /\ Now(c).what \in Merges
           /\ Owns(client[c].request, Target(Now(c).what))
           /\ Readable(Seen(c), Now(c).what)
           /\ Sources(Now(c).what) \subseteq Present(db)
           /\ Seen(c).snaps = db.snaps /\ Seen(c).pointer = client[c].read.pointer
           /\ Sources(Now(c).what) \subseteq HasRead(client[c].read)
PROOF
  <1> DEFINE what == Now(c).what
             read == client[c].read
             d == Seen(c)
  <1>1. Now(c) = Make(what) /\ what \in Merges /\ Owns(client[c].request, Target(what))
    BY FirstStep, LegalKinds
  <1>2. Needs(Now(c)) = Sources(what)
    BY <1>1, StepTable
  <1>3. /\ Sound(db) /\ read \in Readings /\ Recalls(db, read)
        /\ Sources(what) \subseteq HasRead(read)
    BY <1>2, FirstStep DEF Jobs
  <1>4. d.snaps = db.snaps /\ d.pointer = read.pointer /\ d.history = read.history
    BY DEF Seen
  <1>5. Stored(d) = Stored(db) /\ \A i : TypeAt(d, i) = TypeAt(db, i)
    BY <1>4 DEF Stored, TypeAt
  <1>6. d \in Databases
    <2>1. db.snaps \in Seq(Snapshots)
      BY <1>3 DEF Sound, WellFormed, Databases
    <2> QED BY <1>3, <2>1 DEF Seen, Databases, Readings
  <1>7. SnapshotGraph(d)
    <2>1. SnapshotGraph(db)
      BY <1>3 DEF Sound, WellFormed
    <2> QED BY <1>4, <1>5, <2>1 DEF SnapshotGraph
  <1> HIDE DEF d, what, read
  <1>8. ASSUME NEW p \in Sources(what)
        PROVE  /\ d.pointer[p] \in Stored(d) /\ TypeAt(d, d.pointer[p]) \in MayHold(p)
               /\ Baseline(d, p) \in Stored(d) /\ TypeAt(d, Baseline(d, p)) \in Ground
               /\ p \in Present(db)
    <2>1. p \in HasRead(read) /\ p \in Partitions
      BY <1>3 DEF HasRead
    <2>2. /\ Exists(db, p)
          /\ read.pointer[p] \in Stored(db) /\ TypeAt(db, read.pointer[p]) \in MayHold(p)
          /\ read.history[p] = <<Baseline(db, p)>>
      BY <1>3, <2>1 DEF Recalls
    <2>3. Baseline(d, p) = Baseline(db, p)
      <3>1. Baseline(d, p) = Head(<<Baseline(db, p)>>)
        BY <1>4, <2>2 DEF Baseline
      <3> QED BY <3>1
    <2>4. Baseline(db, p) \in Stored(db) /\ TypeAt(db, Baseline(db, p)) \in Ground
      BY <1>3, <2>1, <2>2, PointersAreStored, HeldIsAllowed DEF Sound
    <2> QED BY <1>4, <1>5, <2>1, <2>2, <2>3, <2>4 DEF Present
  <1> QED BY <1>1, <1>3, <1>4, <1>6, <1>7, <1>8 DEF Readable, d, what, read

(* Rows are stored the same whatever the pointers.                           *)
LEMMA AdvanceStores ==
    ASSUME NEW d \in Databases, NEW e \in Databases, d.snaps = e.snaps,
           NEW p \in Partitions, NEW s \in Snapshots
    PROVE  /\ Advance(d, p, s).snaps = StoreSnapshot(e, s).snaps
           /\ Advance(d, p, s).pointer[p] = IdOf(StoreSnapshot(e, s), s)
           /\ [e EXCEPT !.snaps = StoreSnapshot(e, s).snaps] = StoreSnapshot(e, s)
           /\ Advance(d, p, s) # d
PROOF
  <1> DEFINE stored == StoreSnapshot(d, s)
             id == IdOf(stored, s)
             kept == StoreSnapshot(e, s)
  <1>1. /\ d.pointer \in [Partitions -> Nat] /\ d.history \in [Partitions -> Seq(Nat)]
        /\ d.snaps \in Seq(Snapshots)
    BY DEF Databases
  <1>2. stored.snaps = kept.snaps /\ stored.pointer = d.pointer /\ stored.history = d.history
    BY DEF StoreSnapshot, Databases
  <1>3. stored \in Databases
    <2>1. Append(d.snaps, s) \in Seq(Snapshots)
      BY <1>1
    <2> QED BY <2>1 DEF StoreSnapshot, Databases
  <1>4. id = IdOf(kept, s)
    BY <1>2 DEF IdOf
  <1>5. [e EXCEPT !.snaps = kept.snaps] = kept
    BY DEF StoreSnapshot, Databases
  <1> HIDE DEF stored, id, kept
  <1>6. /\ Advance(d, p, s).snaps = stored.snaps
        /\ Advance(d, p, s).pointer = [stored.pointer EXCEPT ![p] = id]
        /\ Advance(d, p, s).history = [stored.history EXCEPT ![p] = Append(@, id)]
    BY <1>3 DEF Advance, UpdatePointer, Databases, stored, id
  <1>7. Advance(d, p, s).pointer[p] = id
    BY <1>1, <1>2, <1>6
  <1>8. Advance(d, p, s).history[p] # d.history[p]
    <2>1. Advance(d, p, s).history[p] = Append(d.history[p], id)
      BY <1>1, <1>2, <1>6
    <2>2. d.history[p] \in Seq(Nat)
      BY <1>1
    <2>3. Len(Append(d.history[p], id)) = Len(d.history[p]) + 1 /\ Len(d.history[p]) \in Nat
      BY <2>2
    <2> QED BY <2>1, <2>3
  <1> QED BY <1>2, <1>4, <1>5, <1>6, <1>7, <1>8 DEF kept

(* The moves that follow a snapshot find what they move.                     *)
LEMMA MovesPlan ==
    ASSUME NEW e, NEW req, NEW what \in Merges, Owns(req, Target(what)),
           NEW id \in Stored(e), TypeAt(e, id) \in MayHold(Target(what)),
           NEW there, Sources(what) \subseteq there
    PROVE  /\ PointerMoves(what, id) \in Seq(Legal(e, req))
           /\ Planned(PointerMoves(what, id), {}, there)
PROOF
  <1> DEFINE p == Target(what)
             todo == PointerMoves(what, id)
  <1>1. p \in Partitions /\ p \in there
    BY MergeKinds
  <1>2. Move(p, id) \in Legal(e, req)
    BY <1>1, LegalSteps
  <1>3. CASE what.merge # "approve"
    <2>1. todo = <<Move(p, id)>>
      BY <1>3 DEF PointerMoves
    <2>2. todo \in Seq(Legal(e, req)) /\ Len(todo) = 1 /\ todo[1] = Move(p, id)
      BY <1>2, <2>1
    <2> HIDE DEF todo, p
    <2>3. Needs(todo[1]) = {} /\ Touches(todo[1]) = {p}
      BY <2>2, StepTable
    <2>4. Planned(todo, {}, there)
      BY <1>1, <2>2, <2>3 DEF Planned
    <2> QED BY <2>2, <2>4 DEF todo
  <1>4. CASE what.merge = "approve"
    <2> DEFINE q == Approval(what.agent)
    <2>1. what.agent \in Agents /\ q \in there /\ q \in Partitions
      BY <1>4, MergeKinds
    <2>2. Reset(q) \in Legal(e, req)
      BY <2>1, LegalSteps, LayerNamesDiffer DEF Owns
    <2>3. todo = <<Move(p, id), Reset(q)>>
      BY <1>4 DEF PointerMoves
    <2>4. /\ todo \in Seq(Legal(e, req)) /\ Len(todo) = 2
          /\ todo[1] = Move(p, id) /\ todo[2] = Reset(q)
      BY <1>2, <2>2, <2>3
    <2> HIDE DEF todo, p, q
    <2>5. /\ Needs(todo[1]) = {} /\ Touches(todo[1]) = {p}
          /\ Needs(todo[2]) = {} /\ Touches(todo[2]) = {q}
      BY <2>4, StepTable
    <2>6. Planned(todo, {}, there)
      BY <1>1, <2>1, <2>4, <2>5 DEF Planned
    <2> QED BY <2>4, <2>6 DEF todo
  <1> QED BY <1>3, <1>4

(* A request that has forgotten what it read goes on with a plan of its own  *)
(* and then the rest.                                                        *)
LEMMA ForgetsContinues ==
    ASSUME Inv, NEW c \in Clients, client[c].todo # << >>, Clears(Now(c)), Supplies(Now(c)) = {},
           Later(db, db'), NEW todo, GoesOn(c, todo \o Rest(c), NothingRead),
           todo \in Seq(Legal(db', client[c].request)), Planned(todo, {}, Present(db'))
    PROVE  Continues(c)
PROOF
  <1>1. Rest(c) \in Seq(Legal(db', client[c].request))
    <2>1. Rest(c) \in Seq(Legal(db, client[c].request))
      BY FirstStep
    <2>2. Legal(db, client[c].request) \subseteq Legal(db', client[c].request)
      BY LegalLater
    <2> QED BY <2>1, <2>2
  <1>2. Planned(Rest(c), {}, Present(db'))
    <2>1. Present(db) \subseteq Present(db')
      BY DEF Present, Later
    <2> QED BY <2>1, FirstStep
  <1>3. todo \o Rest(c) \in Seq(Legal(db', client[c].request))
    BY <1>1
  <1>4. Planned(todo \o Rest(c), {}, Present(db'))
    BY <1>1, <1>2, PlannedJoin
  <1> QED BY <1>3, <1>4, NothingIsRead, GoesOnContinues

(* The same where only the rest is left.                                     *)
LEMMA RestContinues ==
    ASSUME Inv, NEW c \in Clients, client[c].todo # << >>, Clears(Now(c)), Supplies(Now(c)) = {},
           Later(db, db'), GoesOn(c, Rest(c), NothingRead)
    PROVE  Continues(c)
PROOF
  <1>1. Rest(c) \in Seq(Legal(db', client[c].request))
    <2>1. Rest(c) \in Seq(Legal(db, client[c].request))
      BY FirstStep
    <2>2. Legal(db, client[c].request) \subseteq Legal(db', client[c].request)
      BY LegalLater
    <2> QED BY <2>1, <2>2
  <1>2. Planned(Rest(c), {}, Present(db'))
    <2>1. Present(db) \subseteq Present(db')
      BY DEF Present, Later
    <2> QED BY <2>1, FirstStep
  <1> QED BY <1>1, <1>2, NothingIsRead, GoesOnContinues

LEMMA MakeSnapshotServed ==
    ASSUME Inv, NEW c \in Clients, MakeSnapshot(c)
    PROVE  Served(c)
PROOF
  <1> DEFINE what == Now(c).what
             p == Target(what)
             out == Effect(what, Seen(c))
             req == client[c].request
  <1>1. /\ UNCHANGED <<head, committed>>
        /\ client[c].todo # << >> /\ Now(c).do = "make"
        /\ db' = [db EXCEPT !.snaps = out.snaps]
        /\ GoesOn(c, (IF out = Seen(c) THEN << >> ELSE PointerMoves(what, out.pointer[p]))
                        \o Rest(c), NothingRead)
    BY DEF MakeSnapshot, Next1, Now
  <1>2. /\ Now(c) = Make(what) /\ what \in Merges /\ Owns(req, p)
        /\ Readable(Seen(c), what) /\ Sources(what) \subseteq Present(db)
        /\ Seen(c).snaps = db.snaps
    BY <1>1, SeenReadable
  <1>3. Sound(db) /\ db \in Databases /\ Seen(c) \in Databases
    BY <1>1, <1>2, FirstStep DEF Sound, WellFormed, Readable
  <1>4. Clears(Now(c)) /\ Supplies(Now(c)) = {} /\ p \in Partitions
    BY <1>2, StepTable, MergeKinds
  <1>5. CASE out = Seen(c)
    <2>1. db' = db
      BY <1>1, <1>2, <1>3, <1>5 DEF Databases
    <2>2. << >> \in Seq(Legal(db', req)) /\ Planned(<< >>, {}, Present(db'))
      <3>1. Len(<< >>) = 0 /\ << >> \in Seq(Legal(db', req))
        OBVIOUS
      <3> QED BY <3>1 DEF Planned
    <2>3. /\ TablesInv' /\ Later(db, db')
          /\ \A a \in Agents : db'.pointer[Agent(a)] = db.pointer[Agent(a)]
      BY <1>1, <2>1, TablesStay
    <2>4. GoesOn(c, << >> \o Rest(c), NothingRead)
      BY <1>1, <1>5
    <2>5. Continues(c)
      BY <1>1, <1>4, <2>2, <2>3, <2>4, ForgetsContinues
    <2> QED BY <2>3, <2>5 DEF Served
  <1>6. CASE out # Seen(c)
    <2>1. PICK s : Fits(Seen(c), s) /\ s.type = p /\ out = Advance(Seen(c), p, s)
      BY <1>2, <1>6, EffectMakes DEF MakesOne
    <2>2. Fits(db, s) /\ s \in Snapshots
      BY <1>2, <2>1 DEF Fits, Storable, Stored, TypeAt
    <2> DEFINE stored == StoreSnapshot(db, s)
               id == IdOf(stored, s)
    <2>3. db' = stored /\ out.pointer[p] = id
      <3> HIDE DEF out, p
      <3> QED BY <1>1, <1>2, <1>3, <1>4, <2>1, <2>2, AdvanceStores
    <2>4. /\ Sound(db') /\ Later(db, db')
          /\ id \in Stored(db') /\ db'.snaps[id] = s
          /\ db'.pointer = db.pointer
      BY <1>3, <2>2, <2>3, StoreSound, StoreSnapshotKeeps DEF Sound, Fits
    <2>5. TablesInv'
      BY <1>1, <2>4, TablesGoOn DEF Inv
    <2>6. GoesOn(c, PointerMoves(what, id) \o Rest(c), NothingRead)
      BY <1>1, <1>6, <2>3
    <2>7. /\ PointerMoves(what, id) \in Seq(Legal(db', req))
          /\ Planned(PointerMoves(what, id), {}, Present(db'))
      <3>1. TypeAt(db', id) \in MayHold(p)
        BY <1>4, <2>1, <2>4, HeldTypes DEF TypeAt
      <3>2. Sources(what) \subseteq Present(db')
        BY <1>2, <2>4 DEF Present, Later
      <3> HIDE DEF id
      <3> QED BY <1>2, <2>4, <3>1, <3>2, MovesPlan
    <2>8. Continues(c)
      <3> HIDE DEF id
      <3> QED BY <1>1, <1>4, <2>4, <2>6, <2>7, ForgetsContinues
    <2> QED BY <2>4, <2>5, <2>8 DEF Served
  <1> QED BY <1>5, <1>6

LEMMA MovePointerServed ==
    ASSUME Inv, NEW c \in Clients, MovePointer(c)
    PROVE  Served(c)
PROOF
  <1> DEFINE p == Now(c).at
             id == Now(c).to
             read == client[c].read
             req == client[c].request
  <1>1. /\ UNCHANGED <<head, committed>>
        /\ client[c].todo # << >> /\ Now(c).do = "move"
        /\ db' = UpdatePointer(db, p, id)
        /\ GoesOn(c, Rest(c), read)
    BY DEF MovePointer, Next1, Now
  <1>2. /\ p \in Partitions
        /\ id \in Stored(db) /\ TypeAt(db, id) \in MayHold(p)
        /\ Owns(req, p)
        /\ Now(c) = Move(p, id)
    BY <1>1, FirstStep, LegalKinds
  <1>3. Supplies(Now(c)) = {} /\ Touches(Now(c)) = {p}
    BY <1>2, StepTable
  <1>4. /\ Sound(db) /\ read \in Readings /\ Recalls(db, read)
        /\ Rest(c) \in Seq(Legal(db, req)) /\ Exists(db, p)
    BY <1>1, <1>3, FirstStep DEF Jobs, Present
  <1>5. Sound(db') /\ Later(db, db')
    BY <1>1, <1>2, <1>4, UpdatePointerSound, UpdatePointerKeeps DEF Sound
  <1>6. TablesInv'
    BY <1>1, <1>5, TablesGoOn DEF Inv
  <1>7. \A a \in Agents \ Named(req) : db'.pointer[Agent(a)] = db.pointer[Agent(a)]
    <2>1. \A a \in Agents \ Named(req) : Agent(a) # p /\ Agent(a) \in Partitions
      BY <1>2, PartitionNames DEF Owns
    <2>2. \A q \in Partitions \ {p} : db'.pointer[q] = db.pointer[q]
      BY <1>1, <1>2, <1>4, UpdateMoves DEF Sound, Moved
    <2> QED BY <2>1, <2>2
  <1>8. Recalls(db', read)
    BY <1>4, <1>5, RecallsLater
  <1>9. Rest(c) \in Seq(Legal(db', req))
    <2>1. Legal(db, req) \subseteq Legal(db', req)
      BY <1>5, LegalLater
    <2> QED BY <1>4, <2>1
  <1>10. Planned(Rest(c), HasRead(read), Present(db'))
    <2>1. Present(db) \subseteq Present(db')
      BY <1>5 DEF Present, Later
    <2> QED BY <1>1, <1>3, <2>1, FirstStep
  <1>11. Continues(c)
    BY <1>1, <1>4, <1>5, <1>8, <1>9, <1>10, GoesOnContinues
  <1> QED BY <1>5, <1>6, <1>7, <1>11 DEF Served

LEMMA ResetApprovalServed ==
    ASSUME Inv, NEW c \in Clients, ResetApproval(c)
    PROVE  Served(c)
PROOF
  <1> DEFINE p == Now(c).at
             req == client[c].request
  <1>1. /\ UNCHANGED <<head, committed>>
        /\ client[c].todo # << >> /\ Now(c).do = "reset"
        /\ db' = ResetToBaseline(db, p)
        /\ GoesOn(c, Rest(c), NothingRead)
    BY DEF ResetApproval, Next1, Now
  <1>2. p \in Partitions /\ Owns(req, p) /\ Now(c) = Reset(p)
    BY <1>1, FirstStep, LegalKinds
  <1>3. Supplies(Now(c)) = {} /\ Clears(Now(c)) /\ Touches(Now(c)) = {p}
    BY <1>2, StepTable
  <1>4. Sound(db) /\ Exists(db, p)
    BY <1>1, <1>3, FirstStep DEF Present
  <1>5. Sound(db') /\ Later(db, db')
    BY <1>1, <1>2, <1>4, ResetSound, ResetKeeps DEF Sound
  <1>6. TablesInv'
    BY <1>1, <1>5, TablesGoOn DEF Inv
  <1>7. \A a \in Agents \ Named(req) : db'.pointer[Agent(a)] = db.pointer[Agent(a)]
    <2>1. \A a \in Agents \ Named(req) : Agent(a) # p /\ Agent(a) \in Partitions
      BY <1>2, PartitionNames DEF Owns
    <2>2. db.pointer \in [Partitions -> Nat] /\ db \in Databases
      BY <1>4 DEF Sound, WellFormed, Databases
    <2>3. db'.pointer = [db.pointer EXCEPT ![p] = Baseline(db, p)]
      BY <1>1, <2>2 DEF ResetToBaseline, Databases
    <2> QED BY <2>1, <2>2, <2>3
  <1>8. Continues(c)
    BY <1>1, <1>3, <1>5, RestContinues
  <1> QED BY <1>5, <1>6, <1>7, <1>8 DEF Served

LEMMA ListFeaturesServed ==
    ASSUME Inv, NEW c \in Clients, ListFeatures(c)
    PROVE  Served(c)
PROOF
  <1>1. /\ UNCHANGED <<db, head, committed>>
        /\ client[c].todo # << >> /\ Now(c).do = "list"
        /\ GoesOn(c, RoundsOver(Existing(db)) \o Rest(c), NothingRead)
    BY DEF ListFeatures, Next1, Now
  <1>2. Now(c) = Step("list")
    BY <1>1, FirstStep, LegalKinds
  <1>3. Supplies(Now(c)) = {} /\ Clears(Now(c))
    BY <1>2, StepTable
  <1>4. /\ TablesInv' /\ Later(db, db') /\ db' = db
        /\ \A a \in Agents : db'.pointer[Agent(a)] = db.pointer[Agent(a)]
    BY <1>1, TablesStay
  <1>5. Plan(db', client[c].request, RoundsOver(Existing(db)))
    BY RoundsPlan DEF Existing
  <1>6. Continues(c)
    BY <1>1, <1>3, <1>4, <1>5, ForgetsContinues DEF Plan
  <1> QED BY <1>4, <1>6 DEF Served

LEMMA NextRoundServed ==
    ASSUME Inv, NEW c \in Clients, NextRound(c)
    PROVE  Served(c)
PROOF
  <1>1. /\ UNCHANGED <<db, head, committed>>
        /\ client[c].todo # << >> /\ Now(c).do = "rounds"
        /\ GoesOn(c, RoundsOver(Now(c).left) \o Rest(c), NothingRead)
    BY DEF NextRound, Next1, Now
  <1>2. Now(c) = RoundsLeft(Now(c).left) /\ Now(c).left \in SUBSET Features
    BY <1>1, FirstStep, LegalKinds
  <1>3. Supplies(Now(c)) = {} /\ Clears(Now(c))
    BY <1>2, StepTable
  <1>4. /\ TablesInv' /\ Later(db, db') /\ db' = db
        /\ \A a \in Agents : db'.pointer[Agent(a)] = db.pointer[Agent(a)]
    BY <1>1, TablesStay
  <1>5. Plan(db', client[c].request, RoundsOver(Now(c).left))
    BY <1>2, RoundsPlan
  <1>6. Continues(c)
    BY <1>1, <1>3, <1>4, <1>5, ForgetsContinues DEF Plan
  <1> QED BY <1>4, <1>6 DEF Served

LEMMA CommitReadServed ==
    ASSUME Inv, NEW c \in Clients, CommitRead(c)
    PROVE  Served(c)
PROOF
  <1> DEFINE id == client[c].read.pointer[Staged]
  <1>1. UNCHANGED db /\ client[c].todo # << >> /\ Now(c).do = "commit"
    BY DEF CommitRead, Next1, Now
  <1>2. Now(c) = Step("commit")
    BY <1>1, FirstStep, LegalKinds
  <1>3. Supplies(Now(c)) = {} /\ Clears(Now(c)) /\ Needs(Now(c)) = {Staged}
    BY <1>2, StepTable
  <1>4. Sound(db) /\ id \in Stored(db) /\ TypeAt(db, id) \in Ground
    BY <1>1, <1>3, FirstStep, HeldTypes DEF Recalls
  <1>5. TablesInv
    BY DEF Inv
  <1>6. CASE id = head
    <2>1. Refused(c) /\ UNCHANGED <<head, committed>>
      BY <1>6 DEF CommitRead
    <2> QED BY <1>1, <2>1, TablesStay, RefusedContinues DEF Served
  <1>7. CASE id # head
    <2>1. head' = id /\ committed' = committed \cup {id} /\ GoesOn(c, Rest(c), NothingRead)
      BY <1>7 DEF CommitRead
    <2>2. db' = db /\ Later(db, db')
      BY <1>1, LaterReflexive
    <2>3. TablesInv'
      BY <1>4, <1>5, <2>1, <2>2 DEF TablesInv
    <2>4. Continues(c)
      BY <1>1, <1>3, <2>1, <2>2, RestContinues
    <2> QED BY <2>2, <2>3, <2>4 DEF Served
  <1> QED BY <1>6, <1>7

LEMMA SwitchBranchServed ==
    ASSUME Inv, NEW c \in Clients, SwitchBranch(c)
    PROVE  Served(c)
PROOF
  <1>1. /\ UNCHANGED committed
        /\ client[c].todo # << >> /\ Now(c).do = "switch"
    BY DEF SwitchBranch, Next1, Now
  <1>2. Now(c) = Step("switch")
    BY <1>1, FirstStep, LegalKinds
  <1>3. Supplies(Now(c)) = {} /\ Clears(Now(c))
    BY <1>2, StepTable
  <1>4. CASE committed = {}
    <2>1. Refused(c) /\ UNCHANGED <<db, head>>
      BY <1>4 DEF SwitchBranch
    <2> QED BY <1>1, <2>1, TablesStay, RefusedContinues DEF Served
  <1>5. CASE committed # {}
    <2>1. PICK id \in committed : /\ head' = id
                                  /\ db' = UpdatePointer(db, Staged, id)
                                  /\ GoesOn(c, Rest(c), NothingRead)
      BY <1>5 DEF SwitchBranch
    <2>2. /\ TablesInv /\ Sound(db) /\ Exists(db, Staged) /\ Staged \in Partitions
          /\ id \in Stored(db) /\ TypeAt(db, id) \in MayHold(Staged)
      BY PartitionNames, HeldTypes DEF Inv, TablesInv, Sound, WellFormed
    <2>3. Sound(db') /\ Later(db, db')
      BY <2>1, <2>2, UpdatePointerSound, UpdatePointerKeeps DEF Sound
    <2>4. TablesInv'
      <3>1. \A i \in committed : i \in Stored(db') /\ TypeAt(db', i) = TypeAt(db, i)
        BY <2>2, <2>3 DEF TablesInv, Later, TypeAt
      <3> QED BY <1>1, <2>1, <2>2, <2>3, <3>1 DEF TablesInv
    <2>5. \A a \in Agents : db'.pointer[Agent(a)] = db.pointer[Agent(a)]
      <3>1. \A q \in Partitions \ {Staged} : db'.pointer[q] = db.pointer[q]
        BY <2>1, <2>2, UpdateMoves DEF Sound, Moved
      <3> QED BY <3>1, PartitionNames, LayerNamesDiffer
    <2>6. Continues(c)
      BY <1>1, <1>3, <2>1, <2>3, RestContinues
    <2> QED BY <2>3, <2>4, <2>5, <2>6 DEF Served
  <1> QED BY <1>4, <1>5

LEMMA AnswerServed ==
    ASSUME Inv, NEW c \in Clients, Answer(c)
    PROVE  Served(c)
PROOF
  BY TablesStay, RefusedContinues DEF Answer, Refused, Served

LEMMA ServeServed ==
    ASSUME Inv, NEW c \in Clients, Serve(c)
    PROVE  Served(c)
PROOF
  BY GetPartitionServed, EnsurePartitionServed, CreatePartitionServed, MakeSnapshotServed,
     MovePointerServed, ResetApprovalServed, ListFeaturesServed, NextRoundServed,
     CommitReadServed, SwitchBranchServed, AnswerServed
  DEF Serve

-----------------------------------------------------------------------------
(* Type correctness and the tables                                           *)

LEMMA InitInv ==
    ASSUME Init
    PROVE  Inv
PROOF
  <1>1. /\ db = InitDatabase /\ head = NoSnap /\ committed = {}
        /\ client = [c \in Clients |-> Idle]
    BY DEF Init
  <1>2. TablesInv
    BY <1>1, InitDatabaseSound DEF TablesInv
  <1> QED BY <1>1, <1>2, IdleJob DEF Inv

(* A request a transport accepts begins with its plan; the others go on as   *)
(* they were, but for what is remembered of their company.                   *)
LEMMA BeginInv ==
    ASSUME Inv, NEW c \in Clients, NEW req \in Requests, Begin(c, req)
    PROVE  Inv'
PROOF
  <1>1. /\ UNCHANGED <<db, head, committed>> /\ req \in RequestKinds
        /\ client \in [Clients -> Jobs] /\ \A b \in Clients : JobInv(db, client[b])
        /\ Sound(db)
    BY RequestsAssumption DEF Begin, Inv, TablesInv
  <1> DEFINE rivals == {b \in Busy : Named(client[b].request) \cap Named(req) # {}}
             fresh == [request |-> req, todo |-> StepsOf(req), read |-> NothingRead,
                       alone |-> Busy = {}, solo |-> rivals = {},
                       began |-> IF Busy = {} THEN {db} ELSE {}]
             stale(b) == [client[b] EXCEPT !.alone = FALSE, !.began = {},
                                           !.solo = @ /\ b \notin rivals]
  <1>2. client' = [b \in Clients |-> IF b = c THEN fresh
                                     ELSE IF b \in Busy THEN stale(b) ELSE Idle]
    BY DEF Begin
  <1>3. Plan(db, req, StepsOf(req))
    BY <1>1, RequestPlan
  <1>4. fresh \in Jobs /\ JobInv(db, fresh)
    <2>1. StepsOf(req) \in Seq(Steps)
      BY <1>3 DEF Plan, Legal
    <2>2. (IF Busy = {} THEN {db} ELSE {}) \in SUBSET Databases
      BY <1>1 DEF Sound, WellFormed
    <2>3. (Busy = {}) \in BOOLEAN /\ (rivals = {}) \in BOOLEAN
      OBVIOUS
    <2>4. /\ fresh.todo = StepsOf(req) /\ fresh.read = NothingRead /\ fresh.request = req
      OBVIOUS
    <2>5. fresh \in Jobs
      <3> HIDE DEF rivals
      <3> QED BY <1>1, <2>1, <2>2, <2>3, NothingIsRead DEF Jobs
    <2> HIDE DEF fresh
    <2> QED BY <1>3, <2>4, <2>5, NothingIsRead DEF JobInv, Plan
  <1>5. ASSUME NEW b \in Clients
        PROVE  stale(b) \in Jobs /\ JobInv(db, stale(b))
    <2>1. /\ stale(b).todo = client[b].todo /\ stale(b).read = client[b].read
          /\ stale(b).request = client[b].request
      BY <1>1 DEF Jobs
    <2>2. stale(b) \in Jobs
      <3>1. (client[b].solo /\ b \notin rivals) \in BOOLEAN
        OBVIOUS
      <3> HIDE DEF rivals
      <3> QED BY <1>1, <3>1 DEF Jobs
    <2> HIDE DEF stale
    <2> QED BY <1>1, <2>1, <2>2 DEF JobInv
  <1> HIDE DEF fresh, stale
  <1>6. client' \in [Clients -> Jobs] /\ \A b \in Clients : JobInv(db, client'[b])
    BY <1>2, <1>4, <1>5, IdleJob
  <1>7. TablesInv' /\ db' = db
    BY <1>1, TablesStay
  <1> QED BY <1>6, <1>7 DEF Inv

LEMMA ServeInv ==
    ASSUME Inv, NEW c \in Clients, Serve(c)
    PROVE  Inv'
PROOF
  <1>1. /\ TablesInv' /\ Later(db, db') /\ Continues(c)
    BY ServeServed DEF Served
  <1>2. PICK job \in Jobs : client' = [client EXCEPT ![c] = job] /\ JobInv(db', job)
    BY <1>1 DEF Continues
  <1>3. client \in [Clients -> Jobs] /\ \A b \in Clients : JobInv(db, client[b])
    BY DEF Inv
  <1>4. \A b \in Clients : JobInv(db', client[b])
    BY <1>1, <1>3, JobLater
  <1>5. client' \in [Clients -> Jobs] /\ \A b \in Clients : JobInv(db', client'[b])
    BY <1>2, <1>3, <1>4
  <1> QED BY <1>1, <1>5 DEF Inv

LEMMA NextInv ==
    ASSUME Inv, [Next]_vars
    PROVE  Inv'
PROOF
  <1>1. CASE UNCHANGED vars
    BY <1>1 DEF vars, Inv, TablesInv
  <1>2. CASE Crash
    <2>1. UNCHANGED <<db, head, committed>> /\ client' = [c \in Clients |-> Idle]
      BY <1>2 DEF Crash
    <2> QED BY <2>1, TablesStay, IdleJob DEF Inv
  <1> QED BY <1>1, <1>2, BeginInv, ServeInv DEF Next

LEMMA Invariance == Spec => []Inv
PROOF
  BY InitInv, NextInv, PTL DEF Spec

(* Requests of any number of clients, interleaved call by call and cut short *)
(* by a crash, leave the tables consistent: pointers are the last rows of    *)
(* their histories, and every pointer, row, parent and checkpoint, those yet *)
(* to be written included, names a stored snapshot of a layer it may be of.  *)
THEOREM TablesStayConsistent == Spec => []TablesConsistent
PROOF
  <1>1. Inv => TablesConsistent
    <2> SUFFICES ASSUME Inv PROVE TablesConsistent
      OBVIOUS
    <2>1. PointerIsLastRow(db) /\ SnapshotGraph(db)
      BY DEF Inv, TablesInv, Sound, WellFormed
    <2>2. NeighboursOnly(db)
      BY DEF Inv, TablesInv, Sound, Layered, NeighboursOnly, TypeAt, ParentsOf
    <2>3. InFlight \subseteq Stored(db)
      <3> SUFFICES ASSUME NEW c \in Clients, NEW k \in DOMAIN client[c].todo,
                          client[c].todo[k].do \in {"create", "move"}
                   PROVE  client[c].todo[k].to \in Stored(db)
        BY DEF InFlight
      <3>1. client[c].todo \in Seq(Legal(db, client[c].request))
        BY DEF Inv, JobInv
      <3>2. client[c].todo[k] \in Legal(db, client[c].request)
        BY <3>1
      <3> QED BY <3>2, LegalKinds
    <2>4. committed \subseteq Stored(db) /\ head \in committed \cup {NoSnap}
      BY DEF Inv, TablesInv
    <2> QED BY <2>1, <2>2, <2>3, <2>4 DEF TablesConsistent
  <1> QED BY <1>1, Invariance, PTL

(* A process that stopped between the two calls of an approval may repeat    *)
(* it: nothing gets into the feature a second time.                          *)
THEOREM ApprovalsRepeat == Spec => []ApprovalRepeatable
PROOF
  <1>1. Inv => ApprovalRepeatable
    <2> SUFFICES ASSUME Inv, NEW a \in Agents, NEW f \in Existing(db), Exists(db, Approval(a)),
                        ReadsBack(MergeApprovalIntoFeature(db, a, f), Feature(f))
                 PROVE  MergeApprovalIntoFeature(MergeApprovalIntoFeature(db, a, f), a, f)
                          = MergeApprovalIntoFeature(db, a, f)
      BY DEF ApprovalRepeatable
    <2>1. WellFormed(db) /\ f \in Features /\ Exists(db, Feature(f))
      BY DEF Inv, TablesInv, Sound, Existing
    <2> QED BY <2>1, ApprovalRepeats
  <1> QED BY <1>1, Invariance, PTL

-----------------------------------------------------------------------------
(* Isolation                                                                 *)

LEMMA ReadyHead ==
    ASSUME NEW S, NEW todo \in Seq(S), NEW req, Ready(todo, req)
    PROVE  /\ todo # << >>
           /\ Head(todo).do \in {"get", "ensure", "create", "make"}
           /\ Head(todo).do = "make" => Tail(todo) = << >> /\ Head(todo) = Make(EditOf(req))
PROOF
  <1>1. PICK n \in Nat : n = Len(todo)
    BY LenProperties
  <1>2. /\ n > 0 /\ todo[n] = Make(EditOf(req))
        /\ \A k \in 1..(n - 1) : todo[k].do \in {"get", "ensure", "create"}
    BY <1>1 DEF Ready
  <1>3. todo # << >> /\ Head(todo) = todo[1]
    BY <1>1, <1>2
  <1>4. CASE n = 1
    <2>1. PICK rest : rest = Tail(todo)
      OBVIOUS
    <2>2. rest \in Seq(S)
      BY <1>3, <2>1, HeadTailProperties
    <2>3. Len(todo) = 1
      BY <1>1, <1>4
    <2>4. Len(rest) = Len(todo) - 1
      BY <1>3, <2>1, HeadTailProperties
    <2>5. Len(rest) = 0
      BY <2>3, <2>4
    <2>6. rest = << >>
      BY <2>2, <2>5, EmptySeq
    <2> QED BY <1>2, <1>3, <1>4, <2>1, <2>6 DEF Make
  <1>5. CASE n # 1
    <2>1. 1 \in 1..(n - 1)
      BY <1>2, <1>5
    <2> QED BY <1>2, <1>3, <2>1
  <1> QED BY <1>4, <1>5

LEMMA ReadyTail ==
    ASSUME NEW S, NEW todo \in Seq(S), NEW req, Ready(todo, req), Head(todo).do # "make"
    PROVE  Ready(Tail(todo), req)
PROOF
  <1>1. PICK n \in Nat : n = Len(todo)
    BY LenProperties
  <1>2. /\ n > 0 /\ todo[n] = Make(EditOf(req))
        /\ \A k \in 1..(n - 1) : todo[k].do \in {"get", "ensure", "create"}
    BY <1>1 DEF Ready
  <1>3. n # 1
    BY <1>1, <1>2 DEF Make
  <1>4. PICK rest : rest = Tail(todo)
    OBVIOUS
  <1>5. Len(rest) = n - 1 /\ \A k \in 1..(n - 1) : rest[k] = todo[k + 1]
    BY <1>1, <1>2, <1>4
  <1>6. n - 1 > 0 /\ rest[n - 1] = Make(EditOf(req))
    BY <1>2, <1>3, <1>5
  <1>7. \A k \in 1..((n - 1) - 1) : rest[k].do \in {"get", "ensure", "create"}
    BY <1>2, <1>5
  <1> QED BY <1>4, <1>5, <1>6, <1>7 DEF Ready

LEMMA ReadyPush ==
    ASSUME NEW S, NEW todo \in Seq(S), NEW req, Ready(todo, req),
           NEW st, st.do \in {"get", "ensure", "create"}
    PROVE  Ready(<<st>> \o todo, req)
PROOF
  <1>1. PICK n \in Nat : n = Len(todo)
    BY LenProperties
  <1>2. /\ n > 0 /\ todo[n] = Make(EditOf(req))
        /\ \A k \in 1..(n - 1) : todo[k].do \in {"get", "ensure", "create"}
    BY <1>1 DEF Ready
  <1>3. PICK all : all = <<st>> \o todo
    OBVIOUS
  <1>4. Len(all) = n + 1 /\ all[1] = st /\ \A k \in 1..n : all[k + 1] = todo[k]
    BY <1>1, <1>3
  <1>5. all[n + 1] = Make(EditOf(req))
    BY <1>2, <1>4
  <1>6. \A k \in 1..((n + 1) - 1) : all[k].do \in {"get", "ensure", "create"}
    <2> SUFFICES ASSUME NEW k \in 1..n
                 PROVE  all[k].do \in {"get", "ensure", "create"}
      OBVIOUS
    <2>1. CASE k = 1
      BY <1>4, <2>1
    <2>2. CASE k # 1
      <3>1. PICK l \in 1..(n - 1) : k = l + 1
        <4>1. k - 1 \in 1..(n - 1) /\ k = (k - 1) + 1
          BY <2>2
        <4> QED BY <4>1
      <3>2. l \in 1..n /\ all[l + 1] = todo[l] /\ todo[l].do \in {"get", "ensure", "create"}
        BY <1>2, <1>4, <3>1
      <3> QED BY <3>1, <3>2
    <2> QED BY <2>1, <2>2
  <1> QED BY <1>2, <1>3, <1>4, <1>5, <1>6 DEF Ready

(* What others do to the tables leaves an edit where it was, as long as the  *)
(* agent's partition stays where it is.                                      *)
LEMMA EditingOthers ==
    ASSUME NEW d, NEW e, Sound(d), Later(d, e), NEW job, job.request.agent \in Agents,
           e.pointer[Agent(job.request.agent)] = d.pointer[Agent(job.request.agent)],
           Editing(d, job)
    PROVE  Editing(e, job)
PROOF
  <1> DEFINE p == Agent(job.request.agent)
  <1>1. CASE Computing(d, job)
    BY <1>1 DEF Editing, Computing
  <1>2. CASE Moving(d, job)
    BY <1>2 DEF Editing, Moving, Later
  <1>3. CASE Edited(d, job)
    <2>1. p \in Partitions /\ Exists(d, p)
      BY <1>3, PartitionNames DEF Edited
    <2>2. d.pointer[p] \in Stored(d)
      BY <2>1, PointersAreStored DEF Sound
    <2>3. Exists(e, p) /\ e.snaps[e.pointer[p]] = d.snaps[d.pointer[p]]
      BY <2>1, <2>2 DEF Later
    <2>4. (ReadsBack(e, p) => ReadsBack(d, p)) /\ CurrentText(e, p) = CurrentText(d, p)
      BY <2>3 DEF ReadsBack, CurrentText, TextOf
    <2> QED BY <1>3, <2>3, <2>4 DEF Editing, Edited
  <1> QED BY <1>1, <1>2, <1>3 DEF Editing

(* How a request goes on.                                                    *)
LEMMA GoesOnGives ==
    ASSUME Inv, NEW c \in Clients, NEW todo, NEW read, GoesOn(c, todo, read)
    PROVE  /\ client'[c].todo = todo /\ client'[c].read = read
           /\ client'[c].request = client[c].request
           /\ client'[c].began = client[c].began
PROOF
  <1>1. client \in [Clients -> Jobs] /\ client[c] \in Jobs
    BY DEF Inv
  <1>2. client'[c] = [client[c] EXCEPT !.todo = todo, !.read = read]
    BY <1>1 DEF GoesOn
  <1> QED BY <1>1, <1>2 DEF Jobs

(* The edit of an agent, at the start of a step.                             *)
EditOn(c) ==
    /\ Inv /\ c \in Clients
    /\ client[c].request.op = "agent_edit"
    /\ Editing(db, client[c])

LEMMA EditFacts ==
    ASSUME NEW c, EditOn(c)
    PROVE  LET req == client[c].request
               p   == Agent(req.agent)
           IN  /\ req.agent \in Agents /\ p \in Partitions /\ p # Staged
               /\ client[c].todo \in Seq(Legal(db, req))
               /\ client[c] \in Jobs /\ client[c].read \in Readings
               /\ Sound(db)
PROOF
  <1>1. client[c] \in Jobs /\ JobInv(db, client[c]) /\ Sound(db)
    BY DEF EditOn, Inv, TablesInv
  <1>2. client[c].request \in RequestKinds /\ client[c].read \in Readings
    BY <1>1 DEF EditOn, Jobs
  <1>3. client[c].request.agent \in Agents
    BY <1>2 DEF EditOn, RequestKinds
  <1> QED BY <1>1, <1>2, <1>3, PartitionNames, LayerNamesDiffer DEF JobInv

(* An edit takes its steps one after the other: what comes first is a read,  *)
(* the snapshot or the move.                                                 *)
LEMMA EditTakes ==
    ASSUME NEW c, EditOn(c), client[c].todo # << >>
    PROVE  \/ /\ Computing(db, client[c])
              /\ Now(c).do \in {"get", "ensure", "create"}
              /\ Ready(Rest(c), client[c].request)
           \/ /\ Computing(db, client[c])
              /\ Now(c) = Make(EditOf(client[c].request)) /\ Rest(c) = << >>
           \/ \E id \in Stored(db) :
                 /\ Now(c) = Move(Agent(client[c].request.agent), id) /\ Rest(c) = << >>
                 /\ Yields(db.snaps[id], client[c].request.new)
PROOF
  <1>1. PICK todo : todo = client[c].todo
    OBVIOUS
  <1>2. PICK S : todo \in Seq(S)
    BY <1>1, EditFacts
  <1>3. Now(c) = Head(todo) /\ Rest(c) = Tail(todo)
    BY <1>1 DEF Now, Rest
  <1>4. CASE Computing(db, client[c])
    <2>1. Ready(todo, client[c].request)
      BY <1>1, <1>4 DEF Computing
    <2> QED BY <1>2, <1>3, <1>4, <2>1, ReadyHead, ReadyTail
  <1>5. CASE Moving(db, client[c])
    <2>1. PICK id \in Stored(db) : /\ todo = <<Move(Agent(client[c].request.agent), id)>>
                                   /\ Yields(db.snaps[id], client[c].request.new)
      BY <1>1, <1>5 DEF Moving
    <2>2. Head(todo) = Move(Agent(client[c].request.agent), id) /\ Tail(todo) = << >>
      BY <2>1
    <2> QED BY <1>3, <2>1, <2>2
  <1>6. ~ Edited(db, client[c])
    BY DEF Edited
  <1> QED BY <1>4, <1>5, <1>6 DEF EditOn, Editing

(* The request goes on editing, or is refused or answered.                   *)
StillEdits(c) == client'[c] = Idle \/ Editing(db', client'[c])

LEMMA RefusedEdits ==
    ASSUME NEW c, EditOn(c), Refused(c)
    PROVE  StillEdits(c)
PROOF
  BY DEF EditOn, Inv, Refused, StillEdits

LEMMA GetPartitionEdits ==
    ASSUME NEW c, EditOn(c), GetPartition(c)
    PROVE  StillEdits(c)
PROOF
  <1> DEFINE q == Now(c).at
             old == client[c].read
             read == Reads(old, q, db.pointer[q], Baseline(db, q))
             p == Agent(client[c].request.agent)
  <1>1. client[c].todo # << >> /\ Now(c).do = "get" /\ db' = db /\ Inv /\ c \in Clients
    BY DEF GetPartition, Next1, Now, EditOn
  <1>2. CASE ~ Exists(db, q)
    BY <1>2, RefusedEdits DEF GetPartition
  <1>3. CASE Exists(db, q)
    <2>1. GoesOn(c, Rest(c), read)
      BY <1>3 DEF GetPartition
    <2>2. Computing(db, client[c]) /\ Ready(Rest(c), client[c].request)
      BY <1>1, EditTakes DEF Make, Move
    <2>3. read.pointer = [old.pointer EXCEPT ![q] = db.pointer[q]]
      BY DEF Reads
    <2>4. old.pointer \in [Partitions -> Nat] /\ p \in Partitions
      BY EditFacts DEF Readings
    <2>5. read.pointer[p] \in {NoSnap, db.pointer[p]}
      BY <2>2, <2>3, <2>4 DEF Computing
    <2> HIDE DEF read
    <2>6. /\ client'[c].todo = Rest(c) /\ client'[c].read = read
          /\ client'[c].request = client[c].request
      BY <1>1, <2>1, GoesOnGives
    <2> QED BY <1>1, <2>2, <2>5, <2>6 DEF Computing, Editing, StillEdits
  <1> QED BY <1>2, <1>3

LEMMA EnsurePartitionEdits ==
    ASSUME NEW c, EditOn(c), EnsurePartition(c)
    PROVE  StillEdits(c)
PROOF
  <1> DEFINE q == Now(c).part
             old == client[c].read
             id == IF Now(c).row = "current" THEN old.pointer[Now(c).like]
                                             ELSE Head(old.history[Now(c).like])
             read == Reads(old, q, db.pointer[q], Baseline(db, q))
             p == Agent(client[c].request.agent)
  <1>1. client[c].todo # << >> /\ Now(c).do = "ensure" /\ db' = db /\ Inv /\ c \in Clients
    BY DEF EnsurePartition, Next1, Now, EditOn
  <1>2. Computing(db, client[c]) /\ Ready(Rest(c), client[c].request)
    BY <1>1, EditTakes DEF Make, Move
  <1>3. old.pointer \in [Partitions -> Nat] /\ p \in Partitions
    BY EditFacts DEF Readings
  <1>4. CASE Exists(db, q)
    <2>1. GoesOn(c, Rest(c), read)
      BY <1>4 DEF EnsurePartition
    <2>2. read.pointer = [old.pointer EXCEPT ![q] = db.pointer[q]]
      BY DEF Reads
    <2>3. read.pointer[p] \in {NoSnap, db.pointer[p]}
      BY <1>2, <1>3, <2>2 DEF Computing
    <2> HIDE DEF read
    <2>4. /\ client'[c].todo = Rest(c) /\ client'[c].read = read
          /\ client'[c].request = client[c].request
      BY <1>1, <2>1, GoesOnGives
    <2> QED BY <1>1, <1>2, <2>3, <2>4 DEF Computing, Editing, StillEdits
  <1>5. CASE ~ Exists(db, q)
    <2> DEFINE st == [do |-> "create", at |-> q, to |-> id]
    <2>1. GoesOn(c, <<st>> \o Rest(c), old)
      BY <1>5 DEF EnsurePartition
    <2>2. st.do \in {"get", "ensure", "create"}
      OBVIOUS
    <2> HIDE DEF st
    <2>3. Ready(<<st>> \o Rest(c), client[c].request)
      <3>1. PICK S : Rest(c) \in Seq(S)
        BY <1>1, FirstStep
      <3> QED BY <1>2, <2>2, <3>1, ReadyPush
    <2>4. /\ client'[c].todo = <<st>> \o Rest(c) /\ client'[c].read = old
          /\ client'[c].request = client[c].request
      BY <1>1, <2>1, GoesOnGives
    <2> QED BY <1>1, <1>2, <2>3, <2>4 DEF Computing, Editing, StillEdits
  <1> QED BY <1>4, <1>5

LEMMA CreatePartitionEdits ==
    ASSUME NEW c, EditOn(c), CreatePartition(c)
    PROVE  StillEdits(c)
PROOF
  <1> DEFINE q == Now(c).at
             id == Now(c).to
             old == client[c].read
             read == Reads(old, q, id, id)
             p == Agent(client[c].request.agent)
  <1>1. client[c].todo # << >> /\ Now(c).do = "create" /\ Inv /\ c \in Clients
    BY DEF CreatePartition, Next1, Now, EditOn
  <1>2. CASE Exists(db, q)
    BY <1>2, RefusedEdits DEF CreatePartition
  <1>3. CASE ~ Exists(db, q)
    <2>1. /\ db' = [db EXCEPT !.pointer[q] = id, !.history[q] = <<id>>]
          /\ GoesOn(c, Rest(c), read)
      BY <1>3 DEF CreatePartition
    <2>2. Computing(db, client[c]) /\ Ready(Rest(c), client[c].request)
      BY <1>1, EditTakes DEF Make, Move
    <2>3. read.pointer = [old.pointer EXCEPT ![q] = id]
      BY DEF Reads
    <2>4. /\ old.pointer \in [Partitions -> Nat] /\ p \in Partitions
          /\ db \in Databases /\ db.pointer \in [Partitions -> Nat]
      BY EditFacts DEF Readings, Sound, WellFormed, Databases
    <2>5. db'.pointer = [db.pointer EXCEPT ![q] = id]
      BY <2>1, <2>4 DEF Databases
    <2>6. read.pointer[p] \in {NoSnap, db'.pointer[p]}
      BY <2>2, <2>3, <2>4, <2>5 DEF Computing
    <2> HIDE DEF read
    <2>7. /\ client'[c].todo = Rest(c) /\ client'[c].read = read
          /\ client'[c].request = client[c].request
      BY <1>1, <2>1, GoesOnGives
    <2> QED BY <2>2, <2>6, <2>7 DEF Computing, Editing, StillEdits
  <1> QED BY <1>2, <1>3

(* The snapshot is made of what the agent's partition points at still, since *)
(* nobody else has moved it.                                                 *)
LEMMA MakeSnapshotEdits ==
    ASSUME NEW c, EditOn(c), MakeSnapshot(c)
    PROVE  StillEdits(c)
PROOF
  <1> DEFINE req == client[c].request
             what == Now(c).what
             p == Agent(req.agent)
             out == Effect(what, Seen(c))
  <1>1. /\ client[c].todo # << >> /\ Now(c).do = "make" /\ Inv /\ c \in Clients
        /\ db' = [db EXCEPT !.snaps = out.snaps]
        /\ GoesOn(c, (IF out = Seen(c) THEN << >> ELSE PointerMoves(what, out.pointer[Target(what)]))
                        \o Rest(c), NothingRead)
    BY DEF MakeSnapshot, Next1, Now, EditOn
  <1>2. Computing(db, client[c]) /\ Now(c) = Make(EditOf(req)) /\ Rest(c) = << >>
    BY <1>1, EditTakes DEF Move
  <1>3. /\ what = EditOf(req) /\ what.merge = "edit" /\ what.part = p /\ what.new = req.new
        /\ Target(what) = p
    BY <1>2 DEF Make, EditOf, Target
  <1>4. /\ what \in Merges /\ Readable(Seen(c), what)
        /\ Seen(c).snaps = db.snaps /\ Seen(c).pointer = client[c].read.pointer
        /\ Sources(what) \subseteq HasRead(client[c].read)
    BY <1>1, SeenReadable
  <1>5. /\ p \in Partitions /\ Sound(db) /\ db \in Databases /\ Seen(c) \in Databases
    BY <1>4, EditFacts DEF Sound, WellFormed, Readable
  <1>6. p \in HasRead(client[c].read)
    BY <1>3, <1>4, MergeKinds
  <1>7. /\ Seen(c).pointer[p] = db.pointer[p]
        /\ Exists(db, p)
    <2>1. client[c].read.pointer[p] # NoSnap
      BY <1>6 DEF HasRead
    <2>2. client[c].read.pointer[p] = db.pointer[p]
      BY <1>2, <2>1 DEF Computing
    <2> QED BY <1>4, <2>1, <2>2 DEF Exists
  <1>8. CurrentText(Seen(c), p) = CurrentText(db, p)
    BY <1>4, <1>7 DEF CurrentText, TextOf
  <1>9. PICK s : /\ Fits(Seen(c), s) /\ Yields(s, req.new)
                 /\ out = IF CurrentText(Seen(c), p) = req.new
                          THEN Seen(c) ELSE Advance(Seen(c), p, s)
    BY <1>3, <1>4, EditMakes
  <1>10. s \in Snapshots /\ Fits(db, s)
    BY <1>4, <1>9 DEF Fits, Storable, Stored, TypeAt
  <1> HIDE DEF out, what, p, req
  <1>11. CASE CurrentText(Seen(c), p) = req.new
    <2>1. out = Seen(c)
      BY <1>9, <1>11
    <2>2. db' = db
      BY <1>1, <1>4, <1>5, <2>1 DEF Databases
    <2>3. GoesOn(c, << >> \o << >>, NothingRead)
      BY <1>1, <1>2, <2>1
    <2>4. client'[c].todo = << >> \o << >> /\ client'[c].request = req
      BY <1>1, <2>3, GoesOnGives DEF req
    <2>5. << >> \o << >> = << >>
      OBVIOUS
    <2> QED BY <1>7, <1>8, <1>11, <2>2, <2>4, <2>5 DEF Edited, Editing, StillEdits, p
  <1>12. CASE CurrentText(Seen(c), p) # req.new
    <2> DEFINE stored == StoreSnapshot(db, s)
               id == IdOf(stored, s)
    <2>1. out = Advance(Seen(c), p, s)
      BY <1>9, <1>12
    <2>2. db' = stored /\ out.pointer[p] = id /\ out # Seen(c)
      BY <1>1, <1>4, <1>5, <1>10, <2>1, AdvanceStores
    <2>3. id \in Stored(db') /\ db'.snaps[id] = s
      BY <1>5, <1>10, <2>2, StoreSnapshotKeeps DEF Sound, Fits
    <2> HIDE DEF id, stored
    <2>4. PointerMoves(what, id) = <<Move(p, id)>>
      BY <1>3 DEF PointerMoves
    <2>5. GoesOn(c, <<Move(p, id)>> \o << >>, NothingRead)
      BY <1>1, <1>2, <1>3, <2>2, <2>4
    <2>6. client'[c].todo = <<Move(p, id)>> \o << >> /\ client'[c].request = req
      BY <1>1, <2>5, GoesOnGives DEF req
    <2>7. <<Move(p, id)>> \o << >> = <<Move(p, id)>>
      BY ConcatEmptySeq
    <2> QED BY <1>9, <2>3, <2>6, <2>7 DEF Moving, Editing, StillEdits, p
  <1> QED BY <1>11, <1>12

LEMMA MovePointerEdits ==
    ASSUME NEW c, EditOn(c), MovePointer(c)
    PROVE  StillEdits(c)
PROOF
  <1> DEFINE req == client[c].request
             p == Agent(req.agent)
  <1>1. /\ client[c].todo # << >> /\ Now(c).do = "move" /\ Inv /\ c \in Clients
        /\ db' = UpdatePointer(db, Now(c).at, Now(c).to)
        /\ GoesOn(c, Rest(c), client[c].read)
    BY DEF MovePointer, Next1, Now, EditOn
  <1>2. PICK id \in Stored(db) : /\ Now(c) = Move(p, id) /\ Rest(c) = << >>
                                 /\ Yields(db.snaps[id], req.new)
    BY <1>1, EditTakes DEF Make
  <1>3. Now(c).at = p /\ Now(c).to = id
    BY <1>2 DEF Move
  <1>4. p \in Partitions /\ db \in Databases /\ db.pointer \in [Partitions -> Nat]
    BY EditFacts DEF Sound, WellFormed, Databases
  <1>5. db'.snaps = db.snaps /\ db'.pointer[p] = id
    BY <1>1, <1>3, <1>4 DEF UpdatePointer, Databases
  <1>6. Exists(db', p)
    BY <1>5 DEF Exists, Stored, NoSnap
  <1>7. ReadsBack(db', p) => CurrentText(db', p) = req.new
    BY <1>2, <1>5 DEF ReadsBack, CurrentText, TextOf, Yields, AllReturned
  <1>8. client'[c].todo = << >> /\ client'[c].request = req
    BY <1>1, <1>2, GoesOnGives
  <1> QED BY <1>6, <1>7, <1>8 DEF Edited, Editing, StillEdits

LEMMA ServeEdits ==
    ASSUME NEW c, EditOn(c), Serve(c)
    PROVE  StillEdits(c)
PROOF
  <1>1. ASSUME ResetApproval(c) \/ ListFeatures(c) \/ NextRound(c) \/ CommitRead(c) \/ SwitchBranch(c)
        PROVE  FALSE
    <2>1. /\ client[c].todo # << >>
          /\ Now(c).do \in {"reset", "list", "rounds", "commit", "switch"}
      BY <1>1 DEF ResetApproval, ListFeatures, NextRound, CommitRead, SwitchBranch, Next1, Now
    <2> QED BY <2>1, EditTakes DEF Make, Move
  <1>2. CASE Answer(c)
    BY <1>2, RefusedEdits DEF Answer, Refused
  <1> QED BY <1>1, <1>2, GetPartitionEdits, EnsurePartitionEdits, CreatePartitionEdits,
             MakeSnapshotEdits, MovePointerEdits DEF Serve

(* The plan of an agent's edit computes it at its end.                       *)
LEMMA AgentEditPlan ==
    ASSUME NEW req \in RequestKinds, req.op = "agent_edit"
    PROVE  Ready(StepsOf(req), req)
PROOF
  <1>1. PICK made : made = Make(EditOf(req))
    OBVIOUS
  <1>2. PICK found : found = Found(Agent(req.agent), Staged, "current")
    OBVIOUS
  <1>3. PICK one : one = Get(Staged)
    OBVIOUS
  <1>4. PICK three : three = Get(Agent(req.agent))
    OBVIOUS
  <1>5. PICK all : all = <<one, found>> \o <<three, made>>
    OBVIOUS
  <1>6. StepsOf(req) = all
    BY <1>1, <1>2, <1>3, <1>4, <1>5 DEF StepsOf, EditSteps, EditOf
  <1>7. Len(all) = 4 /\ all[1] = one /\ all[2] = found /\ all[3] = three /\ all[4] = made
    BY <1>5
  <1>8. one.do = "get" /\ found.do = "ensure" /\ three.do = "get"
    BY <1>2, <1>3, <1>4 DEF Get, Found
  <1>9. \A k \in 1..(4 - 1) : all[k].do \in {"get", "ensure", "create"}
    BY <1>7, <1>8
  <1>10. Ready(all, req)
    BY <1>1, <1>7, <1>9 DEF Ready
  <1> QED BY <1>6, <1>10

(* A request that is served has begun.                                       *)
LEMMA ServedIsBusy ==
    ASSUME NEW c, Serve(c)
    PROVE  client[c] # Idle
PROOF
  <1>1. client[c].todo # << >> \/ client[c] # Idle
    BY DEF Serve, Next1, GetPartition, EnsurePartition, CreatePartition, MakeSnapshot,
           MovePointer, ResetApproval, ListFeatures, NextRound, CommitRead, SwitchBranch,
           Answer, Finished
  <1> QED BY <1>1 DEF Idle

LEMMA InitIsolated ==
    ASSUME Init
    PROVE  IsolationInv
PROOF
  <1>1. \A c \in Clients : client[c] = Idle
    BY DEF Init
  <1>2. Idle.solo = FALSE
    BY DEF Idle
  <1> QED BY <1>1, <1>2 DEF IsolationInv, Busy

LEMMA BeginIsolated ==
    ASSUME Inv, IsolationInv, NEW c \in Clients, NEW req \in Requests, Begin(c, req)
    PROVE  IsolationInv'
PROOF
  <1>1. /\ UNCHANGED db /\ req \in RequestKinds /\ client \in [Clients -> Jobs]
    BY RequestsAssumption DEF Begin, Inv
  <1> DEFINE rivals == {b \in Busy : Named(client[b].request) \cap Named(req) # {}}
             fresh == [request |-> req, todo |-> StepsOf(req), read |-> NothingRead,
                       alone |-> Busy = {}, solo |-> rivals = {},
                       began |-> IF Busy = {} THEN {db} ELSE {}]
             stale(b) == [client[b] EXCEPT !.alone = FALSE, !.began = {},
                                           !.solo = @ /\ b \notin rivals]
  <1>2. client' = [b \in Clients |-> IF b = c THEN fresh
                                     ELSE IF b \in Busy THEN stale(b) ELSE Idle]
    BY DEF Begin
  <1>3. /\ client'[c].request = req /\ client'[c].todo = StepsOf(req)
        /\ client'[c].read = NothingRead /\ (client'[c].solo => rivals = {})
    BY <1>2
  <1>4. ASSUME NEW b \in Clients, b # c, client'[b] # Idle
        PROVE  /\ b \in Busy /\ client'[b].request = client[b].request
               /\ client'[b].todo = client[b].todo /\ client'[b].read = client[b].read
               /\ client'[b].solo => client[b].solo /\ b \notin rivals
    <2>1. b \in Busy /\ client'[b] = stale(b) /\ client[b] \in Jobs
      BY <1>1, <1>2, <1>4
    <2>2. stale(b).solo = (client[b].solo /\ b \notin rivals)
      BY <2>1 DEF Jobs
    <2> QED BY <2>1, <2>2 DEF Jobs
  <1> HIDE DEF fresh, stale
  <1>5. ASSUME NEW a \in Clients, NEW b \in Clients, client'[a] # Idle, client'[b] # Idle,
               a # b, client'[b].solo
        PROVE  Named(client'[a].request) \cap Named(client'[b].request) = {}
    <2>1. CASE a # c /\ b # c
      BY <1>4, <1>5, <2>1 DEF IsolationInv
    <2>2. CASE a = c
      BY <1>3, <1>4, <1>5, <2>2
    <2>3. CASE b = c
      BY <1>3, <1>4, <1>5, <2>3
    <2> QED BY <2>1, <2>2, <2>3
  <1>6. ASSUME NEW b \in Clients, client'[b].solo, client'[b].request.op = "agent_edit"
        PROVE  Editing(db', client'[b])
    <2>1. CASE b = c
      <3>1. Ready(client'[c].todo, client'[c].request)
        <4>1. req.op = "agent_edit"
          BY <1>3, <1>6, <2>1
        <4>2. Ready(StepsOf(req), req)
          BY <1>1, <4>1, AgentEditPlan
        <4> QED BY <1>3, <4>2
      <3>2. req.agent \in Agents
        BY <1>1, <1>3, <1>6, <2>1 DEF RequestKinds
      <3>3. client'[c].read.pointer[Agent(client'[c].request.agent)] = NoSnap
        BY <1>3, <3>2, PartitionNames DEF NothingRead
      <3> QED BY <2>1, <3>1, <3>3 DEF Editing, Computing
    <2>2. CASE b # c
      <3>1. client'[b] # Idle
        BY <1>6 DEF Idle
      <3>2. Editing(db, client[b])
        BY <1>4, <1>6, <2>2, <3>1 DEF IsolationInv
      <3> QED BY <1>1, <1>4, <2>2, <3>1, <3>2 DEF Editing, Computing, Moving, Edited
    <2> QED BY <2>1, <2>2
  <1> HIDE DEF rivals
  <1> QED BY <1>5, <1>6 DEF IsolationInv, Busy

LEMMA ServeIsolated ==
    ASSUME Inv, IsolationInv, NEW c \in Clients, Serve(c)
    PROVE  IsolationInv'
PROOF
  <1>1. /\ Later(db, db') /\ Continues(c) /\ Sound(db) /\ client \in [Clients -> Jobs]
        /\ \A a \in Agents \ Named(client[c].request) :
              db'.pointer[Agent(a)] = db.pointer[Agent(a)]
    BY ServeServed DEF Served, Inv, TablesInv
  <1>2. /\ \A b \in Clients \ {c} : client'[b] = client[b]
        /\ \/ client'[c] = Idle
           \/ /\ client'[c].request = client[c].request
              /\ client'[c].solo => client[c].solo
    BY <1>1 DEF Continues
  <1>3. client[c] # Idle
    BY ServedIsBusy
  <1>4. ASSUME NEW a \in Clients, NEW b \in Clients, client'[a] # Idle, client'[b] # Idle,
               a # b, client'[b].solo
        PROVE  Named(client'[a].request) \cap Named(client'[b].request) = {}
    <2>1. \A x \in Clients : client'[x] # Idle =>
             /\ client[x] # Idle /\ client'[x].request = client[x].request
             /\ client'[x].solo => client[x].solo
      BY <1>2, <1>3
    <2> QED BY <1>4, <2>1 DEF IsolationInv, Busy
  <1>5. ASSUME NEW b \in Clients, client'[b].solo, client'[b].request.op = "agent_edit"
        PROVE  Editing(db', client'[b])
    <2>1. client'[b] # Idle
      BY <1>5 DEF Idle
    <2>2. client'[b].request = client[b].request /\ client[b].solo /\ client[b] # Idle
      BY <1>2, <1>3, <1>5, <2>1
    <2>3. client[b].request.op = "agent_edit" /\ Editing(db, client[b])
      BY <1>5, <2>2 DEF IsolationInv
    <2>4. CASE b = c
      BY <2>1, <2>3, <2>4, ServeEdits DEF EditOn, StillEdits
    <2>5. CASE b # c
      <3>1. client'[b] = client[b]
        BY <1>2, <2>5
      <3>2. client[b].request.agent \in Agents
            /\ Named(client[b].request) = {client[b].request.agent}
        <4>1. client[b].request \in RequestKinds
          BY <1>1, <2>3 DEF Jobs
        <4> QED BY <2>3, <4>1 DEF RequestKinds, Named
      <3>3. client[b].request.agent \notin Named(client[c].request)
        BY <1>3, <2>2, <2>5, <3>2 DEF IsolationInv, Busy
      <3>4. db'.pointer[Agent(client[b].request.agent)] = db.pointer[Agent(client[b].request.agent)]
        BY <1>1, <3>2, <3>3
      <3> QED BY <1>1, <2>3, <3>1, <3>2, <3>4, EditingOthers
    <2> QED BY <2>4, <2>5
  <1> QED BY <1>4, <1>5 DEF IsolationInv, Busy

LEMMA NextIsolated ==
    ASSUME Inv, IsolationInv, [Next]_vars
    PROVE  IsolationInv'
PROOF
  <1>1. CASE UNCHANGED vars
    BY <1>1 DEF vars, IsolationInv, Busy, Editing, Computing, Moving, Edited
  <1>2. CASE Crash
    <2>1. \A c \in Clients : client'[c] = Idle
      BY <1>2 DEF Crash
    <2>2. Idle.solo = FALSE
      BY DEF Idle
    <2> QED BY <2>1, <2>2 DEF IsolationInv, Busy
  <1> QED BY <1>1, <1>2, BeginIsolated, ServeIsolated DEF Next

(* An agent's edit that no other request on the agent overlapped reads back, *)
(* whatever the requests of others did to the tables between its calls.      *)
THEOREM AgentEditsIsolated == Spec => []AgentsIsolated
PROOF
  <1>1. Inv /\ IsolationInv => AgentsIsolated
    <2> SUFFICES ASSUME IsolationInv, NEW c \in Clients,
                        Finished(c), client[c].solo, client[c].request.op = "agent_edit",
                        ReadsBack(db, Agent(client[c].request.agent))
                 PROVE  CurrentText(db, Agent(client[c].request.agent)) = client[c].request.new
      BY DEF AgentsIsolated
    <2>1. client[c].todo = << >> /\ Editing(db, client[c])
      BY DEF Finished, IsolationInv
    <2>2. ~ Computing(db, client[c])
      BY <2>1 DEF Computing, Ready
    <2>3. ~ Moving(db, client[c])
      BY <2>1 DEF Moving
    <2> QED BY <2>1, <2>2, <2>3 DEF Editing, Edited
  <1> QED BY <1>1, Invariance, InitIsolated, NextInv, NextIsolated, InitInv, PTL DEF Spec

-----------------------------------------------------------------------------
(* What the steps of a request do when no other comes in between             *)

(* Counting up reaches every number: without induction, by the least one     *)
(* that it does not reach.                                                   *)
LEMMA UpTo ==
    ASSUME NEW n \in Nat, NEW S, 0 \in S, \A i \in 1..n : i - 1 \in S => i \in S
    PROVE  \A i \in 0..n : i \in S
PROOF
  <1> DEFINE T == {i \in 0..n : i \notin S}
  <1>1. SUFFICES ASSUME T # {} PROVE FALSE
    OBVIOUS
  <1>2. T \subseteq Nat
    OBVIOUS
  <1>3. PICK x \in T : \A y \in T : ~ (<<y, x>> \in OpToRel(<, Nat))
    BY <1>1, <1>2, NatLessThanWellFounded, WFMin, Zenon
  <1>4. \A y \in T : ~ (y < x)
    BY <1>2, <1>3 DEF OpToRel
  <1>5. x \in 1..n /\ x - 1 \in 0..n /\ x - 1 < x
    <2>1. x \in 0..n /\ x \notin S
      BY <1>3
    <2>2. x # 0
      BY <2>1
    <2> QED BY <2>1, <2>2
  <1>6. x - 1 \in S
    BY <1>4, <1>5
  <1> QED BY <1>3, <1>5, <1>6

(* What a step does to the tables when no other request comes in between: a  *)
(* snapshot is made, and moved to, of what is there.                         *)
Did(d, st) ==
    CASE st.do = "ensure" ->
            Ensure(d, st.part, IF st.row = "current" THEN d.pointer[st.like]
                                                     ELSE Baseline(d, st.like))
      [] st.do = "create" -> [d EXCEPT !.pointer[st.at] = st.to, !.history[st.at] = <<st.to>>]
      [] st.do = "make" ->
            LET out == Effect(st.what, d)
            IN  IF st.what.merge = "approve" /\ out # d
                THEN ResetToBaseline(out, Approval(st.what.agent))
                ELSE out
      [] st.do = "move" -> UpdatePointer(d, st.at, st.to)
      [] st.do = "reset" -> ResetToBaseline(d, st.at)
      [] st.do = "list" -> MergesToStaged(d)
      [] st.do = "rounds" -> Rounds(d, st.left)
      [] st.do = "round" -> Round(d, st.left, st.rank)
      [] OTHER -> d

(* g[k] is what k of the steps make of d.                                    *)
IsRun(d, todo, n, g) ==
    g = [k \in 0..n |-> IF k = 0 THEN d ELSE Did(g[k - 1], todo[k])]

After(d, todo) == (CHOOSE g : IsRun(d, todo, Len(todo), g))[Len(todo)]

LEMMA RunGives ==
    ASSUME NEW d, NEW todo, NEW n \in Nat, NEW g, IsRun(d, todo, n, g)
    PROVE  g[0] = d /\ \A k \in 1..n : g[k] = Did(g[k - 1], todo[k])
PROOF
  <1>1. \A k \in 0..n : g[k] = IF k = 0 THEN d ELSE Did(g[k - 1], todo[k])
    BY DEF IsRun
  <1> QED BY <1>1

(* That there is such a function, and only one (RunsAgree), is why After is  *)
(* what the last step left.                                                  *)
LEMMA RunExists ==
    ASSUME NEW d, NEW todo, NEW n \in Nat
    PROVE  \E g : IsRun(d, todo, n, g)
PROOF
  <1> DEFINE S == {m \in 0..n : \E g : IsRun(d, todo, m, g)}
  <1>1. 0 \in S
    <2>1. IsRun(d, todo, 0, [k \in 0..0 |-> d])
      <3>1. \A k \in 0..0 : k = 0
        OBVIOUS
      <3> QED BY <3>1, Zenon DEF IsRun
    <2> QED BY <2>1
  <1>2. ASSUME NEW m \in 1..n, m - 1 \in S
        PROVE  m \in S
    <2>1. PICK g : IsRun(d, todo, m - 1, g)
      BY <1>2
    <2>2. /\ g[0] = d /\ \A k \in 1..(m - 1) : g[k] = Did(g[k - 1], todo[k])
      <3>1. PICK j \in Nat : j = m - 1
        OBVIOUS
      <3> QED BY <2>1, <3>1, RunGives
    <2> DEFINE h == [k \in 0..m |-> IF k = m THEN Did(g[m - 1], todo[m]) ELSE g[k]]
    <2>3. \A k \in 0..m : k # m => h[k] = g[k]
      OBVIOUS
    <2>4. h[m] = Did(g[m - 1], todo[m])
      OBVIOUS
    <2>5. ASSUME NEW k \in 0..m
          PROVE  h[k] = IF k = 0 THEN d ELSE Did(h[k - 1], todo[k])
      <3> HIDE DEF h
      <3>1. CASE k = 0
        BY <2>2, <2>3, <3>1
      <3>2. CASE k # 0
        <4>1. k - 1 \in 0..m /\ k - 1 # m
          BY <3>2
        <4>2. h[k - 1] = g[k - 1]
          BY <2>3, <4>1
        <4>3. CASE k = m
          BY <2>4, <3>2, <4>2, <4>3
        <4>4. CASE k # m
          <5>1. k \in 1..(m - 1) /\ h[k] = g[k]
            BY <2>3, <3>2, <4>4
          <5> QED BY <2>2, <3>2, <4>2, <5>1
        <4> QED BY <4>3, <4>4
      <3> QED BY <3>1, <3>2
    <2>6. h = [k \in 0..m |-> h[k]]
      OBVIOUS
    <2> HIDE DEF h
    <2>7. IsRun(d, todo, m, h)
      BY <2>5, <2>6, Zenon DEF IsRun
    <2>8. m \in 0..n
      OBVIOUS
    <2> QED BY <2>7, <2>8
  <1>3. n \in S
    <2> HIDE DEF S
    <2>1. \A k \in 0..n : k \in S
      BY <1>1, <1>2, UpTo
    <2> QED BY <2>1
  <1> QED BY <1>3

(* Steps that are the same make the same of the same tables.                 *)
LEMMA RunsAgree ==
    ASSUME NEW d, NEW todo, NEW n \in Nat, NEW g, IsRun(d, todo, n, g),
           NEW list, NEW m \in Nat, NEW h, IsRun(d, list, m, h), n <= m,
           \A k \in 1..n : todo[k] = list[k]
    PROVE  \A k \in 0..n : g[k] = h[k]
PROOF
  <1> DEFINE S == {k \in 0..n : g[k] = h[k]}
  <1>1. /\ g[0] = d /\ \A k \in 1..n : g[k] = Did(g[k - 1], todo[k])
        /\ h[0] = d /\ \A k \in 1..m : h[k] = Did(h[k - 1], list[k])
    BY RunGives
  <1>2. 0 \in S
    BY <1>1
  <1>3. ASSUME NEW k \in 1..n, k - 1 \in S
        PROVE  k \in S
    <2>1. k \in 1..m /\ k \in 0..n
      OBVIOUS
    <2>2. g[k - 1] = h[k - 1]
      BY <1>3
    <2> QED BY <1>1, <2>1, <2>2
  <1> HIDE DEF S
  <1>4. \A k \in 0..n : k \in S
    BY <1>2, <1>3, UpTo
  <1> QED BY <1>4 DEF S

LEMMA AfterIsLast ==
    ASSUME NEW d, NEW S, NEW todo \in Seq(S), NEW g, IsRun(d, todo, Len(todo), g)
    PROVE  After(d, todo) = g[Len(todo)]
PROOF
  <1>1. PICK n \in Nat : n = Len(todo)
    OBVIOUS
  <1> DEFINE h == CHOOSE f : IsRun(d, todo, n, f)
  <1>2. IsRun(d, todo, n, h)
    BY <1>1, RunExists, Zenon
  <1> HIDE DEF h
  <1>3. \A k \in 0..n : g[k] = h[k]
    BY <1>1, <1>2, RunsAgree
  <1>4. n \in 0..n
    OBVIOUS
  <1> QED BY <1>1, <1>3, <1>4, Zenon DEF After, h

(* The rounds over the features left, one for every rank below n.            *)
RoundList(left, n) == [k \in 1..n |-> [do |-> "round", left |-> left, rank |-> k - 1]]

Below(left, n) == \A f \in left : Rank[f] < n

LEMMA RoundRun ==
    ASSUME NEW d, NEW left, NEW n \in Nat, NEW g, IsRun(d, RoundList(left, n), n, g)
    PROVE  g[0] = d /\ \A k \in 1..n : g[k] = Round(g[k - 1], left, k - 1)
PROOF
  <1>1. g[0] = d /\ \A k \in 1..n : g[k] = Did(g[k - 1], RoundList(left, n)[k])
    BY RunGives
  <1>2. ASSUME NEW k \in 1..n
        PROVE  g[k] = Round(g[k - 1], left, k - 1)
    <2>1. PICK st : st = RoundList(left, n)[k]
      OBVIOUS
    <2>2. st.do = "round" /\ st.left = left /\ st.rank = k - 1
      BY <2>1 DEF RoundList
    <2>3. Did(g[k - 1], st) = Round(g[k - 1], left, k - 1)
      BY <2>2 DEF Did
    <2> QED BY <1>1, <2>1, <2>3
  <1> QED BY <1>1, <1>2

(* Rounds beyond the last rank change nothing.                               *)
LEMMA RoundsRun ==
    ASSUME NEW d, NEW left \in SUBSET Features, NEW n \in Nat, Below(left, n),
           NEW g, IsRun(d, RoundList(left, n), n, g)
    PROVE  Rounds(d, left) = g[n]
PROOF
  <1> DEFINE last == IF left = {} THEN 0 ELSE LastOf({Rank[f] + 1 : f \in left})
             Loop(h) == h = [k \in 0..last |-> IF k = 0 THEN d ELSE Round(h[k - 1], left, k - 1)]
             after == CHOOSE h : Loop(h)
  <1>1. last \in 0..n /\ Below(left, last)
    <2>1. CASE left = {}
      BY <2>1 DEF Below
    <2>2. CASE left # {}
      <3> DEFINE T == {Rank[f] + 1 : f \in left}
      <3>1. T \in SUBSET (1..n) /\ T # {}
        <4>1. \A f \in left : Rank[f] \in Nat /\ Rank[f] < n
          BY RankAssumption DEF Below
        <4>2. \A f \in left : Rank[f] + 1 \in 1..n
          BY <4>1
        <4> QED BY <2>2, <4>2
      <3>2. LastOf(T) \in T /\ \A j \in T : j <= LastOf(T)
        <4> HIDE DEF T
        <4> QED BY <3>1, LastOfIsLast
      <3>3. \A f \in left : Rank[f] + 1 <= LastOf(T) /\ Rank[f] \in Nat
        <4>1. \A f \in left : Rank[f] + 1 \in T
          OBVIOUS
        <4> HIDE DEF T
        <4> QED BY <3>2, <4>1, RankAssumption
      <3>4. LastOf(T) \in 1..n
        <4> HIDE DEF T
        <4> QED BY <3>1, <3>2
      <3>5. last = LastOf(T)
        BY <2>2
      <3> HIDE DEF T, last
      <3>6. \A f \in left : Rank[f] < last
        BY <3>3, <3>4, <3>5
      <3> QED BY <3>4, <3>5, <3>6 DEF Below
    <2> QED BY <2>1, <2>2
  <1>2. Rounds(d, left) = after[last]
    BY Zenon DEF Rounds
  <1> HIDE DEF last
  <1>3. \E h : Loop(h)
    <2>1. PICK h : IsRun(d, RoundList(left, last), last, h)
      BY <1>1, RunExists
    <2>2. h = [k \in 0..last |-> h[k]]
      BY <2>1 DEF IsRun
    <2>3. h[0] = d /\ \A k \in 1..last : h[k] = Round(h[k - 1], left, k - 1)
      <3>1. last \in Nat
        BY <1>1
      <3> QED BY <2>1, <3>1, RoundRun
    <2>4. \A k \in 0..last : h[k] = IF k = 0 THEN d ELSE Round(h[k - 1], left, k - 1)
      <3>1. \A k \in 0..last : k = 0 \/ k \in 1..last
        BY <1>1
      <3>2. \A k \in 1..last : k # 0
        BY <1>1
      <3> QED BY <2>3, <3>1, <3>2, Zenon
    <2>5. Loop(h)
      BY <2>2, <2>4, Zenon
    <2> HIDE DEF Loop
    <2> QED BY <2>5
  <1>4. Loop(after)
    <2> HIDE DEF Loop
    <2> QED BY <1>3, Zenon
  <1>5. /\ after[0] = d
        /\ \A k \in 1..last : after[k] = Round(after[k - 1], left, k - 1)
    <2>1. \A k \in 0..last : after[k] = IF k = 0 THEN d ELSE Round(after[k - 1], left, k - 1)
      <3> HIDE DEF after
      <3> QED BY <1>4
    <2> HIDE DEF after
    <2> QED BY <1>1, <2>1
  <1> HIDE DEF after, Loop
  <1>6. g[0] = d /\ \A k \in 1..n : g[k] = Round(g[k - 1], left, k - 1)
    BY RoundRun
  <1> DEFINE S == {k \in 0..n : g[k] = IF k <= last THEN after[k] ELSE after[last]}
  <1>7. 0 \in S
    BY <1>1, <1>5, <1>6
  <1>8. ASSUME NEW k \in 1..n, k - 1 \in S
        PROVE  k \in S
    <2>1. g[k] = Round(g[k - 1], left, k - 1)
      BY <1>6
    <2>2. CASE k <= last
      <3>1. k \in 1..last /\ k - 1 <= last
        BY <1>1, <2>2
      <3>2. g[k - 1] = after[k - 1]
        BY <1>8, <3>1
      <3> QED BY <1>5, <2>1, <2>2, <3>1, <3>2
    <2>3. CASE ~ (k <= last)
      <3>1. ~ \E f \in left : Rank[f] = k - 1
        BY <1>1, <2>3, RankAssumption DEF Below
      <3>2. g[k] = g[k - 1]
        BY <2>1, <3>1 DEF Round
      <3>3. g[k - 1] = after[last]
        <4>1. k - 1 <= last => k - 1 = last
          BY <1>1, <2>3
        <4> QED BY <1>8, <4>1
      <3> QED BY <2>3, <3>2, <3>3
    <2> QED BY <2>2, <2>3
  <1> HIDE DEF S
  <1>9. n \in S
    <2>1. \A k \in 0..n : k \in S
      BY <1>7, <1>8, UpTo
    <2> QED BY <2>1
  <1>10. n <= last => n = last
    BY <1>1
  <1> QED BY <1>2, <1>9, <1>10 DEF S

(* The loop of merge_features_to_staged: the first feature left is merged,   *)
(* then the others are.                                                      *)
LEMMA RoundsOneByOne ==
    ASSUME NEW d, NEW left \in SUBSET Features, NEW n \in Nat, Below(left, n)
    PROVE  /\ left = {} => Rounds(d, left) = d
           /\ left # {} =>
                 Rounds(d, left) = Rounds(MergeFeatureToStaged(d, FirstOf(left)),
                                          left \ {FirstOf(left)})
PROOF
  <1>1. CASE left = {}
    <2>1. Below(left, 0)
      BY <1>1 DEF Below
    <2>2. PICK g : IsRun(d, RoundList(left, 0), 0, g)
      BY RunExists
    <2>3. g[0] = d
      BY <2>2, RoundRun
    <2> QED BY <1>1, <2>1, <2>2, <2>3, RoundsRun
  <1>2. CASE left # {}
    <2> DEFINE f == FirstOf(left)
               rest == left \ {f}
               e == MergeFeatureToStaged(d, f)
               r == Rank[f]
    <2>1. f \in left /\ \A h \in left : r <= Rank[h]
      BY <1>2, FirstOfLeft
    <2>2. r \in Nat /\ r < n /\ Below(rest, n)
      BY <2>1, RankAssumption DEF Below
    <2>3. PICK g : IsRun(d, RoundList(left, n), n, g)
      BY RunExists
    <2>4. PICK h : IsRun(e, RoundList(rest, n), n, h)
      BY RunExists
    <2>5. Rounds(d, left) = g[n] /\ Rounds(e, rest) = h[n]
      <3> HIDE DEF e, rest
      <3>1. rest \in SUBSET Features
        BY DEF rest
      <3> QED BY <2>2, <2>3, <2>4, <3>1, RoundsRun
    <2>6. /\ g[0] = d /\ \A k \in 1..n : g[k] = Round(g[k - 1], left, k - 1)
          /\ h[0] = e /\ \A k \in 1..n : h[k] = Round(h[k - 1], rest, k - 1)
      <3> HIDE DEF e, rest
      <3> QED BY <2>3, <2>4, RoundRun
    <2>7. \A x \in left : x # f => Rank[x] \in Nat /\ Rank[x] > r
      BY <2>1, <2>2, RankAssumption
    <2>8. ASSUME NEW b, NEW k \in Nat, k # r
          PROVE  Round(b, left, k) = Round(b, rest, k)
      <3>1. {x \in left : Rank[x] = k} = {x \in rest : Rank[x] = k}
        BY <2>8
      <3>2. \A x : (x \in left /\ Rank[x] = k) <=> (x \in rest /\ Rank[x] = k)
        BY <3>1
      <3> HIDE DEF rest, f, r
      <3>3. (\E x \in left : Rank[x] = k) <=> (\E x \in rest : Rank[x] = k)
        BY <3>2
      <3>4. (CHOOSE x \in left : Rank[x] = k) = (CHOOSE x \in rest : Rank[x] = k)
        BY <3>2
      <3> QED BY <3>3, <3>4 DEF Round
    <2>9. ASSUME NEW b
          PROVE  Round(b, left, r) = MergeFeatureToStaged(b, f) /\ Round(b, rest, r) = b
      <3>1. (CHOOSE x \in left : Rank[x] = r) = f
        <4>1. \A x \in left : Rank[x] = r => x = f
          BY <2>1, RankAssumption
        <4> HIDE DEF f
        <4> QED BY <2>1, <4>1 DEF r
      <3>2. ~ \E x \in rest : Rank[x] = r
        BY <2>7
      <3>3. \E x \in left : Rank[x] = r
        BY <2>1
      <3> HIDE DEF f, rest, r
      <3> QED BY <3>1, <3>2, <3>3 DEF Round
    <2>10. ASSUME NEW b, NEW k \in Nat, k < r
           PROVE  Round(b, left, k) = b /\ Round(b, rest, k) = b
      <3>1. \A x \in left : Rank[x] # k
        BY <2>1, <2>2, <2>10, RankAssumption
      <3>2. (~ \E x \in left : Rank[x] = k) /\ (~ \E x \in rest : Rank[x] = k)
        BY <3>1
      <3> HIDE DEF f, rest, r
      <3> QED BY <3>2 DEF Round
    <2> DEFINE S == {k \in 0..n : IF k <= r THEN g[k] = d /\ h[k] = e ELSE g[k] = h[k]}
    <2>11. 0 \in S
      BY <2>2, <2>6
    <2>12. ASSUME NEW k \in 1..n, k - 1 \in S
           PROVE  k \in S
      <3> HIDE DEF f, rest, e, r
      <3>1. PICK j \in Nat : j = k - 1 /\ k = j + 1
        OBVIOUS
      <3>2. g[k] = Round(g[j], left, j) /\ h[k] = Round(h[j], rest, j)
        BY <2>6, <3>1
      <3>3. IF j <= r THEN g[j] = d /\ h[j] = e ELSE g[j] = h[j]
        BY <2>12, <3>1
      <3>4. CASE j < r
        <4>1. k <= r /\ j <= r
          BY <2>2, <3>1, <3>4
        <4>2. g[k] = d /\ h[k] = e
          BY <2>10, <3>2, <3>3, <3>4, <4>1
        <4> QED BY <4>1, <4>2
      <3>5. CASE j = r
        <4>1. ~ (k <= r) /\ j <= r
          BY <2>2, <3>1, <3>5
        <4>2. g[k] = e /\ h[k] = e
          BY <2>9, <3>2, <3>3, <3>5, <4>1 DEF e
        <4> QED BY <4>1, <4>2
      <3>6. CASE j > r
        <4>1. ~ (k <= r) /\ ~ (j <= r) /\ j # r
          BY <2>2, <3>1, <3>6
        <4>2. g[k] = h[k]
          BY <2>8, <3>2, <3>3, <4>1
        <4> QED BY <4>1, <4>2
      <3> QED BY <2>2, <3>4, <3>5, <3>6
    <2> HIDE DEF S
    <2>13. n \in S
      <3>1. \A k \in 0..n : k \in S
        BY <2>11, <2>12, UpTo
      <3> QED BY <3>1
    <2>14. ~ (n <= r)
      BY <2>2
    <2>15. g[n] = h[n]
      BY <2>13, <2>14 DEF S
    <2> QED BY <1>2, <2>5, <2>15
  <1> QED BY <1>1, <1>2

(* The steps of two lists one after the other, of one step, of a few.        *)
LEMMA AfterJoin ==
    ASSUME NEW d, NEW S, NEW todo \in Seq(S), NEW rest \in Seq(S)
    PROVE  After(d, todo \o rest) = After(After(d, todo), rest)
PROOF
  <1>1. PICK n \in Nat : n = Len(todo)
    OBVIOUS
  <1>2. PICK m \in Nat : m = Len(rest)
    OBVIOUS
  <1>3. PICK all \in Seq(S) : all = todo \o rest
    <2>1. todo \o rest \in Seq(S)
      OBVIOUS
    <2> QED BY <2>1
  <1>4. /\ Len(all) = n + m
        /\ \A k \in 1..n : todo[k] = all[k]
        /\ \A k \in 1..m : all[n + k] = rest[k]
    BY <1>1, <1>2, <1>3
  <1>5. PICK l \in Nat : l = n + m
    OBVIOUS
  <1>15. PICK g : IsRun(d, all, l, g)
    BY RunExists
  <1>6. PICK f : IsRun(d, todo, n, f)
    BY RunExists
  <1>7. n \in 0..n /\ n <= l
    BY <1>5
  <1>8. \A k \in 0..n : f[k] = g[k]
    <2>1. \A k \in 1..n : todo[k] = all[k]
      BY <1>4
    <2>2. n <= l
      BY <1>7
    <2>3. n \in Nat /\ l \in Nat
      OBVIOUS
    <2>4. PICK list : list = all
      OBVIOUS
    <2>5. \A k \in 1..n : todo[k] = list[k]
      BY <2>1, <2>4
    <2>6. IsRun(d, list, l, g)
      BY <1>15, <2>4
    <2> QED BY <1>6, <2>2, <2>3, <2>5, <2>6, RunsAgree
  <1>9. /\ g[0] = d /\ \A k \in 1..(l) : g[k] = Did(g[k - 1], all[k])
        /\ After(d, all) = g[l] /\ After(d, todo) = g[n]
    <2>1. After(d, todo) = f[n]
      BY <1>1, <1>6, AfterIsLast
    <2>2. After(d, all) = g[l]
      BY <1>4, <1>5, <1>15, AfterIsLast
    <2>3. g[0] = d /\ \A k \in 1..(l) : g[k] = Did(g[k - 1], all[k])
      BY <1>15, RunGives
    <2> QED BY <1>7, <1>8, <2>1, <2>2, <2>3
  <1>10. PICK e : e = g[n]
    OBVIOUS
  <1> DEFINE h == [k \in 0..m |-> g[n + k]]
  <1>11. ASSUME NEW k \in 0..m
         PROVE  h[k] = IF k = 0 THEN e ELSE Did(h[k - 1], rest[k])
    <2>1. CASE k = 0
      BY <1>10, <2>1
    <2>2. CASE k # 0
      <3>1. n + k \in 1..(l) /\ (n + k) - 1 = n + (k - 1) /\ k \in 1..m /\ k - 1 \in 0..m
        BY <1>5, <2>2
      <3>2. h[k - 1] = g[n + (k - 1)] /\ h[k] = g[n + k]
        BY <3>1
      <3> HIDE DEF h
      <3> QED BY <1>4, <1>9, <2>2, <3>1, <3>2
    <2> QED BY <2>1, <2>2
  <1>12. h = [k \in 0..m |-> h[k]] /\ h[m] = g[l]
    BY <1>5
  <1> HIDE DEF h
  <1>13. IsRun(e, rest, m, h)
    BY <1>11, <1>12, Zenon DEF IsRun
  <1>14. After(e, rest) = h[m]
    BY <1>2, <1>13, AfterIsLast
  <1> QED BY <1>3, <1>9, <1>10, <1>12, <1>14

LEMMA AfterNone ==
    ASSUME NEW d
    PROVE  After(d, << >>) = d
PROOF
  <1>1. << >> \in Seq({d}) /\ Len(<< >>) = 0
    OBVIOUS
  <1>2. PICK g : IsRun(d, << >>, 0, g)
    BY RunExists
  <1>3. g[0] = d
    BY <1>2, RunGives
  <1> QED BY <1>1, <1>2, <1>3, AfterIsLast

LEMMA AfterOne ==
    ASSUME NEW d, NEW st
    PROVE  After(d, <<st>>) = Did(d, st)
PROOF
  <1>1. <<st>> \in Seq({st}) /\ Len(<<st>>) = 1 /\ <<st>>[1] = st
    OBVIOUS
  <1>2. PICK g : IsRun(d, <<st>>, 1, g)
    BY RunExists
  <1>3. g[0] = d /\ \A k \in 1..1 : g[k] = Did(g[k - 1], <<st>>[k])
    BY <1>2, RunGives
  <1>4. 1 \in 1..1 /\ 1 - 1 = 0
    OBVIOUS
  <1>5. g[1] = Did(d, st)
    BY <1>1, <1>3, <1>4
  <1>6. After(d, <<st>>) = g[1]
    BY <1>1, <1>2, AfterIsLast
  <1> QED BY <1>5, <1>6

(* The first step of a list, then the others.                                *)
LEMMA AfterFirst ==
    ASSUME NEW d, NEW S, NEW todo \in Seq(S), todo # << >>
    PROVE  After(d, todo) = After(Did(d, Head(todo)), Tail(todo))
PROOF
  <1>1. Head(todo) \in S /\ Tail(todo) \in Seq(S) /\ <<Head(todo)>> \in Seq(S)
    <2>1. Len(todo) \in Nat \ {0}
      OBVIOUS
    <2> QED BY <2>1
  <1>2. todo = <<Head(todo)>> \o Tail(todo)
    <2>1. PICK one : one = Head(todo)
      OBVIOUS
    <2>2. PICK rest \in Seq(S) : rest = Tail(todo)
      BY <1>1
    <2>3. Len(rest) = Len(todo) - 1 /\ one = todo[1] /\ \A k \in 1..Len(rest) : rest[k] = todo[k + 1]
      BY <2>1, <2>2
    <2>4. <<one>> \o rest = todo
      <3>1. Len(<<one>> \o rest) = Len(todo)
        BY <2>3
      <3>2. ASSUME NEW k \in 1..Len(todo)
            PROVE  (<<one>> \o rest)[k] = todo[k]
        BY <2>3
      <3>3. <<one>> \o rest \in Seq(S)
        BY <1>1, <2>1
      <3> QED BY <3>1, <3>2, <3>3, SeqEqual
    <2> QED BY <2>1, <2>2, <2>4
  <1>3. After(d, <<Head(todo)>> \o Tail(todo)) = After(After(d, <<Head(todo)>>), Tail(todo))
    <2>1. PICK one \in Seq(S) : one = <<Head(todo)>>
      BY <1>1
    <2>2. PICK rest \in Seq(S) : rest = Tail(todo)
      BY <1>1
    <2>3. After(d, one \o rest) = After(After(d, one), rest)
      BY AfterJoin
    <2> QED BY <2>1, <2>2, <2>3
  <1> QED BY <1>2, <1>3, AfterOne

LEMMA AfterTwo ==
    ASSUME NEW d, NEW a, NEW b
    PROVE  After(d, <<a, b>>) = Did(Did(d, a), b)
PROOF
  <1>1. PICK S : a \in S /\ b \in S
    <2>1. a \in {a, b} /\ b \in {a, b}
      OBVIOUS
    <2> QED BY <2>1
  <1>2. PICK todo \in Seq(S) : todo = <<a, b>>
    <2>1. <<a, b>> \in Seq(S)
      BY <1>1
    <2> QED BY <2>1
  <1>3. todo # << >> /\ Head(todo) = a /\ Tail(todo) = <<b>>
    BY <1>2
  <1> QED BY <1>2, <1>3, AfterFirst, AfterOne

LEMMA AfterThree ==
    ASSUME NEW d, NEW a, NEW b, NEW c
    PROVE  After(d, <<a, b, c>>) = Did(Did(Did(d, a), b), c)
PROOF
  <1>1. PICK S : a \in S /\ b \in S /\ c \in S
    <2>1. a \in {a, b, c} /\ b \in {a, b, c} /\ c \in {a, b, c}
      OBVIOUS
    <2> QED BY <2>1
  <1>2. PICK todo \in Seq(S) : todo = <<a, b, c>>
    <2>1. <<a, b, c>> \in Seq(S)
      BY <1>1
    <2> QED BY <2>1
  <1>3. todo # << >> /\ Head(todo) = a /\ Tail(todo) = <<b, c>>
    BY <1>2
  <1>4. After(d, todo) = After(Did(d, a), <<b, c>>)
    BY <1>3, AfterFirst
  <1> QED BY <1>2, <1>4, AfterTwo

(* What each step does.                                                      *)
LEMMA DidTable ==
    ASSUME NEW d
    PROVE  /\ \A p : Did(d, Get(p)) = d
           /\ \A what : Did(d, Make(what)) =
                 IF what.merge = "approve" /\ Effect(what, d) # d
                 THEN ResetToBaseline(Effect(what, d), Approval(what.agent))
                 ELSE Effect(what, d)
           /\ \A p, id : Did(d, Move(p, id)) = UpdatePointer(d, p, id)
           /\ \A p : Did(d, Reset(p)) = ResetToBaseline(d, p)
           /\ \A left : Did(d, RoundsLeft(left)) = Rounds(d, left)
PROOF
  <1>1. \A p : Did(d, Get(p)) = d
    BY DEF Get, Did
  <1>5. \A what : Did(d, Make(what)) =
           IF what.merge = "approve" /\ Effect(what, d) # d
           THEN ResetToBaseline(Effect(what, d), Approval(what.agent))
           ELSE Effect(what, d)
    BY DEF Make, Did
  <1>6. \A p, id : Did(d, Move(p, id)) = UpdatePointer(d, p, id)
    BY DEF Move, Did
  <1>7. \A p : Did(d, Reset(p)) = ResetToBaseline(d, p)
    BY DEF Reset, Did
  <1>9. \A left : Did(d, RoundsLeft(left)) = Rounds(d, left)
    BY DEF RoundsLeft, Did
  <1> QED BY <1>1, <1>5, <1>6, <1>7, <1>9

(* The steps a loop is replaced by do what is left of it.                    *)
LEMMA RoundsAfter ==
    ASSUME NEW d, NEW left \in SUBSET Features, NEW n \in Nat, Below(left, n)
    PROVE  After(d, RoundsOver(left)) = Rounds(d, left)
PROOF
  <1>1. CASE left = {}
    BY <1>1, AfterNone, RoundsOneByOne DEF RoundsOver
  <1>2. CASE left # {}
    <2> DEFINE f == FirstOf(left)
               what == [merge |-> "round", feature |-> f]
               one == Get(Feature(f))
               two == Get(Staged)
               three == Make(what)
               four == RoundsLeft(left \ {f})
               e == MergeFeatureToStaged(d, f)
    <2>1. RoundsOver(left) = <<one, two, three>> \o <<four>>
      BY <1>2 DEF RoundsOver, RoundSteps, RoundsLeft
    <2>2. Effect(what, d) = e /\ what.merge = "round"
      BY DEF Effect
    <2>3. Rounds(d, left) = Rounds(e, left \ {f})
      BY <1>2, RoundsOneByOne
    <2>4. Did(d, one) = d /\ Did(d, two) = d
      BY DidTable
    <2>5. Did(e, four) = Rounds(e, left \ {f})
      BY DidTable
    <2>6. Did(d, three) = e
      <3> HIDE DEF what, e
      <3> QED BY <2>2, DidTable
    <2> HIDE DEF f, what, one, two, three, four, e
    <2>7. After(d, <<one, two, three>>) = e
      BY <2>4, <2>6, AfterThree
    <2>8. After(d, <<one, two, three>> \o <<four>>) = After(After(d, <<one, two, three>>), <<four>>)
      <3>1. PICK S : one \in S /\ two \in S /\ three \in S /\ four \in S
        <4>1. \A st \in {one, two, three, four} : st \in {one, two, three, four}
          OBVIOUS
        <4> QED BY <4>1
      <3>2. <<one, two, three>> \in Seq(S) /\ <<four>> \in Seq(S)
        BY <3>1
      <3>3. PICK begin \in Seq(S), end \in Seq(S) : begin = <<one, two, three>> /\ end = <<four>>
        BY <3>2
      <3>4. After(d, begin \o end) = After(After(d, begin), end)
        BY AfterJoin
      <3> QED BY <3>3, <3>4
    <2>9. After(e, <<four>>) = Rounds(e, left \ {f})
      BY <2>5, AfterOne
    <2> QED BY <2>1, <2>3, <2>7, <2>8, <2>9
  <1> QED BY <1>1, <1>2

(* A request's steps, one after the other, do what the atomic operation does. *)
LEMMA ApproveAfter ==
    ASSUME NEW d, NEW a, NEW f
    PROVE  After(d, ApproveAgentSteps(a, f)) = MergeAgentToFeature(d, a, f)
PROOF
  <1> DEFINE what == [merge |-> "approve", agent |-> a, feature |-> f]
             one == Get(Approval(a))
             two == Found(Feature(f), Approval(a), "baseline")
             three == Make(what)
             ensured == Ensure(d, Feature(f), Baseline(d, Approval(a)))
             merged == MergeApprovalIntoFeature(ensured, a, f)
  <1>1. Effect(what, ensured) = merged /\ what.merge = "approve" /\ what.agent = a
    BY DEF Effect
  <1>2. MergeAgentToFeature(d, a, f) =
           IF merged = ensured THEN ensured ELSE ResetToBaseline(merged, Approval(a))
    BY DEF MergeAgentToFeature
  <1>3. ApproveAgentSteps(a, f) = <<one, two, three>>
    BY DEF ApproveAgentSteps
  <1>4. Did(d, one) = d /\ Did(d, two) = ensured
    BY DEF Get, Found, Did
  <1>5. Did(ensured, three) = IF merged # ensured THEN ResetToBaseline(merged, Approval(a)) ELSE merged
    <2> HIDE DEF what, ensured, merged
    <2> QED BY <1>1, DidTable
  <1> HIDE DEF what, one, two, three, ensured, merged
  <1>6. After(d, <<one, two, three>>) = Did(ensured, three)
    BY <1>4, AfterThree
  <1> QED BY <1>2, <1>3, <1>5, <1>6

LEMMA EditAfter ==
    ASSUME NEW d, NEW p, NEW path, NEW new
    PROVE  After(d, EditSteps(p, path, new)) = ApplyEdit(d, p, path, new)
PROOF
  <1> DEFINE what == [merge |-> "edit", part |-> p, path |-> path, new |-> new]
  <1>1. Effect(what, d) = ApplyEdit(d, p, path, new) /\ what.merge = "edit"
    BY DEF Effect
  <1>2. EditSteps(p, path, new) = <<Get(p), Make(what)>>
    BY DEF EditSteps
  <1> HIDE DEF what
  <1>3. Did(d, Get(p)) = d /\ Did(d, Make(what)) = ApplyEdit(d, p, path, new)
    BY <1>1, DidTable
  <1> QED BY <1>2, <1>3, AfterTwo

LEMMA ListingAfter ==
    ASSUME NEW d
    PROVE  After(d, <<Step("list")>>) = MergesToStaged(d)
PROOF
  <1> DEFINE st == Step("list")
  <1>1. Did(d, st) = MergesToStaged(d)
    BY DEF Step, Did
  <1> HIDE DEF st
  <1>2. After(d, <<st>>) = MergesToStaged(d)
    BY <1>1, AfterOne
  <1> QED BY <1>2 DEF st

LEMMA RequestAfter ==
    ASSUME NEW d, NEW req \in RequestKinds, req.op # "branch_switch"
    PROVE  After(d, StepsOf(req)) = Atomic(req, d)
PROOF
  <1>1. PICK S : S = Legal(d, req)
    OBVIOUS
  <1>2. ASSUME NEW todo \in Seq(S), NEW rest \in Seq(S)
        PROVE  After(d, todo \o rest) = After(After(d, todo), rest)
    BY AfterJoin
  <1>3. CASE req.op = "edit"
    <2> DEFINE begin == EditSteps(Manual, req.path, req.new)
               what == [merge |-> "manual"]
               end == <<Get(Manual), Get(Staged), Make(what)>>
               e == ApplyEdit(d, Manual, req.path, req.new)
    <2>1. StepsOf(req) = begin \o end /\ Atomic(req, d) = MergeManualToStaged(e)
      BY <1>3 DEF StepsOf, Atomic
    <2>2. begin \in Seq(S) /\ end \in Seq(S)
      <3>1. req.path \in Paths /\ req.new \in Text /\ Owns(req, Manual)
        BY <1>3, LayerNamesDiffer DEF RequestKinds, Owns
      <3> QED BY <1>1, <3>1, EditPlan, ManualMergePlan DEF Plan
    <2>3. After(d, begin) = e
      BY EditAfter
    <2>4. Effect(what, e) = MergeManualToStaged(e) /\ what.merge = "manual"
      BY DEF Effect
    <2> HIDE DEF what, e, begin
    <2>5. /\ Did(e, Get(Manual)) = e /\ Did(e, Get(Staged)) = e
          /\ Did(e, Make(what)) = MergeManualToStaged(e)
      BY <2>4, DidTable
    <2>6. After(e, end) = MergeManualToStaged(e)
      BY <2>5, AfterThree
    <2> HIDE DEF end
    <2> QED BY <1>2, <2>1, <2>2, <2>3, <2>6
  <1>4. CASE req.op = "agent_edit"
    <2> DEFINE p == Agent(req.agent)
               begin == <<Get(Staged), Found(p, Staged, "current")>>
               end == EditSteps(p, req.path, req.new)
               e == Ensure(d, p, d.pointer[Staged])
    <2>1. StepsOf(req) = begin \o end /\ Atomic(req, d) = ApplyEdit(e, p, req.path, req.new)
      BY <1>4 DEF StepsOf, Atomic
    <2>2. begin \in Seq(S) /\ end \in Seq(S)
      <3>1. /\ req.agent \in Agents /\ req.path \in Paths /\ req.new \in Text
            /\ Named(req) = {req.agent}
        BY <1>4 DEF RequestKinds, Named
      <3>2. p \in Partitions \ {Manual} /\ Owns(req, p)
        BY <3>1, PartitionNames, LayerNamesDiffer DEF Owns, Agent
      <3>3. Get(Staged) \in S /\ Found(p, Staged, "current") \in S
        BY <1>1, <3>2, LegalSteps, PartitionNames
      <3>4. end \in Seq(S)
        BY <1>1, <3>1, <3>2, EditPlan DEF Plan
      <3> QED BY <3>3, <3>4
    <2>3. Did(d, Get(Staged)) = d /\ Did(d, Found(p, Staged, "current")) = e
      BY DEF Get, Found, Did
    <2> HIDE DEF p, e
    <2>4. After(d, begin) = e
      BY <2>3, AfterTwo
    <2>5. After(e, end) = ApplyEdit(e, p, req.path, req.new)
      BY EditAfter
    <2> HIDE DEF begin, end
    <2> QED BY <1>2, <2>1, <2>2, <2>4, <2>5
  <1>5. CASE req.op = "agent_submit"
    <2> DEFINE a == req.agent
               p == Approval(a)
               what == [merge |-> "submit", agent |-> a]
               begin == <<Get(Staged), Found(p, Staged, "current")>>
               end == <<Get(Agent(a)), Get(p), Make(what)>>
               e == Ensure(d, p, d.pointer[Staged])
    <2>1. StepsOf(req) = <<Get(Staged), Found(p, Staged, "current"), Get(Agent(a)), Get(p), Make(what)>>
          /\ Atomic(req, d) = MoveAgentToApproval(e, a)
      BY <1>5 DEF StepsOf, Atomic
    <2>2. PICK all \in Seq(S) : all = StepsOf(req)
      BY <1>1, RequestPlan DEF Plan
    <2>3. Effect(what, e) = MoveAgentToApproval(e, a) /\ what.merge = "submit"
      BY DEF Effect
    <2>4. Did(d, Get(Staged)) = d /\ Did(d, Found(p, Staged, "current")) = e
      BY DEF Get, Found, Did
    <2> HIDE DEF what, e, a, p
    <2>5. /\ Did(e, Get(Agent(a))) = e /\ Did(e, Get(p)) = e
          /\ Did(e, Make(what)) = MoveAgentToApproval(e, a)
      BY <2>3, DidTable
    <2>6. After(d, all) = After(d, Tail(all)) /\ Head(all) = Get(Staged)
      <3>1. all # << >> /\ Head(all) = Get(Staged)
        BY <2>1, <2>2
      <3> QED BY <2>4, <3>1, AfterFirst
    <2>7. PICK rest \in Seq(S) : rest = Tail(all)
      <3>1. Tail(all) \in Seq(S)
        BY <2>1, <2>2
      <3> QED BY <3>1
    <2>8. rest # << >> /\ Head(rest) = Found(p, Staged, "current") /\ Tail(rest) = end
      BY <2>1, <2>2, <2>7
    <2>9. After(d, rest) = After(e, end)
      <3> HIDE DEF end
      <3> QED BY <2>4, <2>8, AfterFirst
    <2>10. After(e, end) = MoveAgentToApproval(e, a)
      BY <2>5, AfterThree
    <2> QED BY <2>1, <2>2, <2>6, <2>7, <2>9, <2>10
  <1>6. CASE req.op = "approve_agent"
    BY <1>6, ApproveAfter DEF StepsOf, Atomic
  <1>7. CASE req.op = "approve"
    <2> DEFINE begin == ApproveAgentSteps(req.agent, FeatureOf[req.agent])
               end == <<Step("list")>>
               e == MergeAgentToFeature(d, req.agent, FeatureOf[req.agent])
    <2>1. StepsOf(req) = begin \o end /\ Atomic(req, d) = MergesToStaged(e)
      BY <1>7 DEF StepsOf, Atomic
    <2>2. begin \in Seq(S) /\ end \in Seq(S)
      <3>1. req.agent \in Agents /\ FeatureOf[req.agent] \in Features
        BY <1>7, FeatureOfAssumption DEF RequestKinds
      <3>2. Step("list") \in S
        BY <1>1, LegalSteps
      <3>3. begin \in Seq(S)
        BY <1>1, <3>1, ApprovePlan DEF Plan
      <3> QED BY <3>2, <3>3
    <2>3. After(d, begin) = e
      BY ApproveAfter
    <2>4. After(e, end) = MergesToStaged(e)
      BY ListingAfter
    <2> HIDE DEF begin, end, e
    <2> QED BY <1>2, <2>1, <2>2, <2>3, <2>4
  <1>8. CASE req.op = "reject_agent"
    <2> DEFINE p == Approval(req.agent)
    <2>1. StepsOf(req) = <<Get(p), Reset(p)>> /\ Atomic(req, d) = ResetToBaseline(d, p)
      BY <1>8 DEF StepsOf, Atomic
    <2> HIDE DEF p
    <2>2. Did(d, Get(p)) = d /\ Did(d, Reset(p)) = ResetToBaseline(d, p)
      BY DidTable
    <2>3. After(d, <<Get(p), Reset(p)>>) = ResetToBaseline(d, p)
      BY <2>2, AfterTwo
    <2> QED BY <2>1, <2>3
  <1>9. CASE req.op = "merge_to_staged"
    <2>1. StepsOf(req) = <<Step("list")>> /\ Atomic(req, d) = MergesToStaged(d)
      BY <1>9 DEF StepsOf, Atomic
    <2> QED BY <2>1, ListingAfter
  <1>10. CASE req.op = "commit"
    <2>1. StepsOf(req) = <<Get(Staged), Step("commit")>> /\ Atomic(req, d) = d
      BY <1>10 DEF StepsOf, Atomic
    <2> DEFINE end == Step("commit")
    <2>2. Did(d, Get(Staged)) = d /\ Did(d, end) = d
      BY DEF Get, Step, Did
    <2>3. StepsOf(req) = <<Get(Staged), end>>
      BY <2>1
    <2> HIDE DEF end
    <2>4. After(d, <<Get(Staged), end>>) = d
      BY <2>2, AfterTwo
    <2> QED BY <2>1, <2>3, <2>4
  <1>11. req.op \in {"edit", "agent_edit", "agent_submit", "approve_agent", "approve",
                     "reject_agent", "merge_to_staged", "commit", "branch_switch"}
    BY DEF RequestKinds
  <1> QED BY <1>3, <1>4, <1>5, <1>6, <1>7, <1>8, <1>9, <1>10, <1>11

-----------------------------------------------------------------------------
(* A snapshot made of what was read is the one made of what is there         *)

(* Two views of the same rows that agree on what a merge works on.           *)
Agree(d, e, what) ==
    /\ d.snaps = e.snaps
    /\ \A p \in Sources(what) :
          d.pointer[p] = e.pointer[p] /\ Baseline(d, p) = Baseline(e, p)

(* Nothing to do in either, or the same snapshot for both.                   *)
Alike(d, out, e, made, p) ==
    \/ out = d /\ made = e
    \/ \E s : out = Advance(d, p, s) /\ made = Advance(e, p, s)

(* Merges, edits and all other effects of views that agree are alike.        *)
LEMMA MergeAlike ==
    ASSUME NEW d, NEW e, d.snaps = e.snaps,
           NEW dst, NEW ids, NEW b, NEW o, NEW t, NEW source
    PROVE  Alike(d, MergeInto(d, dst, ids, b, o, t, source),
                 e, MergeInto(e, dst, ids, b, o, t, source), dst)
PROOF
  <1>1. /\ \A id : TextOf(d, id) = TextOf(e, id)
        /\ \A id : FileOf(d, id) = FileOf(e, id)
        /\ \A delta, type, c : MergeOf(d, ids, delta, type, c) = MergeOf(e, ids, delta, type, c)
    BY DEF TextOf, FileOf, MergeOf
  <1> DEFINE merged == Merge(TextOf(e, b), TextOf(e, o), TextOf(e, t))
             delta == [file |-> FileOf(e, ids[2]), diff |-> DiffOf(TextOf(e, ids[1]), merged),
                       source |-> source]
             conflicts == Conflicts(TextOf(e, b), TextOf(e, o), TextOf(e, t))
             s == MergeOf(e, ids, delta, dst, conflicts)
             settled == ids[1] = ids[2] \/ merged = TextOf(e, ids[1])
  <1>2. MergeInto(e, dst, ids, b, o, t, source) = IF settled THEN e ELSE Advance(e, dst, s)
    BY DEF MergeInto
  <1>3. MergeInto(d, dst, ids, b, o, t, source) = IF settled THEN d ELSE Advance(d, dst, s)
    BY <1>1 DEF MergeInto
  <1> HIDE DEF settled, s
  <1> QED BY <1>2, <1>3 DEF Alike

LEMMA EditAlike ==
    ASSUME NEW d, NEW e, d.snaps = e.snaps, NEW p, d.pointer[p] = e.pointer[p], NEW path, NEW new
    PROVE  Alike(d, ApplyEdit(d, p, path, new), e, ApplyEdit(e, p, path, new), p)
PROOF
  <1>1. /\ \A id : TextOf(d, id) = TextOf(e, id)
        /\ \A id, delta, type : ChildOf(d, id, delta, type) = ChildOf(e, id, delta, type)
    BY DEF TextOf, ChildOf
  <1> DEFINE id == e.pointer[p]
             old == TextOf(e, id)
             delta == [file |-> [path |-> path, base |-> old],
                       diff |-> DiffOf(old, new), source |-> p]
             s == ChildOf(e, id, delta, p)
  <1>2. ApplyEdit(e, p, path, new) = IF old = new THEN e ELSE Advance(e, p, s)
    BY DEF ApplyEdit
  <1>3. ApplyEdit(d, p, path, new) = IF old = new THEN d ELSE Advance(d, p, s)
    BY <1>1 DEF ApplyEdit
  <1> HIDE DEF old, s
  <1> QED BY <1>2, <1>3 DEF Alike

LEMMA EffectAlike ==
    ASSUME NEW d, NEW e, NEW what \in Merges, Agree(d, e, what)
    PROVE  Alike(d, Effect(what, d), e, Effect(what, e), Target(what))
PROOF
  <1>1. d.snaps = e.snaps
    BY DEF Agree
  <1>2. CASE what.merge = "edit"
    <2>1. what.part \in Sources(what) /\ Target(what) = what.part
      BY <1>2, MergeKinds
    <2>2. d.pointer[what.part] = e.pointer[what.part]
      BY <2>1 DEF Agree
    <2>3. /\ Effect(what, d) = ApplyEdit(d, what.part, what.path, what.new)
          /\ Effect(what, e) = ApplyEdit(e, what.part, what.path, what.new)
      BY <1>2 DEF Effect
    <2>4. PICK p, path, new : p = what.part /\ path = what.path /\ new = what.new
      OBVIOUS
    <2>5. Alike(d, ApplyEdit(d, p, path, new), e, ApplyEdit(e, p, path, new), p)
      BY <1>1, <2>2, <2>4, EditAlike
    <2> QED BY <2>1, <2>3, <2>4, <2>5
  <1>3. CASE what.merge = "manual"
    <2>1. Staged \in Sources(what) /\ Manual \in Sources(what) /\ Target(what) = Staged
      BY <1>3, MergeKinds
    <2>2. d.pointer[Staged] = e.pointer[Staged] /\ d.pointer[Manual] = e.pointer[Manual]
      BY <2>1 DEF Agree
    <2>3. PICK staged, manual : staged = e.pointer[Staged] /\ manual = e.pointer[Manual]
      OBVIOUS
    <2>4. /\ Effect(what, d) = MergeInto(d, Staged, <<staged, manual>>, staged, staged, manual, Manual)
          /\ Effect(what, e) = MergeInto(e, Staged, <<staged, manual>>, staged, staged, manual, Manual)
      BY <1>3, <2>2, <2>3 DEF Effect, MergeManualToStaged
    <2> QED BY <1>1, <2>1, <2>4, MergeAlike
  <1>4. CASE what.merge = "submit"
    <2>1. PICK p : p = Approval(what.agent)
      OBVIOUS
    <2>2. PICK q : q = Agent(what.agent)
      OBVIOUS
    <2>3. p \in Sources(what) /\ q \in Sources(what) /\ Target(what) = p
      BY <1>4, <2>1, <2>2, MergeKinds
    <2>4. /\ d.pointer[p] = e.pointer[p] /\ d.pointer[q] = e.pointer[q]
          /\ Baseline(d, p) = Baseline(e, p)
      BY <2>3 DEF Agree
    <2>5. PICK approval, agent, b :
              approval = e.pointer[p] /\ agent = e.pointer[q] /\ b = Baseline(e, p)
      OBVIOUS
    <2>6. /\ Effect(what, d) = MergeInto(d, p, <<approval, agent>>, b, approval, agent, q)
          /\ Effect(what, e) = MergeInto(e, p, <<approval, agent>>, b, approval, agent, q)
      BY <1>4, <2>1, <2>2, <2>4, <2>5 DEF Effect, MoveAgentToApproval
    <2> QED BY <1>1, <2>3, <2>6, MergeAlike
  <1>5. CASE what.merge = "approve"
    <2>1. PICK p : p = Approval(what.agent)
      OBVIOUS
    <2>2. PICK q : q = Feature(what.feature)
      OBVIOUS
    <2>3. p \in Sources(what) /\ q \in Sources(what) /\ Target(what) = q
      BY <1>5, <2>1, <2>2, MergeKinds
    <2>4. /\ d.pointer[p] = e.pointer[p] /\ d.pointer[q] = e.pointer[q]
          /\ Baseline(d, q) = Baseline(e, q)
      BY <2>3 DEF Agree
    <2>5. PICK approval, feature, b :
              approval = e.pointer[p] /\ feature = e.pointer[q] /\ b = Baseline(e, q)
      OBVIOUS
    <2>6. PICK ids, source : ids = <<feature, approval, b>> /\ source = Agent(what.agent)
      OBVIOUS
    <2>7. /\ Effect(what, d) = MergeInto(d, q, ids, b, approval, feature, source)
          /\ Effect(what, e) = MergeInto(e, q, ids, b, approval, feature, source)
      BY <1>5, <2>1, <2>2, <2>4, <2>5, <2>6 DEF Effect, MergeApprovalIntoFeature
    <2> QED BY <1>1, <2>3, <2>7, MergeAlike
  <1>6. CASE what.merge = "round"
    <2>1. PICK q : q = Feature(what.feature)
      OBVIOUS
    <2>2. Staged \in Sources(what) /\ q \in Sources(what) /\ Target(what) = Staged
      BY <1>6, <2>1, MergeKinds
    <2>3. /\ d.pointer[Staged] = e.pointer[Staged] /\ d.pointer[q] = e.pointer[q]
          /\ Baseline(d, q) = Baseline(e, q)
      BY <2>2 DEF Agree
    <2>4. PICK staged, feature, b :
              staged = e.pointer[Staged] /\ feature = e.pointer[q] /\ b = Baseline(e, q)
      OBVIOUS
    <2>5. /\ Effect(what, d) = MergeInto(d, Staged, <<staged, feature>>, b, staged, feature, Manual)
          /\ Effect(what, e) = MergeInto(e, Staged, <<staged, feature>>, b, staged, feature, Manual)
      BY <1>6, <2>1, <2>3, <2>4 DEF Effect, MergeFeatureToStaged
    <2> QED BY <1>1, <2>2, <2>5, MergeAlike
  <1> QED BY <1>2, <1>3, <1>4, <1>5, <1>6, MergeKinds

(* Storing the snapshot and moving to it later is advancing at once.         *)
LEMMA AdvanceLater ==
    ASSUME NEW d \in Databases, NEW e \in Databases, d.snaps = e.snaps, NEW p \in Partitions, NEW s
    PROVE  /\ Advance(e, p, s) # e
           /\ Advance(d, p, s) # d
           /\ Advance(d, p, s) = UpdatePointer([d EXCEPT !.snaps = Advance(e, p, s).snaps],
                                               p, Advance(e, p, s).pointer[p])
PROOF
  <1>1. ASSUME NEW x \in Databases
        PROVE  /\ Advance(x, p, s).snaps = StoreSnapshot(x, s).snaps
               /\ Advance(x, p, s).pointer[p] = IdOf(StoreSnapshot(x, s), s)
               /\ StoreSnapshot(x, s) = [x EXCEPT !.snaps = StoreSnapshot(x, s).snaps]
               /\ Advance(x, p, s) # x
    <2> DEFINE stored == StoreSnapshot(x, s)
               id == IdOf(stored, s)
    <2>1. x = [snaps |-> x.snaps, pointer |-> x.pointer, history |-> x.history]
      BY DEF Databases
    <2>2. /\ x.pointer \in [Partitions -> Nat] /\ x.history \in [Partitions -> Seq(Nat)]
      BY DEF Databases
    <2>3. stored = [x EXCEPT !.snaps = stored.snaps]
      BY <2>1 DEF StoreSnapshot
    <2>4. stored.pointer = x.pointer /\ stored.history = x.history
      BY <2>1 DEF StoreSnapshot
    <2> HIDE DEF stored, id
    <2>5. stored = [snaps |-> stored.snaps, pointer |-> x.pointer, history |-> x.history]
      BY <2>1, <2>3
    <2>6. Advance(x, p, s) = UpdatePointer(stored, p, id)
      BY DEF Advance, stored, id
    <2>7. /\ Advance(x, p, s).snaps = stored.snaps
          /\ Advance(x, p, s).pointer = [x.pointer EXCEPT ![p] = id]
          /\ Advance(x, p, s).history = [x.history EXCEPT ![p] = Append(@, id)]
      BY <2>5, <2>6 DEF UpdatePointer
    <2>8. Advance(x, p, s).history[p] # x.history[p]
      <3>1. Advance(x, p, s).history[p] = Append(x.history[p], id)
        BY <2>2, <2>7
      <3>2. x.history[p] \in Seq(Nat)
        BY <2>2
      <3>3. Len(Append(x.history[p], id)) = Len(x.history[p]) + 1 /\ Len(x.history[p]) \in Nat
        BY <3>2
      <3> QED BY <3>1, <3>3
    <2>9. Advance(x, p, s).pointer[p] = id
      BY <2>2, <2>7
    <2> QED BY <2>3, <2>7, <2>8, <2>9 DEF stored, id
  <1>2. /\ StoreSnapshot(d, s).snaps = StoreSnapshot(e, s).snaps
    BY DEF StoreSnapshot, Databases
  <1>3. IdOf(StoreSnapshot(d, s), s) = IdOf(StoreSnapshot(e, s), s)
    BY <1>2 DEF IdOf
  <1>4. Advance(d, p, s) = UpdatePointer(StoreSnapshot(d, s), p, IdOf(StoreSnapshot(d, s), s))
    BY DEF Advance
  <1> QED BY <1>1, <1>2, <1>3, <1>4

-----------------------------------------------------------------------------
(* A request that no other one overlaps                                      *)

(* What it has read is current.                                              *)
Fresh(d, read) ==
    \A p \in HasRead(read) :
        read.pointer[p] = d.pointer[p] /\ Head(read.history[p]) = Baseline(d, p)

Bounded(left) == \E n \in Nat : Below(left, n)

(* A move comes first, and with nothing read; a loop comes to an end; a      *)
(* switch is all there is to a branch_switch.                                *)
Ordered(job) ==
    \A k \in 1..Len(job.todo) :
        /\ job.todo[k].do = "move" => k = 1 /\ HasRead(job.read) = {}
        /\ job.todo[k].do = "rounds" => Bounded(job.todo[k].left)
        /\ job.todo[k].do = "switch" => job.request.op = "branch_switch"

(* It is on its way from d to what the atomic operation makes of d.          *)
Towards(d, now, at, job) ==
    IF job.request.op = "branch_switch"
    THEN \/ job.todo = <<Step("switch")>> /\ now = d
         \/ job.todo = << >> /\ now = UpdatePointer(d, Staged, at)
    ELSE After(now, job.todo) = After(d, StepsOf(job.request))

AloneJob(job) ==
    /\ job.request \in RequestKinds
    /\ Fresh(db, job.read)
    /\ Ordered(job)
    /\ \A d \in job.began : Towards(d, db, head, job)

AloneInv ==
    /\ Bounded(Existing(db))
    /\ \A c \in Clients : client[c].began # {} =>
          /\ \A b \in Clients \ {c} : client[b] = Idle
          /\ AloneJob(client[c])

(* At the start of a step, and after it.                                     *)
AloneOn(c) ==
    /\ Inv /\ Bounded(Existing(db))
    /\ c \in Clients /\ Fresh(db, client[c].read) /\ Ordered(client[c])

GoesOnAlone(c) ==
    \/ client'[c] = Idle
    \/ /\ client'[c].request = client[c].request /\ client'[c].began = client[c].began
       /\ Fresh(db', client'[c].read)
       /\ Ordered(client'[c])
       /\ After(db', client'[c].todo) = After(db, client[c].todo)

(* Steps that may take the place of a first one.                             *)
Opening(more, read) ==
    \A k \in 1..Len(more) :
        /\ more[k].do = "move" => k = 1 /\ HasRead(read) = {}
        /\ more[k].do = "rounds" => Bounded(more[k].left)
        /\ more[k].do # "switch"

(* A list stays ordered when others take the place of its first step.        *)
LEMMA OrderedRest ==
    ASSUME NEW S, NEW todo \in Seq(S), todo # << >>,
           NEW job, job.todo = todo, Ordered(job),
           NEW more \in Seq(S), NEW next, next.todo = more \o Tail(todo), next.request = job.request,
           Opening(more, next.read)
    PROVE  Ordered(next)
PROOF
  <1>1. PICK n \in Nat : n = Len(more)
    OBVIOUS
  <1>2. PICK rest \in Seq(S) : rest = Tail(todo)
    <2>1. Tail(todo) \in Seq(S)
      OBVIOUS
    <2> QED BY <2>1
  <1>3. PICK m \in Nat : m = Len(rest)
    OBVIOUS
  <1>4. Len(todo) = m + 1 /\ \A k \in 1..m : rest[k] = todo[k + 1]
    BY <1>2, <1>3
  <1>5. ASSUME NEW k \in 1..m
        PROVE  /\ rest[k].do # "move"
               /\ rest[k].do = "rounds" => Bounded(rest[k].left)
               /\ rest[k].do = "switch" => job.request.op = "branch_switch"
    <2>1. k + 1 \in 1..Len(todo) /\ k + 1 # 1
      BY <1>4
    <2> QED BY <1>4, <2>1 DEF Ordered
  <1>6. PICK all \in Seq(S) : all = more \o rest
    <2>1. more \o rest \in Seq(S)
      OBVIOUS
    <2> QED BY <2>1
  <1>7. /\ Len(all) = n + m
        /\ \A k \in 1..n : all[k] = more[k]
        /\ \A k \in 1..(n + m) : k > n => all[k] = rest[k - n]
    BY <1>1, <1>3, <1>6
  <1>8. ASSUME NEW k \in 1..(n + m)
        PROVE  /\ all[k].do = "move" => k = 1 /\ HasRead(next.read) = {}
               /\ all[k].do = "rounds" => Bounded(all[k].left)
               /\ all[k].do = "switch" => job.request.op = "branch_switch"
    <2>1. CASE k <= n
      <3>1. k \in 1..n
        BY <2>1
      <3>2. all[k] = more[k]
        BY <1>7, <3>1
      <3> QED BY <1>1, <3>1, <3>2 DEF Opening
    <2>2. CASE k > n
      <3>1. k - n \in 1..m
        BY <2>2
      <3>2. all[k] = rest[k - n]
        BY <1>7, <2>2
      <3> QED BY <1>5, <3>1, <3>2
    <2> QED BY <2>1, <2>2
  <1>9. next.todo = all
    BY <1>2, <1>6
  <1> QED BY <1>7, <1>8, <1>9 DEF Ordered

(* The steps that take the place of the first one do what it does.           *)
LEMMA TakesItsPlace ==
    ASSUME NEW c, AloneOn(c), client[c].todo # << >>, NEW S, client[c].todo \in Seq(S),
           NEW more \in Seq(S), NEW read, GoesOn(c, more \o Rest(c), read),
           Opening(more, read),
           Fresh(db', read), After(db', more) = Did(db, Now(c))
    PROVE  GoesOnAlone(c)
PROOF
  <1>1. PICK todo \in Seq(S) : todo = client[c].todo
    OBVIOUS
  <1>2. PICK rest \in Seq(S) : rest = Tail(todo)
    <2>1. Tail(todo) \in Seq(S)
      BY <1>1
    <2> QED BY <2>1
  <1>3. Now(c) = Head(todo) /\ Rest(c) = rest
    BY <1>1, <1>2 DEF Now, Rest
  <1>4. /\ client'[c].todo = more \o rest /\ client'[c].read = read
        /\ client'[c].request = client[c].request /\ client'[c].began = client[c].began
    BY <1>3, GoesOnGives DEF AloneOn
  <1>5. Ordered(client'[c])
    <2>1. PICK next : next = client'[c]
      OBVIOUS
    <2>2. PICK job : job = client[c]
      OBVIOUS
    <2>3. /\ job.todo = todo /\ Ordered(job) /\ next.request = job.request
          /\ next.todo = more \o Tail(todo) /\ next.read = read /\ todo # << >>
      BY <1>1, <1>2, <1>4, <2>1, <2>2 DEF AloneOn
    <2>4. Opening(more, next.read)
      BY <2>3
    <2>5. Ordered(next)
      BY <2>3, <2>4, OrderedRest
    <2> QED BY <2>1, <2>5
  <1>6. After(db', more \o rest) = After(db, todo)
    <2>1. PICK e : e = db'
      OBVIOUS
    <2>2. PICK d : d = db
      OBVIOUS
    <2>3. After(e, more \o rest) = After(After(e, more), rest)
      BY AfterJoin
    <2>4. After(d, todo) = After(Did(d, Head(todo)), Tail(todo))
      BY <1>1, AfterFirst
    <2> QED BY <1>2, <1>3, <2>1, <2>2, <2>3, <2>4
  <1> QED BY <1>1, <1>4, <1>5, <1>6 DEF GoesOnAlone

LEMMA GoesOnWithRest ==
    ASSUME NEW c, AloneOn(c), client[c].todo # << >>, NEW S, client[c].todo \in Seq(S),
           NEW read, GoesOn(c, Rest(c), read), Fresh(db', read), db' = Did(db, Now(c))
    PROVE  GoesOnAlone(c)
PROOF
  <1>1. << >> \in Seq(S) /\ Len(<< >>) = 0
    OBVIOUS
  <1>2. << >> \o Rest(c) = Rest(c)
    <2>1. Rest(c) \in Seq(S)
      BY DEF Rest
    <2> QED BY <2>1
  <1>3. After(db', << >>) = Did(db, Now(c))
    BY AfterNone
  <1>4. PICK none : none = << >>
    OBVIOUS
  <1>5. none \in Seq(S) /\ GoesOn(c, none \o Rest(c), read) /\ Len(none) = 0 /\ After(db', none) = Did(db, Now(c))
    BY <1>1, <1>2, <1>3, <1>4
  <1>6. Opening(none, read)
    BY <1>5 DEF Opening
  <1> QED BY <1>5, <1>6, TakesItsPlace

(* What is known of a request on its own at the start of a step.             *)
LEMMA AloneFacts ==
    ASSUME NEW c, AloneOn(c), client[c].todo # << >>
    PROVE  /\ c \in Clients /\ Inv /\ Sound(db) /\ db \in Databases
           /\ client[c].todo \in Seq(Legal(db, client[c].request))
           /\ Now(c) \in Legal(db, client[c].request)
           /\ Fresh(db, client[c].read)
           /\ Now(c).do = "move" => HasRead(client[c].read) = {}
           /\ Now(c).do = "rounds" => Bounded(Now(c).left)
           /\ Recalls(db, client[c].read)
           /\ client[c].read \in Readings
           /\ Needs(Now(c)) \subseteq HasRead(client[c].read)
PROOF
  <1>1. c \in Clients /\ Inv
    BY DEF AloneOn
  <1>2. /\ Sound(db) /\ client[c] \in Jobs
        /\ Now(c) \in Legal(db, client[c].request)
        /\ Recalls(db, client[c].read)
        /\ Needs(Now(c)) \subseteq HasRead(client[c].read)
    BY <1>1, FirstStep
  <1>3. client[c].todo \in Seq(Legal(db, client[c].request))
    BY <1>1 DEF Inv, JobInv
  <1>4. /\ Now(c).do = "move" => HasRead(client[c].read) = {}
        /\ Now(c).do = "rounds" => Bounded(Now(c).left)
    <2>1. PICK todo \in Seq(Legal(db, client[c].request)) : todo = client[c].todo
      BY <1>3
    <2>2. 1 \in 1..Len(todo) /\ Head(todo) = todo[1]
      BY <2>1
    <2>3. Now(c) = todo[1]
      BY <2>1, <2>2 DEF Now
    <2> QED BY <2>1, <2>2, <2>3 DEF AloneOn, Ordered
  <1>5. db \in Databases /\ client[c].read \in Readings
    BY <1>2 DEF Sound, WellFormed, Jobs
  <1> QED BY <1>1, <1>2, <1>3, <1>4, <1>5 DEF AloneOn

LEMMA NothingIsFresh ==
    ASSUME NEW d
    PROVE  Fresh(d, NothingRead)
PROOF
  BY NothingIsRead DEF Fresh

(* What is read now is current.                                              *)
LEMMA FreshReads ==
    ASSUME NEW d, NEW e, NEW read \in Readings, Fresh(d, read), NEW p \in Partitions, NEW id, NEW base,
           e.pointer[p] = id, Baseline(e, p) = base,
           \A q \in Partitions \ {p} : e.pointer[q] = d.pointer[q] /\ Baseline(e, q) = Baseline(d, q)
    PROVE  Fresh(e, Reads(read, p, id, base))
PROOF
  <1> DEFINE now == Reads(read, p, id, base)
  <1>1. /\ now.pointer = [read.pointer EXCEPT ![p] = id]
        /\ now.history = [read.history EXCEPT ![p] = <<base>>]
        /\ read.pointer \in [Partitions -> Nat] /\ read.history \in [Partitions -> Seq(Nat)]
    BY DEF Reads, Readings
  <1> HIDE DEF now
  <1>2. ASSUME NEW q \in HasRead(now)
        PROVE  now.pointer[q] = e.pointer[q] /\ Head(now.history[q]) = Baseline(e, q)
    <2>1. q \in Partitions
      BY DEF HasRead
    <2>2. CASE q = p
      <3>1. now.pointer[p] = id /\ now.history[p] = <<base>>
        BY <1>1
      <3>2. Head(<<base>>) = base
        OBVIOUS
      <3> QED BY <2>2, <3>1, <3>2
    <2>3. CASE q # p
      <3>1. now.pointer[q] = read.pointer[q] /\ now.history[q] = read.history[q]
        BY <1>1, <2>1, <2>3
      <3>2. q \in HasRead(read)
        BY <2>1, <3>1 DEF HasRead
      <3> QED BY <2>1, <2>3, <3>1, <3>2 DEF Fresh
    <2> QED BY <2>2, <2>3
  <1> QED BY <1>2 DEF Fresh, now

(* One lemma per storage call: what the request has read stays current, and  *)
(* what it has left to do leads where it led before.                         *)
LEMMA GetPartitionAlone ==
    ASSUME NEW c, AloneOn(c), GetPartition(c)
    PROVE  GoesOnAlone(c)
PROOF
  <1> DEFINE p == Now(c).at
             old == client[c].read
             read == Reads(old, p, db.pointer[p], Baseline(db, p))
  <1>1. /\ UNCHANGED db /\ client[c].todo # << >> /\ Now(c).do = "get"
    BY DEF GetPartition, Next1, Now
  <1>2. /\ Now(c) = Get(p) /\ p \in Partitions
        /\ c \in Clients /\ Inv /\ old \in Readings /\ Fresh(db, old)
        /\ client[c].todo \in Seq(Legal(db, client[c].request))
    BY <1>1, AloneFacts, LegalKinds
  <1>3. CASE ~ Exists(db, p)
    <2>1. Refused(c)
      BY <1>3 DEF GetPartition
    <2>2. client'[c] = Idle
      BY <1>2, <2>1 DEF Refused, Inv
    <2> QED BY <2>2 DEF GoesOnAlone
  <1>4. CASE Exists(db, p)
    <2>1. GoesOn(c, Rest(c), read)
      BY <1>4 DEF GetPartition
    <2>2. Did(db, Now(c)) = db
      <3> HIDE DEF p
      <3> QED BY <1>2, DidTable
    <2>3. Fresh(db, read)
      <3>1. PICK id, base : id = db.pointer[p] /\ base = Baseline(db, p)
        OBVIOUS
      <3> HIDE DEF p, old
      <3>2. Fresh(db, Reads(old, p, id, base))
        BY <1>2, <3>1, FreshReads
      <3> QED BY <3>1, <3>2
    <2> HIDE DEF read
    <2> QED BY <1>1, <1>2, <2>1, <2>2, <2>3, GoesOnWithRest
  <1> QED BY <1>3, <1>4

LEMMA EnsurePartitionAlone ==
    ASSUME NEW c, AloneOn(c), EnsurePartition(c)
    PROVE  GoesOnAlone(c)
PROOF
  <1> DEFINE p == Now(c).part
             q == Now(c).like
             row == Now(c).row
             old == client[c].read
             id == IF row = "current" THEN old.pointer[q] ELSE Head(old.history[q])
             read == Reads(old, p, db.pointer[p], Baseline(db, p))
  <1>1. /\ UNCHANGED db /\ client[c].todo # << >> /\ Now(c).do = "ensure"
    BY DEF EnsurePartition, Next1, Now
  <1>2. /\ Now(c) = Found(p, q, row) /\ p \in Partitions /\ q \in Partitions
        /\ c \in Clients /\ Inv /\ old \in Readings /\ Fresh(db, old)
        /\ client[c].todo \in Seq(Legal(db, client[c].request))
        /\ Needs(Now(c)) \subseteq HasRead(old)
    BY <1>1, AloneFacts, LegalKinds
  <1>3. q \in HasRead(old)
    <2>1. Needs(Now(c)) = {q}
      BY <1>1 DEF Needs
    <2> QED BY <1>2, <2>1
  <1>4. id = IF row = "current" THEN db.pointer[q] ELSE Baseline(db, q)
    BY <1>2, <1>3 DEF Fresh
  <1>5. Did(db, Now(c)) = Ensure(db, p, id)
    BY <1>1, <1>4 DEF Did
  <1> HIDE DEF id
  <1>6. CASE Exists(db, p)
    <2>1. GoesOn(c, Rest(c), read)
      BY <1>6 DEF EnsurePartition
    <2>2. Did(db, Now(c)) = db
      BY <1>5, <1>6 DEF Ensure
    <2>3. Fresh(db, read)
      <3>1. PICK now, base : now = db.pointer[p] /\ base = Baseline(db, p)
        OBVIOUS
      <3> HIDE DEF p, old
      <3>2. Fresh(db, Reads(old, p, now, base))
        BY <1>2, <3>1, FreshReads
      <3> QED BY <3>1, <3>2
    <2> HIDE DEF read
    <2> QED BY <1>1, <1>2, <2>1, <2>2, <2>3, GoesOnWithRest
  <1>7. CASE ~ Exists(db, p)
    <2>1. GoesOn(c, <<Create(p, id)>> \o Rest(c), old)
      BY <1>7 DEF EnsurePartition, Create, id
    <2>2. After(db, <<Create(p, id)>>) = Did(db, Now(c))
      <3>1. Did(db, Create(p, id)) = [db EXCEPT !.pointer[p] = id, !.history[p] = <<id>>]
        <4> HIDE DEF p
        <4> QED BY DEF Create, Did
      <3>2. After(db, <<Create(p, id)>>) = Did(db, Create(p, id))
        BY AfterOne
      <3> QED BY <1>5, <1>7, <3>1, <3>2 DEF Ensure
    <2>3. PICK S : S = Legal(db, client[c].request) \cup {Create(p, id)}
      OBVIOUS
    <2>4. PICK more \in Seq(S) : more = <<Create(p, id)>>
      <3>1. <<Create(p, id)>> \in Seq(S)
        BY <2>3
      <3> QED BY <3>1
    <2>5. client[c].todo \in Seq(S)
      BY <1>2, <2>3
    <2>6. Opening(more, old)
      <3>1. Create(p, id).do = "create"
        BY DEF Create
      <3>2. Len(more) = 1 /\ more[1] = Create(p, id)
        BY <2>4
      <3> QED BY <3>1, <3>2 DEF Opening
    <2>7. /\ GoesOn(c, more \o Rest(c), old) /\ Fresh(db', old) /\ After(db', more) = Did(db, Now(c))
      BY <1>1, <1>2, <2>1, <2>2, <2>4
    <2> HIDE DEF old
    <2> QED BY <1>1, <2>5, <2>6, <2>7, TakesItsPlace
  <1> QED BY <1>6, <1>7

LEMMA CreatePartitionAlone ==
    ASSUME NEW c, AloneOn(c), CreatePartition(c)
    PROVE  GoesOnAlone(c)
PROOF
  <1> DEFINE p == Now(c).at
             id == Now(c).to
             old == client[c].read
             read == Reads(old, p, id, id)
  <1>1. client[c].todo # << >> /\ Now(c).do = "create"
    BY DEF CreatePartition, Next1, Now
  <1>2. /\ Now(c) = Create(p, id) /\ p \in Partitions
        /\ c \in Clients /\ Inv /\ old \in Readings /\ Fresh(db, old) /\ db \in Databases
        /\ client[c].todo \in Seq(Legal(db, client[c].request))
    BY <1>1, AloneFacts, LegalKinds
  <1>3. CASE Exists(db, p)
    <2>1. Refused(c)
      BY <1>3 DEF CreatePartition
    <2>2. client'[c] = Idle
      BY <1>2, <2>1 DEF Refused, Inv
    <2> QED BY <2>2 DEF GoesOnAlone
  <1>4. CASE ~ Exists(db, p)
    <2>1. /\ db' = [db EXCEPT !.pointer[p] = id, !.history[p] = <<id>>]
          /\ GoesOn(c, Rest(c), read)
      BY <1>4 DEF CreatePartition
    <2>2. db' = Did(db, Now(c))
      <3>1. Did(db, Now(c)) = [db EXCEPT !.pointer[p] = id, !.history[p] = <<id>>]
        BY <1>1 DEF Did
      <3> QED BY <2>1, <3>1
    <2>3. Fresh(db', read)
      <3>1. PICK e : e = db'
        OBVIOUS
      <3>2. /\ db.pointer \in [Partitions -> Nat] /\ db.history \in [Partitions -> Seq(Nat)]
        BY <1>2 DEF Databases
      <3>3. /\ e.pointer = [db.pointer EXCEPT ![p] = id] /\ e.history = [db.history EXCEPT ![p] = <<id>>]
        BY <1>2, <2>1, <3>1 DEF Databases
      <3>4. e.pointer[p] = id /\ e.history[p] = <<id>> /\ Head(<<id>>) = id
        BY <1>2, <3>2, <3>3
      <3> HIDE DEF p, id, old
      <3>5. Baseline(e, p) = id
        BY <3>4 DEF Baseline
      <3>6. \A x \in Partitions \ {p} : e.pointer[x] = db.pointer[x] /\ Baseline(e, x) = Baseline(db, x)
        BY <3>2, <3>3 DEF Baseline
      <3>7. Fresh(e, Reads(old, p, id, id))
        BY <1>2, <3>4, <3>5, <3>6, FreshReads
      <3> QED BY <3>1, <3>7
    <2> HIDE DEF read
    <2> QED BY <1>1, <1>2, <2>1, <2>2, <2>3, GoesOnWithRest
  <1> QED BY <1>3, <1>4

LEMMA MakeSnapshotAlone ==
    ASSUME NEW c, AloneOn(c), MakeSnapshot(c)
    PROVE  GoesOnAlone(c)
PROOF
  <1> DEFINE what == Now(c).what
             p == Target(what)
             out == Effect(what, Seen(c))
             own == Effect(what, db)
             moves == IF out = Seen(c) THEN << >> ELSE PointerMoves(what, out.pointer[p])
  <1>1. /\ client[c].todo # << >> /\ Now(c).do = "make"
        /\ db' = [db EXCEPT !.snaps = out.snaps]
        /\ GoesOn(c, moves \o Rest(c), NothingRead)
    BY DEF MakeSnapshot, Next1, Now
  <1>2. /\ c \in Clients /\ Inv /\ Fresh(db, client[c].read) /\ db \in Databases
        /\ client[c].todo \in Seq(Legal(db, client[c].request))
        /\ Recalls(db, client[c].read)
    BY <1>1, AloneFacts
  <1>3. /\ Now(c) = Make(what) /\ what \in Merges /\ Readable(Seen(c), what)
        /\ Seen(c).snaps = db.snaps /\ Seen(c).pointer = client[c].read.pointer
        /\ Sources(what) \subseteq HasRead(client[c].read)
    BY <1>1, <1>2, SeenReadable
  <1>4. Seen(c) \in Databases /\ p \in Partitions
    BY <1>3, MergeKinds DEF Readable
  <1>5. Agree(db, Seen(c), what)
    <2>1. ASSUME NEW q \in Sources(what)
          PROVE  db.pointer[q] = Seen(c).pointer[q] /\ Baseline(db, q) = Baseline(Seen(c), q)
      <3>1. q \in HasRead(client[c].read)
        BY <1>3
      <3>2. client[c].read.pointer[q] = db.pointer[q] /\ Head(client[c].read.history[q]) = Baseline(db, q)
        BY <1>2, <3>1 DEF Fresh
      <3>3. Seen(c).history = client[c].read.history
        BY DEF Seen
      <3> QED BY <1>3, <3>2, <3>3 DEF Baseline
    <2> QED BY <1>3, <2>1 DEF Agree
  <1>6. Alike(db, own, Seen(c), out, p)
    BY <1>3, <1>5, EffectAlike
  <1>7. Did(db, Now(c)) = IF what.merge = "approve" /\ own # db
                          THEN ResetToBaseline(own, Approval(what.agent)) ELSE own
    <2> HIDE DEF what
    <2> QED BY <1>3, DidTable
  <1>8. Fresh(db', NothingRead) /\ HasRead(NothingRead) = {}
    BY NothingIsFresh, NothingIsRead
  <1>9. CASE out = Seen(c)
    <2>1. own = db
      <3> HIDE DEF own, out, p
      <3>1. \A s : Advance(Seen(c), p, s) # Seen(c)
        BY <1>2, <1>3, <1>4, AdvanceLater
      <3> QED BY <1>6, <1>9, <3>1 DEF Alike
    <2>2. db' = db
      BY <1>1, <1>2, <1>3, <1>9 DEF Databases
    <2>3. db' = Did(db, Now(c))
      <3> HIDE DEF own, what
      <3> QED BY <1>7, <2>1, <2>2
    <2>4. GoesOn(c, Rest(c), NothingRead)
      <3>1. Rest(c) \in Seq(Legal(db, client[c].request))
        BY <1>1, <1>2, FirstStep
      <3>2. << >> \o Rest(c) = Rest(c)
        BY <3>1
      <3> QED BY <1>1, <1>9, <3>2
    <2> QED BY <1>1, <1>2, <1>8, <2>3, <2>4, GoesOnWithRest
  <1>10. CASE out # Seen(c)
    <2> DEFINE id == out.pointer[p]
               made == [db EXCEPT !.snaps = out.snaps]
    <2>1. own = UpdatePointer(made, p, id) /\ own # db
      <3>1. PICK s : own = Advance(db, p, s) /\ out = Advance(Seen(c), p, s)
        <4> HIDE DEF own, out, p
        <4> QED BY <1>6, <1>10 DEF Alike
      <3> HIDE DEF own, out, p
      <3> QED BY <1>2, <1>3, <1>4, <3>1, AdvanceLater
    <2>2. PICK e : e = db'
      OBVIOUS
    <2>3. own = Did(e, Move(p, id))
      <3> HIDE DEF own, out, p, id
      <3> QED BY <1>1, <2>1, <2>2, DidTable
    <2>4. PICK S : S = Legal(db, client[c].request) \cup {Move(p, id), Reset(Approval(what.agent))}
      OBVIOUS
    <2>5. client[c].todo \in Seq(S)
      BY <1>2, <2>4
    <2>6. Move(p, id).do = "move" /\ Reset(Approval(what.agent)).do = "reset"
      BY DEF Move, Reset
    <2> HIDE DEF own, out, p, id, moves
    <2>7. CASE what.merge = "approve"
      <3>1. moves = <<Move(p, id), Reset(Approval(what.agent))>>
        BY <1>10, <2>7 DEF PointerMoves, moves, id, p
      <3>2. After(e, moves) = ResetToBaseline(own, Approval(what.agent))
        <4>1. After(e, moves) = Did(own, Reset(Approval(what.agent)))
          BY <2>3, <3>1, AfterTwo
        <4> QED BY <4>1, DidTable
      <3>3. moves \in Seq(S) /\ Len(moves) = 2
            /\ moves[1] = Move(p, id) /\ moves[2] = Reset(Approval(what.agent))
        BY <2>4, <3>1
      <3>4. Opening(moves, NothingRead)
        BY <1>8, <2>6, <3>3 DEF Opening
      <3>5. After(db', moves) = Did(db, Now(c))
        BY <1>7, <2>1, <2>2, <2>7, <3>2
      <3> QED BY <1>1, <1>8, <2>5, <3>3, <3>4, <3>5, TakesItsPlace
    <2>8. CASE what.merge # "approve"
      <3>1. moves = <<Move(p, id)>>
        BY <1>10, <2>8 DEF PointerMoves, moves, id, p
      <3>2. After(e, moves) = own
        BY <2>3, <3>1, AfterOne
      <3>3. moves \in Seq(S) /\ Len(moves) = 1 /\ moves[1] = Move(p, id)
        BY <2>4, <3>1
      <3>4. Opening(moves, NothingRead)
        BY <1>8, <2>6, <3>3 DEF Opening
      <3>5. After(db', moves) = Did(db, Now(c))
        BY <1>7, <2>1, <2>2, <2>8, <3>2
      <3> QED BY <1>1, <1>8, <2>5, <3>3, <3>4, <3>5, TakesItsPlace
    <2> QED BY <2>7, <2>8
  <1> QED BY <1>9, <1>10

LEMMA MovePointerAlone ==
    ASSUME NEW c, AloneOn(c), MovePointer(c)
    PROVE  GoesOnAlone(c)
PROOF
  <1> DEFINE read == client[c].read
  <1>1. /\ client[c].todo # << >> /\ Now(c).do = "move"
        /\ db' = UpdatePointer(db, Now(c).at, Now(c).to)
        /\ GoesOn(c, Rest(c), read)
    BY DEF MovePointer, Next1, Now
  <1>2. client[c].todo \in Seq(Legal(db, client[c].request)) /\ HasRead(read) = {}
    BY <1>1, AloneFacts
  <1>3. db' = Did(db, Now(c))
    BY <1>1 DEF Did
  <1>4. Fresh(db', read)
    BY <1>2 DEF Fresh
  <1> HIDE DEF read
  <1> QED BY <1>1, <1>2, <1>3, <1>4, GoesOnWithRest

LEMMA ResetApprovalAlone ==
    ASSUME NEW c, AloneOn(c), ResetApproval(c)
    PROVE  GoesOnAlone(c)
PROOF
  <1>1. /\ client[c].todo # << >> /\ Now(c).do = "reset"
        /\ db' = ResetToBaseline(db, Now(c).at)
        /\ GoesOn(c, Rest(c), NothingRead)
    BY DEF ResetApproval, Next1, Now
  <1>2. client[c].todo \in Seq(Legal(db, client[c].request))
    BY <1>1, AloneFacts
  <1>3. db' = Did(db, Now(c))
    BY <1>1 DEF Did
  <1> QED BY <1>1, <1>2, <1>3, NothingIsFresh, GoesOnWithRest

(* The loop goes on over what is left of it.                                 *)
LEMMA LoopGoesOn ==
    ASSUME NEW c, AloneOn(c), client[c].todo # << >>, NEW left \in SUBSET Features,
           NEW n \in Nat, Below(left, n), UNCHANGED db,
           GoesOn(c, RoundsOver(left) \o Rest(c), NothingRead), Did(db, Now(c)) = Rounds(db, left)
    PROVE  GoesOnAlone(c)
PROOF
  <1>1. PICK S : S = Legal(db, client[c].request)
    OBVIOUS
  <1>2. client[c].todo \in Seq(S)
    BY <1>1, AloneFacts
  <1>3. PICK more \in Seq(S) : more = RoundsOver(left)
    BY <1>1, RoundsPlan DEF Plan
  <1>4. After(db', more) = Did(db, Now(c))
    BY <1>3, RoundsAfter
  <1>5. Opening(more, NothingRead)
    <2>1. CASE left = {}
      BY <1>3, <2>1 DEF RoundsOver, Opening
    <2>2. CASE left # {}
      <3> DEFINE f == FirstOf(left)
                 one == Get(Feature(f))
                 two == Get(Staged)
                 three == Make([merge |-> "round", feature |-> f])
                 four == RoundsLeft(left \ {f})
      <3>1. more = <<one, two, three>> \o <<four>>
        BY <1>3, <2>2 DEF RoundsOver, RoundSteps, RoundsLeft
      <3>2. /\ \A st \in {one, two, three, four} : st.do \notin {"move", "switch"}
            /\ \A st \in {one, two, three} : st.do # "rounds"
        BY DEF Get, Make, RoundsLeft
      <3>5. Bounded(four.left)
        <4>1. four.left = left \ {f}
          BY DEF RoundsLeft
        <4>2. Below(left \ {f}, n)
          BY DEF Below
        <4> QED BY <4>1, <4>2 DEF Bounded
      <3> HIDE DEF one, two, three, four
      <3>3. /\ Len(more) = 4
            /\ more[1] = one /\ more[2] = two /\ more[3] = three /\ more[4] = four
        BY <3>1
      <3>4. \A k \in 1..4 : /\ more[k] \in {one, two, three, four}
                            /\ more[k] \in {one, two, three} \/ more[k] = four
        BY <3>3
      <3> QED BY <3>2, <3>5, <3>3, <3>4 DEF Opening
    <2> QED BY <2>1, <2>2
  <1> QED BY <1>2, <1>3, <1>4, <1>5, NothingIsFresh, TakesItsPlace

LEMMA ListFeaturesAlone ==
    ASSUME NEW c, AloneOn(c), ListFeatures(c)
    PROVE  GoesOnAlone(c)
PROOF
  <1>1. /\ UNCHANGED db /\ client[c].todo # << >> /\ Now(c).do = "list"
        /\ GoesOn(c, RoundsOver(Existing(db)) \o Rest(c), NothingRead)
    BY DEF ListFeatures, Next1, Now
  <1>2. Did(db, Now(c)) = Rounds(db, Existing(db))
    BY <1>1 DEF Did, MergesToStaged
  <1>3. PICK n \in Nat : Below(Existing(db), n)
    BY DEF AloneOn, Bounded
  <1>4. PICK left \in SUBSET Features : left = Existing(db)
    BY DEF Existing
  <1> QED BY <1>1, <1>2, <1>3, <1>4, LoopGoesOn

LEMMA NextRoundAlone ==
    ASSUME NEW c, AloneOn(c), NextRound(c)
    PROVE  GoesOnAlone(c)
PROOF
  <1>1. /\ UNCHANGED db /\ client[c].todo # << >> /\ Now(c).do = "rounds"
        /\ GoesOn(c, RoundsOver(Now(c).left) \o Rest(c), NothingRead)
    BY DEF NextRound, Next1, Now
  <1>2. Did(db, Now(c)) = Rounds(db, Now(c).left)
    BY <1>1 DEF Did
  <1>3. PICK left \in SUBSET Features : left = Now(c).left
    BY <1>1, AloneFacts, LegalKinds
  <1>4. PICK n \in Nat : Below(left, n)
    BY <1>1, <1>3, AloneFacts DEF Bounded
  <1> QED BY <1>1, <1>2, <1>3, <1>4, LoopGoesOn

LEMMA CommitReadAlone ==
    ASSUME NEW c, AloneOn(c), CommitRead(c)
    PROVE  GoesOnAlone(c)
PROOF
  <1>1. /\ UNCHANGED db /\ client[c].todo # << >> /\ Now(c).do = "commit"
        /\ Refused(c) \/ GoesOn(c, Rest(c), NothingRead)
    BY DEF CommitRead, Next1, Now
  <1>2. client[c].todo \in Seq(Legal(db, client[c].request)) /\ c \in Clients /\ Inv
    BY <1>1, AloneFacts
  <1>3. CASE Refused(c)
    <2>1. client'[c] = Idle
      BY <1>2, <1>3 DEF Refused, Inv
    <2> QED BY <2>1 DEF GoesOnAlone
  <1>4. CASE GoesOn(c, Rest(c), NothingRead)
    <2>1. db' = Did(db, Now(c))
      BY <1>1 DEF Did
    <2> QED BY <1>1, <1>2, <1>4, <2>1, NothingIsFresh, GoesOnWithRest
  <1> QED BY <1>1, <1>3, <1>4

(* The switch of a branch is one call.                                       *)
LEMMA SwitchBranchAlone ==
    ASSUME Inv, NEW c \in Clients, SwitchBranch(c), NEW d,
           client[c].todo = <<Step("switch")>>, db = d, client'[c] # Idle
    PROVE  /\ client'[c].todo = << >> /\ client'[c].read = NothingRead
           /\ db' = UpdatePointer(d, Staged, head')
PROOF
  <1>1. committed # {}
    <2>1. Refused(c) => client'[c] = Idle
      BY DEF Refused, Inv
    <2> QED BY <2>1 DEF SwitchBranch
  <1>2. /\ db' = UpdatePointer(db, Staged, head')
        /\ GoesOn(c, Rest(c), NothingRead)
    BY <1>1 DEF SwitchBranch
  <1>3. client'[c].todo = Rest(c) /\ client'[c].read = NothingRead
    BY <1>2, GoesOnGives
  <1>4. Rest(c) = << >>
    <2>1. PICK st : st = Step("switch")
      OBVIOUS
    <2>2. Tail(<<st>>) = << >>
      OBVIOUS
    <2> QED BY <2>1, <2>2 DEF Rest
  <1> QED BY <1>2, <1>3, <1>4

LEMMA ServeAlone ==
    ASSUME NEW c, AloneOn(c), Serve(c), client[c].request.op # "branch_switch"
    PROVE  GoesOnAlone(c)
PROOF
  <1>1. ~ SwitchBranch(c)
    <2> SUFFICES ASSUME client[c].todo # << >>, Head(client[c].todo).do = "switch"
                 PROVE  FALSE
      BY DEF SwitchBranch, Next1
    <2>1. PICK todo \in Seq(Legal(db, client[c].request)) : todo = client[c].todo
      BY AloneFacts
    <2>2. 1 \in 1..Len(todo) /\ Head(todo) = todo[1]
      BY <2>1
    <2> QED BY <2>1, <2>2 DEF AloneOn, Ordered
  <1>2. CASE Answer(c)
    <2>1. client'[c] = Idle
      BY <1>2 DEF Answer, AloneOn, Inv
    <2> QED BY <2>1 DEF GoesOnAlone
  <1> QED BY <1>1, <1>2, GetPartitionAlone, EnsurePartitionAlone, CreatePartitionAlone,
             MakeSnapshotAlone, MovePointerAlone, ResetApprovalAlone, ListFeaturesAlone,
             NextRoundAlone, CommitReadAlone DEF Serve

(* What a request began with is remembered until it is answered.             *)
LEMMA ServeRemembers ==
    ASSUME Inv, NEW c \in Clients, Serve(c), client'[c] # Idle
    PROVE  client'[c].request = client[c].request /\ client'[c].began = client[c].began
PROOF
  <1>1. ~ Refused(c) /\ ~ Answer(c)
    BY DEF Refused, Answer, Inv
  <1>2. \E todo, read : GoesOn(c, todo, read)
    BY <1>1 DEF Serve, GetPartition, EnsurePartition, CreatePartition, MakeSnapshot, MovePointer,
                ResetApproval, ListFeatures, NextRound, CommitRead, SwitchBranch
  <1> QED BY <1>2, GoesOnGives

(* A step moves the pointer of at most one partition, so there is a last     *)
(* feature after it if there was one before.                                 *)
LEMMA BoundedGrows ==
    ASSUME NEW d, NEW e, Bounded(Existing(d)), NEW p,
           \A q \in Partitions \ {p} : e.pointer[q] = d.pointer[q]
    PROVE  Bounded(Existing(e))
PROOF
  <1>1. PICK n \in Nat : Below(Existing(d), n)
    BY DEF Bounded
  <1>2. \A f \in Existing(e) : f \in Features /\ (f \in Existing(d) \/ Feature(f) = p)
    <2> SUFFICES ASSUME NEW f \in Existing(e), Feature(f) # p
                 PROVE  f \in Existing(d)
      BY DEF Existing
    <2>1. Feature(f) \in Partitions \ {p} /\ f \in Features
      BY PartitionNames DEF Existing
    <2> QED BY <2>1 DEF Existing, Exists
  <1>3. CASE \E f \in Features : Feature(f) = p
    <2>1. PICK f \in Features : Feature(f) = p
      BY <1>3
    <2>2. PICK m \in Nat : m >= n /\ m > Rank[f]
      <3>1. Rank[f] \in Nat
        BY RankAssumption
      <3>2. n + Rank[f] + 1 \in Nat /\ n + Rank[f] + 1 >= n /\ n + Rank[f] + 1 > Rank[f]
        BY <3>1
      <3> QED BY <3>2
    <2>3. ASSUME NEW g \in Existing(e)
          PROVE  Rank[g] < m
      <3>1. Rank[g] \in Nat /\ Rank[f] \in Nat
        BY <1>2, RankAssumption
      <3>2. CASE g \in Existing(d)
        BY <1>1, <2>2, <3>1, <3>2 DEF Below
      <3>3. CASE Feature(g) = p
        <4>1. g = f
          BY <2>1, <3>3 DEF Feature
        <4> QED BY <2>2, <4>1
      <3> QED BY <1>2, <3>2, <3>3
    <2> QED BY <2>3 DEF Below, Bounded
  <1>4. CASE ~ \E f \in Features : Feature(f) = p
    BY <1>1, <1>2, <1>4 DEF Below, Bounded
  <1> QED BY <1>3, <1>4

(* Only finitely many features ever exist, so the loop has a last one.       *)
LEMMA ServeBounded ==
    ASSUME Inv, Bounded(Existing(db)), NEW c \in Clients, Serve(c)
    PROVE  Bounded(Existing(db'))
PROOF
  <1>1. db \in Databases
    BY DEF Inv, TablesInv, Sound, WellFormed
  <1>2. \E p : \A q \in Partitions \ {p} : db'.pointer[q] = db.pointer[q]
    <2>1. ASSUME db'.pointer = db.pointer
          PROVE  \E p : \A q \in Partitions \ {p} : db'.pointer[q] = db.pointer[q]
      BY <2>1
    <2>2. ASSUME NEW p, NEW id, db'.pointer = [db.pointer EXCEPT ![p] = id]
          PROVE  \E r : \A q \in Partitions \ {r} : db'.pointer[q] = db.pointer[q]
      <3>1. \A q \in Partitions \ {p} : db'.pointer[q] = db.pointer[q]
        BY <1>1, <2>2 DEF Databases
      <3> QED BY <3>1
    <2>3. /\ \A p, id : UpdatePointer(db, p, id).pointer = [db.pointer EXCEPT ![p] = id]
          /\ \A p : ResetToBaseline(db, p).pointer = [db.pointer EXCEPT ![p] = Baseline(db, p)]
          /\ \A p, id : [db EXCEPT !.pointer[p] = id, !.history[p] = <<id>>].pointer
                          = [db.pointer EXCEPT ![p] = id]
      BY <1>1 DEF UpdatePointer, ResetToBaseline, Databases
    <2>4. MakeSnapshot(c) => db'.pointer = db.pointer
      BY <1>1 DEF MakeSnapshot, Databases
    <2>5. CreatePartition(c) \/ ResetApproval(c) \/ MovePointer(c) \/ SwitchBranch(c)
             \/ MakeSnapshot(c) \/ UNCHANGED db
      BY DEF Serve, GetPartition, EnsurePartition, ListFeatures, NextRound, CommitRead, Answer
    <2>6. PICK at, to, left : at = Now(c).at /\ to = Now(c).to /\ left = Baseline(db, Now(c).at)
      OBVIOUS
    <2>7. CASE CreatePartition(c)
      <3>1. db' = db \/ db' = [db EXCEPT !.pointer[at] = to, !.history[at] = <<to>>]
        BY <2>6, <2>7 DEF CreatePartition
      <3>2. [db EXCEPT !.pointer[at] = to, !.history[at] = <<to>>].pointer
               = [db.pointer EXCEPT ![at] = to]
        BY <2>3
      <3>3. db'.pointer = db.pointer \/ db'.pointer = [db.pointer EXCEPT ![at] = to]
        BY <3>1, <3>2, Zenon
      <3> QED BY <2>1, <2>2, <3>3
    <2>8. CASE ResetApproval(c)
      <3>1. db'.pointer = [db.pointer EXCEPT ![at] = left]
        BY <2>3, <2>6, <2>8 DEF ResetApproval
      <3> QED BY <2>2, <3>1
    <2>9. CASE MovePointer(c)
      <3>1. db'.pointer = [db.pointer EXCEPT ![at] = to]
        BY <2>3, <2>6, <2>9 DEF MovePointer
      <3> QED BY <2>2, <3>1
    <2>10. CASE SwitchBranch(c)
      <3>1. db' = db \/ \E id : db' = UpdatePointer(db, Staged, id)
        BY <2>10 DEF SwitchBranch
      <3>2. ASSUME NEW id, db' = UpdatePointer(db, Staged, id)
            PROVE  \E r : \A q \in Partitions \ {r} : db'.pointer[q] = db.pointer[q]
        <4>1. db'.pointer = [db.pointer EXCEPT ![Staged] = id]
          BY <2>3, <3>2
        <4> QED BY <2>2, <4>1
      <3> QED BY <2>1, <3>1, <3>2
    <2> QED BY <2>1, <2>4, <2>5, <2>7, <2>8, <2>9, <2>10
  <1>3. PICK e : e = db'
    OBVIOUS
  <1> QED BY <1>2, <1>3, BoundedGrows

(* The steps a request starts with.                                          *)
Plain(todo) == \A k \in 1..Len(todo) : todo[k].do \notin {"move", "rounds", "switch"}

LEMMA PlainJoin ==
    ASSUME NEW S, NEW todo \in Seq(S), NEW rest \in Seq(S), Plain(todo), Plain(rest)
    PROVE  Plain(todo \o rest)
PROOF
  <1>1. PICK n \in Nat, m \in Nat : n = Len(todo) /\ m = Len(rest)
    OBVIOUS
  <1>2. PICK all : all = todo \o rest
    OBVIOUS
  <1>3. /\ Len(all) = n + m
        /\ \A k \in 1..n : all[k] = todo[k]
        /\ \A k \in 1..(n + m) : k > n => all[k] = rest[k - n]
    BY <1>1, <1>2
  <1>4. ASSUME NEW k \in 1..(n + m)
        PROVE  all[k].do \notin {"move", "rounds", "switch"}
    <2>1. CASE k <= n
      BY <1>1, <1>3, <2>1 DEF Plain
    <2>2. CASE k > n
      <3>1. k - n \in 1..m
        BY <2>2
      <3> QED BY <1>1, <1>3, <2>2, <3>1 DEF Plain
    <2> QED BY <2>1, <2>2
  <1> QED BY <1>2, <1>3, <1>4 DEF Plain

(* No request starts with a move, a loop or, but for branch_switch, a switch. *)
LEMMA PlainSteps ==
    ASSUME NEW d, NEW req \in RequestKinds, req.op # "branch_switch"
    PROVE  Plain(StepsOf(req))
PROOF
  <1>1. PICK S : S = Legal(d, req)
    OBVIOUS
  <1>2. ASSUME NEW todo \in Seq(S), NEW rest \in Seq(S), Plain(todo), Plain(rest)
        PROVE  Plain(todo \o rest)
    BY <1>2, PlainJoin
  <1> DEFINE Bare(st) == st.do \notin {"move", "rounds", "switch"}
  <1>3. ASSUME NEW a, Bare(a)
        PROVE  /\ Plain(<<a>>)
               /\ \A b : Bare(b) => Plain(<<a, b>>)
               /\ \A b, e : Bare(b) /\ Bare(e) => Plain(<<a, b, e>>)
    BY <1>3 DEF Plain
  <1>4. /\ \A p : Bare(Get(p)) /\ Bare(Reset(p))
        /\ \A p, q, at : Bare(Found(p, q, at))
        /\ \A what : Bare(Make(what))
        /\ Bare(Step("list")) /\ Bare(Step("commit"))
    BY DEF Get, Reset, Found, Make, Step
  <1> HIDE DEF Bare
  <1>5. \A p, path, new : Plain(EditSteps(p, path, new))
    BY <1>3, <1>4 DEF EditSteps
  <1>6. \A a, f : Plain(ApproveAgentSteps(a, f))
    BY <1>3, <1>4 DEF ApproveAgentSteps
  <1>7. CASE req.op = "edit"
    <2> DEFINE begin == EditSteps(Manual, req.path, req.new)
               end == <<Get(Manual), Get(Staged), Make([merge |-> "manual"])>>
    <2>1. StepsOf(req) = begin \o end
      BY <1>7 DEF StepsOf
    <2>2. begin \in Seq(S) /\ end \in Seq(S)
      <3>1. req.path \in Paths /\ req.new \in Text /\ Owns(req, Manual)
        BY <1>7, LayerNamesDiffer DEF RequestKinds, Owns
      <3> QED BY <1>1, <3>1, EditPlan, ManualMergePlan DEF Plan
    <2>3. Plain(begin) /\ Plain(end)
      BY <1>3, <1>4, <1>5
    <2> HIDE DEF begin, end
    <2> QED BY <1>2, <2>1, <2>2, <2>3
  <1>8. CASE req.op = "agent_edit"
    <2> DEFINE p == Agent(req.agent)
               begin == <<Get(Staged), Found(p, Staged, "current")>>
               end == EditSteps(p, req.path, req.new)
    <2>1. StepsOf(req) = begin \o end
      BY <1>8 DEF StepsOf
    <2>2. begin \in Seq(S) /\ end \in Seq(S)
      <3>1. /\ req.agent \in Agents /\ req.path \in Paths /\ req.new \in Text
            /\ Named(req) = {req.agent}
        BY <1>8 DEF RequestKinds, Named
      <3>2. p \in Partitions \ {Manual} /\ Owns(req, p)
        BY <3>1, PartitionNames, LayerNamesDiffer DEF Owns, Agent
      <3>3. Get(Staged) \in S /\ Found(p, Staged, "current") \in S
        BY <1>1, <3>2, LegalSteps, PartitionNames
      <3>4. end \in Seq(S)
        BY <1>1, <3>1, <3>2, EditPlan DEF Plan
      <3> QED BY <3>3, <3>4
    <2>3. Plain(begin) /\ Plain(end)
      BY <1>3, <1>4, <1>5
    <2> HIDE DEF begin, end
    <2> QED BY <1>2, <2>1, <2>2, <2>3
  <1>9. CASE req.op = "agent_submit"
    <2> DEFINE one == Get(Staged)
               two == Found(Approval(req.agent), Staged, "current")
               three == Get(Agent(req.agent))
               four == Get(Approval(req.agent))
               five == Make([merge |-> "submit", agent |-> req.agent])
    <2>1. StepsOf(req) = <<one, two, three, four, five>>
      BY <1>9 DEF StepsOf
    <2>2. Bare(one) /\ Bare(two) /\ Bare(three) /\ Bare(four) /\ Bare(five)
      BY <1>4
    <2> HIDE DEF one, two, three, four, five
    <2>3. \A k \in 1..5 : Bare(<<one, two, three, four, five>>[k])
      BY <2>2
    <2> QED BY <2>1, <2>3 DEF Plain, Bare
  <1>10. CASE req.op = "approve_agent"
    BY <1>6, <1>10 DEF StepsOf
  <1>11. CASE req.op = "approve"
    <2> DEFINE begin == ApproveAgentSteps(req.agent, FeatureOf[req.agent])
               end == <<Step("list")>>
    <2>1. StepsOf(req) = begin \o end
      BY <1>11 DEF StepsOf
    <2>2. begin \in Seq(S) /\ end \in Seq(S)
      <3>1. req.agent \in Agents /\ FeatureOf[req.agent] \in Features
        BY <1>11, FeatureOfAssumption DEF RequestKinds
      <3>2. Step("list") \in S
        BY <1>1, LegalSteps
      <3>3. begin \in Seq(S)
        BY <1>1, <3>1, ApprovePlan DEF Plan
      <3> QED BY <3>2, <3>3
    <2>3. Plain(begin) /\ Plain(end)
      BY <1>3, <1>4, <1>6
    <2> HIDE DEF begin, end
    <2> QED BY <1>2, <2>1, <2>2, <2>3
  <1>12. CASE req.op \in {"reject_agent", "merge_to_staged", "commit"}
    BY <1>3, <1>4, <1>12 DEF StepsOf
  <1>13. req.op \in {"edit", "agent_edit", "agent_submit", "approve_agent", "approve",
                     "reject_agent", "merge_to_staged", "commit", "branch_switch"}
    BY DEF RequestKinds
  <1> QED BY <1>7, <1>8, <1>9, <1>10, <1>11, <1>12, <1>13

LEMMA InitAlone ==
    ASSUME Init
    PROVE  AloneInv
PROOF
  <1>1. \A c \in Clients : client[c].began = {}
    BY DEF Init, Idle
  <1>2. Existing(db) = {}
    <2>1. \A f \in Features : Feature(f) \in Partitions /\ Feature(f) \notin {Manual, Staged}
      BY PartitionNames DEF Feature, Manual, Staged
    <2>2. \A f \in Features : db.pointer[Feature(f)] = NoSnap
      BY <2>1 DEF Init, InitDatabase
    <2> QED BY <2>2 DEF Existing, Exists
  <1>3. Bounded({})
    <2>1. Below({}, 0)
      BY DEF Below
    <2> QED BY <2>1 DEF Bounded
  <1> QED BY <1>1, <1>2, <1>3 DEF AloneInv

LEMMA BeginAlone ==
    ASSUME Inv, AloneInv, NEW c \in Clients, NEW req \in Requests, Begin(c, req)
    PROVE  AloneInv'
PROOF
  <1> DEFINE rivals == {b \in Busy : Named(client[b].request) \cap Named(req) # {}}
             fresh == [request |-> req, todo |-> StepsOf(req), read |-> NothingRead,
                       alone |-> Busy = {}, solo |-> rivals = {},
                       began |-> IF Busy = {} THEN {db} ELSE {}]
             stale(b) == [client[b] EXCEPT !.alone = FALSE, !.began = {},
                                           !.solo = @ /\ b \notin rivals]
  <1>1. UNCHANGED <<db, head>> /\ req \in RequestKinds /\ client \in [Clients -> Jobs]
    BY RequestsAssumption DEF Begin, Inv
  <1>2. client' = [b \in Clients |-> IF b = c THEN fresh
                                     ELSE IF b \in Busy THEN stale(b) ELSE Idle]
    BY DEF Begin
  <1>3. /\ fresh.began = IF Busy = {} THEN {db} ELSE {}
        /\ fresh.todo = StepsOf(req) /\ fresh.read = NothingRead /\ fresh.request = req
    OBVIOUS
  <1>4. \A b \in Clients : stale(b).began = {}
    BY <1>1 DEF Jobs
  <1>5. Idle.began = {}
    BY DEF Idle
  <1> HIDE DEF fresh, stale
  <1>6. ASSUME NEW b \in Clients, client'[b].began # {}
        PROVE  b = c /\ client'[c] = fresh /\ \A x \in Clients \ {c} : client'[x] = Idle
    <2>1. b = c /\ client'[c] = fresh
      BY <1>2, <1>4, <1>5, <1>6
    <2>2. Busy = {}
      BY <1>3, <1>6, <2>1
    <2> QED BY <1>2, <2>1, <2>2
  <1>7. Ordered(fresh)
    <2>1. CASE req.op = "branch_switch"
      <3>1. StepsOf(req) = <<Step("switch")>>
        BY <2>1 DEF StepsOf
      <3>2. PICK st : st = Step("switch")
        OBVIOUS
      <3>3. st.do = "switch"
        BY <3>2 DEF Step
      <3>4. \A k \in 1..Len(<<st>>) : <<st>>[k].do = "switch"
        BY <3>3
      <3> QED BY <1>3, <2>1, <3>1, <3>2, <3>4 DEF Ordered
    <2>2. CASE req.op # "branch_switch"
      <3>1. Plain(StepsOf(req))
        BY <1>1, <2>2, PlainSteps
      <3> QED BY <1>3, <3>1 DEF Ordered, Plain
    <2> QED BY <2>1, <2>2
  <1>8. ASSUME NEW d \in fresh.began
        PROVE  Towards(d, db, head, fresh)
    <2>1. d = db
      BY <1>3
    <2>2. req.op = "branch_switch" => StepsOf(req) = <<Step("switch")>>
      BY DEF StepsOf
    <2> QED BY <1>3, <2>1, <2>2 DEF Towards
  <1>9. PICK d, h, job : d = db /\ h = head /\ job = fresh
    OBVIOUS
  <1>10. /\ job.request \in RequestKinds
         /\ Fresh(d, job.read) /\ Ordered(job)
         /\ \A e \in job.began : Towards(e, d, h, job)
    BY <1>1, <1>3, <1>7, <1>8, <1>9, NothingIsFresh
  <1>11. db' = d /\ head' = h
    BY <1>1, <1>9
  <1>12. Bounded(Existing(d))
    BY <1>9 DEF AloneInv
  <1> QED BY <1>6, <1>9, <1>10, <1>11, <1>12 DEF AloneInv, AloneJob

(* A step of the request on its own, or of others: then there is none.       *)
LEMMA AloneServed ==
    ASSUME Inv, AloneInv, NEW c \in Clients, Serve(c)
    PROVE  AloneInv'
PROOF
  <1>1. /\ \A b \in Clients \ {c} : client'[b] = client[b]
        /\ client[c] # Idle /\ client[c] \in Jobs /\ Idle.began = {}
    BY ServeServed, ServedIsBusy DEF Served, Continues, Inv, Idle
  <1>2. Bounded(Existing(db'))
    BY ServeBounded DEF AloneInv
  <1>3. PICK job, next, d, e, at : /\ job = client[c] /\ next = client'[c]
                                   /\ d = db /\ e = db' /\ at = head'
    OBVIOUS
  <1>4. ASSUME NEW b \in Clients, client'[b].began # {}
        PROVE  /\ b = c /\ \A x \in Clients \ {c} : client'[x] = Idle
               /\ next # Idle /\ job.began # {} /\ AloneJob(job)
    <2>1. b = c
      <3>1. CASE b # c
        <4>1. client[b].began # {}
          BY <1>1, <1>4, <3>1
        <4>2. client[c] = Idle
          BY <3>1, <4>1 DEF AloneInv
        <4> QED BY <1>1, <4>2
      <3> QED BY <3>1
    <2>2. next # Idle
      BY <1>1, <1>3, <1>4, <2>1
    <2>3. client'[c].began = client[c].began
      BY <1>3, <2>2, ServeRemembers
    <2>4. client[c].began # {}
      BY <1>4, <2>1, <2>3
    <2>5. /\ \A x \in Clients \ {c} : client[x] = Idle
          /\ AloneJob(client[c])
      BY <2>4 DEF AloneInv
    <2> QED BY <1>1, <1>3, <2>1, <2>2, <2>4, <2>5
  <1>5. ASSUME next # Idle, job.began # {}, AloneJob(job)
        PROVE  /\ next.request \in RequestKinds
               /\ Fresh(e, next.read) /\ Ordered(next)
               /\ \A from \in next.began : Towards(from, e, at, next)
    <2>1. next.request = job.request /\ next.began = job.began
      BY <1>3, <1>5, ServeRemembers
    <2>2. /\ job.request \in RequestKinds /\ Fresh(d, job.read) /\ Ordered(job)
          /\ \A from \in job.began : Towards(from, d, head, job)
      BY <1>3, <1>5 DEF AloneJob
    <2>3. CASE job.request.op # "branch_switch"
      <3>1. AloneOn(c)
        BY <1>3, <2>2 DEF AloneOn, AloneInv
      <3>2. GoesOnAlone(c)
        BY <1>3, <2>3, <3>1, ServeAlone
      <3>3. Fresh(e, next.read) /\ Ordered(next) /\ After(e, next.todo) = After(d, job.todo)
        BY <1>3, <1>5, <3>2 DEF GoesOnAlone
      <3>4. ASSUME NEW from \in next.began
            PROVE  Towards(from, e, at, next)
        <4>1. After(d, job.todo) = After(from, StepsOf(job.request))
          BY <2>1, <2>2, <2>3, <3>4 DEF Towards
        <4> QED BY <2>1, <2>3, <3>3, <4>1 DEF Towards
      <3> QED BY <2>1, <2>2, <3>3, <3>4
    <2>4. CASE job.request.op = "branch_switch"
      <3>1. CASE job.todo = <<Step("switch")>>
        <4>1. SwitchBranch(c)
          <5>1. Head(job.todo) = Step("switch") /\ job.todo # << >>
            BY <3>1
          <5>2. Now(c).do = "switch"
            BY <1>3, <5>1 DEF Now, Step
          <5> QED BY <1>3, <5>1, <5>2 DEF Serve, Next1, Now, Finished, GetPartition,
                EnsurePartition, CreatePartition, MakeSnapshot, MovePointer, ResetApproval,
                ListFeatures, NextRound, CommitRead, Answer
        <4>2. /\ next.todo = << >> /\ next.read = NothingRead
              /\ e = UpdatePointer(d, Staged, at)
          BY <1>3, <1>5, <3>1, <4>1, SwitchBranchAlone
        <4>3. Fresh(e, next.read)
          BY <4>2, NothingIsFresh
        <4>4. Ordered(next)
          BY <4>2 DEF Ordered
        <4>5. ASSUME NEW from \in next.began
              PROVE  Towards(from, e, at, next)
          <5>1. Towards(from, d, head, job)
            BY <2>1, <2>2, <4>5
          <5>2. job.todo # << >>
            BY <3>1
          <5>3. from = d
            BY <2>4, <5>1, <5>2 DEF Towards
          <5> QED BY <2>1, <2>4, <4>2, <5>3 DEF Towards
        <4> QED BY <2>1, <2>2, <4>3, <4>4, <4>5
      <3>2. CASE job.todo # <<Step("switch")>>
        <4>1. job.todo = << >>
          BY <1>5, <2>2, <2>4, <3>2 DEF Towards
        <4>2. Answer(c)
          BY <1>3, <4>1 DEF Serve, Next1, GetPartition, EnsurePartition, CreatePartition,
             MakeSnapshot, MovePointer, ResetApproval, ListFeatures, NextRound, CommitRead,
             SwitchBranch
        <4>3. client'[c] = Idle
          BY <4>2 DEF Answer, Inv
        <4> QED BY <1>3, <1>5, <4>3
      <3> QED BY <3>1, <3>2
    <2> QED BY <2>3, <2>4
  <1>6. ASSUME NEW b \in Clients, client'[b].began # {}
        PROVE  /\ \A x \in Clients \ {b} : client'[x] = Idle
               /\ client'[b].request \in RequestKinds
               /\ Fresh(e, client'[b].read) /\ Ordered(client'[b])
               /\ \A from \in client'[b].began : Towards(from, e, at, client'[b])
    BY <1>3, <1>4, <1>5, <1>6
  <1>7. e = db' /\ at = head' /\ Bounded(Existing(e))
    BY <1>2, <1>3
  <1> QED BY <1>6, <1>7 DEF AloneInv, AloneJob

LEMMA NextAlone ==
    ASSUME Inv, AloneInv, [Next]_vars
    PROVE  AloneInv'
PROOF
  <1>1. CASE UNCHANGED vars
    BY <1>1 DEF vars, AloneInv, AloneJob
  <1>2. CASE Crash
    <2>1. db' = db /\ \A c \in Clients : client'[c] = Idle
      BY <1>2 DEF Crash
    <2>2. Idle.began = {}
      BY DEF Idle
    <2>3. PICK d : d = db
      OBVIOUS
    <2>4. Bounded(Existing(d)) /\ db' = d
      BY <2>1, <2>3 DEF AloneInv
    <2> QED BY <2>1, <2>2, <2>4 DEF AloneInv
  <1> QED BY <1>1, <1>2, BeginAlone, AloneServed DEF Next

(* A request that no other one overlapped did, call by call, what the atomic *)
(* operation of the layers does to the database it found: the model of the   *)
(* pipeline, which takes each operation in one step, is exact for it.        *)
THEOREM RequestsAloneAreAtomic == Spec => []AloneIsAtomic
PROOF
  <1>1. Inv /\ AloneInv => AloneIsAtomic
    <2> SUFFICES ASSUME Inv, AloneInv, NEW c \in Clients, Finished(c), NEW d \in client[c].began
                 PROVE  db = Atomic(client[c].request, d)
      BY DEF AloneIsAtomic
    <2>1. client[c].todo = << >> /\ Towards(d, db, head, client[c])
      BY DEF Finished, AloneInv, AloneJob
    <2>2. client[c].request \in RequestKinds
      BY DEF AloneInv, AloneJob
    <2>3. CASE client[c].request.op = "branch_switch"
      <3>1. client[c].todo # <<Step("switch")>>
        BY <2>1
      <3>2. db = UpdatePointer(d, Staged, head)
        BY <2>1, <2>3, <3>1 DEF Towards
      <3> QED BY <2>3, <3>2 DEF Atomic
    <2>4. CASE client[c].request.op # "branch_switch"
      <3>1. After(db, << >>) = After(d, StepsOf(client[c].request))
        BY <2>1, <2>4 DEF Towards
      <3> QED BY <2>2, <2>4, <3>1, AfterNone, RequestAfter
    <2> QED BY <2>3, <2>4
  <1> QED BY <1>1, Invariance, InitInv, InitAlone, NextInv, NextAlone, PTL DEF Spec
=============================================================================
