------------------------ MODULE LayeredPipelineProofs ------------------------
(***************************************************************************)
(* Theorems about LayeredPipeline for every value of its constants.        *)
(*                                                                         *)
(* LayerOperationsProofs says what each operation does to the tables; here *)
(* the theorems follow action by action, for three invariants: the tables  *)
(* stay well formed (Inv), changes flow between neighbouring layers only   *)
(* (FlowInv), and submissions keep their history rows and their pointer    *)
(* until they are answered or rolled back (KeepsSubmissions).              *)
(***************************************************************************)
EXTENDS LayeredPipeline, LayerOperationsProofs

(* The inductive invariant behind type correctness and StoreConsistent: the  *)
(* tables are well formed, and what the requests remember exists in them.    *)
Inv ==
    /\ WellFormed(db)
    /\ CheckpointsStored
    /\ merging \subseteq {f \in Features : Exists(db, Feature(f))}
    /\ awaiting \in [Agents -> Nat]

LEMMA InitInv ==
    ASSUME Init
    PROVE  Inv
PROOF
  <1>1. db = InitDatabase /\ merging = {} /\ head = NoSnap /\ committed = {}
        /\ awaiting = [a \in Agents |-> NoSnap]
    BY DEF Init
  <1>2. WellFormed(db)
    BY <1>1, InitDatabaseSound DEF Sound
  <1>3. CheckpointsStored
    BY <1>1 DEF CheckpointsStored
  <1> QED BY <1>1, <1>2, <1>3 DEF Inv, NoSnap

(* What an action owes the invariant: its tables follow the earlier ones,    *)
(* and what it newly remembers exists in them.                               *)
LEMMA StepInv ==
    ASSUME Inv, Follows(db, db'),
           merging' \subseteq Existing(db'),
           awaiting' \in [Agents -> Nat],
           committed' \subseteq Stored(db'),
           head' \in committed' \cup {NoSnap}
    PROVE  Inv'
PROOF
  BY DEF Inv, Follows, CheckpointsStored, Existing

(* An action that only touches the tables, and perhaps answers a submission. *)
LEMMA TablesInv ==
    ASSUME Inv, Follows(db, db'), awaiting' \in [Agents -> Nat],
           UNCHANGED <<merging, head, committed>>
    PROVE  Inv'
PROOF
  <1>1. merging' \subseteq Existing(db')
    BY PartitionNames DEF Inv, Follows, Later, Existing
  <1>2. committed' \subseteq Stored(db') /\ head' \in committed' \cup {NoSnap}
    BY DEF Inv, Follows, Later, CheckpointsStored
  <1> QED BY <1>1, <1>2, StepInv

(* Manual edits and agent edits.                                             *)
LEMMA EditNextInv ==
    ASSUME Inv, EditNext
    PROVE  Inv' /\ Follows(db, db')
PROOF
  <1>0. WellFormed(db) /\ Exists(db, Manual) /\ Exists(db, Staged)
    BY DEF Inv, WellFormed
  <1>1. ASSUME NEW path \in Paths, NEW new \in Text, ManualEdit(path, new)
        PROVE  Inv' /\ Follows(db, db')
    <2> DEFINE edited == ApplyEdit(db, Manual, path, new)
    <2>1. Follows(db, edited)
      BY <1>0, PartitionNames, ApplyEditKeeps DEF Follows
    <2>2. Follows(edited, MergeManualToStaged(edited))
      BY <2>1, MergeManualToStagedFollows DEF Follows
    <2>3. db' = MergeManualToStaged(edited)
      BY <1>1 DEF ManualEdit, Becomes
    <2>4. Follows(db, db')
      <3> HIDE DEF edited
      <3> QED BY <2>1, <2>2, <2>3, FollowsTransitive
    <2> QED BY <1>1, <2>4, TablesInv DEF ManualEdit, Inv
  <1>2. ASSUME NEW a \in Agents, NEW path \in Paths, NEW new \in Text,
               AgentEdit(a, path, new)
        PROVE  Inv' /\ Follows(db, db')
    <2> DEFINE ensured == Ensure(db, Agent(a), db.pointer[Staged])
    <2>1. Follows(db, ensured) /\ Exists(ensured, Agent(a))
      BY <1>0, PartitionNames, PointersAreStored, EnsureKeeps DEF Follows
    <2>2. db' = ApplyEdit(ensured, Agent(a), path, new)
      BY <1>2 DEF AgentEdit, Becomes
    <2>3. Follows(ensured, db')
      <3> HIDE DEF ensured
      <3> QED BY <2>1, <2>2, PartitionNames, ApplyEditKeeps DEF Follows
    <2>4. Follows(db, db')
      <3> HIDE DEF ensured
      <3> QED BY <2>1, <2>3, FollowsTransitive
    <2> QED BY <1>2, <2>4, TablesInv DEF AgentEdit, Inv
  <1> QED BY <1>1, <1>2 DEF EditNext

(* Submission, approval and rejection.                                       *)
LEMMA ReviewNextInv ==
    ASSUME Inv, ReviewNext
    PROVE  Inv' /\ Follows(db, db')
PROOF
  <1>0. WellFormed(db) /\ Exists(db, Staged) /\ awaiting \in [Agents -> Nat]
    BY DEF Inv, WellFormed
  <1>1. ASSUME NEW a \in Agents, AgentSubmit(a)
        PROVE  Inv' /\ Follows(db, db')
    <2> DEFINE ensured == Ensure(db, Approval(a), db.pointer[Staged])
               moved == MoveAgentToApproval(ensured, a)
    <2>1. Follows(db, ensured) /\ Exists(ensured, Approval(a))
      BY <1>0, PartitionNames, PointersAreStored, EnsureKeeps DEF Follows
    <2>2. CASE ~ Exists(db, Agent(a))
      <3>1. db' = ensured /\ UNCHANGED <<merging, head, committed, awaiting>>
        BY <1>1, <2>2 DEF AgentSubmit, Becomes
      <3> QED BY <1>0, <2>1, <3>1, TablesInv
    <2>3. CASE Exists(db, Agent(a))
      <3>1. Exists(ensured, Agent(a))
        BY <2>1, <2>3, PartitionNames DEF Follows, Later
      <3>2. Follows(ensured, moved)
        BY <2>1, <3>1, MoveAgentToApprovalFollows DEF Follows
      <3>3. Follows(db, moved)
        <4> HIDE DEF moved, ensured
        <4> QED BY <2>1, <3>2, FollowsTransitive
      <3>4. /\ db' = moved
            /\ awaiting' \in {awaiting, [awaiting EXCEPT ![a] = moved.pointer[Approval(a)]]}
            /\ UNCHANGED <<merging, head, committed>>
        BY <1>1, <2>3 DEF AgentSubmit, Becomes
      <3>5. awaiting' \in [Agents -> Nat]
        <4> HIDE DEF moved, ensured
        <4>1. moved.pointer[Approval(a)] \in Nat
          BY <3>3, PartitionNames DEF Follows, WellFormed, Databases
        <4> QED BY <1>0, <3>4, <4>1
      <3> QED BY <3>3, <3>4, <3>5, TablesInv
    <2> QED BY <2>2, <2>3
  <1>2. ASSUME NEW a \in Agents, NEW f \in Features, ApproveAgent(a, f)
        PROVE  Inv' /\ Follows(db, db')
    <2>1. Follows(db, db')
      BY <1>0, <1>2, MergeAgentToFeatureFollows DEF ApproveAgent, Becomes
    <2>2. awaiting' \in [Agents -> Nat]
      BY <1>0, <1>2 DEF ApproveAgent, NoSnap
    <2> QED BY <1>2, <2>1, <2>2, TablesInv DEF ApproveAgent
  <1>3. ASSUME NEW a \in Agents, Approve(a)
        PROVE  Inv' /\ Follows(db, db')
    <2>1. Follows(db, db')
      BY <1>0, <1>3, FeatureOfAssumption, MergeAgentToFeatureFollows DEF Approve, Becomes
    <2>2. committed' \subseteq Stored(db') /\ head' \in committed' \cup {NoSnap}
      BY <1>3, <2>1 DEF Approve, Inv, Follows, Later, CheckpointsStored
    <2>3. merging' \subseteq Existing(db') /\ awaiting' \in [Agents -> Nat]
      BY <1>0, <1>3 DEF Approve, NoSnap
    <2> QED BY <2>1, <2>2, <2>3, StepInv
  <1>4. ASSUME NEW a \in Agents, RejectAgent(a)
        PROVE  Inv' /\ Follows(db, db')
    <2>1. Follows(db, db')
      BY <1>0, <1>4, PartitionNames, ResetKeeps DEF RejectAgent, Becomes, Follows
    <2>2. awaiting' \in [Agents -> Nat]
      BY <1>0, <1>4 DEF RejectAgent, NoSnap
    <2> QED BY <1>4, <2>1, <2>2, TablesInv DEF RejectAgent
  <1> QED BY <1>1, <1>2, <1>3, <1>4 DEF ReviewNext

(* The features into staged, one round at a time, and the crash.             *)
LEMMA StageNextInv ==
    ASSUME Inv, StageNext
    PROVE  Inv' /\ Follows(db, db')
PROOF
  <1>0. WellFormed(db) /\ awaiting \in [Agents -> Nat]
        /\ merging \subseteq Existing(db)
        /\ committed \subseteq Stored(db) /\ head \in committed \cup {NoSnap}
    BY DEF Inv, Existing, CheckpointsStored
  <1>1. ASSUME MergeToStaged \/ Crash \/ \E f \in Features : MergeToUnified(f)
        PROVE  Inv' /\ Follows(db, db')
    <2>1. db' = db /\ UNCHANGED <<head, committed, awaiting>>
      BY <1>1 DEF MergeToStaged, Crash, MergeToUnified
    <2>2. merging' \subseteq Existing(db)
      BY <1>1 DEF MergeToStaged, Crash, MergeToUnified, Existing
    <2>3. Follows(db, db')
      BY <1>0, <2>1, FollowsReflexive
    <2> QED BY <1>0, <2>1, <2>2, <2>3, StepInv
  <1>2. ASSUME MergeNextFeature
        PROVE  Inv' /\ Follows(db, db')
    <2>1. PICK f \in merging : /\ db' = MergeFeatureToStaged(db, f)
                               /\ merging' = merging \ {f}
                               /\ UNCHANGED <<head, committed, awaiting>>
      BY <1>2 DEF MergeNextFeature, Becomes
    <2>2. f \in Features /\ Exists(db, Feature(f))
      BY <1>0 DEF Existing
    <2>3. Follows(db, db')
      BY <1>0, <2>1, <2>2, MergeFeatureToStagedFollows
    <2>4. merging' \subseteq Existing(db')
      BY <1>0, <2>1, <2>3, PartitionNames DEF Follows, Later, Existing
    <2>5. committed' \subseteq Stored(db') /\ head' \in committed' \cup {NoSnap}
      BY <1>0, <2>1, <2>3 DEF Follows, Later
    <2> QED BY <1>0, <2>1, <2>3, <2>4, <2>5, StepInv
  <1> QED BY <1>1, <1>2 DEF StageNext

(* Rollbacks move a pointer to a snapshot stored before.                     *)
LEMMA RollbackNextInv ==
    ASSUME Inv, RollbackNext
    PROVE  Inv' /\ Follows(db, db')
PROOF
  <1>0. /\ WellFormed(db) /\ awaiting \in [Agents -> Nat] /\ Exists(db, Staged)
        /\ db \in Databases /\ SnapshotGraph(db) /\ PointerIsLastRow(db)
    BY DEF Inv, WellFormed
  <1>p. ASSUME NEW p \in Partitions, Exists(db, p),
               NEW k \in 1..Len(ParentsOf(db, db.pointer[p]))
        PROVE  ParentsOf(db, db.pointer[p])[k] \in Stored(db)
    <2>1. db.pointer[p] \in Stored(db)
      BY <1>0, <1>p, PointersAreStored
    <2>2. ParentsOf(db, db.pointer[p])[k] \in 1..(db.pointer[p] - 1)
      BY <1>0, <2>1 DEF SnapshotGraph, ParentsOf
    <2>3. Len(db.snaps) \in Nat
      BY <1>0 DEF Databases
    <2> QED BY <2>1, <2>2, <2>3 DEF Stored
  <1>1. ASSUME NEW a \in Agents, DiscardAgentEdit(a)
        PROVE  Inv' /\ Follows(db, db')
    <2> DEFINE parents == ParentsOf(db, db.pointer[Agent(a)])
    <2>1. Exists(db, Agent(a)) /\ parents # << >>
          /\ db' = UpdatePointer(db, Agent(a), Head(parents))
          /\ UNCHANGED <<merging, head, committed, awaiting>>
      BY <1>1 DEF DiscardAgentEdit, Becomes
    <2>2. parents \in Seq(Nat)
      BY <1>0, <2>1, PartitionNames, PointersAreStored, RowType DEF ParentsOf
    <2>3. Head(parents) \in Stored(db)
      <3>1. 1 \in 1..Len(parents) /\ Head(parents) = parents[1]
        BY <2>1, <2>2
      <3> QED BY <1>p, <2>1, <3>1, PartitionNames
    <2>4. Follows(db, db')
      BY <1>0, <2>1, <2>3, PartitionNames, UpdatePointerKeeps DEF Follows
    <2> QED BY <1>0, <2>1, <2>4, TablesInv
  <1>2. ASSUME NEW p \in Partitions, RollbackPartition(p)
        PROVE  Inv' /\ Follows(db, db')
    <2>1. /\ Len(db.history[p]) > 1
          /\ db' = UpdatePointer(db, p, db.history[p][Len(db.history[p]) - 1])
          /\ awaiting' = [a \in Agents |-> IF p = Approval(a) THEN NoSnap ELSE awaiting[a]]
          /\ UNCHANGED <<merging, head, committed>>
      BY <1>2 DEF RollbackPartition, Becomes
    <2>2. Exists(db, p)
      BY <1>0, <2>1 DEF PointerIsLastRow
    <2>3. Len(db.history[p]) - 1 \in 1..Len(db.history[p])
      BY <1>0, <2>1, <2>2, PointersAreStored
    <2>4. db.history[p][Len(db.history[p]) - 1] \in Stored(db)
      BY <1>0, <2>2, <2>3 DEF PointerIsLastRow
    <2>5. Follows(db, db')
      BY <1>0, <2>1, <2>2, <2>4, UpdatePointerKeeps DEF Follows
    <2>6. awaiting' \in [Agents -> Nat]
      BY <1>0, <2>1 DEF NoSnap
    <2> QED BY <2>1, <2>5, <2>6, TablesInv
  <1>3. ASSUME NEW layer, RollbackStaged(layer)
        PROVE  Inv' /\ Follows(db, db')
    <2> DEFINE parents == ParentsOf(db, db.pointer[Staged])
    <2>1. PICK i \in DOMAIN parents : db' = UpdatePointer(db, Staged, parents[i])
      BY <1>3 DEF RollbackStaged, Becomes
    <2>2. parents \in Seq(Nat)
      BY <1>0, PartitionNames, PointersAreStored, RowType DEF ParentsOf
    <2>3. parents[i] \in Stored(db)
      BY <1>0, <1>p, <2>1, <2>2, PartitionNames
    <2>4. Follows(db, db')
      BY <1>0, <2>1, <2>3, PartitionNames, UpdatePointerKeeps DEF Follows
    <2>5. UNCHANGED <<merging, head, committed, awaiting>>
      BY <1>3 DEF RollbackStaged
    <2> QED BY <1>0, <2>4, <2>5, TablesInv
  <1> QED BY <1>1, <1>2, <1>3 DEF RollbackNext

(* Commits and moves to the baseline of a checkpoint.                        *)
LEMMA CheckpointNextInv ==
    ASSUME Inv, CheckpointNext
    PROVE  Inv' /\ Follows(db, db')
PROOF
  <1>0. /\ WellFormed(db) /\ awaiting \in [Agents -> Nat] /\ Exists(db, Staged)
        /\ committed \subseteq Stored(db) /\ head \in committed \cup {NoSnap}
        /\ merging \subseteq Existing(db)
    BY DEF Inv, WellFormed, CheckpointsStored, Existing
  <1>1. ASSUME Commit
        PROVE  Inv' /\ Follows(db, db')
    <2>1. /\ db' = db /\ UNCHANGED <<merging, awaiting>>
          /\ head' = db.pointer[Staged]
          /\ committed' = committed \cup {db.pointer[Staged]}
      BY <1>1 DEF Commit
    <2>2. db.pointer[Staged] \in Stored(db)
      BY <1>0, PartitionNames, PointersAreStored
    <2>3. Follows(db, db')
      BY <1>0, <2>1, FollowsReflexive
    <2>4. committed' \subseteq Stored(db') /\ head' \in committed' \cup {NoSnap}
      BY <1>0, <2>1, <2>2
    <2>5. merging' \subseteq Existing(db') /\ awaiting' \in [Agents -> Nat]
      BY <1>0, <2>1
    <2> QED BY <2>3, <2>4, <2>5, StepInv
  <1>2. ASSUME NEW id \in committed, SwitchBranch(id) \/ CheckpointRollback(id)
        PROVE  Inv' /\ Follows(db, db')
    <2>1. /\ db' = UpdatePointer(db, Staged, id)
          /\ UNCHANGED <<merging, committed, awaiting>>
          /\ head' \in {id, head}
      BY <1>2 DEF SwitchBranch, CheckpointRollback, Becomes
    <2>2. Follows(db, db')
      BY <1>0, <2>1, PartitionNames, UpdatePointerKeeps DEF Follows
    <2>3. merging' \subseteq Existing(db')
      BY <1>0, <2>1, <2>2, PartitionNames DEF Follows, Later, Existing
    <2>4. committed' \subseteq Stored(db') /\ head' \in committed' \cup {NoSnap}
      BY <1>0, <2>1, <2>2 DEF Follows, Later
    <2> QED BY <1>0, <2>1, <2>2, <2>3, <2>4, StepInv
  <1>3. ASSUME SwitchBranchFails
        PROVE  Inv' /\ Follows(db, db')
    <2>1. db' = db /\ head' = NoSnap /\ UNCHANGED <<merging, committed, awaiting>>
      BY <1>3 DEF SwitchBranchFails
    <2>2. Follows(db, db')
      BY <1>0, <2>1, FollowsReflexive
    <2> QED BY <1>0, <2>1, <2>2, StepInv
  <1> QED BY <1>1, <1>2, <1>3 DEF CheckpointNext

LEMMA NextInv ==
    ASSUME Inv, [Next]_vars
    PROVE  Inv' /\ Follows(db, db')
PROOF
  <1>1. CASE EditNext
    BY <1>1, EditNextInv
  <1>2. CASE ReviewNext
    BY <1>2, ReviewNextInv
  <1>3. CASE StageNext
    BY <1>3, StageNextInv
  <1>4. CASE RollbackNext
    BY <1>4, RollbackNextInv
  <1>5. CASE CheckpointNext
    BY <1>5, CheckpointNextInv
  <1>6. CASE UNCHANGED vars
    <2>1. db' = db /\ UNCHANGED <<merging, head, committed, awaiting>>
      BY <1>6 DEF vars
    <2>2. Follows(db, db') /\ awaiting' \in [Agents -> Nat]
      BY <2>1, FollowsReflexive DEF Inv
    <2> QED BY <2>1, <2>2, TablesInv
  <1> QED BY <1>1, <1>2, <1>3, <1>4, <1>5, <1>6 DEF Next

(* The tables stay well formed and what the requests remember exists.        *)
THEOREM Invariance == Spec => []Inv
PROOF
  <1>1. Init => Inv
    BY InitInv
  <1>2. Inv /\ [Next]_vars => Inv'
    BY NextInv
  <1> QED BY <1>1, <1>2, PTL DEF Spec

(* Type correctness: the tables of src/storage and the requests' state.      *)
THEOREM TypeCorrect == Spec => []TypeOK
PROOF
  <1>1. Inv => TypeOK
    <2> SUFFICES ASSUME Inv PROVE TypeOK
      OBVIOUS
    <2>1. db \in Databases /\ merging \subseteq Features /\ awaiting \in [Agents -> Nat]
      BY DEF Inv, WellFormed
    <2>2. committed \subseteq Nat /\ head \in Nat
      BY DEF Inv, CheckpointsStored, Stored, NoSnap
    <2> QED BY <2>1, <2>2 DEF TypeOK
  <1> QED BY <1>1, Invariance, PTL

(* Every pointer, history row, parent link and checkpoint baseline names a   *)
(* stored snapshot, each snapshot is stored once and after its parents, and  *)
(* "partitions" agrees with "partition_history".                             *)
THEOREM StoreStaysConsistent == Spec => []StoreConsistent
PROOF
  <1>1. Inv => StoreConsistent
    BY DEF Inv, WellFormed, StoreConsistent
  <1> QED BY <1>1, Invariance, PTL

(* No edit, submission, approval, rejection, rollback or branch switch moves *)
(* the baseline of a partition or makes it disappear.                        *)
THEOREM BaselinesStay == Spec => BaselinesPinned
PROOF
  <1>1. Inv /\ [Next]_vars =>
          [\A p \in Partitions : Exists(db, p) =>
              Exists(db', p) /\ Baseline(db', p) = Baseline(db, p)]_db
    BY NextInv DEF Follows, Later
  <1> QED BY <1>1, Invariance, PTL DEF Spec, BaselinesPinned

-----------------------------------------------------------------------------
(* Iron law 1                                                                *)

(* NoCrossLayerFlow is not inductive as it stands.  A discarded agent edit   *)
(* returns to the first parent of the current snapshot, approvals and        *)
(* rejections return to baselines, and branch switches to the baselines of   *)
(* checkpoints: Layered says what the types of the former are, FlowInv adds  *)
(* the last.                                                                 *)
FlowInv ==
    /\ Inv
    /\ Layered(db)
    /\ \A id \in committed : TypeAt(db, id) \in Ground

LEMMA InitSound ==
    ASSUME Init
    PROVE  FlowInv
PROOF
  <1>1. db = InitDatabase /\ committed = {}
    BY DEF Init
  <1> QED BY <1>1, InitInv, InitDatabaseSound DEF FlowInv, Sound

LEMMA EditNextSound ==
    ASSUME Sound(db), EditNext
    PROVE  Sound(db')
PROOF
  <1>0. WellFormed(db) /\ Exists(db, Manual) /\ Exists(db, Staged)
        /\ Staged \in Partitions
    BY PartitionNames DEF Sound, WellFormed
  <1>1. ASSUME NEW path \in Paths, NEW new \in Text, ManualEdit(path, new)
        PROVE  Sound(db')
    <2>1. Sound(ApplyEdit(db, Manual, path, new))
      BY <1>0, ApplyEditSound
    <2>2. Sound(MergeManualToStaged(ApplyEdit(db, Manual, path, new)))
      BY <2>1, MergeManualToStagedSound
    <2> QED BY <1>1, <2>2 DEF ManualEdit, Becomes
  <1>2. ASSUME NEW a \in Agents, NEW path \in Paths, NEW new \in Text,
               AgentEdit(a, path, new)
        PROVE  Sound(db')
    <2>1. Agent(a) \in Partitions \ {Manual}
      BY PartitionNames DEF Agent, Manual
    <2>2. db.pointer[Staged] \in Stored(db) /\ TypeAt(db, db.pointer[Staged]) \in Ground
      BY <1>0, PointersAreStored, HeldIsAllowed, HeldTypes
    <2> DEFINE ensured == Ensure(db, Agent(a), db.pointer[Staged])
    <2>3. Sound(ensured) /\ Exists(ensured, Agent(a))
      BY <1>0, <2>1, <2>2, EnsureSound, EnsureKeeps
    <2>4. db' = ApplyEdit(ensured, Agent(a), path, new)
      BY <1>2 DEF AgentEdit, Becomes
    <2> HIDE DEF ensured
    <2> QED BY <2>3, <2>4, ApplyEditSound
  <1> QED BY <1>1, <1>2 DEF EditNext

LEMMA ReviewNextSound ==
    ASSUME Sound(db), ReviewNext
    PROVE  Sound(db')
PROOF
  <1>0. WellFormed(db) /\ Exists(db, Staged) /\ Staged \in Partitions
    BY PartitionNames DEF Sound, WellFormed
  <1>1. ASSUME NEW a \in Agents, AgentSubmit(a)
        PROVE  Sound(db')
    <2>1. Approval(a) \in Partitions \ {Manual} /\ Agent(a) \in Partitions
      BY PartitionNames DEF Approval, Manual
    <2>2. db.pointer[Staged] \in Stored(db) /\ TypeAt(db, db.pointer[Staged]) \in Ground
      BY <1>0, PointersAreStored, HeldIsAllowed, HeldTypes
    <2> DEFINE ensured == Ensure(db, Approval(a), db.pointer[Staged])
    <2>3. Sound(ensured) /\ Exists(ensured, Approval(a)) /\ Later(db, ensured)
      BY <1>0, <2>1, <2>2, EnsureSound, EnsureKeeps
    <2>4. CASE ~ Exists(db, Agent(a))
      BY <1>1, <2>3, <2>4 DEF AgentSubmit, Becomes
    <2>5. CASE Exists(db, Agent(a))
      <3>1. Exists(ensured, Agent(a))
        BY <2>1, <2>3, <2>5 DEF Later
      <3>2. db' = MoveAgentToApproval(ensured, a)
        BY <1>1, <2>5 DEF AgentSubmit, Becomes
      <3> HIDE DEF ensured
      <3> QED BY <2>3, <3>1, <3>2, MoveAgentToApprovalSound
    <2> QED BY <2>4, <2>5
  <1>2. ASSUME NEW a \in Agents, NEW f \in Features, ApproveAgent(a, f)
        PROVE  Sound(db')
    BY <1>2, MergeAgentToFeatureSound DEF ApproveAgent, Becomes
  <1>3. ASSUME NEW a \in Agents, Approve(a)
        PROVE  Sound(db')
    BY <1>3, FeatureOfAssumption, MergeAgentToFeatureSound DEF Approve, Becomes
  <1>4. ASSUME NEW a \in Agents, RejectAgent(a)
        PROVE  Sound(db')
    BY <1>4, PartitionNames, ResetSound DEF RejectAgent, Becomes
  <1> QED BY <1>1, <1>2, <1>3, <1>4 DEF ReviewNext

LEMMA StageNextSound ==
    ASSUME FlowInv, StageNext
    PROVE  Sound(db')
PROOF
  <1>0. Sound(db) /\ merging \subseteq Existing(db)
    BY DEF FlowInv, Inv, Sound, Existing
  <1>1. CASE MergeNextFeature
    <2>1. PICK f \in merging : db' = MergeFeatureToStaged(db, f)
      BY <1>1 DEF MergeNextFeature, Becomes
    <2>2. f \in Features /\ Exists(db, Feature(f))
      BY <1>0 DEF Existing
    <2> QED BY <1>0, <2>1, <2>2, MergeFeatureToStagedSound
  <1>2. CASE ~ MergeNextFeature
    <2>1. db' = db
      BY <1>2 DEF StageNext, MergeToStaged, MergeToUnified, Crash
    <2> QED BY <1>0, <2>1
  <1> QED BY <1>1, <1>2

LEMMA RollbackNextSound ==
    ASSUME Sound(db), RollbackNext
    PROVE  Sound(db')
PROOF
  <1>0. /\ WellFormed(db) /\ db \in Databases /\ Layered(db)
        /\ SnapshotGraph(db) /\ PointerIsLastRow(db)
        /\ Exists(db, Staged) /\ Staged \in Partitions
    BY PartitionNames DEF Sound, WellFormed
  <1>p. ASSUME NEW p \in Partitions, Exists(db, p),
               NEW k \in 1..Len(ParentsOf(db, db.pointer[p]))
        PROVE  /\ db.pointer[p] \in Stored(db)
               /\ ParentsOf(db, db.pointer[p]) \in Seq(Nat)
               /\ ParentsOf(db, db.pointer[p])[k] \in Stored(db)
    <2>1. db.pointer[p] \in Stored(db)
      BY <1>0, <1>p, PointersAreStored
    <2>2. ParentsOf(db, db.pointer[p])[k] \in 1..(db.pointer[p] - 1)
      BY <1>0, <2>1 DEF SnapshotGraph, ParentsOf
    <2>3. Len(db.snaps) \in Nat
      BY <1>0 DEF Databases
    <2>4. ParentsOf(db, db.pointer[p])[k] \in Stored(db)
      BY <2>1, <2>2, <2>3 DEF Stored
    <2> QED BY <1>0, <2>1, <2>4, RowType DEF ParentsOf
  <1>1. ASSUME NEW a \in Agents, DiscardAgentEdit(a)
        PROVE  Sound(db')
    <2> DEFINE id == db.pointer[Agent(a)]
               parents == ParentsOf(db, id)
    <2>1. /\ Exists(db, Agent(a)) /\ parents # << >>
          /\ db' = UpdatePointer(db, Agent(a), Head(parents))
          /\ Agent(a) \in Partitions
      BY <1>1, PartitionNames DEF DiscardAgentEdit, Becomes
    <2>2. id \in Stored(db) /\ parents \in Seq(Nat)
      BY <1>0, <2>1, PointersAreStored, RowType DEF ParentsOf
    <2>3. 1 \in 1..Len(parents) /\ Head(parents) = parents[1]
      BY <2>1, <2>2
    <2>4. Head(parents) \in Stored(db)
      BY <1>p, <2>1, <2>3
    <2>5. TypeAt(db, Head(parents)) \in MayHold(TypeAt(db, id))
      BY <1>0, <2>1, <2>2, <2>3 DEF Layered
    <2>6. TypeAt(db, id) \in Ground \cup {Agent(a)}
      BY <2>1, HeldIsAllowed, HeldTypes
    <2>7. MayHold(TypeAt(db, id)) \subseteq MayHold(Agent(a))
      BY <2>6, HeldTypes DEF Ground
    <2> QED BY <2>1, <2>4, <2>5, <2>7, UpdatePointerSound
  <1>2. ASSUME NEW p \in Partitions, RollbackPartition(p)
        PROVE  Sound(db')
    <2>1. /\ Len(db.history[p]) > 1
          /\ db' = UpdatePointer(db, p, db.history[p][Len(db.history[p]) - 1])
      BY <1>2 DEF RollbackPartition, Becomes
    <2>2. Exists(db, p)
      BY <1>0, <2>1 DEF PointerIsLastRow
    <2>3. Len(db.history[p]) - 1 \in 1..Len(db.history[p])
      <3>1. Len(db.history[p]) \in Nat
        BY <1>0, <2>2, PointersAreStored
      <3> QED BY <2>1, <3>1
    <2>4. /\ db.history[p][Len(db.history[p]) - 1] \in Stored(db)
          /\ TypeAt(db, db.history[p][Len(db.history[p]) - 1]) \in MayHold(p)
      BY <1>0, <2>2, <2>3 DEF PointerIsLastRow, Layered
    <2> QED BY <2>1, <2>2, <2>4, UpdatePointerSound
  <1>3. ASSUME NEW layer \in RollbackLayers, RollbackStaged(layer)
        PROVE  Sound(db')
    <2> DEFINE id == db.pointer[Staged]
               parents == ParentsOf(db, id)
    <2>1. PICK i \in DOMAIN parents : /\ OfLayer(db, parents[i], layer)
                                      /\ db' = UpdatePointer(db, Staged, parents[i])
      BY <1>3 DEF RollbackStaged, Becomes
    <2>2. id \in Stored(db) /\ i \in 1..Len(parents)
      BY <1>0, <2>1, PointersAreStored, RowType DEF ParentsOf
    <2>3. parents[i] \in Stored(db)
      BY <1>0, <1>p, <2>2
    <2>4. TypeAt(db, parents[i]) \in MadeOf(TypeAt(db, id)) /\ TypeAt(db, id) \in Ground
      BY <1>0, <2>2, HeldIsAllowed, HeldTypes DEF Layered
    <2>5. TypeAt(db, parents[i]) \in Ground \cup {Feature(f) : f \in Features}
      BY <2>4, MadeOfLayers DEF Ground
    <2>6. \A f \in Features : TypeAt(db, parents[i]) # Feature(f)
      <3>1. \A f \in Features : Feature(f)[1] = "integrated"
        BY DEF Feature
      <3>2. TypeAt(db, parents[i])[1] \in {"manual", "agent", "approval"}
        BY <2>1 DEF OfLayer, RollbackLayers, TypeAt
      <3> QED BY <3>1, <3>2
    <2>7. TypeAt(db, parents[i]) \in MayHold(Staged)
      BY <2>5, <2>6, HeldTypes
    <2> QED BY <1>0, <2>1, <2>3, <2>7, UpdatePointerSound
  <1> QED BY <1>1, <1>2, <1>3 DEF RollbackNext

LEMMA CheckpointNextSound ==
    ASSUME FlowInv, CheckpointNext
    PROVE  Sound(db')
PROOF
  <1>0. Sound(db) /\ Exists(db, Staged) /\ Staged \in Partitions
        /\ \A id \in committed : id \in Stored(db) /\ TypeAt(db, id) \in Ground
    BY PartitionNames DEF FlowInv, Inv, Sound, WellFormed, CheckpointsStored
  <1>1. ASSUME NEW id \in committed, SwitchBranch(id) \/ CheckpointRollback(id)
        PROVE  Sound(db')
    <2>1. db' = UpdatePointer(db, Staged, id)
      BY <1>1 DEF SwitchBranch, CheckpointRollback, Becomes
    <2> QED BY <1>0, <2>1, HeldTypes, UpdatePointerSound
  <1>2. CASE Commit \/ SwitchBranchFails
    BY <1>0, <1>2 DEF Commit, SwitchBranchFails
  <1> QED BY <1>1, <1>2 DEF CheckpointNext

LEMMA NextSound ==
    ASSUME FlowInv, [Next]_vars
    PROVE  FlowInv'
PROOF
  <1>0. Sound(db) /\ Inv
    BY DEF FlowInv, Inv, Sound
  <1>1. Inv' /\ Follows(db, db')
    BY <1>0, NextInv
  <1>2. Sound(db')
    <2>1. CASE Next
      BY <1>0, <2>1, EditNextSound, ReviewNextSound, StageNextSound, RollbackNextSound,
         CheckpointNextSound DEF Next
    <2>2. CASE UNCHANGED vars
      BY <1>0, <2>2 DEF vars
    <2> QED BY <2>1, <2>2
  <1>3. \A id \in committed : id \in Stored(db) /\ TypeAt(db', id) \in Ground
    BY <1>0, <1>1 DEF FlowInv, Inv, CheckpointsStored, Follows, Later, TypeAt
  <1>4. \A id \in committed' : TypeAt(db', id) \in Ground
    <2>1. CASE Commit
      <3>1. db' = db /\ committed' = committed \cup {db.pointer[Staged]}
        BY <2>1 DEF Commit
      <3>2. TypeAt(db, db.pointer[Staged]) \in Ground
        BY <1>0, PartitionNames, HeldIsAllowed, HeldTypes DEF Sound, WellFormed
      <3> QED BY <1>3, <3>1, <3>2
    <2>2. CASE ~ Commit
      <3>1. committed' = committed
        BY <2>2 DEF Next, vars, EditNext, ReviewNext, StageNext, RollbackNext, CheckpointNext,
           ManualEdit, AgentEdit, AgentSubmit, ApproveAgent, Approve, RejectAgent,
           MergeToStaged, MergeToUnified, MergeNextFeature, Crash,
           DiscardAgentEdit, RollbackPartition, RollbackStaged,
           SwitchBranch, SwitchBranchFails, CheckpointRollback
      <3> QED BY <1>3, <3>1
    <2> QED BY <2>1, <2>2
  <1> QED BY <1>1, <1>2, <1>4 DEF FlowInv, Sound

(* Iron law 1: a change reaches the next layer only through the partition of *)
(* its neighbour, whatever requests, rollbacks and branch switches are made. *)
THEOREM NoFlowAcrossLayers == Spec => []NoCrossLayerFlow
PROOF
  <1>1. Init => FlowInv
    BY InitSound
  <1>2. FlowInv /\ [Next]_vars => FlowInv'
    BY NextSound
  <1>3. FlowInv => NoCrossLayerFlow
    BY DEF FlowInv, Layered, NoCrossLayerFlow, NeighboursOnly, TypeAt, ParentsOf
  <1> QED BY <1>1, <1>2, <1>3, PTL DEF Spec

-----------------------------------------------------------------------------
(* What the texts read back as, and what becomes of submissions              *)

(* A round repeated after a crash or by a client that retries: harmless, for *)
(* any features, texts and histories.                                        *)
THEOREM RoundsStayRepeatable == Spec => []RoundsRepeatable
PROOF
  <1>1. Inv => RoundsRepeatable
    BY RoundRepeats DEF Inv, RoundsRepeatable, Existing
  <1> QED BY <1>1, Invariance, PTL

(* What one round of merge_features_to_staged writes is the three-way merge  *)
(* over the feature's baseline, read back through the stored chain.          *)
LEMMA RoundMergesThreeWays ==
    ASSUME Inv, NEW f \in merging, Round(f), ReadsBack(db', Staged), NEW r \in Regions
    PROVE  CurrentText(db', Staged)[r] =
             IF CurrentText(db, Staged)[r] = BaselineText(db, Feature(f))[r]
             THEN CurrentText(db, Feature(f))[r]
             ELSE CurrentText(db, Staged)[r]
PROOF
  <1>0. WellFormed(db) /\ f \in Features /\ Exists(db, Feature(f))
    BY DEF Inv
  <1>1. PICK g \in merging : db' = MergeFeatureToStaged(db, g) /\ merging' = merging \ {g}
    BY DEF Round, MergeNextFeature, Becomes
  <1>2. g = f
    BY <1>1 DEF Round
  <1>3. CASE MovedTo(db, db', Staged, FeatureMerge(db, f))
    BY <1>3 DEF MovedTo, FeatureMerge, Merge
  <1>4. CASE db' = db /\ db.pointer[Staged] = db.pointer[Feature(f)]
    BY <1>4 DEF CurrentText
  <1>5. CASE db' = db /\ FeatureMerge(db, f) = CurrentText(db, Staged)
    <2>1. FeatureMerge(db, f)[r] = CurrentText(db', Staged)[r]
      BY <1>5
    <2> QED BY <2>1 DEF FeatureMerge, Merge
  <1> QED BY <1>0, <1>1, <1>2, <1>3, <1>4, <1>5, MergeFeatureMoves

(* Merging a feature changes only the lines staged has not changed itself,   *)
(* and brings those to the feature's lines.                                  *)
THEOREM StagedMerges == Spec => StagedMergeIsThreeWay
PROOF
  <1>1. Inv /\ [Next]_vars =>
          [\A f \in merging : Round(f) /\ ReadsBack(db', Staged) =>
              LET base == BaselineText(db, Feature(f))
                  staged == CurrentText(db, Staged)
              IN  \A r \in Regions :
                    CurrentText(db', Staged)[r] =
                        IF staged[r] = base[r] THEN CurrentText(db, Feature(f))[r]
                                               ELSE staged[r]]_vars
    BY RoundMergesThreeWays
  <1> QED BY <1>1, Invariance, PTL DEF Spec, StagedMergeIsThreeWay

LEMMA EditReadsBack ==
    ASSUME Inv, NEW path \in Paths, NEW new \in Text, ManualEdit(path, new),
           db'.pointer[Manual] # db.pointer[Manual], ReadsBack(db', Manual)
    PROVE  CurrentText(db', Manual) = new
PROOF
  <1> DEFINE edited == ApplyEdit(db, Manual, path, new)
  <1>0. WellFormed(db) /\ Exists(db, Manual)
    BY DEF Inv, WellFormed
  <1>1. db' = MergeManualToStaged(edited)
    BY DEF ManualEdit, Becomes
  <1>2. edited = db \/ MovedTo(db, edited, Manual, new)
    BY <1>0, PartitionNames, EditMoves
  <1> HIDE DEF edited
  <1>3. WellFormed(edited) /\ Exists(edited, Manual)
    BY <1>0, <1>2 DEF MovedTo, Follows, WellFormed
  <1>4. \/ db' = edited
        \/ Follows(edited, db') /\ Moved(edited, db', Staged)
    BY <1>1, <1>3, ManualMergeMovesStaged
  <1>5. db'.pointer[Manual] = edited.pointer[Manual]
    BY <1>4, PartitionNames, LayerNamesDiffer DEF Moved
  <1>6. MovedTo(db, edited, Manual, new)
    BY <1>2, <1>5
  <1>7. edited.pointer[Manual] \in Stored(edited)
    BY <1>3, PartitionNames, PointersAreStored
  <1>8. db'.snaps[edited.pointer[Manual]] = edited.snaps[edited.pointer[Manual]]
    BY <1>4, <1>7 DEF Follows, Later
  <1>9. ReadsBack(edited, Manual) /\ CurrentText(db', Manual) = CurrentText(edited, Manual)
    BY <1>5, <1>8 DEF ReadsBack, CurrentText, TextOf
  <1> QED BY <1>6, <1>9 DEF MovedTo

(* What an edit request stored is what the manual partition reads back, for  *)
(* any earlier edits, merges, rollbacks and branch switches.                 *)
THEOREM EditsReadBack == Spec => FreshEditsReadBack
PROOF
  <1>1. Inv /\ [Next]_vars =>
          [db'.pointer[Manual] # db.pointer[Manual] /\ ReadsBack(db', Manual) =>
              \A path \in Paths, new \in Text :
                  ManualEdit(path, new) => CurrentText(db', Manual) = new]_vars
    BY EditReadsBack
  <1> QED BY <1>1, Invariance, PTL DEF Spec, FreshEditsReadBack

(* What a step owes the submissions: none loses its history rows but to an   *)
(* answer, and one nobody answered is the same as before, or new.            *)
Answers(a) ==
    /\ awaiting'[a] = NoSnap
    /\ \/ RejectAgent(a)
       \/ /\ Exists(db, Approval(a))
          /\ \E f \in Features : db' = MergeAgentToFeature(db, a, f)

KeepsSubmissions ==
    /\ \A a \in Agents : Len(db'.history[Approval(a)]) >= Len(db.history[Approval(a)])
                         \/ Answers(a)
    /\ \A a \in Agents : awaiting'[a] # NoSnap =>
          \/ /\ awaiting'[a] = awaiting[a]
             /\ Exists(db, Approval(a)) => db'.pointer[Approval(a)] = db.pointer[Approval(a)]
          \/ Pending(db', a) /\ db'.pointer[Approval(a)] = awaiting'[a]

LEMMA GrowthKeeps ==
    ASSUME Grown(db, db', {}), Holds(db, db', {}), awaiting' = awaiting
    PROVE  KeepsSubmissions
PROOF
  BY DEF Grown, Holds, KeepsSubmissions

(* One partition moved on, and if it is an agent's approval partition the    *)
(* agent's submission is forgotten.                                          *)
LEMMA MoveKeeps ==
    ASSUME WellFormed(db), WellFormed(db'), Follows(db, db'),
           NEW p \in Partitions, Moved(db, db', p),
           \A a \in Agents : awaiting'[a] # NoSnap => p # Approval(a) /\ awaiting'[a] = awaiting[a]
    PROVE  KeepsSubmissions
PROOF
  <1>1. Grown(db, db', {})
    BY MovesGrow
  <1>2. \A a \in Agents : awaiting'[a] # NoSnap =>
            /\ awaiting'[a] = awaiting[a]
            /\ db'.pointer[Approval(a)] = db.pointer[Approval(a)]
    BY PartitionNames DEF Moved
  <1> QED BY <1>1, <1>2 DEF Grown, KeepsSubmissions

LEMMA HoldsReflexive ==
    ASSUME NEW d
    PROVE  Holds(d, d, {})
PROOF
  BY DEF Holds

LEMMA EditNextKeeps ==
    ASSUME Inv, EditNext
    PROVE  KeepsSubmissions
PROOF
  <1>0. WellFormed(db) /\ Exists(db, Manual) /\ Exists(db, Staged)
    BY DEF Inv, WellFormed
  <1>1. ASSUME NEW path \in Paths, NEW new \in Text, ManualEdit(path, new)
        PROVE  KeepsSubmissions
    <2> DEFINE edited == ApplyEdit(db, Manual, path, new)
    <2>1. edited = db \/ MovedTo(db, edited, Manual, new)
      BY <1>0, PartitionNames, EditMoves
    <2>2. db' = MergeManualToStaged(edited) /\ awaiting' = awaiting
      BY <1>1 DEF ManualEdit, Becomes
    <2> HIDE DEF edited
    <2>3. WellFormed(edited) /\ Grown(db, edited, {})
      BY <1>0, <2>1, PartitionNames, MovesGrow, GrownReflexive DEF MovedTo, Follows
    <2>4. WellFormed(db') /\ Grown(edited, db', {})
      BY <2>2, <2>3, PartitionNames, ManualMergeMovesStaged, MovesGrow, GrownReflexive DEF Follows
    <2>5. Grown(db, db', {})
      BY <1>0, <2>3, <2>4, GrownTransitive
    <2>6. Holds(db, edited, {})
      BY <2>1, PartitionNames, LayerNamesDiffer, MovesHold, HoldsReflexive DEF MovedTo
    <2>7. Holds(edited, db', {})
      BY <2>2, <2>3, PartitionNames, LayerNamesDiffer, ManualMergeMovesStaged, MovesHold,
         HoldsReflexive
    <2>8. Holds(db, db', {})
      BY <2>6, <2>7, HoldsTransitive
    <2> QED BY <2>2, <2>5, <2>8, GrowthKeeps
  <1>2. ASSUME NEW a \in Agents, NEW path \in Paths, NEW new \in Text,
               AgentEdit(a, path, new)
        PROVE  KeepsSubmissions
    <2> DEFINE ensured == Ensure(db, Agent(a), db.pointer[Staged])
    <2>1. /\ WellFormed(ensured) /\ Exists(ensured, Agent(a))
          /\ Grown(db, ensured, {}) /\ Holds(db, ensured, {})
      BY <1>0, PartitionNames, PointersAreStored, EnsureKeeps, EnsureGrows, EnsureHolds
    <2>2. db' = ApplyEdit(ensured, Agent(a), path, new) /\ awaiting' = awaiting
      BY <1>2 DEF AgentEdit, Becomes
    <2> HIDE DEF ensured
    <2>3. db' = ensured \/ MovedTo(ensured, db', Agent(a), new)
      BY <2>1, <2>2, PartitionNames, EditMoves
    <2>4. WellFormed(db') /\ Grown(ensured, db', {})
      BY <2>1, <2>3, PartitionNames, MovesGrow, GrownReflexive DEF MovedTo, Follows
    <2>5. Grown(db, db', {})
      BY <1>0, <2>1, <2>4, GrownTransitive
    <2>6. Holds(ensured, db', {})
      BY <2>3, PartitionNames, LayerNamesDiffer, MovesHold, HoldsReflexive DEF MovedTo
    <2>7. Holds(db, db', {})
      BY <2>1, <2>6, HoldsTransitive
    <2> QED BY <2>2, <2>5, <2>7, GrowthKeeps
  <1> QED BY <1>1, <1>2 DEF EditNext

LEMMA ReviewNextKeeps ==
    ASSUME Inv, ReviewNext
    PROVE  KeepsSubmissions
PROOF
  <1>0. WellFormed(db) /\ Exists(db, Staged) /\ WellFormed(db')
    BY ReviewNextInv DEF Inv, WellFormed
  <1>1. ASSUME NEW a \in Agents, AgentSubmit(a)
        PROVE  KeepsSubmissions
    <2> DEFINE ensured == Ensure(db, Approval(a), db.pointer[Staged])
               moved == MoveAgentToApproval(ensured, a)
    <2>1. /\ WellFormed(ensured) /\ Later(db, ensured) /\ Exists(ensured, Approval(a))
          /\ Grown(db, ensured, {}) /\ Holds(db, ensured, {})
      BY <1>0, PartitionNames, PointersAreStored, EnsureKeeps, EnsureGrows, EnsureHolds
    <2>2. CASE ~ Exists(db, Agent(a))
      <3>1. db' = ensured /\ awaiting' = awaiting
        BY <1>1, <2>2 DEF AgentSubmit, Becomes
      <3> QED BY <2>1, <3>1, GrowthKeeps
    <2>3. CASE Exists(db, Agent(a))
      <3>1. /\ db' = moved
            /\ awaiting' = IF moved = ensured THEN awaiting
                            ELSE [awaiting EXCEPT ![a] = moved.pointer[Approval(a)]]
        BY <1>1, <2>3 DEF AgentSubmit, Becomes
      <3> HIDE DEF ensured
      <3>2. Exists(ensured, Agent(a))
        BY <2>1, <2>3, PartitionNames DEF Later
      <3>3. \/ moved = ensured
            \/ Follows(ensured, moved) /\ Moved(ensured, moved, Approval(a))
        BY <2>1, <3>2, SubmissionMoves
      <3> HIDE DEF moved
      <3>4. CASE moved = ensured
        BY <2>1, <3>1, <3>4, GrowthKeeps
      <3>5. CASE Follows(ensured, moved) /\ Moved(ensured, moved, Approval(a))
        <4>1. /\ Grown(ensured, moved, {})
              /\ Len(moved.history[Approval(a)]) = Len(ensured.history[Approval(a)]) + 1
          BY <2>1, <3>5, PartitionNames, MovesGrow DEF Follows
        <4>2. Len(ensured.history[Approval(a)]) \in Nat \ {0}
          BY <2>1, PartitionNames, PointersAreStored
        <4>3. Pending(moved, a)
          BY <4>1, <4>2 DEF Pending
        <4>4. Grown(db, db', {})
          BY <1>0, <2>1, <3>1, <4>1, GrownTransitive
        <4>5. Holds(ensured, moved, {a})
          BY <3>5, PartitionNames, LayerNamesDiffer, MovesHold
        <4>6. \A b \in Agents \ {a} : Exists(db, Approval(b)) =>
                  db'.pointer[Approval(b)] = db.pointer[Approval(b)]
          BY <2>1, <3>1, <4>5 DEF Holds
        <4>7. moved # ensured
          BY <4>1, <4>2
        <4>8. awaiting' = [awaiting EXCEPT ![a] = moved.pointer[Approval(a)]]
              /\ awaiting \in [Agents -> Nat]
          BY <3>1, <4>7 DEF Inv
        <4>9. awaiting'[a] = db'.pointer[Approval(a)]
              /\ \A b \in Agents \ {a} : awaiting'[b] = awaiting[b]
          BY <3>1, <4>8
        <4> QED BY <3>1, <4>3, <4>4, <4>6, <4>9 DEF KeepsSubmissions, Grown
      <3> QED BY <3>3, <3>4, <3>5
    <2> QED BY <2>2, <2>3
  <1>2. ASSUME NEW a \in Agents, NEW f \in Features,
               ApproveAgent(a, f) \/ (Approve(a) /\ f = FeatureOf[a])
        PROVE  KeepsSubmissions
    <2>1. /\ Exists(db, Approval(a)) /\ db' = MergeAgentToFeature(db, a, f)
          /\ awaiting' = [awaiting EXCEPT ![a] = NoSnap]
      BY <1>2 DEF ApproveAgent, Approve, Becomes
    <2>2. Grown(db, db', {a}) /\ Holds(db, db', {a})
      BY <1>0, <2>1, ApprovalAnswers, ApprovalHolds
    <2>3. awaiting'[a] = NoSnap /\ \A b \in Agents \ {a} : awaiting'[b] = awaiting[b]
      BY <2>1 DEF Inv
    <2>4. Answers(a)
      BY <2>1, <2>3 DEF Answers
    <2> QED BY <2>2, <2>3, <2>4 DEF Grown, Holds, KeepsSubmissions
  <1>3. ASSUME NEW a \in Agents, RejectAgent(a)
        PROVE  KeepsSubmissions
    <2>1. /\ Exists(db, Approval(a)) /\ db' = ResetToBaseline(db, Approval(a))
          /\ awaiting' = [awaiting EXCEPT ![a] = NoSnap]
      BY <1>3 DEF RejectAgent, Becomes
    <2>2. Grown(db, db', {a}) /\ Holds(db, db', {a})
      BY <1>0, <2>1, ResetShrinksOne, ResetHolds
    <2>3. awaiting'[a] = NoSnap /\ \A b \in Agents \ {a} : awaiting'[b] = awaiting[b]
      BY <2>1 DEF Inv
    <2>4. Answers(a)
      BY <1>3, <2>3 DEF Answers
    <2> QED BY <2>2, <2>3, <2>4 DEF Grown, Holds, KeepsSubmissions
  <1> QED BY <1>1, <1>2, <1>3, FeatureOfAssumption DEF ReviewNext

LEMMA StageNextKeeps ==
    ASSUME Inv, StageNext
    PROVE  KeepsSubmissions
PROOF
  <1>0. WellFormed(db) /\ WellFormed(db')
    BY StageNextInv DEF Inv
  <1>1. CASE MergeToStaged \/ Crash \/ \E f \in Features : MergeToUnified(f)
    <2>1. db' = db /\ awaiting' = awaiting
      BY <1>1 DEF MergeToStaged, Crash, MergeToUnified
    <2>2. Grown(db, db', {}) /\ Holds(db, db', {})
      BY <1>0, <2>1, GrownReflexive, HoldsReflexive
    <2> QED BY <2>1, <2>2, GrowthKeeps
  <1>2. CASE MergeNextFeature
    <2>1. PICK f \in merging : db' = MergeFeatureToStaged(db, f) /\ awaiting' = awaiting
      BY <1>2 DEF MergeNextFeature, Becomes
    <2>2. f \in Features /\ Exists(db, Feature(f))
      BY DEF Inv
    <2>3. db' = db \/ (Follows(db, db') /\ Moved(db, db', Staged))
      BY <1>0, <2>1, <2>2, MergeFeatureMoves DEF MovedTo
    <2>4. Grown(db, db', {}) /\ Holds(db, db', {})
      BY <1>0, <2>3, PartitionNames, LayerNamesDiffer, MovesGrow, MovesHold, GrownReflexive,
         HoldsReflexive
    <2> QED BY <2>1, <2>4, GrowthKeeps
  <1> QED BY <1>1, <1>2 DEF StageNext

LEMMA MoveNextKeeps ==
    ASSUME Inv, RollbackNext \/ CheckpointNext
    PROVE  KeepsSubmissions
PROOF
  <1>0. /\ WellFormed(db) /\ WellFormed(db') /\ Follows(db, db')
        /\ awaiting \in [Agents -> Nat]
    BY RollbackNextInv, CheckpointNextInv DEF Inv
  <1> DEFINE Moves(p) == /\ \E id : db' = UpdatePointer(db, p, id)
                         /\ \A a \in Agents : awaiting'[a] # NoSnap =>
                               p # Approval(a) /\ awaiting'[a] = awaiting[a]
  <1>1. CASE db' = db /\ awaiting' = awaiting
    BY <1>0, <1>1, GrownReflexive, HoldsReflexive, GrowthKeeps
  <1>2. ASSUME NEW p \in Partitions, Moves(p)
        PROVE  KeepsSubmissions
    <2>1. Moved(db, db', p)
      BY <1>0, <1>2, UpdateMoves
    <2> QED BY <1>0, <1>2, <2>1, MoveKeeps
  <1>3. \/ db' = db /\ awaiting' = awaiting
        \/ \E p \in Partitions : Moves(p)
    <2>1. ASSUME NEW a \in Agents, DiscardAgentEdit(a)
          PROVE  Moves(Agent(a))
      BY <2>1, LayerNamesDiffer DEF DiscardAgentEdit, Becomes
    <2>2. ASSUME NEW p \in Partitions, RollbackPartition(p)
          PROVE  Moves(p)
      BY <2>2 DEF RollbackPartition, Becomes
    <2>3. ASSUME NEW layer, RollbackStaged(layer)
          PROVE  Moves(Staged)
      BY <2>3, LayerNamesDiffer DEF RollbackStaged, Becomes
    <2>4. ASSUME NEW id, SwitchBranch(id) \/ CheckpointRollback(id)
          PROVE  Moves(Staged)
      BY <2>4, LayerNamesDiffer DEF SwitchBranch, CheckpointRollback, Becomes
    <2>5. Commit \/ SwitchBranchFails => db' = db /\ awaiting' = awaiting
      BY DEF Commit, SwitchBranchFails
    <2> HIDE DEF Moves
    <2> QED BY <2>1, <2>2, <2>3, <2>4, <2>5, PartitionNames DEF RollbackNext, CheckpointNext
  <1> QED BY <1>1, <1>2, <1>3

LEMMA NextKeeps ==
    ASSUME Inv, [Next]_vars
    PROVE  KeepsSubmissions
PROOF
  <1>1. CASE UNCHANGED vars
    <2>1. db' = db /\ awaiting' = awaiting
      BY <1>1 DEF vars
    <2> QED BY <2>1, GrownReflexive, HoldsReflexive, GrowthKeeps DEF Inv
  <1> QED BY <1>1, EditNextKeeps, ReviewNextKeeps, StageNextKeeps, MoveNextKeeps DEF Next

(* A submission nobody has answered, and whose partition nobody rolled back, *)
(* is in the pending list and is what its partition holds: no other agent's  *)
(* approval, no edit, rollback elsewhere, crash or branch switch takes it    *)
(* off or puts another snapshot in its place.                                *)
THEOREM SubmissionsPend == Spec => []SubmissionsStayPending
PROOF
  <1>1. Init => SubmissionsStayPending
    BY DEF Init, SubmissionsStayPending
  <1>2. Inv /\ SubmissionsStayPending /\ [Next]_vars => SubmissionsStayPending'
    <2> SUFFICES ASSUME Inv, SubmissionsStayPending, [Next]_vars,
                        NEW a \in Agents, awaiting'[a] # NoSnap
                 PROVE  Pending(db', a) /\ db'.pointer[Approval(a)] = awaiting'[a]
      BY DEF SubmissionsStayPending
    <2>0. Inv' /\ KeepsSubmissions
      BY NextInv, NextKeeps
    <2>1. CASE Pending(db', a) /\ db'.pointer[Approval(a)] = awaiting'[a]
      BY <2>1
    <2>2. CASE /\ awaiting'[a] = awaiting[a]
               /\ Exists(db, Approval(a)) => db'.pointer[Approval(a)] = db.pointer[Approval(a)]
      <3>1. Pending(db, a) /\ db.pointer[Approval(a)] = awaiting[a]
        BY <2>2 DEF SubmissionsStayPending
      <3>2. Len(db'.history[Approval(a)]) >= Len(db.history[Approval(a)])
        BY <2>0 DEF KeepsSubmissions, Answers
      <3>3. Len(db'.history[Approval(a)]) \in Nat /\ Len(db.history[Approval(a)]) \in Nat
        BY <2>0, PartitionNames, HistoryLengths DEF Inv
      <3>4. Pending(db', a)
        BY <3>1, <3>2, <3>3 DEF Pending
      <3>5. Exists(db, Approval(a))
        <4>1. db.history[Approval(a)] # << >>
          BY <3>1 DEF Pending
        <4> QED BY <4>1, PartitionNames DEF Inv, WellFormed, PointerIsLastRow
      <3> QED BY <2>2, <3>1, <3>4, <3>5
    <2> QED BY <2>0, <2>1, <2>2 DEF KeepsSubmissions
  <1> QED BY <1>1, <1>2, Invariance, PTL DEF Spec

LEMMA LeavesAnswered ==
    ASSUME Inv, [Next]_vars, NEW a \in Agents, Pending(db, a), ~ Pending(db', a)
    PROVE  \/ RejectAgent(a)
           \/ \E f \in Features : db' = MergeAgentToFeature(db, a, f) /\ Lands(db, db', a, f)
PROOF
  <1>0. WellFormed(db) /\ WellFormed(db') /\ KeepsSubmissions
    BY NextInv, NextKeeps DEF Inv
  <1>1. Len(db'.history[Approval(a)]) \in Nat /\ Len(db.history[Approval(a)]) \in Nat
    BY <1>0, PartitionNames, HistoryLengths
  <1>2. ~ (Len(db'.history[Approval(a)]) >= Len(db.history[Approval(a)]))
    BY <1>1 DEF Pending
  <1>3. Answers(a)
    BY <1>0, <1>2 DEF KeepsSubmissions
  <1> QED BY <1>0, <1>3, ApprovalAnswers DEF Answers

(* A submission leaves the list only by being rejected, or with each of its  *)
(* lines in the feature or already the feature's baseline.                   *)
THEOREM SubmissionsGetAnswers == Spec => SubmissionsAnswered
PROOF
  <1>1. Inv /\ [Next]_vars =>
          [\A a \in Agents : Pending(db, a) /\ ~ Pending(db', a) =>
              \/ RejectAgent(a)
              \/ \E f \in Features :
                    /\ db' = MergeAgentToFeature(db, a, f)
                    /\ ReadsBack(db', Feature(f)) =>
                          \A r \in Regions :
                             CurrentText(db, Approval(a))[r] \in
                                {BaselineText(db', Feature(f))[r], CurrentText(db', Feature(f))[r]}
          ]_db
    BY LeavesAnswered DEF Lands
  <1> QED BY <1>1, Invariance, PTL DEF Spec, SubmissionsAnswered
=============================================================================
