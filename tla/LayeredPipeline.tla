--------------------------- MODULE LayeredPipeline ---------------------------
(***************************************************************************)
(* The layered state machine of src/layered behind ApiService: manual      *)
(* edits and agent edits, submission, approval or rejection, the merges    *)
(* feature -> staged, rollbacks, and the commit of staged.                 *)
(*                                                                         *)
(* Every action applies an operation of LayerOperations as a whole.  An    *)
(* approve or merge_to_staged request merges the features one by one; the  *)
(* requests of other clients may run in between, and the process may stop  *)
(* in between.                                                             *)
(***************************************************************************)
EXTENDS LayerOperations

CONSTANTS
    MaxSnaps,       \* bound: snapshots a behaviour stores
    MaxHistory      \* bound: history rows of one partition

VARIABLES
    db,         \* the SQLite database
    merging,    \* features the approve/merge_to_staged request has still to merge
    head,       \* baseline snapshot of the current branch's head, NoSnap at the root
    committed,  \* baseline snapshots of all checkpoints
    awaiting    \* history: what each agent's submission left in its approval
                \* partition, NoSnap once it is answered or rolled back

vars == <<db, merging, head, committed, awaiting>>

-----------------------------------------------------------------------------
Init ==
    /\ db = InitDatabase
    /\ merging = {}
    /\ head = NoSnap
    /\ committed = {}
    /\ awaiting = [a \in Agents |-> NoSnap]

InBounds(d) ==
    /\ Len(d.snaps) <= MaxSnaps
    /\ \A p \in Partitions : Len(d.history[p]) <= MaxHistory

Becomes(d) == InBounds(d) /\ db' = d

(* ApiService::edit *)
ManualEdit(path, new) ==
    /\ Becomes(MergeManualToStaged(ApplyEdit(db, Manual, path, new)))
    /\ UNCHANGED <<merging, head, committed, awaiting>>

(* ApiService::agent_edit: the partition starts where staged is *)
AgentEdit(a, path, new) ==
    /\ Becomes(ApplyEdit(Ensure(db, Agent(a), db.pointer[Staged]), Agent(a), path, new))
    /\ UNCHANGED <<merging, head, committed, awaiting>>

(* ApiService::agent_submit: the approval partition is created, at staged,  *)
(* before the agent partition is found missing                              *)
AgentSubmit(a) ==
    LET ensured == Ensure(db, Approval(a), db.pointer[Staged])
        moved   == MoveAgentToApproval(ensured, a)
    IN  IF Exists(db, Agent(a))
        THEN /\ Becomes(moved)
             /\ awaiting' = IF moved = ensured THEN awaiting
                             ELSE [awaiting EXCEPT ![a] = moved.pointer[Approval(a)]]
             /\ UNCHANGED <<merging, head, committed>>
        ELSE /\ Becomes(ensured)
             /\ UNCHANGED <<merging, head, committed, awaiting>>

(* ApiService::approve_agent: an answer, whatever the merge finds to do *)
ApproveAgent(a, f) ==
    /\ Exists(db, Approval(a))
    /\ Becomes(MergeAgentToFeature(db, a, f))
    /\ awaiting' = [awaiting EXCEPT ![a] = NoSnap]
    /\ UNCHANGED <<merging, head, committed>>

(* ApiService::approve: approve_agent, then every feature into staged *)
Approve(a) ==
    /\ Exists(db, Approval(a))
    /\ merging = {}
    /\ Becomes(MergeAgentToFeature(db, a, FeatureOf[a]))
    /\ awaiting' = [awaiting EXCEPT ![a] = NoSnap]
    /\ merging' = Existing(db')
    /\ UNCHANGED <<head, committed>>

(* ApiService::merge_to_staged, and merge_to_unified without names *)
MergeToStaged ==
    /\ merging = {}
    /\ merging' = Existing(db)
    /\ UNCHANGED <<db, head, committed, awaiting>>

(* ApiService::merge_to_unified with one name *)
MergeToUnified(f) ==
    /\ merging = {}
    /\ Exists(db, Feature(f))
    /\ merging' = {f}
    /\ UNCHANGED <<db, head, committed, awaiting>>

(* One round of the loop in merge_features_to_staged *)
MergeNextFeature ==
    \E f \in merging :
        /\ \A g \in merging : Rank[f] <= Rank[g]
        /\ Becomes(MergeFeatureToStaged(db, f))
        /\ merging' = merging \ {f}
        /\ UNCHANGED <<head, committed, awaiting>>

(* The process stops between two rounds; the features left are forgotten *)
Crash ==
    /\ merging # {}
    /\ merging' = {}
    /\ UNCHANGED <<db, head, committed, awaiting>>

(* ApiService::reject_agent, execute_rollback(ApprovalToAgentRaw) *)
RejectAgent(a) ==
    /\ Exists(db, Approval(a))
    /\ Becomes(ResetToBaseline(db, Approval(a)))
    /\ awaiting' = [awaiting EXCEPT ![a] = NoSnap]
    /\ UNCHANGED <<merging, head, committed>>

(* discard_agent_edit: back to the first parent of the current snapshot *)
DiscardAgentEdit(a) ==
    /\ Exists(db, Agent(a))
    /\ LET parents == ParentsOf(db, db.pointer[Agent(a)])
       IN  /\ parents # << >>
           /\ Becomes(UpdatePointer(db, Agent(a), Head(parents)))
    /\ UNCHANGED <<merging, head, committed, awaiting>>

(* rollback_partition: to the last but one row of the history, by a row more *)
RollbackPartition(p) ==
    /\ Len(db.history[p]) > 1
    /\ Becomes(UpdatePointer(db, p, db.history[p][Len(db.history[p]) - 1]))
    /\ awaiting' = [a \in Agents |-> IF p = Approval(a) THEN NoSnap ELSE awaiting[a]]
    /\ UNCHANGED <<merging, head, committed>>

(* partition_type_matches_layer *)
OfLayer(d, id, layer) == d.snaps[id].type[1] = layer

(* rollback_staged_to_layer: to the first parent of that layer, if any *)
RollbackStaged(layer) ==
    LET parents == ParentsOf(db, db.pointer[Staged])
    IN  /\ \E i \in DOMAIN parents :
              /\ OfLayer(db, parents[i], layer)
              /\ \A j \in 1..(i - 1) : ~ OfLayer(db, parents[j], layer)
              /\ Becomes(UpdatePointer(db, Staged, parents[i]))
        /\ UNCHANGED <<merging, head, committed, awaiting>>

(* ApiService::commit: the repository refuses the head's own baseline; the   *)
(* layers keep their state and has_conflicts is not looked at                *)
Commit ==
    /\ db.pointer[Staged] # head
    /\ head' = db.pointer[Staged]
    /\ committed' = committed \cup {db.pointer[Staged]}
    /\ UNCHANGED <<db, merging, awaiting>>

(* ApiService::branch_switch: staged jumps to the baseline of that branch *)
SwitchBranch(id) ==
    /\ id \in committed
    /\ Becomes(UpdatePointer(db, Staged, id))
    /\ head' = id
    /\ UNCHANGED <<merging, committed, awaiting>>

(* ApiService::branch_switch to a branch that still sits on the root: the    *)
(* repository has switched before the state machine finds no snapshot there. *)
SwitchBranchFails ==
    /\ head' = NoSnap
    /\ UNCHANGED <<db, merging, committed, awaiting>>

(* ApiService::checkpoint_rollback: staged jumps, the branch stays *)
CheckpointRollback(id) ==
    /\ id \in committed
    /\ Becomes(UpdatePointer(db, Staged, id))
    /\ UNCHANGED <<merging, head, committed, awaiting>>

(* The layers execute_rollback can name for staged *)
RollbackLayers == {"manual", "agent", "approval"}

EditNext ==
    \/ \E path \in Paths, new \in Text : ManualEdit(path, new)
    \/ \E a \in Agents, path \in Paths, new \in Text : AgentEdit(a, path, new)

ReviewNext ==
    \/ \E a \in Agents : AgentSubmit(a)
    \/ \E a \in Agents, f \in Features : ApproveAgent(a, f)
    \/ \E a \in Agents : Approve(a)
    \/ \E a \in Agents : RejectAgent(a)

StageNext ==
    \/ MergeToStaged
    \/ \E f \in Features : MergeToUnified(f)
    \/ MergeNextFeature
    \/ Crash

RollbackNext ==
    \/ \E a \in Agents : DiscardAgentEdit(a)
    \/ \E p \in Partitions : RollbackPartition(p)
    \/ \E layer \in RollbackLayers : RollbackStaged(layer)

CheckpointNext ==
    \/ Commit
    \/ \E id \in committed : SwitchBranch(id)
    \/ SwitchBranchFails
    \/ \E id \in committed : CheckpointRollback(id)

Next == EditNext \/ ReviewNext \/ StageNext \/ RollbackNext \/ CheckpointNext

Spec == Init /\ [][Next]_vars

-----------------------------------------------------------------------------
(* Properties *)

TypeOK ==
    /\ db \in Databases
    /\ merging \subseteq Features
    /\ head \in Nat
    /\ committed \subseteq Nat
    /\ awaiting \in [Agents -> Nat]

CheckpointsStored ==
    /\ committed \subseteq Stored(db)
    /\ head \in committed \cup {NoSnap}

(* Every pointer, history row, parent link and checkpoint baseline the      *)
(* layers ever write names a stored snapshot, and pointers agree with the   *)
(* history they were written with (partition.rs keeps them in two tables).  *)
StoreConsistent ==
    /\ PointerIsLastRow(db)
    /\ SnapshotGraph(db)
    /\ CheckpointsStored

(* Iron law 1 of docs/architecture/03 and transition.rs: changes flow only   *)
(* between neighbouring layers.  An agent's snapshot is an ancestor of a     *)
(* staged one only through an approval and an integrated snapshot, whatever  *)
(* submissions, rejections, rollbacks and branch switches happen in between. *)
NoCrossLayerFlow == NeighboursOnly(db)

(* A submission nobody has approved or rejected, and whose own partition     *)
(* nobody rolled back, is in the pending list, and what an approval would    *)
(* merge is still what was submitted: no other agent's approval, no rollback *)
(* elsewhere, crash or branch switch replaces it or takes it off.            *)
(* (A rollback of the partition takes the submission away and leaves the     *)
(* partition on the list: transition.rs:184 appends where 166 says it pops.) *)
SubmissionsStayPending ==
    \A a \in Agents : awaiting[a] # NoSnap =>
        Pending(db, a) /\ db.pointer[Approval(a)] = awaiting[a]

(* A partition keeps the baseline it was created on: rejection and approval  *)
(* return to it, merges compare against it.                                  *)
BaselinesPinned ==
    [][\A p \in Partitions : Exists(db, p) =>
           Exists(db', p) /\ Baseline(db', p) = Baseline(db, p)]_db

(* A submission leaves the pending list only by being rejected, or with every *)
(* line it differs in from the feature's baseline written to that feature:   *)
(* what other agents put there never wins over the line being approved.      *)
SubmissionsAnswered ==
    [][\A a \in Agents : Pending(db, a) /\ ~ Pending(db', a) =>
          \/ RejectAgent(a)
          \/ \E f \in Features :
                /\ db' = MergeAgentToFeature(db, a, f)
                /\ ReadsBack(db', Feature(f)) =>
                      \A r \in Regions :
                         CurrentText(db, Approval(a))[r] \in
                            {BaselineText(db', Feature(f))[r], CurrentText(db', Feature(f))[r]}
      ]_db

(* One round of merge_features_to_staged, on feature f. *)
Round(f) == merging' = merging \ {f} /\ merging' # merging /\ MergeNextFeature

(* Merging a feature changes only the lines staged has not changed itself    *)
(* since the feature's baseline, and brings those to the feature's lines:    *)
(* read back through the stored chain, not as the merge computed it.         *)
StagedMergeIsThreeWay ==
    [][\A f \in merging : Round(f) /\ ReadsBack(db', Staged) =>
          LET base == BaselineText(db, Feature(f))
              staged == CurrentText(db, Staged)
          IN  \A r \in Regions :
                CurrentText(db', Staged)[r] =
                    IF staged[r] = base[r] THEN CurrentText(db, Feature(f))[r]
                                           ELSE staged[r]]_vars

(* Merging the features again after a crash, or after a client retried, is   *)
(* harmless: a round repeated at once finds nothing to do.                   *)
RoundsRepeatable ==
    \A f \in Existing(db) :
        LET once == MergeFeatureToStaged(db, f)
        IN  ReadsBack(once, Staged) => MergeFeatureToStaged(once, f) = once

(* What an edit request stored is what the manual partition reads back, as   *)
(* long as the edit is not one the chain holds already.                      *)
FreshEditsReadBack ==
    [][db'.pointer[Manual] # db.pointer[Manual] /\ ReadsBack(db', Manual) =>
          \A path \in Paths, new \in Text :
              ManualEdit(path, new) => CurrentText(db', Manual) = new]_vars
=============================================================================
