--------------------------- MODULE LayerOperations ---------------------------
(***************************************************************************)
(* The operations of src/layered as functions from database to database:   *)
(* edits, the four merges between neighbouring layers, and what each layer *)
(* may be made of.  LayeredPipeline applies them as a whole, LayerRequests *)
(* to what a request has read.                                             *)
(***************************************************************************)
EXTENDS LayerStore

CONSTANTS
    Rank,           \* the ORDER BY name of list_partitions, on feature names
    FeatureOf       \* the feature "approve" merges an agent into: its own name

(* A partition is named after its feature: the order is total. *)
ASSUME RankAssumption ==
    /\ Rank \in [Features -> Nat]
    /\ \A f, g \in Features : Rank[f] = Rank[g] => f = g
ASSUME FeatureOfAssumption == FeatureOf \in [Agents -> Features]

-----------------------------------------------------------------------------
(* The operations *)

(* apply_manual_edit, apply_agent_edit *)
ApplyEdit(d, part, path, new) ==
    LET id  == d.pointer[part]
        old == TextOf(d, id)
        delta == [file |-> [path |-> path, base |-> old],
                  diff |-> DiffOf(old, new), source |-> part]
    IN  IF old = new THEN d ELSE Advance(d, part, ChildOf(d, id, delta, part))

(* Mutant of MergeInto: a snapshot is made of a merge that changes nothing. *)
MergeIntoAlways(d, dst, ids, b, o, t, source) ==
    LET merged == Merge(TextOf(d, b), TextOf(d, o), TextOf(d, t))
        delta  == [file |-> FileOf(d, ids[2]), diff |-> DiffOf(TextOf(d, ids[1]), merged),
                   source |-> source]
    IN  Advance(d, dst, MergeOf(d, ids, delta, dst, FALSE))

(* What the four merges share: ids are the parents, the destination's current *)
(* snapshot first and the source's second; b, o, t the merge's three sides.   *)
MergeInto(d, dst, ids, b, o, t, source) ==
    LET into   == TextOf(d, ids[1])
        base   == TextOf(d, b)
        ours   == TextOf(d, o)
        theirs == TextOf(d, t)
        merged == Merge(base, ours, theirs)
        delta  == [file |-> FileOf(d, ids[2]), diff |-> DiffOf(into, merged),
                   source |-> source]
    IN  IF ids[1] = ids[2] \/ merged = into
        THEN d
        ELSE Advance(d, dst, MergeOf(d, ids, delta, dst, Conflicts(base, ours, theirs)))

(* merge_manual_to_staged: the baseline is a clone of the staged snapshot *)
MergeManualToStaged(d) ==
    LET staged == d.pointer[Staged]
        manual == d.pointer[Manual]
    IN  MergeInto(d, Staged, <<staged, manual>>, staged, staged, manual, Manual)

(* move_agent_to_approval *)
MoveAgentToApproval(d, a) ==
    LET approval == d.pointer[Approval(a)]
        agent    == d.pointer[Agent(a)]
    IN  MergeInto(d, Approval(a), <<approval, agent>>,
                  Baseline(d, Approval(a)), approval, agent, Agent(a))

(* merge_agent_to_feature up to the new pointer of the feature *)
MergeApprovalIntoFeature(d, a, f) ==
    LET approval == d.pointer[Approval(a)]
        feature  == d.pointer[Feature(f)]
        baseline == Baseline(d, Feature(f))
    IN  MergeInto(d, Feature(f), <<feature, approval, baseline>>,
                  baseline, approval, feature, Agent(a))

(* Mutant of MergeAgentToFeature: a new feature starts at the submission, as *)
(* the comment in integrated.rs warns against.                               *)
FeatureStartsAtSubmission(d, a, f) ==
    LET ensured == Ensure(d, Feature(f), d.pointer[Approval(a)])
        merged  == MergeApprovalIntoFeature(ensured, a, f)
    IN  IF merged = ensured THEN ensured ELSE ResetToBaseline(merged, Approval(a))

(* merge_agent_to_feature: approval returns to its baseline, but only when   *)
(* the feature moved; both early returns leave it as it is                   *)
MergeAgentToFeature(d, a, f) ==
    LET ensured == Ensure(d, Feature(f), Baseline(d, Approval(a)))
        merged  == MergeApprovalIntoFeature(ensured, a, f)
    IN  IF merged = ensured THEN ensured ELSE ResetToBaseline(merged, Approval(a))

(* Mutant of MergeFeatureToStaged: the base is staged, as for a manual edit. *)
FeatureOverwritesStaged(d, f) ==
    LET staged  == d.pointer[Staged]
        feature == d.pointer[Feature(f)]
    IN  MergeInto(d, Staged, <<staged, feature>>, staged, staged, feature, Manual)

(* merge_feature_to_staged *)
MergeFeatureToStaged(d, f) ==
    LET staged  == d.pointer[Staged]
        feature == d.pointer[Feature(f)]
    IN  MergeInto(d, Staged, <<staged, feature>>,
                  Baseline(d, Feature(f)), staged, feature, Manual)

(* Mutant of Existing: the names of the partitions instead of the features'. *)
ExistingPartitions(d) == {Feature(f) : f \in {g \in Features : Exists(d, Feature(g))}}

Existing(d) == {f \in Features : Exists(d, Feature(f))}

-----------------------------------------------------------------------------
(* What partitions read as and what they are made of *)

(* The deltas of p's current snapshot are all returned when it is read.      *)
ReadsBack(d, p) ==
    LET chain == d.snaps[d.pointer[p]].deltas
    IN  \A i \in DOMAIN chain : Returned(chain, i)

CurrentText(d, p) == TextOf(d, d.pointer[p])
BaselineText(d, p) == TextOf(d, Baseline(d, p))

(* list_pending_approvals: more than the baseline row *)
Pending(d, a) == Len(d.history[Approval(a)]) > 1

(* Types a staged, and hence a baseline, snapshot can have. *)
Ground == {Initial, Manual, Staged}

(* Iron law 1: the types of the snapshots one of the given type is made of. *)
MadeOf(type) ==
    CASE type[1] = "initial"    -> {}
      [] type[1] = "manual"     -> {Initial, Manual}
      [] type[1] = "agent"      -> Ground \cup {type}
      [] type[1] = "approval"   -> Ground \cup {type, Agent(type[2])}
      [] type[1] = "integrated" -> Ground \cup {type} \cup {Approval(a) : a \in Agents}
      [] type[1] = "staged"     -> Ground \cup {Feature(f) : f \in Features}

(* What a partition may point at: snapshots of its own, and those it can    *)
(* have been created on or rolled back to.                                  *)
MayHold(p) ==
    IF p = Manual THEN {Initial, Manual} ELSE Ground \cup {p}

(* Every snapshot is made of those its layer may be made of, and every        *)
(* partition has only pointed at what it may hold.                           *)
NeighboursOnly(d) ==
    /\ \A i \in Stored(d) : \A k \in 1..Len(d.snaps[i].parents) :
          d.snaps[d.snaps[i].parents[k]].type \in MadeOf(d.snaps[i].type)
    /\ \A p \in Partitions : \A i \in 1..Len(d.history[p]) :
          d.snaps[d.history[p][i]].type \in MayHold(p)
=============================================================================
