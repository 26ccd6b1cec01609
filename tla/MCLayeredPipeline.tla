-------------------------- MODULE MCLayeredPipeline --------------------------
(* Instances of LayeredPipeline for TLC. *)
EXTENDS LayeredPipeline, TLC

CONSTANTS
    a1, a2,     \* agents; each names the feature "approve" merges it into
    r1, r2      \* regions

VARIABLE scene  \* which part of the system a behaviour is about

ZeroText == [r \in Regions |-> 0]
OwnFeature == [a \in Agents |-> a]
NameOrder == [f \in Features |-> IF f = a1 THEN 1 ELSE 2]

(* All regions at once, as if there were one *)
Uniform == {[r \in Regions |-> line] : line \in {0, 1}}

(* One agent, and everything else there is: rollbacks, commits, switches.    *)
OneAgentNext ==
    /\ scene = "one agent"
    /\ \/ \E path \in Paths, new \in Uniform : ManualEdit(path, new) \/ AgentEdit(a1, path, new)
       \/ AgentSubmit(a1) \/ ApproveAgent(a1, a1) \/ Approve(a1) \/ RejectAgent(a1)
       \/ StageNext \/ RollbackNext \/ CheckpointNext
    /\ Len(db'.snaps) <= 6

(* Two agents and two features.  Everyone writes a line of their own, once,  *)
(* and then submits it, a1 first: changes to one region clash.               *)
Words(a) == {0, IF a = a1 THEN 1 ELSE 2}

TwoAgentsNext ==
    /\ scene = "two agents"
    /\ \/ \E a \in Agents, path \in Paths, new \in [Regions -> {0, 1, 2}] :
             /\ new \in [Regions -> Words(a)]
             /\ ~ Exists(db, Agent(a))
             /\ a = a2 => Exists(db, Agent(a1))
             /\ AgentEdit(a, path, new)
       \/ \E a \in Agents :
             /\ Exists(db, Agent(a))
             /\ a = a2 => Exists(db, Approval(a1))
             /\ AgentSubmit(a)
       \/ \E a \in Agents, f \in Features : ApproveAgent(a, f)
       \/ StageNext

SceneInit == Init /\ scene \in {"one agent", "two agents"}

SceneSpec ==
    /\ SceneInit
    /\ [][(OneAgentNext \/ TwoAgentsNext) /\ UNCHANGED scene]_<<vars, scene>>

(* Texts keep their regions apart, so regions are interchangeable. *)
RegionSymmetry == Permutations(Regions)

=============================================================================
