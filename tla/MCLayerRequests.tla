--------------------------- MODULE MCLayerRequests ---------------------------
(* Instances of LayerRequests for TLC. *)
EXTENDS LayerRequests, TLC

CONSTANTS
    a1, a2,     \* agents; each names the feature "approve" merges it into
    c1, c2,     \* clients
    r1          \* the region

VARIABLE scene  \* "any": three requests of any kind; "review": five on a submission

ZeroText == [r \in Regions |-> 0]
OwnFeature == [a \in Agents |-> a]
NameOrder == [f \in Features |-> IF f = a1 THEN 1 ELSE 2]

To(line) == [r \in Regions |-> line]

Edit(line)         == [op |-> "edit", path |-> "f", new |-> To(line)]
AgentEdit(a, line) == [op |-> "agent_edit", agent |-> a, path |-> "f", new |-> To(line)]
Submit(a)          == [op |-> "agent_submit", agent |-> a]
Approve(a)         == [op |-> "approve", agent |-> a]
ApproveAs(a, f)    == [op |-> "approve_agent", agent |-> a, feature |-> f]
Reject(a)          == [op |-> "reject_agent", agent |-> a]
MergeToStaged      == [op |-> "merge_to_staged"]
Commit             == [op |-> "commit"]
BranchSwitch       == [op |-> "branch_switch"]

(* Every operation, on whatever the ones before it left *)
AllRequests ==
    {Edit(1), Edit(2), MergeToStaged, Commit, BranchSwitch}
      \cup UNION {{AgentEdit(a, NameOrder[a]), Submit(a), Approve(a), Reject(a)} : a \in Agents}

(* What can meet an agent's submission *)
ReviewRequests ==
    {AgentEdit(a1, 1), AgentEdit(a1, 2), Submit(a1), Approve(a1), ApproveAs(a1, a2), Reject(a1),
     Edit(2), MergeToStaged}

OfAnyKind == AllRequests \cup ReviewRequests

(* In a review the agent's edit and its submission come first, one after the *)
(* other; then anything that concerns the submission overlaps.               *)
Opening == <<AgentEdit(a1, 1), Submit(a1)>>

ReviewRequest(req) ==
    IF accepted < Len(Opening) THEN Busy = {} /\ req = Opening[accepted + 1]
    ELSE req \in ReviewRequests

BeginScene(c, req) ==
    /\ IF scene = "review" THEN ReviewRequest(req) ELSE req \in AllRequests /\ accepted < 3
    /\ Begin(c, req)

SceneNext ==
    \/ \E c \in Clients, req \in Requests : BeginScene(c, req)
    \/ \E c \in Clients : Serve(c)
    \/ Crash

SceneInit == Init /\ scene \in {"any", "review"}

SceneSpec ==
    /\ SceneInit
    /\ [][SceneNext /\ UNCHANGED scene]_<<vars, scene>>

ClientSymmetry == Permutations(Clients)
=============================================================================
