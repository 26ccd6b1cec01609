---------------------------- MODULE LayerRequests ----------------------------
(***************************************************************************)
(* The requests of several clients over one ApiService.  A transport runs  *)
(* every request on a thread of its own; a request is a sequence of        *)
(* storage calls, each atomic under the connection's mutex, and the calls  *)
(* of other requests come in between.  LayerOperations gives what an       *)
(* operation computes; here it computes it from what the request has read, *)
(* which may be stale by the time the result is written.                   *)
(*                                                                         *)
(* A request is the list of the steps it has still to take:                *)
(*   get     get_partition, an error ends the request;                     *)
(*   ensure  get_partition, and a create step where there is no row;       *)
(*   create  create_partition, which the primary key may refuse;           *)
(*   make    compute an edit or a merge of the partitions read and store   *)
(*           its snapshot; the move that follows is made only if the diff  *)
(*           is not empty;                                                 *)
(*   move    update_pointer;                                               *)
(*   reset   reset_partition_to_baseline;                                  *)
(*   list    list_partitions, the features there are to merge into staged; *)
(*   rounds  the loop over them, a merge into staged per feature;          *)
(*   commit  under the repository's write lock;                            *)
(*   switch  the repository's and the state machine's switch_branch, which *)
(*           run under that lock: only the commit of others could tell     *)
(*           them apart, and it needs the lock.                            *)
(***************************************************************************)
EXTENDS LayerOperations

CONSTANTS
    Clients,        \* the connections that send requests
    Requests,       \* the requests they send
    MaxRequests     \* bound: requests a behaviour accepts

(* What the transports accept *)
RequestKinds ==
    [op : {"edit"}, path : Paths, new : Text]
      \cup [op : {"agent_edit"}, agent : Agents, path : Paths, new : Text]
      \cup [op : {"agent_submit", "approve", "reject_agent"}, agent : Agents]
      \cup [op : {"approve_agent"}, agent : Agents, feature : Features]
      \cup [op : {"merge_to_staged", "commit", "branch_switch"}]

ASSUME RequestsAssumption == Requests \subseteq RequestKinds
ASSUME MaxRequestsAssumption == MaxRequests \in Nat

VARIABLES
    db,         \* the SQLite database
    head,       \* baseline snapshot of the current branch's head
    committed,  \* baseline snapshots of all checkpoints
    client,     \* per client the request being served, or Idle
    accepted    \* number of requests accepted

vars == <<db, head, committed, client, accepted>>

-----------------------------------------------------------------------------
(* The steps of a request *)

Get(p)           == [do |-> "get", at |-> p]
Found(p, q, at)  == [do |-> "ensure", part |-> p, like |-> q, row |-> at]
Make(what)       == [do |-> "make", what |-> what]
Move(p, id)      == [do |-> "move", at |-> p, to |-> id]
Reset(p)         == [do |-> "reset", at |-> p]
Step(name)       == [do |-> name]

EditSteps(p, path, new) == <<Get(p), Make([merge |-> "edit", part |-> p, path |-> path, new |-> new])>>

(* Mutant of ApproveAgentSteps: the feature starts at the submission. *)
FeatureFromSubmission(a, f) ==
    << Get(Approval(a)), Found(Feature(f), Approval(a), "current"),
       Make([merge |-> "approve", agent |-> a, feature |-> f]) >>

(* ApiService::approve_agent, merge_agent_to_feature *)
ApproveAgentSteps(a, f) ==
    << Get(Approval(a)), Found(Feature(f), Approval(a), "baseline"),
       Make([merge |-> "approve", agent |-> a, feature |-> f]) >>

(* merge_feature_to_staged *)
RoundSteps(f) == <<Get(Feature(f)), Get(Staged), Make([merge |-> "round", feature |-> f])>>

(* The handlers of ApiService *)
StepsOf(req) ==
    CASE req.op = "edit" ->
            EditSteps(Manual, req.path, req.new)
              \o <<Get(Manual), Get(Staged), Make([merge |-> "manual"])>>
      [] req.op = "agent_edit" ->
            <<Get(Staged), Found(Agent(req.agent), Staged, "current")>>
              \o EditSteps(Agent(req.agent), req.path, req.new)
      [] req.op = "agent_submit" ->
            << Get(Staged), Found(Approval(req.agent), Staged, "current"),
               Get(Agent(req.agent)), Get(Approval(req.agent)),
               Make([merge |-> "submit", agent |-> req.agent]) >>
      [] req.op = "approve_agent" -> ApproveAgentSteps(req.agent, req.feature)
      [] req.op = "approve" ->
            ApproveAgentSteps(req.agent, FeatureOf[req.agent]) \o <<Step("list")>>
      [] req.op = "reject_agent" -> <<Get(Approval(req.agent)), Reset(Approval(req.agent))>>
      [] req.op = "merge_to_staged" -> <<Step("list")>>
      [] req.op = "commit" -> <<Get(Staged), Step("commit")>>
      [] req.op = "branch_switch" -> <<Step("switch")>>

(* What a request has read: nothing, a partition's pointer and baseline *)
NothingRead == [pointer |-> [p \in Partitions |-> NoSnap],
                history |-> [p \in Partitions |-> << >>]]

Reads(read, p, id, baseline) ==
    [pointer |-> [read.pointer EXCEPT ![p] = id],
     history |-> [read.history EXCEPT ![p] = <<baseline>>]]

(* The database as the request has read it *)
Seen(c) == [snaps |-> db.snaps, pointer |-> client[c].read.pointer,
            history |-> client[c].read.history]

(* The edit or merge, applied to what was read *)
Effect(what, d) ==
    CASE what.merge = "edit"    -> ApplyEdit(d, what.part, what.path, what.new)
      [] what.merge = "manual"  -> MergeManualToStaged(d)
      [] what.merge = "submit"  -> MoveAgentToApproval(d, what.agent)
      [] what.merge = "approve" -> MergeApprovalIntoFeature(d, what.agent, what.feature)
      [] what.merge = "round"   -> MergeFeatureToStaged(d, what.feature)

(* The partition it moves *)
Target(what) ==
    CASE what.merge = "edit"    -> what.part
      [] what.merge = "submit"  -> Approval(what.agent)
      [] what.merge = "approve" -> Feature(what.feature)
      [] OTHER                  -> Staged

-----------------------------------------------------------------------------
(* Serving the requests *)

Idle == [request |-> [op |-> "none"], todo |-> << >>, read |-> NothingRead,
         alone |-> FALSE, solo |-> FALSE, began |-> {}]

Busy == {c \in Clients : client[c] # Idle}

Named(req) == IF "agent" \in DOMAIN req THEN {req.agent} ELSE {}

Init ==
    /\ db = InitDatabase
    /\ head = NoSnap
    /\ committed = {}
    /\ client = [c \in Clients |-> Idle]
    /\ accepted = 0

(* A transport hands the request to a thread.  alone, solo and began are     *)
(* history: whether any other request, or one that names the same agent, has *)
(* been served meanwhile, and the database an alone request found.           *)
Begin(c, req) ==
    /\ client[c] = Idle
    /\ accepted < MaxRequests
    /\ accepted' = accepted + 1
    /\ LET rivals == {b \in Busy : Named(client[b].request) \cap Named(req) # {}}
       IN  client' = [b \in Clients |->
              IF b = c
              THEN [request |-> req, todo |-> StepsOf(req), read |-> NothingRead,
                    alone |-> Busy = {}, solo |-> rivals = {},
                    began |-> IF Busy = {} THEN {db} ELSE {}]
              ELSE IF b \in Busy
              THEN [client[b] EXCEPT !.alone = FALSE, !.began = {},
                                     !.solo = @ /\ b \notin rivals]
              ELSE Idle]
    /\ UNCHANGED <<db, head, committed>>

(* The first step of client c's request is one of the given kind. *)
Next1(c, kind) == client[c].todo # << >> /\ Head(client[c].todo).do = kind

Now(c)  == Head(client[c].todo)
Rest(c) == Tail(client[c].todo)

(* The request goes on with the given steps and the given reads. *)
GoesOn(c, todo, read) == client' = [client EXCEPT ![c].todo = todo, ![c].read = read]

(* It is answered with an error. *)
Refused(c) == client' = [client EXCEPT ![c] = Idle]

GetPartition(c) ==
    /\ Next1(c, "get")
    /\ LET p == Now(c).at
       IN  /\ IF Exists(db, p)
              THEN GoesOn(c, Rest(c), Reads(client[c].read, p, db.pointer[p], Baseline(db, p)))
              ELSE Refused(c)
    /\ UNCHANGED <<db, head, committed, accepted>>

(* ensure_*_partition: where the row is missing the request creates it with  *)
(* the current or the baseline snapshot of a partition it has read           *)
EnsurePartition(c) ==
    /\ Next1(c, "ensure")
    /\ LET p    == Now(c).part
           read == client[c].read
           id   == IF Now(c).row = "current" THEN read.pointer[Now(c).like]
                                             ELSE Head(read.history[Now(c).like])
       IN  IF Exists(db, p)
           THEN GoesOn(c, Rest(c), Reads(read, p, db.pointer[p], Baseline(db, p)))
           ELSE GoesOn(c, <<[do |-> "create", at |-> p, to |-> id]>> \o Rest(c), read)
    /\ UNCHANGED <<db, head, committed, accepted>>

(* create_partition: the INSERT fails if another request was faster *)
CreatePartition(c) ==
    /\ Next1(c, "create")
    /\ LET p  == Now(c).at
           id == Now(c).to
       IN  IF Exists(db, p)
           THEN Refused(c) /\ UNCHANGED db
           ELSE /\ db' = [db EXCEPT !.pointer[p] = id, !.history[p] = <<id>>]
                /\ GoesOn(c, Rest(c), Reads(client[c].read, p, id, id))
    /\ UNCHANGED <<head, committed, accepted>>

(* What follows the snapshot of an edit or merge: the pointer, and for an    *)
(* approval the reset of the approval partition                              *)
PointerMoves(what, id) ==
    IF what.merge = "approve" THEN <<Move(Target(what), id), Reset(Approval(what.agent))>>
                              ELSE <<Move(Target(what), id)>>

(* Diff, store_delta and store_snapshot; an empty diff ends the operation *)
MakeSnapshot(c) ==
    /\ Next1(c, "make")
    /\ LET what == Now(c).what
           out  == Effect(what, Seen(c))
       IN  /\ db' = [db EXCEPT !.snaps = out.snaps]
           /\ GoesOn(c, (IF out = Seen(c) THEN << >> ELSE PointerMoves(what, out.pointer[Target(what)]))
                          \o Rest(c), NothingRead)
    /\ UNCHANGED <<head, committed, accepted>>

MovePointer(c) ==
    /\ Next1(c, "move")
    /\ db' = UpdatePointer(db, Now(c).at, Now(c).to)
    /\ GoesOn(c, Rest(c), client[c].read)
    /\ UNCHANGED <<head, committed, accepted>>

ResetApproval(c) ==
    /\ Next1(c, "reset")
    /\ db' = ResetToBaseline(db, Now(c).at)
    /\ GoesOn(c, Rest(c), NothingRead)
    /\ UNCHANGED <<head, committed, accepted>>

(* The loop of merge_features_to_staged over the features left *)
FirstOf(left) == CHOOSE f \in left : \A g \in left : Rank[f] <= Rank[g]

RoundsOver(left) ==
    IF left = {}
    THEN << >>
    ELSE RoundSteps(FirstOf(left)) \o <<[do |-> "rounds", left |-> left \ {FirstOf(left)}]>>

(* Mutant of ListFeatures: the last feature is left out. *)
ListsAllButLast(c) ==
    /\ Next1(c, "list")
    /\ GoesOn(c, RoundsOver({f \in Existing(db) : \E g \in Existing(db) : Rank[f] < Rank[g]})
                   \o Rest(c), NothingRead)
    /\ UNCHANGED <<db, head, committed, accepted>>

(* list_partitions: the features that exist now *)
ListFeatures(c) ==
    /\ Next1(c, "list")
    /\ GoesOn(c, RoundsOver(Existing(db)) \o Rest(c), NothingRead)
    /\ UNCHANGED <<db, head, committed, accepted>>

(* The next feature of the loop *)
NextRound(c) ==
    /\ Next1(c, "rounds")
    /\ GoesOn(c, RoundsOver(Now(c).left) \o Rest(c), NothingRead)
    /\ UNCHANGED <<db, head, committed, accepted>>

(* commit commits the staged snapshot it read before it took the lock *)
CommitRead(c) ==
    /\ Next1(c, "commit")
    /\ LET id == client[c].read.pointer[Staged]
       IN  IF id = head
           THEN Refused(c) /\ UNCHANGED <<head, committed>>
           ELSE /\ head' = id
                /\ committed' = committed \cup {id}
                /\ GoesOn(c, Rest(c), NothingRead)
    /\ UNCHANGED <<db, accepted>>

(* branch_switch to a branch whose head has a snapshot *)
SwitchBranch(c) ==
    /\ Next1(c, "switch")
    /\ IF committed = {}
       THEN Refused(c) /\ UNCHANGED <<db, head>>
       ELSE \E id \in committed :
                /\ head' = id
                /\ db' = UpdatePointer(db, Staged, id)
                /\ GoesOn(c, Rest(c), NothingRead)
    /\ UNCHANGED <<committed, accepted>>

Finished(c) == client[c] # Idle /\ client[c].todo = << >>

Answer(c) ==
    /\ Finished(c)
    /\ client' = [client EXCEPT ![c] = Idle]
    /\ UNCHANGED <<db, head, committed, accepted>>

(* The process stops: the requests are gone, the database is as they left it *)
Crash ==
    /\ Busy # {}
    /\ client' = [c \in Clients |-> Idle]
    /\ UNCHANGED <<db, head, committed, accepted>>

Serve(c) ==
    \/ GetPartition(c)
    \/ EnsurePartition(c)
    \/ CreatePartition(c)
    \/ MakeSnapshot(c)
    \/ MovePointer(c)
    \/ ResetApproval(c)
    \/ ListFeatures(c)
    \/ NextRound(c)
    \/ CommitRead(c)
    \/ SwitchBranch(c)
    \/ Answer(c)

Next ==
    \/ \E c \in Clients, req \in Requests : Begin(c, req)
    \/ \E c \in Clients : Serve(c)
    \/ Crash

Spec == Init /\ [][Next]_vars

-----------------------------------------------------------------------------
(* Properties *)

(* The snapshots the requests in flight are about to point partitions at *)
InFlight ==
    UNION {{client[c].todo[i].to :
               i \in {k \in DOMAIN client[c].todo : client[c].todo[k].do \in {"create", "move"}}}
             : c \in Clients}

(* However requests interleave, and wherever the process stops, pointers and *)
(* history rows agree and every pointer, row, parent and checkpoint, those   *)
(* still to be written included, names a stored snapshot of a layer it may   *)
(* come from (http.rs, rpc.rs: nothing orders the handlers' storage calls).  *)
TablesConsistent ==
    /\ PointerIsLastRow(db)
    /\ SnapshotGraph(db)
    /\ NeighboursOnly(db)
    /\ committed \subseteq Stored(db)
    /\ head \in committed \cup {NoSnap}
    /\ InFlight \subseteq Stored(db)

(* The feature of rank k is merged, if it is among those left. *)
Round(d, left, k) ==
    IF \E f \in left : Rank[f] = k
    THEN MergeFeatureToStaged(d, CHOOSE f \in left : Rank[f] = k)
    ELSE d

(* approve and merge_to_staged, one feature after the other, by name: after  *)
(* k rounds those of a rank below k are merged                               *)
Rounds(d, left) ==
    LET rounds == IF left = {} THEN 0 ELSE LastOf({Rank[f] + 1 : f \in left})
        after[k \in 0..rounds] == IF k = 0 THEN d ELSE Round(after[k - 1], left, k - 1)
    IN  after[rounds]

MergesToStaged(d) == Rounds(d, Existing(d))

(* The operation LayeredPipeline applies in one step *)
Atomic(req, d) ==
    CASE req.op = "edit" ->
            MergeManualToStaged(ApplyEdit(d, Manual, req.path, req.new))
      [] req.op = "agent_edit" ->
            LET p == Agent(req.agent)
            IN  ApplyEdit(Ensure(d, p, d.pointer[Staged]), p, req.path, req.new)
      [] req.op = "agent_submit" ->
            MoveAgentToApproval(
                Ensure(d, Approval(req.agent), d.pointer[Staged]), req.agent)
      [] req.op = "approve_agent" -> MergeAgentToFeature(d, req.agent, req.feature)
      [] req.op = "approve" ->
            MergesToStaged(MergeAgentToFeature(d, req.agent, FeatureOf[req.agent]))
      [] req.op = "reject_agent" -> ResetToBaseline(d, Approval(req.agent))
      [] req.op = "merge_to_staged" -> MergesToStaged(d)
      [] req.op = "commit" -> d
      [] req.op = "branch_switch" -> UpdatePointer(d, Staged, head)

(* A request that no other one overlapped did, call by call, what the atomic *)
(* operation of LayeredPipeline does to the database it found.               *)
AloneIsAtomic ==
    \A c \in Clients : Finished(c) =>
        \A d \in client[c].began : db = Atomic(client[c].request, d)

(* agent.rs: each agent instance is isolated in a partition of its own.  An  *)
(* agent's edit that no other request naming the agent overlapped reads back *)
(* whatever other agents, manual edits, merges and commits did meanwhile.    *)
AgentsIsolated ==
    \A c \in Clients :
        LET req == client[c].request
        IN  Finished(c) /\ client[c].solo /\ req.op = "agent_edit"
               /\ ReadsBack(db, Agent(req.agent))
            => CurrentText(db, Agent(req.agent)) = req.new

(* integrated.rs moves the feature's pointer and resets the approval in two  *)
(* calls.  Stopping in between and approving again puts nothing into the     *)
(* feature a second time.                                                    *)
ApprovalRepeatable ==
    \A a \in Agents, f \in Existing(db) :
        Exists(db, Approval(a)) =>
            LET once == MergeApprovalIntoFeature(db, a, f)
            IN  ReadsBack(once, Feature(f)) =>
                    MergeApprovalIntoFeature(once, a, f) = once
=============================================================================
