------------------------- MODULE MCSqliteConnection -------------------------
EXTENDS SqliteConnection

CONSTANTS p1, p2, s1, s2, n1, n2

(* Calls of their own, as the handlers make them *)
Calls ==
    { <<CreatePartition(p1, s1)>>,
      <<UpdatePointer(p1, s2)>>,
      <<CreatePartition(p1, s2), UpdatePointer(p1, s1), ResetPartitionToBaseline(p1)>>,
      <<DeletePartition(p1)>>,
      <<StoreDagEdge(n1, n2)>>,
      <<DeleteDagNode(n1)>> }

(* Units of calls: some succeed, some fail, some contain a unit *)
GoodUnits ==
    { <<StoreSnapshotsBatch>>,
      <<CleanAll(<<p1, p2>>)>>,
      <<WithAtomic(<<CreatePartition(p2, s1), UpdatePointer(p2, s2)>>)>>,
      <<WithAtomic(<<CreatePartition(p1, s1), Ignored(UpdatePointer(p2, s2)),
                     WithAtomic(<<UpdatePointer(p1, s2)>>), StoreDagEdge(n1, n2)>>)>> }

FailingUnits ==
    { <<WithAtomic(<<UpdatePointer(p1, s2), CreatePartition(p1, s1)>>)>>,
      <<WithTransaction(<<UpdatePointer(p1, s2), CreatePartition(p1, s2)>>)>>,
      <<WithAtomic(<<CreatePartition(p2, s2), WithAtomic(<<Store("deltas"), Fail>>)>>)>> }

(* What a transaction stands in the way of *)
Transactions ==
    {<<StoreDagBatch({<<n1, n2>>}, {n1, n2})>>, <<RunMaintenance>>,
     <<WithAtomic(<<Ignored(StoreDagBatch({<<n1, n2>>}, {n1, n2})), RunMaintenance>>)>>}

AllRequests == Calls \cup GoodUnits \cup FailingUnits \cup Transactions

(* The requests' items, and those of the units among them: units nest twice. *)
Within(items) ==
    items \cup UNION {{u.rest[i] : i \in DOMAIN u.rest} : u \in {item \in items : item.do \in Units}}

AllItems == Within(Within(UNION {{r[i] : i \in DOMAIN r} : r \in AllRequests}))

(* The third request starts when the others have been answered. *)
SceneNext ==
    /\ Next
    /\ requests' = 3 /\ requests = 2 => \A t \in Threads : ~ Busy(t)

SceneSpec == Init /\ [][SceneNext]_vars /\ Fairness
=============================================================================
