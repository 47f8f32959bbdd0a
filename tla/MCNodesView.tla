----------------------------- MODULE MCNodesView -----------------------------
(* NodesView on two partitions: one without utilization figures, the other *)
(* without a capacity on one node only. *)
EXTENDS NodesView, TLC

CONSTANTS p1, p2, n1, n2

MCColumnIds == <<"nodeId", "capacity", "utilized">>
MCNodesOf == (p1 :> {n1, n2}) @@ (p2 :> {n1, n2})
MCFilled == [pair \in {p1, p2} \X {n1, n2} |->
  IF pair[1] = p1 THEN {"nodeId", "capacity"}
  ELSE IF pair[2] = n1 THEN {"nodeId", "capacity", "utilized"}
  ELSE {"nodeId", "utilized"}]
=============================================================================
