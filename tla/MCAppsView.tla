----------------------------- MODULE MCAppsView -----------------------------
(* AppsView on two partitions that share one leaf queue name. *)
EXTENDS AppsView, TLC

CONSTANTS p1, p2, q1, q2, a1, a2

MCLeaves == (p1 :> {q1, q2}) @@ (p2 :> {q1})
MCAppsOf == [pair \in {p1, p2} \X {q1, q2} |->
  IF pair = <<p1, q1>> THEN {a1, a2} ELSE IF pair = <<p1, q2>> THEN {} ELSE {a1}]

\* Nothing, the other partition's queue, a queue that is gone, no queue at all
\* (written by the other views).
MCStored == {<<p2, q1>>, <<p2, q2>>, <<p1, None>>}

MCQuery == {[partition |-> p2, queue |-> q1, app |-> a1],
            [partition |-> p1, queue |-> q1, app |-> None]}
=============================================================================
