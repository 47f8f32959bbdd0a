------------------------- MODULE MCUtilizationTile -------------------------
(* The tile on two partitions, with other resource types in each of them. *)
EXTENDS UtilizationTile

CONSTANTS p1, p2

MCTypeOrder == <<"memory", "vcore", "gpu">>
MCNameOrder == <<"gpu", "memory", "vcore">>

\* Partitions that share a series with another colour, with every distribution
\* over the second one; one that is left out; and one without nodes.
Calm == [t \in {"memory", "vcore"} |-> <<1, 0, 1>>]
Counts == {<<2, 0, 0>>, <<0, 1, 1>>, <<0, 0, 0>>}
MCReports ==
  {[p \in {p1, p2} |-> IF p = p1 THEN Calm ELSE figures] :
     figures \in [{"memory", "vcore", "gpu"} -> Counts]}
  \cup {[p \in {p1} |-> [t \in {"memory", "gpu"} |-> IF t = "gpu" THEN <<0, 2, 0>> ELSE <<2, 0, 0>>]],
        [p \in {p1, p2} |-> [t \in {} |-> <<>>]]}
=============================================================================
