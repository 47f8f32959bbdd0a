---------------------------- MODULE MCQueuesView ----------------------------
(* QueuesView on a tree of three levels below the root, two branches. *)
EXTENDS QueuesView, TLC

CONSTANTS p1, p2, root, a, b, aa, bb, aaa

MCChildren ==
  (root :> {a, b}) @@ (a :> {aa}) @@ (b :> {bb}) @@ (aa :> {aaa})
    @@ (bb :> {}) @@ (aaa :> {})
=============================================================================
