--------------------------- MODULE MCK8ShimProxy ---------------------------
(* K8ShimProxy with two users and two requests at once, over every kind of *)
(* configured address. *)
EXTENDS K8ShimProxy, TLC

SlotSymmetry == Permutations(Slots)
=============================================================================
