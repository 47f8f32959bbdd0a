---------------------------- MODULE MCQueueTree ----------------------------
(* QueueTree on a root with two branches, one of them two levels deep. *)
EXTENDS QueueTree, TLC

CONSTANTS root, a, b, aa, aaa

MCChildren ==
  (root :> {a, b}) @@ (a :> {aa}) @@ (aa :> {aaa}) @@ (b :> {}) @@ (aaa :> {})
=============================================================================
