-------------------------- MODULE MCResourceFormat --------------------------
(* ResourceFormat with every amount up to past the last prefix, and a device *)
(* resource with "memory" in its name. *)
EXTENDS ResourceFormat

MCKeyOrder == <<"ephemeral-storage", "gpu", "gpumemory", "memory", "pods", "vcore">>
MCAmounts == 0..21000
MCUsages == {0, 1, 9, 10, 99, 100, 101, 250}
=============================================================================
