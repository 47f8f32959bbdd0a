------------------------- MODULE MCSchedulerAnswers -------------------------
(* SchedulerAnswers with every tree of up to six queues, and ResourceFormat *)
(* with the amounts of MCResourceFormat. *)
EXTENDS SchedulerAnswers, MCResourceFormat

MCTimes == 1..3
=============================================================================
