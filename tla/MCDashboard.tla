---------------------------- MODULE MCDashboard ----------------------------
(* Dashboard on a small instance: only the bounds are given. *)
EXTENDS Dashboard
=============================================================================
