---------------------------- MODULE MCPerformance ----------------------------
(* Performance on a small instance, for TLC. *)
EXTENDS Performance, TLC

CutOnly == {[delay |-> 1, jitter |-> 0, loss |-> FALSE, cut |-> TRUE]}
==============================================================================
