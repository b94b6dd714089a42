------------------------------ MODULE MCWsProxy ------------------------------
(* WsProxy on a small instance, for TLC. *)
EXTENDS WsProxy, TLC

\* No condition field matters but the ones below; delay 2 with jitter 1 lets a
\* later message overtake an earlier one.
AnyCondition ==
    {[delay |-> 0, jitter |-> 0, loss |-> TRUE,  cut |-> FALSE],
     [delay |-> 1, jitter |-> 0, loss |-> FALSE, cut |-> TRUE],
     [delay |-> 2, jitter |-> 1, loss |-> FALSE, cut |-> FALSE]}

CutOnly == {[delay |-> 1, jitter |-> 0, loss |-> FALSE, cut |-> TRUE]}

NoConditions == {}

Symmetry == Permutations(Clients)
==============================================================================
