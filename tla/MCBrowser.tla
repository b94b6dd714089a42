------------------------------ MODULE MCBrowser ------------------------------
(* Two windows, two connections, and one file with a secret variable.       *)
EXTENDS Browser, TLC

CONSTANTS key, one, two

SecretFile == {[k \in {key} |-> [value |-> one, isSecret |-> TRUE]]}

\* Windows start alike, and any connection may be the one that is shown first.
Symmetry == Permutations(Conns) \cup Permutations(Windows)
==============================================================================
