---------------------------- MODULE MCLifecycle ----------------------------
(* Lifecycle for TLC: the text of the short address is found in that of    *)
(* the long one, as 10.0.0.1 is in 10.0.0.12.                              *)
EXTENDS Lifecycle, TLC

CONSTANTS short, long

TwoAddresses == {short, long}

PrefixMatches == {m \in Addresses \X Addresses : m[1] = m[2] \/ m[1] = short}

Symmetry == Permutations(Brigades) \cup Permutations(Scripts)

=============================================================================
