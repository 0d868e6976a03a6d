----------------------------- MODULE MCTraffic -----------------------------
(* Traffic for TLC: a year of two months, the first longer than the next. *)
EXTENDS Traffic, TLC

ShortYear == <<2, 1>>

Symmetry == Permutations(User) \cup Permutations(Protocol)

=============================================================================
