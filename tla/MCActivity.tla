----------------------------- MODULE MCActivity -----------------------------
(* Activity for TLC: a year of three months, the second shorter than the third. *)
EXTENDS Activity, TLC

ShortYear == <<1, 1, 2>>

Symmetry == Permutations(User) \cup Permutations(Protocol) \cup Permutations(Network)

=============================================================================
