----------------------------- MODULE MCProtocols -----------------------------
(* Instances of Protocols for TLC.                                         *)
EXTENDS Protocols, TLC

TwoWishes == {{"outline"}, {"amnezia"}}

Symmetry == Permutations(Users) \cup Permutations(Clerks) \cup Permutations(Tools)
=============================================================================
