----------------------------- MODULE MCBrigade -----------------------------
(* Brigade for TLC: identities and addresses are interchangeable.           *)
EXTENDS Brigade, TLC

Symmetry == Permutations(UserId) \cup Permutations(Addr)

=============================================================================
