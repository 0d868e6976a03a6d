------------------------------ MODULE MCFileDb ------------------------------
(* FileDb for TLC: sessions and inodes are model values and interchangeable. *)
EXTENDS FileDb, TLC

Symmetry == Permutations(Session) \cup Permutations(Inode)

=============================================================================
