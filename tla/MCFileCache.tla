---------------------------- MODULE MCFileCache ----------------------------
(* Instances of FileCache small enough for TLC. *)
EXTENDS FileCache, TLC

FileSymmetry == Permutations(Jobs) \cup Permutations(Inodes)
=============================================================================
