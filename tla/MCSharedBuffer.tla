---------------------------- MODULE MCSharedBuffer ----------------------------
(* Instances of SharedBuffer for TLC. *)
EXTENDS SharedBuffer, TLC

ProcsSymmetry == Permutations(Procs)
=============================================================================
