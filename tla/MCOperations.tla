---------------------------- MODULE MCOperations ----------------------------
(* Small instances of Operations for TLC. *)
EXTENDS Operations, TLC

OpSymmetry == Permutations(OpSlot) \cup Permutations(Actor)
=============================================================================
