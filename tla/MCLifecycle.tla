---------------------------- MODULE MCLifecycle ----------------------------
(* Model-checking instances of Lifecycle.                                  *)
EXTENDS Lifecycle, TLC

\* Slots are interchangeable: allocation may take any free one.
SlotSymmetry == Permutations(Slot)
=============================================================================
