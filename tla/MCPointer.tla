----------------------------- MODULE MCPointer -----------------------------
(* One window, two fingers, three buttons, at most two contacts at a time.  *)
EXTENDS Pointer, TLC

FingerSymmetry == Permutations(Slot)
=============================================================================
