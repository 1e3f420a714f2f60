---------------------------- MODULE MCSessionLock ----------------------------
(***************************************************************************)
(* The model checking instances of SessionLock. Outputs are                *)
(* interchangeable; the liveness run does not use the symmetry.            *)
(***************************************************************************)
EXTENDS SessionLock, TLC

OutputSymmetry == Permutations(Output)
=============================================================================
