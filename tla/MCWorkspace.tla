---------------------------- MODULE MCWorkspace ----------------------------
(***************************************************************************)
(* Workspace for TLC.                                                      *)
(***************************************************************************)
EXTENDS Workspace

\* Windows are interchangeable.
WindowSymmetry == Permutations(Window)
=============================================================================
