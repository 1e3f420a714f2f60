------------------------------ MODULE MCFocus ------------------------------
(***************************************************************************)
(* Two windows and a layer surface, and the screenshot interface, for TLC: *)
(* a behaviour is that of the keyboard focus or that of the interface.     *)
(* The two share no state.                                                 *)
(***************************************************************************)
EXTENDS Focus, Screenshot, TLC

CONSTANTS left, right

VARIABLE part   \* the one that this behaviour works on

\* Two outputs side by side, of scales 1 and 2.
MCLoc == (left :> 0) @@ (right :> 3)
MCFactor == (left :> 1) @@ (right :> 2)
MCModes == (left :> {3, 2}) @@ (right :> {2})
MCButtonAt == (left :> {0}) @@ (right :> {})

SideInit ==
    /\ part \in {"focus", "screenshot"}
    /\ FocusInit /\ ShotInit
    /\ part = "focus" => mode[left] = 3

SideNext ==
    \/ part = "focus" /\ FocusNext /\ UNCHANGED <<shotVars, part>>
    \/ part = "screenshot" /\ ShotNext /\ UNCHANGED <<focusVars, part>>

SideSpec == SideInit /\ [][SideNext]_<<focusVars, shotVars, part>>

WindowSymmetry == Permutations(Window)
=============================================================================
