----------------------------- MODULE MCOutputs -----------------------------
(***************************************************************************)
(* Outputs, for TLC: a behaviour is that of the GPUs and connectors of the *)
(* TTY backend, of the output configuration and its clients, or of gamma   *)
(* control.  They share no state here: each part takes what the others do  *)
(* (an output appears, the session is suspended) as an action of its own.  *)
(***************************************************************************)
EXTENDS Devices, Outputs, Gamma, TLC

CONSTANTS g1, g2, eDP, DP1, DP2, Headset, left, right

VARIABLE part   \* the one that this behaviour works on

outputsVars == <<deviceVars, outputVars, gammaVars, part>>

\* A laptop with two external connectors, one of them (and a headset) on a second GPU
\* without a renderer; the external monitors are of the same make, model and serial.
mcConnectors == <<eDP, DP1, DP2, Headset>>
mcDeviceOf == eDP :> g1 @@ DP1 :> g1 @@ DP2 :> g2 @@ Headset :> g2
mcKind == eDP :> "panel" @@ DP1 :> "monitor" @@ DP2 :> "monitor" @@ Headset :> "headset"
mcEdid == eDP :> 1 @@ DP1 :> 2 @@ DP2 :> 2 @@ Headset :> 3

\* The left output has a wider mode that appears late, and takes a custom one; the
\* right one may be put where the left one is.
mcOuts == <<left, right>>
mcNative == left :> {<<1>>, <<2, 1>>} @@ right :> {<<1>>}
mcPicks ==
    left :> {DefaultOutput, [DefaultOutput EXCEPT !.mode = 3], [DefaultOutput EXCEPT !.off = TRUE]}
    @@ right :> {DefaultOutput, [DefaultOutput EXCEPT !.position = 0]}

Init ==
    /\ part \in {"devices", "outputs", "gamma"}
    /\ DevicesInit /\ OutputsInit /\ GammaInit
    /\ part # "devices" => gpus = Gpus /\ tty.active

Next ==
    \/ part = "devices" /\ DevicesNext /\ UNCHANGED <<outputVars, gammaVars, part>>
    \/ part = "outputs" /\ OutputsNext /\ UNCHANGED <<deviceVars, gammaVars, part>>
    \/ part = "gamma" /\ GammaNext /\ UNCHANGED <<deviceVars, outputVars, part>>

Spec == Init /\ [][Next]_outputsVars
=============================================================================
