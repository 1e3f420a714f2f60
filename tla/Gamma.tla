------------------------------- MODULE Gamma -------------------------------
(***************************************************************************)
(* Gamma control (zwlr_gamma_control_v1) across suspended sessions: while  *)
(* the session is suspended no property can be set, so changes wait in the *)
(* surface, and whoever has the screen meanwhile may set any gamma.        *)
(***************************************************************************)
EXTENDS Naturals, FiniteSets

CONSTANTS
    Crtcs,      \* where outputs are shown
    Atomic,     \* the CRTCs with a GAMMA_LUT property
    Ramps       \* the gamma ramps clients set

Default == 0        \* no ramp
Foreign == 99       \* what another session left behind
NoChange == 100     \* no change is pending

ASSUME RampsAssumption == Ramps \cap {Default, Foreign, NoChange} = {}

VARIABLES
    on,         \* the CRTCs that have a surface (and an output)
    active,     \* the session is active
    controlled, \* gamma_controls: the outputs that have a control
    asked,      \* history: the ramp the control of each output last set
    pending,    \* pending_gamma_change of each surface
    blob,       \* previous_blob of each surface's gamma_props
    hw          \* the gamma the hardware uses

gammaVars == <<on, active, controlled, asked, pending, blob, hw>>

GammaInit ==
    /\ on = {}
    /\ active = TRUE
    /\ controlled = {}
    /\ asked = [c \in Crtcs |-> Default]
    /\ pending = [c \in Crtcs |-> NoChange]
    /\ blob = [c \in Crtcs |-> Default]
    /\ hw = [c \in Crtcs |-> Default]

\* Tty::set_gamma() for one surface.
SetGammaKeepsPending(c, r) ==
    IF active THEN /\ hw' = [hw EXCEPT ![c] = r]
                   /\ blob' = [blob EXCEPT ![c] = r]
                   /\ UNCHANGED pending
              ELSE /\ pending' = [pending EXCEPT ![c] = IF @ = NoChange THEN r ELSE @]
                   /\ UNCHANGED <<hw, blob>>

set_gamma(c, r) ==
    IF active THEN /\ hw' = [hw EXCEPT ![c] = r]
                   /\ blob' = [blob EXCEPT ![c] = r]
                   /\ UNCHANGED pending
              ELSE /\ pending' = [pending EXCEPT ![c] = r]
                   /\ UNCHANGED <<hw, blob>>

\* A client takes control of an output nobody controls.
GetGammaControl(c) ==
    /\ c \in on \ controlled
    /\ controlled' = controlled \cup {c}
    /\ UNCHANGED <<on, active, asked, pending, blob, hw>>

\* The client of the control sets a ramp.
SetGamma(c, r) ==
    /\ c \in controlled
    /\ asked' = [asked EXCEPT ![c] = r]
    /\ set_gamma(c, r)
    /\ UNCHANGED <<on, active, controlled>>

\* The control is destroyed, or sends data that is too short or too long, or the device
\* refuses its ramp: it is forgotten and the gamma goes back to the default.
Destroyed(c) ==
    /\ c \in controlled
    /\ controlled' = controlled \ {c}
    /\ asked' = [asked EXCEPT ![c] = Default]
    /\ set_gamma(c, Default)
    /\ UNCHANGED <<on, active>>

\* Outputs come and go while the session is active; a new surface resets the gamma.
Connect(c) ==
    /\ active
    /\ c \notin on
    /\ on' = on \cup {c}
    /\ pending' = [pending EXCEPT ![c] = NoChange]
    /\ blob' = [blob EXCEPT ![c] = Default]
    /\ hw' = [hw EXCEPT ![c] = Default]
    /\ UNCHANGED <<active, controlled, asked>>

\* GammaControlManagerState::output_removed(): the control is forgotten.
output_removed(c) ==
    /\ active
    /\ c \in on
    /\ on' = on \ {c}
    /\ controlled' = controlled \ {c}
    /\ asked' = [asked EXCEPT ![c] = Default]
    /\ UNCHANGED <<active, pending, blob, hw>>

Suspend ==
    /\ active
    /\ active' = FALSE
    /\ UNCHANGED <<on, controlled, asked, pending, blob, hw>>

\* External: another session has the screen.
OtherSession(c) ==
    /\ ~active
    /\ hw' = [hw EXCEPT ![c] = Foreign]
    /\ UNCHANGED <<on, active, controlled, asked, pending, blob>>

\* What resuming does to the gamma of one surface: apply what is pending, otherwise
\* restore what was set; a CRTC without GAMMA_LUT keeps what it has.
Restored(c) ==
    CASE pending[c] # NoChange -> pending[c]
      [] pending[c] = NoChange /\ c \in Atomic -> blob[c]
      [] OTHER -> hw[c]

\* The connectors that went away meanwhile are disconnected first.
Resume(gone) ==
    /\ ~active
    /\ active' = TRUE
    /\ on' = on \ gone
    /\ controlled' = controlled \ gone
    /\ asked' = [c \in Crtcs |-> IF c \in gone THEN Default ELSE asked[c]]
    /\ hw' = [c \in Crtcs |-> IF c \in on' THEN Restored(c) ELSE hw[c]]
    /\ blob' = [c \in Crtcs |-> IF c \in on' /\ pending[c] # NoChange THEN pending[c] ELSE blob[c]]
    /\ pending' = [c \in Crtcs |-> NoChange]

GammaNext ==
    \/ \E c \in Crtcs : \/ GetGammaControl(c)
                        \/ \E r \in Ramps : SetGamma(c, r)
                        \/ Destroyed(c)
                        \/ Connect(c)
                        \/ output_removed(c)
                        \/ OtherSession(c)
    \/ Suspend
    \/ \E gone \in SUBSET on : Resume(gone)

GammaSpec == GammaInit /\ [][GammaNext]_gammaVars

\* An output shows what its control last set, and the default when nobody controls it,
\* also when the control came, changed its mind or left while the session was suspended
\* and another session changed the hardware.
GammaFollowsControl ==
    active => \A c \in on \cap Atomic : hw[c] = asked[c]
=============================================================================
