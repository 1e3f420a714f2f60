------------------------------- MODULE Redraw -------------------------------
(***************************************************************************)
(* The redraw cycle of the outputs: the RedrawState machine of niri.rs     *)
(* driven by the tty backend.                                              *)
(*                                                                         *)
(* The compositor is one thread. An iteration of its event loop dispatches *)
(* any number of events (phase "dispatch": client requests, page flip      *)
(* events, timers, hotplug, VT switches) and then redraws every output     *)
(* whose redraw is queued (phase "redraw"). A page flip in the kernel and  *)
(* the timers are the concurrent actors.                                   *)
(*                                                                         *)
(* An Output here is one connection of a connector: it is added once and   *)
(* removed once, and a connector that is plugged in again is another one.  *)
(* Vblank events carry a CRTC, not a connection. A late one of an earlier  *)
(* connection on the same CRTC, like one the kernel makes up, is a rogue   *)
(* vblank, which RogueVBlanks admits.                                      *)
(***************************************************************************)
EXTENDS Integers, FiniteSets

CONSTANTS Output,        \* the connections that may be made
          RogueVBlanks   \* whether vblanks come that no connection waits for

ASSUME RogueVBlanksAssumption == RogueVBlanks \in BOOLEAN

VARIABLES
  phase,            \* what the event loop is doing
  status,           \* per output, whether it is in Niri::output_state
  redraw_state,     \* per output, RedrawState
  timers,           \* per output, the estimated-vblank timers in the event loop
  flip,             \* per output, whether the kernel owes a vblank event
  throttle,         \* per output, whether VBlankThrottle holds one back
  animating,        \* per output, unfinished_animations_remain
  idle,             \* per output, whether an idle callback will queue it
  monitors_active,  \* Niri::monitors_active
  session_active,   \* whether the session owns the DRM devices
  stale,            \* per output, whether a change to it was not redrawn yet
  panicked          \* whether an unreachable!() or assert!() was reached

vars == <<phase, status, redraw_state, timers, flip, throttle, animating, idle,
          monitors_active, session_active, stale, panicked>>

-----------------------------------------------------------------------------
(***************************************************************************)
(* RedrawState. A token names a timer of the same output.                  *)
(***************************************************************************)
Idle == [tag |-> "Idle"]
Queued == [tag |-> "Queued"]
WaitingForVBlank(needed) == [tag |-> "WaitingForVBlank", redraw_needed |-> needed]
WaitingForEstimatedVBlank(t) == [tag |-> "WaitingForEstimatedVBlank", token |-> t]
WaitingForEstimatedVBlankAndQueued(t) ==
    [tag |-> "WaitingForEstimatedVBlankAndQueued", token |-> t]

RedrawState ==
    [tag : {"Idle", "Queued"}]
      \union [tag : {"WaitingForVBlank"}, redraw_needed : BOOLEAN]
      \union [tag : {"WaitingForEstimatedVBlank", "WaitingForEstimatedVBlankAndQueued"},
              token : Nat]

HasToken(s) ==
    s.tag \in {"WaitingForEstimatedVBlank", "WaitingForEstimatedVBlankAndQueued"}

IsQueued(s) == s.tag \in {"Queued", "WaitingForEstimatedVBlankAndQueued"}

\* A redraw will be attempted once whatever is waited for has happened.
IsScheduled(s) == IsQueued(s) \/ (s.tag = "WaitingForVBlank" /\ s.redraw_needed)

queue_redraw(s) ==
    CASE s.tag = "Idle" -> Queued
      [] s.tag = "WaitingForEstimatedVBlank" -> WaitingForEstimatedVBlankAndQueued(s.token)
      [] IsQueued(s) -> s
      [] OTHER -> WaitingForVBlank(TRUE)

Connected == {o \in Output : status[o] = "connected"}

\* queue_redraw_all() on the function r from outputs to redraw states.
queue_redraw_all(r) ==
    [o \in Output |-> IF o \in Connected THEN queue_redraw(r[o]) ELSE r[o]]

-----------------------------------------------------------------------------
(***************************************************************************)
(* Rendering. The result tells apart the ways the render functions return: *)
(* "Submitted" and "NoDamage" are the RenderResults; RenderResult::Skipped *)
(* is "Failed" when Tty::render() went through queue_estimated_vblank_     *)
(* timer(), and "Skipped" when it returned early or was not called.        *)
(***************************************************************************)
Results ==
    IF monitors_active /\ session_active
    THEN {"Submitted", "NoDamage", "Failed", "Skipped"}
    ELSE {"Skipped"}

FreshToken(o) == CHOOSE t \in 1 .. Cardinality(timers[o]) + 1 : t \notin timers[o]

\* queue_estimated_vblank_timer(): the redraw state after it.
EstimatedVBlankState(o) ==
    WaitingForEstimatedVBlank(IF HasToken(redraw_state[o]) THEN redraw_state[o].token
                              ELSE FreshToken(o))

RedrawnState(o, res) ==
    CASE res = "Submitted" -> WaitingForVBlank(FALSE)
      [] res \in {"NoDamage", "Failed"} -> EstimatedVBlankState(o)
      [] OTHER -> IF HasToken(redraw_state[o])
                  THEN WaitingForEstimatedVBlank(redraw_state[o].token) ELSE Idle

\* Mutant: the timer is not removed when a frame is submitted.
TimersKept(o, res) ==
    IF res \in {"NoDamage", "Failed"} THEN timers[o] \union {EstimatedVBlankState(o).token}
    ELSE timers[o]

RedrawnTimers(o, res) ==
    CASE res = "Submitted" -> IF HasToken(redraw_state[o])
                              THEN timers[o] \ {redraw_state[o].token} ELSE timers[o]
      [] res \in {"NoDamage", "Failed"} -> timers[o] \union {EstimatedVBlankState(o).token}
      [] OTHER -> timers[o]

\* Niri::redraw(), which queues every output again when requeue is set: the
\* code after the rendering may call queue_redraw_all(). What is not drawn
\* because the outputs are off or belong to another session stays stale; a
\* redraw that fails is not retried by the code and counts as made.
RedrawOutput(o, res, requeue) ==
    /\ ~panicked
    /\ phase = "redraw"
    /\ o \in Connected
    /\ IsQueued(redraw_state[o])
    /\ res \in Results
    /\ LET drawn == [redraw_state EXCEPT ![o] = RedrawnState(o, res)] IN
       redraw_state' = IF requeue THEN queue_redraw_all(drawn) ELSE drawn
    /\ timers' = [timers EXCEPT ![o] = RedrawnTimers(o, res)]
    /\ flip' = [flip EXCEPT ![o] = flip[o] \/ res = "Submitted"]
    /\ IF monitors_active
       THEN \E b \in BOOLEAN : animating' = [animating EXCEPT ![o] = b]
       ELSE UNCHANGED animating
    /\ stale' = [stale EXCEPT ![o] = stale[o] /\ ~(monitors_active /\ session_active)]
    /\ UNCHANGED <<phase, status, throttle, idle, monitors_active, session_active, panicked>>

Redraw(o) == \E res \in Results : RedrawOutput(o, res, FALSE)

\* redraw_queued_outputs() ends when no output is queued.
EndRedraw ==
    /\ ~panicked
    /\ phase = "redraw"
    /\ \A o \in Connected : ~IsQueued(redraw_state[o])
    /\ phase' = "dispatch"
    /\ UNCHANGED <<status, redraw_state, timers, flip, throttle, animating, idle,
                   monitors_active, session_active, stale, panicked>>

-----------------------------------------------------------------------------
(***************************************************************************)
(* Events.                                                                 *)
(***************************************************************************)
Dispatching == ~panicked /\ phase = "dispatch"

\* The idle callbacks run once the events of an iteration are handled, then
\* refresh_and_flush_clients() starts the redraws.
EndDispatch ==
    /\ Dispatching
    /\ redraw_state' = [o \in Output |-> IF idle[o] /\ o \in Connected
                                         THEN queue_redraw(redraw_state[o])
                                         ELSE redraw_state[o]]
    /\ idle' = [o \in Output |-> FALSE]
    /\ phase' = "redraw"
    /\ UNCHANGED <<status, timers, flip, throttle, animating, monitors_active,
                   session_active, stale, panicked>>

\* Something on the output changed: a commit, a configuration change, ...
QueueRedraw(o) ==
    /\ Dispatching
    /\ o \in Connected
    /\ redraw_state' = [redraw_state EXCEPT ![o] = queue_redraw(@)]
    /\ stale' = [stale EXCEPT ![o] = TRUE]
    /\ UNCHANGED <<phase, status, timers, flip, throttle, animating, idle,
                   monitors_active, session_active, panicked>>

\* The cursor, the configuration or the lock state changed.
QueueRedrawAll ==
    /\ Dispatching
    /\ redraw_state' = queue_redraw_all(redraw_state)
    /\ stale' = [o \in Output |-> o \in Connected]
    /\ UNCHANGED <<phase, status, timers, flip, throttle, animating, idle,
                   monitors_active, session_active, panicked>>

\* The vblank event belongs to output o and VBlankThrottle lets it through.
HandleVBlank(o) ==
    LET needed == IF redraw_state[o].tag = "WaitingForVBlank"
                  THEN redraw_state[o].redraw_needed ELSE TRUE
    IN redraw_state' = [redraw_state EXCEPT ![o] = IF needed \/ animating[o]
                                                   THEN queue_redraw(Idle) ELSE Idle]

\* on_vblank() for a page flip event. A vblank that comes too early is
\* throttled: a timer will deliver it again. An event for an output that is
\* gone finds no surface.
OnVBlank(o) ==
    /\ Dispatching
    /\ flip[o] \/ (RogueVBlanks /\ o \in Connected)
    /\ flip' = [flip EXCEPT ![o] = FALSE]
    /\ \/ /\ o \in Connected
          /\ HandleVBlank(o)
          /\ throttle' = [throttle EXCEPT ![o] = FALSE]
       \/ /\ o \in Connected
          /\ throttle' = [throttle EXCEPT ![o] = TRUE]
          /\ UNCHANGED redraw_state
       \/ /\ o \notin Connected
          /\ UNCHANGED <<redraw_state, throttle>>
    /\ UNCHANGED <<phase, status, timers, animating, idle, monitors_active,
                   session_active, stale, panicked>>

\* The throttle timer fires and calls on_vblank() again, by now late enough.
OnThrottleTimer(o) ==
    /\ Dispatching
    /\ throttle[o]
    /\ throttle' = [throttle EXCEPT ![o] = FALSE]
    /\ IF o \in Connected THEN HandleVBlank(o) ELSE UNCHANGED redraw_state
    /\ UNCHANGED <<phase, status, timers, flip, animating, idle, monitors_active,
                   session_active, stale, panicked>>

\* on_estimated_vblank_timer(): a timer is dropped from the loop when it fires.
OnEstimatedVBlankTimer(o) ==
    /\ Dispatching
    /\ \E t \in timers[o] : timers' = [timers EXCEPT ![o] = @ \ {t}]
    /\ IF o \notin Connected
       THEN UNCHANGED <<redraw_state, panicked>>
       ELSE /\ panicked' = ~HasToken(redraw_state[o])
            /\ redraw_state' =
                 [redraw_state EXCEPT ![o] = IF IsQueued(@) \/ animating[o] THEN Queued ELSE Idle]
    /\ UNCHANGED <<phase, status, flip, throttle, animating, idle, monitors_active,
                   session_active, stale>>

\* add_output(): reposition_outputs() queues the new output, and Tty queues it
\* once more from an idle callback when the monitors are on.
AddOutput(o) ==
    /\ Dispatching
    /\ status[o] = "absent"
    /\ status' = [status EXCEPT ![o] = "connected"]
    /\ redraw_state' = [redraw_state EXCEPT ![o] = queue_redraw(Idle)]
    /\ idle' = [idle EXCEPT ![o] = monitors_active]
    /\ stale' = [stale EXCEPT ![o] = TRUE]
    /\ UNCHANGED <<phase, timers, flip, throttle, animating, monitors_active,
                   session_active, panicked>>

\* remove_output(): the OutputState goes, redraw state and all. The outputs in
\* queued are queued, the ones that reposition_outputs() moves among them.
RemoveOutputQueuing(o, queued) ==
    /\ Dispatching
    /\ o \in Connected
    /\ status' = [status EXCEPT ![o] = "removed"]
    /\ redraw_state' = [p \in Output |-> IF p = o THEN Idle
                                         ELSE IF p \in queued THEN queue_redraw(redraw_state[p])
                                         ELSE redraw_state[p]]
    /\ animating' = [animating EXCEPT ![o] = FALSE]
    /\ stale' = [p \in Output |-> p # o /\ (p \in queued \/ stale[p])]
    /\ timers' = [timers EXCEPT ![o] = IF HasToken(redraw_state[o])
                                       THEN @ \ {redraw_state[o].token} ELSE @]
    /\ UNCHANGED <<phase, flip, throttle, idle, monitors_active,
                   session_active, panicked>>

RemoveOutput(o) ==
    \E queued \in SUBSET (Connected \ {o}) : RemoveOutputQueuing(o, queued)

\* set_monitors_active(false) clears the surfaces.
DeactivateMonitors ==
    /\ Dispatching
    /\ monitors_active
    /\ monitors_active' = FALSE
    /\ stale' = [o \in Output |-> o \in Connected]
    /\ UNCHANGED <<phase, status, redraw_state, timers, flip, throttle, animating, idle,
                   session_active, panicked>>

\* Mutant: nothing is queued when the monitors come back on.
ActivateWithoutRedraw ==
    /\ Dispatching
    /\ ~monitors_active
    /\ monitors_active' = TRUE
    /\ UNCHANGED <<phase, status, redraw_state, timers, flip, throttle, animating, idle,
                   session_active, stale, panicked>>

ActivateMonitors ==
    /\ Dispatching
    /\ ~monitors_active
    /\ monitors_active' = TRUE
    /\ redraw_state' = queue_redraw_all(redraw_state)
    /\ UNCHANGED <<phase, status, timers, flip, throttle, animating, idle,
                   session_active, stale, panicked>>

\* on_session_event(): another VT takes the screens, which show its contents.
PauseSession ==
    /\ Dispatching
    /\ session_active
    /\ session_active' = FALSE
    /\ stale' = [o \in Output |-> o \in Connected]
    /\ UNCHANGED <<phase, status, redraw_state, timers, flip, throttle, animating, idle,
                   monitors_active, panicked>>

ActivateSession ==
    /\ Dispatching
    /\ ~session_active
    /\ session_active' = TRUE
    /\ monitors_active' = TRUE
    /\ redraw_state' = queue_redraw_all(redraw_state)
    /\ UNCHANGED <<phase, status, timers, flip, throttle, animating, idle, stale, panicked>>

-----------------------------------------------------------------------------
Init ==
    /\ phase = "dispatch"
    /\ status = [o \in Output |-> "absent"]
    /\ redraw_state = [o \in Output |-> Idle]
    /\ timers = [o \in Output |-> {}]
    /\ flip = [o \in Output |-> FALSE]
    /\ throttle = [o \in Output |-> FALSE]
    /\ animating = [o \in Output |-> FALSE]
    /\ idle = [o \in Output |-> FALSE]
    /\ monitors_active = TRUE
    /\ session_active = TRUE
    /\ stale = [o \in Output |-> FALSE]
    /\ panicked = FALSE

Next ==
    \/ EndDispatch
    \/ EndRedraw
    \/ QueueRedrawAll
    \/ DeactivateMonitors
    \/ ActivateMonitors
    \/ PauseSession
    \/ ActivateSession
    \/ \E o \in Output : \/ Redraw(o)
                         \/ QueueRedraw(o)
                         \/ OnVBlank(o)
                         \/ OnThrottleTimer(o)
                         \/ OnEstimatedVBlankTimer(o)
                         \/ AddOutput(o)
                         \/ RemoveOutput(o)

\* The event loop runs: redraw_queued_outputs() is a loop that nothing
\* interrupts, and every iteration ends with it. The kernel delivers the event
\* of every page flip it accepted, and calloop fires every timer that is due.
Fairness ==
    /\ WF_vars(EndDispatch)
    /\ WF_vars(EndRedraw)
    /\ \A o \in Output : /\ WF_vars(Redraw(o))
                         /\ SF_vars(OnVBlank(o))
                         /\ SF_vars(OnThrottleTimer(o))
                         /\ SF_vars(OnEstimatedVBlankTimer(o))

Spec == Init /\ [][Next]_vars

FairSpec == Spec /\ Fairness

-----------------------------------------------------------------------------
(***************************************************************************)
(* Properties.                                                             *)
(***************************************************************************)
\* The types of the variables.
TypeOK ==
    /\ phase \in {"dispatch", "redraw"}
    /\ status \in [Output -> {"absent", "connected", "removed"}]
    /\ redraw_state \in [Output -> RedrawState]
    /\ timers \in [Output -> SUBSET Nat]
    /\ flip \in [Output -> BOOLEAN]
    /\ throttle \in [Output -> BOOLEAN]
    /\ animating \in [Output -> BOOLEAN]
    /\ idle \in [Output -> BOOLEAN]
    /\ monitors_active \in BOOLEAN
    /\ session_active \in BOOLEAN
    /\ stale \in [Output -> BOOLEAN]
    /\ panicked \in BOOLEAN

\* No unreachable!() of the redraw cycle is reached: an estimated-vblank timer
\* never fires in a state that does not wait for it, whatever was queued,
\* submitted, unplugged or switched away since it was set.
NoPanic == ~panicked

\* The timer that a redraw state waits for is in the event loop, and no other
\* is: a state is never left waiting for a timer that is gone, and a timer that
\* nobody waits for never fires.
TimerMatchesState ==
    \A o \in Output :
       timers[o] = IF o \in Connected /\ HasToken(redraw_state[o])
                   THEN {redraw_state[o].token} ELSE {}

\* An output waits for a vblank exactly when the kernel owes one or the
\* throttle holds one back. Otherwise the output would freeze, or a vblank
\* would arrive in a state that on_vblank() calls unexpected.
VBlankIsOwed ==
    \A o \in Connected :
       /\ redraw_state[o].tag = "WaitingForVBlank" <=> flip[o] \/ throttle[o]
       /\ ~(flip[o] /\ throttle[o])

\* No redraw request is lost: while the screens are on and ours, an output with
\* a change that was not redrawn has a redraw on its way, through every order
\* of vblanks, timers, power and session switches.
NoLostRedraw ==
    \A o \in Connected :
       stale[o] /\ monitors_active /\ session_active => IsScheduled(redraw_state[o])

\* Every change is redrawn, unless the output or the screens go away.
StaleIsRedrawn ==
    \A o \in Output : (stale[o] /\ o \in Connected)
                        ~> (~stale[o] \/ ~monitors_active \/ ~session_active)
=============================================================================
