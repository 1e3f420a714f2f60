---------------------------- MODULE SessionLock ----------------------------
(***************************************************************************)
(* Locking the session (ext-session-lock), composed with the redraw cycle. *)
(*                                                                         *)
(* A lock client asks for the lock and paints one surface per output. When *)
(* every output has its surface, or a second has passed, the session is    *)
(* Locking: every output must render a frame without session contents, and *)
(* the client is told that the session is locked when all of them have.    *)
(* Each step of the lock happens inside a step of the redraw cycle, or     *)
(* between two of them.                                                    *)
(***************************************************************************)
EXTENDS Redraw

CONSTANT Transitions   \* whether the do-screen-transition action is ever used

ASSUME TransitionsAssumption == Transitions \in BOOLEAN

VARIABLES
  lock_state,     \* LockState without its payload
  lock_alive,     \* whether the ext_session_lock object in it is alive
  lock_deadline,  \* whether the timer of WaitingForSurfaces is in the event loop
  lock_surface,   \* per output, its lock surface: none, created or mapped
  lock_render,    \* per output, LockRenderState
  transition,     \* per output, whether a screen_transition covers it
  frame,          \* per output, the contents of the last frame given to KMS
  scanout         \* per output, the contents on the screen

lockVars == <<lock_state, lock_alive, lock_deadline, lock_surface, lock_render, transition,
              frame, scanout>>
allVars == <<vars, lockVars>>

is_locked == lock_state \in {"Locking", "Locked"}

\* What render() draws: a screen transition goes above everything else, and
\* fades from a picture of the session that was taken when it started.
Contents(o) ==
    IF transition[o] THEN "snapshot" ELSE IF is_locked THEN "locked" ELSE "session"

\* Mutant: one output that has rendered the lock is enough.
SomeLocked(outputs, render) == outputs = {} \/ \E o \in outputs : render[o] = "Locked"

AllLocked(outputs, render) == \A o \in outputs : render[o] = "Locked"

-----------------------------------------------------------------------------
(***************************************************************************)
(* Rendering. A frame without damage is one that KMS has already.          *)
(***************************************************************************)
\* The lock state after redraw(): an output that could not render a locked
\* frame calls the lock off, the last one to render it confirms the lock.
LockStateAfterRedraw(render, o) ==
    IF lock_state # "Locking" THEN lock_state
    ELSE IF render[o] = "Unlocked" THEN "Unlocked"
    ELSE IF AllLocked(Connected, render) THEN "Locked"
    ELSE "Locking"

LockRedraw(o, res) ==
    LET rendered == res \in {"Submitted", "NoDamage"} \/ ~monitors_active
        render == IF ~rendered THEN lock_render
                  ELSE [lock_render EXCEPT ![o] = IF is_locked THEN "Locked" ELSE "Unlocked"]
        refused == lock_state = "Locking" /\ render[o] = "Unlocked"
    IN /\ res = "NoDamage" => frame[o] = Contents(o)
       /\ frame' = [frame EXCEPT ![o] = IF res = "Submitted" THEN Contents(o) ELSE @]
       /\ lock_render' = render
       /\ lock_state' = LockStateAfterRedraw(render, o)
       /\ \/ /\ refused
             /\ RedrawOutput(o, res, TRUE)
             /\ lock_surface' = [p \in Output |-> IF p \in Connected THEN "none"
                                                  ELSE lock_surface[p]]
          \/ /\ ~refused
             /\ RedrawOutput(o, res, FALSE)
             /\ UNCHANGED lock_surface
       /\ transition[o] /\ monitors_active => animating'[o]
       /\ UNCHANGED <<lock_alive, lock_deadline, transition, scanout>>

\* Mutant: the event of a page flip whose output is to be redrawn anyway is not
\* taken for a presentation.
VBlankPassedOver(o) ==
    /\ OnVBlank(o)
    /\ scanout' = [scanout EXCEPT ![o] = IF flip[o] /\ session_active /\ ~IsScheduled(redraw_state[o])
                                         THEN frame[o] ELSE @]
    /\ UNCHANGED <<lock_state, lock_alive, lock_deadline, lock_surface, lock_render, transition, frame>>

\* The frame is on the screen when its page flip event arrives.
LockOnVBlank(o) ==
    /\ OnVBlank(o)
    /\ scanout' = [scanout EXCEPT ![o] = IF flip[o] /\ session_active THEN frame[o] ELSE @]
    /\ UNCHANGED <<lock_state, lock_alive, lock_deadline, lock_surface, lock_render, transition, frame>>

-----------------------------------------------------------------------------
\* Mutant: a lock that replaces a dead client's waits for its surfaces like any
\* other.
LockAfresh ==
    /\ Dispatching
    /\ lock_state = "Unlocked" \/ (lock_state = "Locked" /\ ~lock_alive)
    /\ lock_alive' = TRUE
    /\ IF Connected = {}
       THEN /\ lock_state' = "Locked"
            /\ UNCHANGED lock_deadline
       ELSE /\ lock_state' = "WaitingForSurfaces"
            /\ lock_deadline' = TRUE
    /\ UNCHANGED vars
    /\ UNCHANGED <<lock_surface, lock_render, transition, frame, scanout>>

\* Niri::lock(), when it does not refuse.
Lock ==
    /\ Dispatching
    /\ lock_state = "Unlocked" \/ (lock_state = "Locked" /\ ~lock_alive)
    /\ lock_alive' = TRUE
    /\ IF lock_state = "Locked" \/ Connected = {}
       THEN /\ lock_state' = "Locked"
            /\ UNCHANGED lock_deadline
       ELSE /\ lock_state' = "WaitingForSurfaces"
            /\ lock_deadline' = TRUE
    /\ UNCHANGED vars
    /\ UNCHANGED <<lock_surface, lock_render, transition, frame, scanout>>

\* continue_to_locking() from WaitingForSurfaces, with the outputs that are
\* connected then; queue_redraw_all() is the caller's Redraw step.
ContinueToLocking(outputs) ==
    /\ lock_state' = IF outputs = {} THEN "Locked" ELSE "Locking"
    /\ lock_deadline' = FALSE

SurfacesReady(outputs, surfaces) == \A o \in outputs : surfaces[o] = "mapped"

\* Mutant: the deadline passes and nothing happens.
DeadlineIgnored ==
    /\ Dispatching
    /\ lock_deadline
    /\ lock_deadline' = FALSE
    /\ UNCHANGED vars
    /\ UNCHANGED <<lock_state, lock_alive, lock_surface, lock_render, transition, frame, scanout>>

LockDeadline ==
    /\ Dispatching
    /\ lock_deadline
    /\ IF lock_state = "WaitingForSurfaces"
       THEN ContinueToLocking(Connected) /\ QueueRedrawAll
       ELSE lock_deadline' = FALSE /\ UNCHANGED <<vars, lock_state>>
    /\ UNCHANGED <<lock_alive, lock_surface, lock_render, transition, frame, scanout>>

NewLockSurface(o) ==
    /\ Dispatching
    /\ lock_state # "Unlocked"
    /\ lock_alive
    /\ o \in Connected
    /\ lock_surface[o] = "none"
    /\ lock_surface' = [lock_surface EXCEPT ![o] = "created"]
    /\ UNCHANGED vars
    /\ UNCHANGED <<lock_state, lock_alive, lock_deadline, lock_render, transition, frame, scanout>>

\* A commit of a lock surface that maps it: maybe_continue_to_locking() or a
\* redraw of its output.
CommitLockSurface(o) ==
    /\ lock_alive
    /\ o \in Connected
    /\ lock_surface[o] # "none"
    /\ lock_surface' = [lock_surface EXCEPT ![o] = "mapped"]
    /\ IF lock_state = "WaitingForSurfaces"
       THEN IF SurfacesReady(Connected, lock_surface')
            THEN ContinueToLocking(Connected) /\ QueueRedrawAll
            ELSE Dispatching /\ UNCHANGED <<vars, lock_state, lock_deadline>>
       ELSE QueueRedraw(o) /\ UNCHANGED <<lock_state, lock_deadline>>
    /\ UNCHANGED <<lock_alive, lock_render, transition, frame, scanout>>

\* unlock_and_destroy, which the protocol allows once the lock is confirmed:
\* unlock(), then activate_monitors().
Unlock ==
    /\ lock_state = "Locked"
    /\ lock_alive
    /\ lock_state' = "Unlocked"
    /\ lock_alive' = FALSE
    /\ lock_surface' = [o \in Output |-> IF o \in Connected THEN "none" ELSE lock_surface[o]]
    /\ IF monitors_active THEN QueueRedrawAll ELSE ActivateMonitors
    /\ UNCHANGED <<lock_deadline, lock_render, transition, frame, scanout>>

\* The lock client dies, and its surfaces with it.
LockClientDies ==
    /\ Dispatching
    /\ lock_state # "Unlocked"
    /\ lock_alive
    /\ lock_alive' = FALSE
    /\ lock_surface' = [o \in Output |-> IF lock_surface[o] = "mapped" THEN "created"
                                         ELSE lock_surface[o]]
    /\ UNCHANGED vars
    /\ UNCHANGED <<lock_state, lock_deadline, lock_render, transition, frame, scanout>>

-----------------------------------------------------------------------------
(***************************************************************************)
(* Outputs, power and sessions.                                            *)
(***************************************************************************)
LockAddOutput(o) ==
    /\ AddOutput(o)
    /\ lock_render' = [lock_render EXCEPT ![o] = IF is_locked THEN "Locked" ELSE "Unlocked"]
    /\ UNCHANGED <<lock_state, lock_alive, lock_deadline, lock_surface, transition, frame, scanout>>

\* remove_output(), after the surface of the output was dropped. It ends by
\* checking whether the lock waited for this output.
LockRemoveOutput(o) ==
    LET left == Connected \ {o} IN
    /\ \/ /\ lock_state = "Locking"
          /\ lock_state' = IF AllLocked(left, lock_render) THEN "Locked" ELSE "Locking"
          /\ RemoveOutput(o)
          /\ UNCHANGED lock_deadline
       \/ /\ lock_state = "WaitingForSurfaces" /\ SurfacesReady(left, lock_surface)
          /\ ContinueToLocking(left)
          /\ RemoveOutputQueuing(o, left)
       \/ /\ lock_state # "Locking"
          /\ ~(lock_state = "WaitingForSurfaces" /\ SurfacesReady(left, lock_surface))
          /\ RemoveOutput(o)
          /\ UNCHANGED <<lock_state, lock_deadline>>
    /\ transition' = [transition EXCEPT ![o] = FALSE]
    /\ frame' = [frame EXCEPT ![o] = "none"]
    /\ scanout' = [scanout EXCEPT ![o] = "none"]
    /\ lock_surface' = [lock_surface EXCEPT ![o] = "none"]
    /\ lock_render' = [lock_render EXCEPT ![o] = "Unlocked"]
    /\ UNCHANGED lock_alive

LockDeactivateMonitors ==
    /\ DeactivateMonitors
    /\ frame' = [o \in Output |-> "none"]
    /\ scanout' = [o \in Output |-> "none"]
    /\ UNCHANGED <<lock_state, lock_alive, lock_deadline, lock_surface, lock_render, transition>>

\* Another session paints the screens.
LockPauseSession ==
    /\ PauseSession
    /\ scanout' = [o \in Output |-> "none"]
    /\ UNCHANGED <<lock_state, lock_alive, lock_deadline, lock_surface, lock_render, transition, frame>>

\* Mutant: resuming puts the session back on the screens.
ResumeShowsSession ==
    /\ ActivateSession
    /\ frame' = [o \in Output |-> "none"]
    /\ scanout' = [o \in Output |-> IF o \in Connected THEN "session" ELSE "none"]
    /\ UNCHANGED <<lock_state, lock_alive, lock_deadline, lock_surface, lock_render, transition>>

\* Resuming resets what the DRM compositor knows to be on the screens.
LockActivateSession ==
    /\ ActivateSession
    /\ frame' = [o \in Output |-> "none"]
    /\ UNCHANGED <<lock_state, lock_alive, lock_deadline, lock_surface, lock_render, transition, scanout>>

-----------------------------------------------------------------------------
(***************************************************************************)
(* Screen transitions.                                                     *)
(***************************************************************************)
\* do_screen_transition(), an action that a locked session ignores, on the
\* outputs whose picture could be taken. It queues no redraw.
DoScreenTransition ==
    /\ Transitions
    /\ Dispatching
    /\ ~is_locked
    /\ \E outputs \in SUBSET Connected :
         transition' = [o \in Output |-> o \in outputs \/ transition[o]]
    /\ UNCHANGED vars
    /\ UNCHANGED <<lock_state, lock_alive, lock_deadline, lock_surface, lock_render, frame, scanout>>

\* advance_animations() drops the transitions whose time is over, right before
\* the redraws.
LockEndDispatch ==
    /\ EndDispatch
    /\ \E done \in SUBSET Output :
         transition' = [o \in Output |-> transition[o] /\ o \notin done]
    /\ UNCHANGED <<lock_state, lock_alive, lock_deadline, lock_surface, lock_render, frame, scanout>>

-----------------------------------------------------------------------------
LockInit ==
    /\ Init
    /\ lock_state = "Unlocked"
    /\ lock_alive = FALSE
    /\ lock_deadline = FALSE
    /\ lock_surface = [o \in Output |-> "none"]
    /\ lock_render = [o \in Output |-> "Unlocked"]
    /\ transition = [o \in Output |-> FALSE]
    /\ frame = [o \in Output |-> "none"]
    /\ scanout = [o \in Output |-> "none"]

\* The steps of the redraw cycle that do not touch the lock.
CycleOnly ==
    /\ \/ EndRedraw
       \/ ActivateMonitors
       \/ \E o \in Output : QueueRedraw(o) \/ OnThrottleTimer(o) \/ OnEstimatedVBlankTimer(o)
    /\ UNCHANGED lockVars

LockNext ==
    \/ CycleOnly
    \/ LockEndDispatch
    \/ DoScreenTransition
    \/ Lock
    \/ LockDeadline
    \/ Unlock
    \/ LockClientDies
    \/ LockDeactivateMonitors
    \/ LockPauseSession
    \/ LockActivateSession
    \/ \E o \in Output : \/ \E res \in Results : LockRedraw(o, res)
                         \/ LockOnVBlank(o)
                         \/ NewLockSurface(o)
                         \/ CommitLockSurface(o)
                         \/ LockAddOutput(o)
                         \/ LockRemoveOutput(o)

LockSpec == LockInit /\ [][LockNext]_allVars

\* As in Redraw; the lock's deadline is one more timer.
LockFairness ==
    /\ WF_allVars(LockEndDispatch)
    /\ WF_allVars(EndRedraw /\ UNCHANGED lockVars)
    /\ SF_allVars(LockDeadline)
    /\ \A o \in Output :
         /\ WF_allVars(\E res \in Results : LockRedraw(o, res))
         /\ SF_allVars(LockOnVBlank(o))
         /\ SF_allVars(OnThrottleTimer(o) /\ UNCHANGED lockVars)
         /\ SF_allVars(OnEstimatedVBlankTimer(o) /\ UNCHANGED lockVars)

FairLockSpec == LockSpec /\ LockFairness

-----------------------------------------------------------------------------
(***************************************************************************)
(* Properties.                                                             *)
(***************************************************************************)
\* The types of the variables that the lock adds.
LockTypeOK ==
    /\ lock_state \in {"Unlocked", "WaitingForSurfaces", "Locking", "Locked"}
    /\ lock_alive \in BOOLEAN
    /\ lock_deadline \in BOOLEAN
    /\ lock_surface \in [Output -> {"none", "created", "mapped"}]
    /\ lock_render \in [Output -> {"Unlocked", "Locked"}]
    /\ transition \in [Output -> BOOLEAN]
    /\ frame \in [Output -> {"none", "session", "snapshot", "locked"}]
    /\ scanout \in [Output -> {"none", "session", "snapshot", "locked"}]

\* Every output of a locked session, those plugged in since included, has
\* rendered the lock, and the last frame it was given has no live session
\* contents. A client that replaces a dead lock is confirmed without a redraw
\* because of it (Niri::lock).
LockedMeansBlanked ==
    lock_state = "Locked" =>
       \A o \in Connected : lock_render[o] = "Locked" /\ frame[o] # "session"

\* An output whose lock render state is Locked does not have a session frame
\* as the last frame KMS was given, nor can one still be in flight.
LockRenderTruthful == \A o \in Connected : lock_render[o] = "Locked" => frame[o] # "session"

\* The one-second timer lives exactly as long as the wait for surfaces. One
\* that outlived it would cut a later lock's wait short.
DeadlineMatchesState == lock_deadline <=> lock_state = "WaitingForSurfaces"

\* A locked session never comes to show live session contents that it did not
\* show already.
LockedNeverReveals ==
    [][lock_state = "Locked" /\ lock_state' = "Locked" =>
         \A o \in Output : scanout'[o] = "session" => scanout[o] = "session"]_allVars

\* The lock of LockContract.
Contract == INSTANCE LockContract WITH
    lock    <- CASE lock_state = "Unlocked" -> "free"
                 [] lock_state = "Locked" -> "held"
                 [] OTHER -> "pending",
    alive   <- lock_alive,
    exposed <- {o \in Connected : frame[o] = "session"}

\* The lock state machine, its redraws and its outputs keep the contract: the
\* lock is granted only when no output's last frame shows the session, no frame
\* shows it while the lock is held, and only a live client gives it up, not
\* unplugging, a failed render, a VT switch or the client's death.
KeepsContract == Contract!Spec

\* The contract is kept and every request is decided: the client that asked is
\* told either locked or finished, although its surfaces never come, outputs
\* come and go and renders fail.
MeetsContract == Contract!FairSpec

\* Every screen of a locked session stops showing live session contents.
LockedIsShown ==
    \A o \in Output : (lock_state = "Locked" /\ o \in Connected)
                        ~> (scanout[o] # "session" \/ lock_state # "Locked" \/ o \notin Connected)
=============================================================================
