------------------------------ MODULE Keyboard ------------------------------
(***************************************************************************)
(* The way of a key through the compositor: State::on_keyboard with the    *)
(* modal interfaces that take keys for themselves (exit dialog, resize     *)
(* mode, screenshot UI, window switcher, overview), binds with their       *)
(* repeat timer, and what the focused client is told (input/mod.rs,        *)
(* niri.rs).                                                               *)
(*                                                                         *)
(* Binds are not fixed: the configuration can be reloaded between any two  *)
(* events, so a key may be bound to anything each time it is pressed. An   *)
(* action is a class of the code's actions that agree on everything seen   *)
(* here.                                                                   *)
(***************************************************************************)
EXTENDS Naturals, FiniteSets

CONSTANTS Key,          \* key codes
          Modifier,     \* the ones that are modifiers
          Escape, Return,
          MaxUnpaired   \* bound: how many keys may lose their pairing

ASSUME KeyAssumption ==
    /\ Modifier \subseteq Key /\ {Escape, Return} \subseteq Key \ Modifier
    /\ MaxUnpaired \in Nat

VARIABLES held,             \* keys that are down
          pressed,          \* keys the seat believes to be down (the xkb state)
          client_keys,      \* keys whose press was forwarded and not yet their release
          suppressed_keys,
          bind_repeat_timer, \* whether a bind is being repeated; which one is not kept
          ui,               \* the interfaces that are open
          lock,             \* "Unlocked", "Waiting", or "Locked" for is_locked()
          keyboard_focus,   \* as of the last refresh: "Overview" or "Other"
          has_output,
          stopped,          \* stop_signal
          unpaired          \* keys of which the seat missed a release or forgot a press

keyVars == <<held, pressed, client_keys, suppressed_keys, bind_repeat_timer, ui, lock,
             keyboard_focus, has_output, stopped, unpaired>>

Interface == {"exit", "resize", "screenshot", "mru", "overview"}

GeneralAction == {"Quit", "QuitNow", "ChangeVt", "Spawn", "Screenshot", 
                  "EnterResizeMode", "ToggleOverview", "MruAdvance", "Layout"}

MruAction == {"MruAdvance", "MruConfirm", "MruCancel", "Screenshot"}

Action == GeneralAction \union MruAction \union {"ConfirmScreenshot", "CancelScreenshot"}

is_locked == lock = "Locked"

\* "ChangeVt" stands for Suspend too, which acts on the keys in the same way.
allowed_when_locked(a) == a \in {"Quit", "QuitNow", "ChangeVt"}

\* "Layout" stands for the moves and resizes that the screenshot UI takes over.
allowed_during_screenshot(a) == a \in {"Quit", "QuitNow", "ChangeVt", "Spawn", "Layout"}

modifiers(keys) == keys \intersect Modifier

-----------------------------------------------------------------------------
(* What an action does to the interfaces. Opening one can fail: no renderer, *)
(* no window to switch to, the switcher turned off in the configuration.     *)

open_screenshot_ui ==
    IF ~has_output THEN {ui} ELSE {ui, ui \union {"screenshot"}}

cancel_mru(open) == open \ {"mru"}

ToggleOverview == IF "overview" \in ui THEN ui \ {"overview"} ELSE ui \union {"overview"}

MruAdvance == IF has_output THEN {ui, ui \union {"mru"}} ELSE {ui}

UiResults(a) ==
    CASE a = "Quit" -> {ui \union {"exit"}}
      [] a = "Screenshot" -> {cancel_mru(open) : open \in open_screenshot_ui}
      [] a \in {"ConfirmScreenshot", "CancelScreenshot"} -> {ui \ {"screenshot"}}
      [] a \in {"MruConfirm", "MruCancel"} -> {cancel_mru(ui)}
      [] a = "MruAdvance" -> MruAdvance
      [] a = "EnterResizeMode" -> {ui \union {"resize"}}
      [] a = "ToggleOverview" -> {ToggleOverview}
      [] OTHER -> {ui}

\* An action with the keys suppressed so far; hidden is what this event
\* closes when it has been handled. The releases after a change of the VT
\* may not come, so every key is forgotten.
do_action(a, suppressed, hidden) ==
    IF is_locked /\ ~allowed_when_locked(a)
    THEN /\ suppressed_keys' = suppressed
         /\ ui' = ui \ hidden
         /\ UNCHANGED <<stopped, unpaired>>
    ELSE /\ \E open \in UiResults(a) : ui' = open \ hidden
         /\ suppressed_keys' = IF a = "ChangeVt" THEN {} ELSE suppressed
         /\ unpaired' = IF a = "ChangeVt" THEN unpaired \union suppressed ELSE unpaired
         /\ Cardinality(unpaired') <= MaxUnpaired
         /\ stopped' = (stopped \/ a = "QuitNow")

\* A bind that is on cooldown does nothing.
handle_bind(a, suppressed, hidden) ==
    \/ do_action(a, suppressed, hidden)
    \/ /\ suppressed_keys' = suppressed
       /\ ui' = ui \ hidden
       /\ UNCHANGED <<stopped, unpaired>>

-----------------------------------------------------------------------------
(* Presses.                                                                 *)

\* A press hides the exit dialog if it was open before it (the hotkey overlay is
\* hidden in the same way and takes no part in anything else).
Hidden == ui \intersect {"exit"}

\* What the key may be bound to. The hardcoded VT switches come before all.
screenshot_action(k) == IF k = Escape THEN {"CancelScreenshot"} ELSE {"ConfirmScreenshot"}

Bindings == IF "mru" \in ui THEN MruAction ELSE GeneralAction

Bound(k) ==
    {"ChangeVt"} \union
    IF "screenshot" \in ui
    THEN {a \in Bindings : allowed_during_screenshot(a)} \union screenshot_action(k)
    ELSE Bindings

PressDown(k) ==
    /\ ~stopped /\ k \notin held
    /\ held' = held \union {k}
    /\ pressed' = pressed \union {k}
    /\ UNCHANGED <<lock, keyboard_focus, has_output>>

\* The exit dialog takes every press; Return confirms it.
PressInExitDialog(k) ==
    /\ "exit" \in ui
    /\ PressDown(k)
    /\ suppressed_keys' = suppressed_keys \union {k}
    /\ stopped' = (k = Return)
    /\ ui' = ui \ Hidden
    /\ UNCHANGED <<client_keys, bind_repeat_timer, unpaired>>

\* Resize mode takes every press; Escape leaves it, h and l move the master ratio.
PressInResizeMode(k) ==
    /\ "exit" \notin ui /\ "resize" \in ui
    /\ PressDown(k)
    /\ suppressed_keys' = suppressed_keys \union {k}
    /\ ui' = (IF k = Escape THEN ui \ {"resize"} ELSE ui) \ Hidden
    /\ UNCHANGED <<client_keys, bind_repeat_timer, stopped, unpaired>>

NoModal == ui \intersect {"exit", "resize"} = {}

\* Escape ends a pick or a drag-and-drop of the pointer, if there is one.
PressCancelsGrab(k) ==
    /\ NoModal /\ k = Escape
    /\ PressDown(k)
    /\ suppressed_keys' = suppressed_keys \union {k}
    /\ ui' = ui \ Hidden
    /\ UNCHANGED <<client_keys, bind_repeat_timer, stopped, unpaired>>

\* A bind that does not repeat leaves an earlier repeat running.
start_key_repeat == bind_repeat_timer' \in BOOLEAN

PressBound(k) ==
    /\ NoModal
    /\ PressDown(k)
    /\ \E a \in Bound(k) : handle_bind(a, suppressed_keys \union {k}, Hidden)
    /\ start_key_repeat
    /\ UNCHANGED client_keys

\* Keys of the overview that need no bind (Escape or Return closes it, the arrows
\* move the focus).
hardcoded_overview_bind(k) ==
    IF modifiers(pressed \union {k}) # {} THEN {}
    ELSE IF k \in {Escape, Return} THEN {"ToggleOverview"} ELSE {"Layout"}

PressInOverview(k) ==
    /\ NoModal /\ keyboard_focus = "Overview"
    /\ ~("screenshot" \in ui /\ k = Escape)
    /\ PressDown(k)
    /\ \E a \in hardcoded_overview_bind(k) : handle_bind(a, suppressed_keys \union {k}, Hidden)
    /\ IF k \in {Escape, Return} THEN UNCHANGED bind_repeat_timer ELSE start_key_repeat
    /\ UNCHANGED client_keys

\* Not bound, or bound and inhibited by the focused client.
PressForwarded(k) ==
    /\ NoModal
    /\ ~("screenshot" \in ui /\ k = Escape)
    /\ keyboard_focus = "Overview" => hardcoded_overview_bind(k) \in {{}, {"Layout"}}
    /\ PressDown(k)
    /\ client_keys' = client_keys \union {k}
    /\ ui' = ui \ Hidden
    /\ UNCHANGED <<suppressed_keys, bind_repeat_timer, stopped, unpaired>>

-----------------------------------------------------------------------------
(* Releases.                                                                *)

\* Mutant: resize mode swallows every event, releases too.
SwallowedInResizeMode(k) == k \in suppressed_keys \/ "resize" \in ui

\* A release goes where its press went, whatever is open now.
should_intercept_key(k) == k \in suppressed_keys

\* The release of the last modifier confirms the switcher.
Release(k) ==
    /\ ~stopped /\ k \in held
    /\ held' = held \ {k}
    /\ pressed' = pressed \ {k}
    /\ bind_repeat_timer' = FALSE
    /\ IF should_intercept_key(k)
       THEN suppressed_keys' = suppressed_keys \ {k} /\ UNCHANGED client_keys
       ELSE client_keys' = client_keys \ {k} /\ UNCHANGED suppressed_keys
    /\ ui' = IF "resize" \notin ui /\ modifiers(pressed \ {k}) = {} THEN cancel_mru(ui) ELSE ui
    /\ UNCHANGED <<lock, keyboard_focus, has_output, stopped, unpaired>>

\* External: the key is let go while another session has the keyboard.
LoseRelease(k) ==
    /\ k \in held
    /\ held' = held \ {k}
    /\ unpaired' = unpaired \union {k} /\ Cardinality(unpaired') <= MaxUnpaired
    /\ UNCHANGED <<pressed, client_keys, suppressed_keys, bind_repeat_timer, ui, lock,
                   keyboard_focus, has_output, stopped>>

-----------------------------------------------------------------------------
(* Everything else that acts on the same state.                             *)

Keys == <<held, pressed, client_keys>>

RepeatFires ==
    /\ ~stopped /\ bind_repeat_timer
    /\ \E a \in Action : handle_bind(a, suppressed_keys, {})
    /\ UNCHANGED <<Keys, bind_repeat_timer, lock, keyboard_focus, has_output>>

\* An action that a tool asks for through the socket.
IpcAction ==
    /\ ~stopped
    /\ \E a \in Action : do_action(a, suppressed_keys, {})
    /\ UNCHANGED <<Keys, bind_repeat_timer, lock, keyboard_focus, has_output>>

\* A press of a button, a touch or a scroll hides the overlays, and may confirm or
\* cancel the switcher or confirm the screenshot. A window that closes may be the
\* last one of the switcher, and an output that changes its size closes the screenshot.
PointerInput ==
    /\ ~stopped
    /\ \E closed \in SUBSET (ui \intersect {"mru", "screenshot"}) : ui' = ui \ (closed \union Hidden)
    /\ UNCHANGED <<Keys, suppressed_keys, bind_repeat_timer, lock, keyboard_focus, has_output,
                   stopped, unpaired>>

LockRequest ==
    /\ lock = "Unlocked"
    /\ IF has_output
       THEN lock' = "Waiting" /\ UNCHANGED ui
       ELSE lock' = "Locked" /\ ui' = ui \ {"screenshot"}
    /\ UNCHANGED <<Keys, suppressed_keys, bind_repeat_timer, keyboard_focus, has_output, stopped, unpaired>>

\* Mutant: the switcher stays open under the lock.
LockOverSwitcher ==
    /\ lock = "Waiting" /\ lock' = "Locked"
    /\ ui' = ui \ {"screenshot"}
    /\ UNCHANGED <<Keys, suppressed_keys, bind_repeat_timer, keyboard_focus, has_output, stopped, unpaired>>

continue_to_locking ==
    /\ lock = "Waiting" /\ lock' = "Locked"
    /\ ui' = cancel_mru(ui \ {"screenshot"})
    /\ UNCHANGED <<Keys, suppressed_keys, bind_repeat_timer, keyboard_focus, has_output, stopped, unpaired>>

unlock ==
    /\ lock # "Unlocked" /\ lock' = "Unlocked"
    /\ UNCHANGED <<Keys, suppressed_keys, bind_repeat_timer, ui, keyboard_focus, has_output, stopped, unpaired>>

\* The switcher is on one of the outputs, on the last one when it is the last.
OutputRemoved ==
    /\ has_output /\ has_output' \in BOOLEAN
    /\ ui' \in {cancel_mru(ui \ {"screenshot"})} \union IF has_output' THEN {ui \ {"screenshot"}} ELSE {}
    /\ lock' \in {lock} \union IF lock = "Waiting" /\ "mru" \notin ui' THEN {"Locked"} ELSE {}
    /\ UNCHANGED <<Keys, suppressed_keys, bind_repeat_timer, keyboard_focus, stopped, unpaired>>

OutputAdded ==
    /\ ~has_output /\ has_output' = TRUE
    /\ UNCHANGED <<Keys, suppressed_keys, bind_repeat_timer, ui, lock, keyboard_focus, stopped, unpaired>>

\* Who of layer surfaces and windows has the focus is the subject of Focus.
FocusResults ==
    IF is_locked \/ ~has_output \/ ui \intersect {"exit", "screenshot", "mru"} # {} \/ "overview" \notin ui
    THEN {"Other"}
    ELSE {"Other", "Overview"}

update_keyboard_focus ==
    /\ \E f \in FocusResults : f # keyboard_focus /\ keyboard_focus' = f
    /\ UNCHANGED <<Keys, suppressed_keys, bind_repeat_timer, ui, lock, has_output, stopped, unpaired>>

-----------------------------------------------------------------------------
KeyInit ==
    /\ held = {} /\ pressed = {} /\ client_keys = {} /\ suppressed_keys = {}
    /\ bind_repeat_timer = FALSE /\ ui = {} /\ lock = "Unlocked"
    /\ keyboard_focus = "Other" /\ has_output = TRUE /\ stopped = FALSE /\ unpaired = {}

KeyNext ==
    \/ \E k \in Key :
           \/ PressInExitDialog(k) \/ PressInResizeMode(k) \/ PressCancelsGrab(k)
           \/ PressBound(k) \/ PressInOverview(k) \/ PressForwarded(k)
           \/ Release(k) \/ LoseRelease(k)
    \/ RepeatFires \/ IpcAction \/ PointerInput
    \/ LockRequest \/ continue_to_locking \/ unlock
    \/ OutputRemoved \/ OutputAdded \/ update_keyboard_focus

KeySpec == KeyInit /\ [][KeyNext]_keyVars

-----------------------------------------------------------------------------
(* Properties.                                                              *)

KeyTypeOK ==
    /\ held \subseteq Key /\ pressed \subseteq Key /\ client_keys \subseteq Key
    /\ suppressed_keys \subseteq Key /\ unpaired \subseteq Key
    /\ bind_repeat_timer \in BOOLEAN
    /\ ui \subseteq Interface
    /\ lock \in {"Unlocked", "Waiting", "Locked"}
    /\ keyboard_focus \in {"Overview", "Other"}
    /\ has_output \in BOOLEAN /\ stopped \in BOOLEAN

\* Every key that is down belongs to exactly one side: its press went to the client,
\* who will get the release too, or to the compositor, who will keep it, whatever opens,
\* closes, locks or is rebound in between. Nothing is left behind of a key that is up: no
\* key is stuck in a client and no stale entry in suppressed_keys swallows a later release.
\* Keys whose release went to another session, or that were forgotten for that reason, are
\* exempt (on_keyboard, should_intercept_key).
KeysBalanced ==
    \A k \in Key \ unpaired :
        (k \in pressed) <=> ((k \in client_keys) # (k \in suppressed_keys))

\* Neither the screenshot UI nor the switcher, which show and focus windows of the
\* session, is open while it is locked, however the lock came about and whatever binds
\* repeat or tools ask for (continue_to_locking, lock, remove_output, do_action).
LockedClosesUis == is_locked => ui \intersect {"screenshot", "mru"} = {}
=============================================================================
