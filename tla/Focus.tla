------------------------------- MODULE Focus -------------------------------
(***************************************************************************)
(* The keyboard focus (State::update_keyboard_focus in niri.rs): what has  *)
(* it, among the user interfaces, the lock surface, the layer surfaces and *)
(* the windows; the popup grabs that clients ask for (XdgShellHandler::    *)
(* grab); the on-demand focus of layer surfaces, which the click, the map, *)
(* the pointer and the actions of do_action() set and clear.               *)
(*                                                                         *)
(* The focus is only computed when the event loop has handled the events   *)
(* of one turn, so every decision in between sees the focus of the turn    *)
(* before. Where a window is (workspace, column) is the layout's business: *)
(* here the layout has one focused window, or none.                        *)
(***************************************************************************)
EXTENDS Integers, Sequences, FiniteSetsExt

CONSTANTS Window, LayerSurface, Nobody

ASSUME FocusAssumption == Nobody \notin Window \union LayerSurface

\* Background behaves like Bottom; a Backdrop one is placed within the overview's backdrop.
Layer == {"Overlay", "Top", "Bottom", "Backdrop"}
Interactivity == {"None", "OnDemand", "Exclusive"}

VARIABLES windows, layout_focus,
          above_top,          \* the focused window is fullscreen and rendered above the top layer
          overview, has_output,
          layer,              \* the mapped layer surfaces, see NotMapped
          layer_shell_on_demand_focus,
          ui,                 \* which of "exit", "screenshot", "mru" are open
          locked, lock_surface,
          keyboard_focus, is_focused, popup_grab,
          turn,               \* what this turn of the event loop has seen: an "event"; history:
                              \* that the lock or the dialog with the focus has "freed" it
          slipped             \* history: the popup has got the keyboard in such a turn

focusVars == <<windows, layout_focus, above_top, overview, has_output, layer,
               layer_shell_on_demand_focus, ui, locked, lock_surface,
               keyboard_focus, is_focused, popup_grab, turn, slipped>>

published == <<keyboard_focus, is_focused>>
layoutVars == <<windows, layout_focus, above_top, has_output>>
uiVars == <<ui, locked, lock_surface, overview>>

\* A popup has the keyboard, and not for that surface.
Holds(grab, surface) == grab.keyboard /\ grab.root # surface

NotMapped == [layer |-> "none", interactivity |-> "None", here |-> FALSE]

NoPopup == [root |-> Nobody, keyboard |-> FALSE]

LockSurface == "lock surface"

Focus(kind, surface) == [kind |-> kind, surface |-> surface]

is_mapped(l) == layer[l].layer # "none"

-----------------------------------------------------------------------------
(* What has the focus: the first of a list of candidates.                   *)

layers_on(k) == {l \in LayerSurface : layer[l].layer = k /\ layer[l].here}

Shell(S) == {Focus("LayerShell", l) : l \in S}

grab_on_layer(S) ==
    Shell({l \in S : popup_grab.root = l /\ layer[l].interactivity # "None"})

excl_focus_on_layer(k) == Shell({l \in layers_on(k) : layer[l].interactivity = "Exclusive"})

on_d_focus_on_layer(on_demand, k) == Shell(layers_on(k) \intersect {on_demand})

FocusOfLayout == {Focus("Layout", w) : w \in windows \intersect {layout_focus}}

FirstOf(candidates) ==
    LET found == {i \in DOMAIN candidates : candidates[i] # {}}
    IN IF found = {} THEN Focus("Layout", Nobody) ELSE CHOOSE f \in candidates[Min(found)] : TRUE

FocusOnOutput(on_demand) ==
    FirstOf(<<grab_on_layer(layers_on("Overlay")), grab_on_layer(layers_on("Top")),
              IF overview THEN {} ELSE grab_on_layer(layers_on("Bottom") \union layers_on("Backdrop")),
              excl_focus_on_layer("Overlay"), on_d_focus_on_layer(on_demand, "Overlay")>>
            \o IF above_top
               THEN <<FocusOfLayout, excl_focus_on_layer("Top"), on_d_focus_on_layer(on_demand, "Top"),
                      excl_focus_on_layer("Bottom"), on_d_focus_on_layer(on_demand, "Bottom")>>
               ELSE <<excl_focus_on_layer("Top"), on_d_focus_on_layer(on_demand, "Top"),
                      IF overview THEN {Focus("Overview", Nobody)} ELSE {},
                      on_d_focus_on_layer(on_demand, "Bottom"), FocusOfLayout, excl_focus_on_layer("Bottom")>>)

lock_surface_focus == IF lock_surface /\ has_output THEN LockSurface ELSE Nobody

ComputedFocus(on_demand) ==
    CASE "exit" \in ui -> Focus("ExitConfirmDialog", Nobody)
      [] "exit" \notin ui /\ locked -> Focus("LockScreen", lock_surface_focus)
      [] ui = {"screenshot"} -> Focus("ScreenshotUi", Nobody)
      [] ui = {"mru"} -> Focus("Mru", Nobody)
      [] OTHER -> IF has_output THEN FocusOnOutput(on_demand) ELSE Focus("Layout", Nobody)

\* The on-demand focus is forgotten when its surface went away or changed its mind.
CleanOnDemand ==
    IF layer_shell_on_demand_focus # Nobody /\ layer[layer_shell_on_demand_focus].interactivity = "OnDemand"
          /\ layer[layer_shell_on_demand_focus].layer # "Backdrop"
    THEN layer_shell_on_demand_focus ELSE Nobody

\* The windows told that they have the focus, for their rules.
FocusFlags(new) ==
    (is_focused \ {keyboard_focus.surface}) \union
    IF new.kind = "Layout" THEN windows \intersect {new.surface} ELSE {}

\* A keyboard grab whose root is not what gets the focus is ended.
UngrabIfLost(grab, new) == IF Holds(grab, new.surface) THEN NoPopup ELSE grab

\* The end of a turn: State::refresh().
refresh ==
    LET on_demand == CleanOnDemand
        new == ComputedFocus(on_demand)
    IN /\ turn # {} /\ turn' = {}
       /\ layer_shell_on_demand_focus' = on_demand
       /\ IF new = keyboard_focus
          THEN UNCHANGED <<published, popup_grab, slipped>>
          ELSE /\ is_focused' = FocusFlags(new)
               /\ popup_grab' = UngrabIfLost(popup_grab, new)
               /\ keyboard_focus' = new
               /\ slipped' = FALSE
       /\ UNCHANGED <<layoutVars, layer, uiVars>>

-----------------------------------------------------------------------------
(* Popup grabs.                                                             *)

\* A layer surface above the windows has, or will get, the focus.
LayerAbove(k) ==
    \E l \in layers_on(k) : layer[l].interactivity = "Exclusive" \/ l = layer_shell_on_demand_focus

\* Mutant: the lock screen is not asked.
AllowedWhileLocked(root) ==
    IF root \in LayerSurface /\ layer[root].here THEN layer[root].layer # "Backdrop"
    ELSE layout_focus = root \/ (locked /\ root = lock_surface_focus)

\* Whether the grab may be handed out. The window switcher is not asked.
GrabAllowed(root) ==
    CASE "exit" \in ui -> FALSE
      [] "exit" \notin ui /\ locked -> root = lock_surface_focus
      [] "screenshot" \in ui /\ "exit" \notin ui /\ ~locked -> FALSE
      [] OTHER ->
             IF root \in LayerSurface /\ layer[root].here THEN has_output /\ layer[root].layer # "Backdrop"
             ELSE /\ has_output /\ root = layout_focus
                  /\ ~LayerAbove("Overlay") /\ (above_top \/ ~LayerAbove("Top"))

\* Somebody whose surface is shown asks. An input method that holds the keyboard keeps it,
\* and a layer surface without interactivity does not get it.
grab(root) ==
    /\ GrabAllowed(root)
    /\ \E ime \in BOOLEAN :
           popup_grab' = [root |-> root,
                          keyboard |-> ~ime /\ (root \in LayerSurface /\ layer[root].here
                                                    => layer[root].interactivity # "None")]
    /\ slipped' = ("freed" \in turn /\ Holds(popup_grab', LockSurface))
    /\ turn' = turn \union {"event"}
    /\ UNCHANGED <<layoutVars, layer, layer_shell_on_demand_focus, uiVars, published>>

\* The popup is dismissed by a click elsewhere or by its client. The grab that has ended is
\* dropped at the end of the turn, before the focus is computed: nothing looks at it until then.
PopupDone ==
    /\ popup_grab # NoPopup /\ popup_grab' = NoPopup /\ slipped' = FALSE
    /\ turn' = turn \union {"event"}
    /\ UNCHANGED <<layoutVars, layer, layer_shell_on_demand_focus, uiVars, published>>

-----------------------------------------------------------------------------
(* Events of the layout, the actions and the pointer. An action does not    *)
(* run while the session is locked.                                         *)

Event == turn' = turn \union {"event"} /\ UNCHANGED <<published, popup_grab, slipped>>

\* Another window gets the layout's focus, or none.
Refocus(S) ==
    /\ layout_focus' \in S
    /\ above_top' \in IF layout_focus' = Nobody \/ overview THEN {FALSE} ELSE BOOLEAN

SomeWindow == windows \union IF windows = {} THEN {Nobody} ELSE {}

Forget == layer_shell_on_demand_focus' = Nobody

KeepOnDemand == UNCHANGED layer_shell_on_demand_focus

NotLocked == ~locked /\ has_output

\* FocusColumnLeft and its like: the neighbour in the workspace, or on the next output.
FocusNeighbour == NotLocked /\ Refocus(SomeWindow) /\ Forget /\ UNCHANGED <<windows, has_output, layer, uiVars>> /\ Event

FocusWorkspace ==
    /\ NotLocked /\ Refocus(windows \union {Nobody}) /\ Forget
    /\ UNCHANGED <<windows, has_output, layer, uiVars>> /\ Event

\* Another output becomes the active one, with its layer surfaces.
OtherOutput == layer' = [l \in LayerSurface |-> [layer[l] EXCEPT !.here = is_mapped(l) /\ ~@]]

FocusMonitor ==
    /\ NotLocked /\ Refocus(windows \union {Nobody}) /\ Forget /\ OtherOutput
    /\ UNCHANGED <<windows, has_output, uiVars>> /\ Event

\* FocusFloating, FocusTiling and SwitchFocusBetweenFloatingAndTiling.
FocusFloating == NotLocked /\ Refocus(SomeWindow) /\ KeepOnDemand /\ UNCHANGED <<windows, has_output, layer, uiVars>> /\ Event

\* A window is sent away, and the focus goes with it or stays.
MoveToWorkspace ==
    /\ NotLocked /\ layout_focus # Nobody /\ Refocus(windows \union {Nobody}) /\ KeepOnDemand
    /\ UNCHANGED <<windows, has_output, layer, uiVars>> /\ Event

\* The focused window goes to another output, which becomes the active one.
MoveWindowToMonitor ==
    /\ NotLocked /\ layout_focus # Nobody /\ Refocus({layout_focus}) /\ OtherOutput /\ KeepOnDemand
    /\ UNCHANGED <<windows, has_output, uiVars>> /\ Event

MoveWorkspaceToMonitor ==
    /\ NotLocked /\ Refocus({layout_focus}) /\ OtherOutput /\ KeepOnDemand
    /\ UNCHANGED <<windows, has_output, uiVars>> /\ Event

\* A window becomes fullscreen or not.
Fullscreen ==
    /\ Refocus({layout_focus}) /\ KeepOnDemand
    /\ UNCHANGED <<windows, has_output, layer, uiVars>> /\ Event

\* A window asks to be activated, a tool activates one, or data is dropped on one.
request_activation ==
    /\ \E w \in windows : Refocus({w})
    /\ Forget /\ UNCHANGED <<windows, has_output, layer, uiVars>> /\ Event

\* The window switcher's choice, and FocusWindow of a tool.
focus_window ==
    /\ NotLocked /\ \E w \in windows : Refocus({w})
    /\ KeepOnDemand /\ UNCHANGED <<windows, has_output, layer, uiVars>> /\ Event

\* The lock screen and the user interfaces cover what is below the pointer.
Uncovered == has_output /\ ~locked /\ ui = {}

\* A click on a layer surface, on a window or elsewhere.
focus_layer_surface_if_on_demand ==
    /\ \/ /\ Uncovered
          /\ \E l \in LayerSurface :
                 /\ layer[l].here
                 /\ layer_shell_on_demand_focus' = IF layer[l].interactivity = "OnDemand" THEN l ELSE Nobody
          /\ UNCHANGED <<layout_focus, above_top>>
       \/ Uncovered /\ Refocus(SomeWindow) /\ Forget
       \/ Forget /\ UNCHANGED <<layout_focus, above_top>>
    /\ UNCHANGED <<windows, has_output, layer, uiVars>> /\ Event

\* The pointer enters a window or a layer surface, whatever its interactivity. A popup's grab
\* holds the pointer.
handle_focus_follows_mouse ==
    /\ Uncovered /\ popup_grab = NoPopup
    /\ \/ ~overview /\ Refocus(SomeWindow) /\ Forget
       \/ /\ \E l \in LayerSurface : layer[l].here /\ layer_shell_on_demand_focus' = l
          /\ UNCHANGED <<layout_focus, above_top>>
    /\ UNCHANGED <<windows, has_output, layer, uiVars>> /\ Event

\* A new window, activated or not. A surface that was unmapped has to wait for its next
\* configure, which is sent at the end of a turn.
WindowMapped(w) ==
    /\ w \notin windows /\ keyboard_focus.surface # w /\ windows' = windows \union {w}
    /\ layout_focus' \in (IF layout_focus = Nobody THEN {w} ELSE {layout_focus, w})
    /\ UNCHANGED above_top
    /\ layer_shell_on_demand_focus' = IF layout_focus' = w /\ has_output THEN Nobody ELSE layer_shell_on_demand_focus
    /\ UNCHANGED <<has_output, layer, uiVars>> /\ Event

WindowUnmapped(w) ==
    /\ w \in windows /\ windows' = windows \ {w}
    /\ IF layout_focus = w
       THEN layout_focus' \in windows' \union {Nobody} /\ above_top' = FALSE
       ELSE UNCHANGED <<layout_focus, above_top>>
    /\ is_focused' = is_focused \ {w}
    /\ turn' = turn \union {"event"}
    /\ UNCHANGED <<has_output, layer, layer_shell_on_demand_focus, uiVars, keyboard_focus, popup_grab, slipped>>

\* A commit maps a layer surface, which gets the on-demand focus if it is of that kind, or
\* changes it.
layer_shell_handle_commit(l) ==
    /\ has_output
    /\ \E k \in Layer, i \in Interactivity :
           /\ layer' = [layer EXCEPT ![l] = [layer |-> k, interactivity |-> i,
                                             here |-> IF is_mapped(l) THEN @.here ELSE TRUE]]
           /\ layer_shell_on_demand_focus' = IF ~is_mapped(l) /\ i = "OnDemand" THEN l ELSE layer_shell_on_demand_focus
    /\ UNCHANGED <<layoutVars, uiVars>> /\ Event

layer_destroyed(l) ==
    /\ is_mapped(l) /\ layer' = [layer EXCEPT ![l] = NotMapped]
    /\ KeepOnDemand /\ UNCHANGED <<layoutVars, uiVars>> /\ Event

-----------------------------------------------------------------------------
(* The user interfaces and the lock.                                        *)

UiEvent == turn' = turn \union {"event"} /\ UNCHANGED <<published, popup_grab, slipped>>

\* The exit dialog or the lock gives the focus up.
Frees(kind) ==
    /\ turn' = turn \union {"event"} \union IF keyboard_focus.kind = kind THEN {"freed"} ELSE {}
    /\ UNCHANGED <<published, popup_grab, slipped>>

ToggleUi ==
    /\ \/ "exit" \in ui /\ ui' = ui \ {"exit"} /\ Frees("ExitConfirmDialog")
       \/ "exit" \notin ui /\ ui' = ui \union {"exit"} /\ UiEvent
       \/ NotLocked /\ "screenshot" \notin ui /\ ui' = {"screenshot"} \union (ui \intersect {"exit"}) /\ UiEvent
       \/ NotLocked /\ windows # {} /\ ui \intersect {"mru", "screenshot"} = {} /\ ui' = ui \union {"mru"} /\ UiEvent
       \/ \E u \in ui \ {"exit"} : ui' = ui \ {u} /\ UiEvent
    /\ UNCHANGED <<layoutVars, layer, layer_shell_on_demand_focus, locked, lock_surface, overview>>

ToggleOverview ==
    /\ NotLocked /\ overview' = ~overview /\ above_top' = FALSE
    /\ UNCHANGED <<windows, layout_focus, has_output, layer, layer_shell_on_demand_focus, ui, locked, lock_surface>> /\ UiEvent

\* A lock that has waited for its surfaces takes, with those that came in time, and closes
\* the other interfaces. Without outputs it takes at once. The wait itself is SessionLock's.
lock ==
    /\ ~locked /\ locked' = TRUE
    /\ lock_surface' \in IF has_output THEN BOOLEAN ELSE {FALSE}
    /\ ui' = ui \intersect {"exit"}
    /\ UNCHANGED <<layoutVars, layer, layer_shell_on_demand_focus, overview>> /\ UiEvent

\* The output that has the focus gets its surface, or is one without.
new_lock_surface ==
    /\ locked /\ has_output /\ lock_surface' = ~lock_surface
    /\ UNCHANGED <<layoutVars, layer, layer_shell_on_demand_focus, ui, locked, overview>> /\ UiEvent

unlock ==
    /\ locked /\ locked' = FALSE /\ lock_surface' = FALSE
    /\ UNCHANGED <<layoutVars, layer, layer_shell_on_demand_focus, ui, overview>> /\ Frees("LockScreen")

\* The last output goes, its layer surfaces are closed and a lock waits no longer; or one comes back.
OutputChange ==
    /\ has_output' = ~has_output /\ layer' = [l \in LayerSurface |-> NotMapped]
    /\ layout_focus' \in IF has_output THEN {Nobody} ELSE windows \union {Nobody}
    /\ above_top' = FALSE /\ ui' = ui \intersect {"exit"} /\ lock_surface' = FALSE
    /\ \/ UNCHANGED locked /\ UiEvent
       \/ has_output /\ ~locked /\ locked' = TRUE /\ UiEvent
    /\ UNCHANGED <<windows, layer_shell_on_demand_focus, overview>>

-----------------------------------------------------------------------------
FocusInit ==
    /\ windows = {} /\ layout_focus = Nobody /\ above_top = FALSE /\ overview = FALSE /\ has_output = TRUE
    /\ layer = [l \in LayerSurface |-> NotMapped] /\ layer_shell_on_demand_focus = Nobody
    /\ ui = {} /\ locked = FALSE /\ lock_surface = FALSE
    /\ keyboard_focus = Focus("Layout", Nobody) /\ is_focused = {} /\ popup_grab = NoPopup
    /\ turn = {} /\ slipped = FALSE

FocusNext ==
    \/ refresh
    \/ \E root \in windows \union {l \in LayerSurface : is_mapped(l)} \union (IF lock_surface THEN {LockSurface} ELSE {}) :
           grab(root)
    \/ PopupDone
    \/ FocusNeighbour \/ FocusWorkspace \/ FocusMonitor \/ FocusFloating \/ MoveToWorkspace
    \/ MoveWindowToMonitor \/ MoveWorkspaceToMonitor \/ Fullscreen \/ request_activation \/ focus_window
    \/ focus_layer_surface_if_on_demand \/ handle_focus_follows_mouse
    \/ \E w \in Window : WindowMapped(w) \/ WindowUnmapped(w)
    \/ \E l \in LayerSurface : layer_shell_handle_commit(l) \/ layer_destroyed(l)
    \/ ToggleUi \/ ToggleOverview \/ lock \/ new_lock_surface \/ unlock \/ OutputChange

FocusSpec == FocusInit /\ [][FocusNext]_focusVars

-----------------------------------------------------------------------------
(* Properties.                                                              *)

\* Once a turn is over, the keyboard of a locked session is the lock surface's: no popup grab
\* that another client got before or in the turn of the lock is left, however the requests,
\* the lock and the interfaces interleave (grab, update_keyboard_focus). Except a grab got
\* while the lock or the exit dialog had let go of the focus within a turn: the focus is the
\* same at both ends of that turn, and the code does not look at the grab.
LockedKeyboard == turn = {} /\ locked /\ ~slipped => ~Holds(popup_grab, LockSurface)

\* Once a turn is over, exactly the window with the keyboard focus believes to be focused,
\* whatever the focus went to in between: its window rules, the border and the tools depend on
\* it (set_is_focused in update_keyboard_focus).
FocusFlagsTruthful ==
    turn = {} => is_focused = IF keyboard_focus.kind = "Layout" THEN {keyboard_focus.surface} \ {Nobody} ELSE {}

\* Who has the keyboard, and who believes to have it, after each turn.
KeyboardFocusIsTrue == LockedKeyboard /\ FocusFlagsTruthful
=============================================================================
