------------------------------ MODULE Pointer ------------------------------
(***************************************************************************)
(* Buttons, touches, touchpad gestures and the grabs they start            *)
(* (input/mod.rs and the *_grab.rs modules): who drives the gestures of    *)
(* the layout (interactive move and resize, workspace switch, overview)    *)
(* and who ends them, when windows close, outputs go, clients ask for a    *)
(* move, tools ask for a pick and interfaces open in the middle of one.    *)
(*                                                                         *)
(* The seat (its pressed buttons, its default grabs) is smithay's and is   *)
(* modelled from how the handlers use it. The horizontal view gesture is a *)
(* no-op of the master-stack engine whose update says that nothing is      *)
(* ongoing, so a grab that recognizes it ends at once.                     *)
(***************************************************************************)
EXTENDS Naturals, FiniteSets

CONSTANTS Window, Slot, NoWindow,
          MaxContacts     \* bound on buttons, fingers and swipes at a time

ASSUME PointerAssumption == NoWindow \notin Window /\ MaxContacts \in Nat

Button == {"Left", "Right", "Middle"}

VARIABLES held,               \* buttons that are down
          seat_pressed,       \* buttons the seat believes to be down
          suppressed_buttons,
          lost,               \* buttons whose release the seat was not told of
          slots,              \* touch points on the screen
          grab, touch_grab,
          layout,             \* the layout's gestures, see NewLayout
          swiping, gesture_swipe_3f_cumulative,
          overview_scroll_swipe_gesture,  \* a vertical one; a horizontal one does nothing
          ui,                 \* the window switcher and the screenshot UI, if open
          screenshot_button,  \* "Up", "Pointer" or the touch slot that selects
          picks,              \* requests for a pick that wait for an answer
          tip,                \* the tip of the tablet's pen is down
          has_output

pointerVars == <<held, seat_pressed, suppressed_buttons, lost, slots, grab, touch_grab, layout,
                 swiping, gesture_swipe_3f_cumulative, overview_scroll_swipe_gesture, ui,
                 screenshot_button, picks, tip, has_output>>

buttonVars == <<held, seat_pressed, suppressed_buttons, lost, tip>>
gestureVars == <<swiping, gesture_swipe_3f_cumulative, overview_scroll_swipe_gesture>>
uiVars == <<ui, screenshot_button>>

\* One more contact is within the bound.
AnotherContact ==
    Cardinality(held \union lost) + Cardinality(slots) + (IF swiping THEN 1 ELSE 0) + (IF tip THEN 1 ELSE 0)
        + (IF overview_scroll_swipe_gesture THEN 1 ELSE 0) < MaxContacts

-----------------------------------------------------------------------------
(* The gestures of the layout. A gesture that switches workspaces belongs to *)
(* a "grab", to the "touchpad", or to a "drag" near the edge of the screen.  *)

NewLayout ==
    [move |-> NoWindow, resizing |-> {}, switch |-> "none", dnd |-> FALSE,
     overview |-> FALSE, overview_gesture |-> FALSE,
     win |-> [w \in Window |-> "floating"]]

mapped(L) == {w \in Window : L.win[w] # "gone"}

dnd_scroll_gesture_begin(L) == IF L.overview THEN [L EXCEPT !.switch = "drag"] ELSE L

dnd_scroll_gesture_end(L) == IF L.switch = "drag" THEN [L EXCEPT !.switch = "none"] ELSE L

\* The gesture of one source; ending the one of a grab ends that of a drag too.
workspace_switch_gesture_end(L, source) ==
    IF L.switch = source \/ (L.switch = "drag" /\ source = "grab")
    THEN [L EXCEPT !.switch = "none"] ELSE L

workspace_switch_gesture_begin(L, source) == [L EXCEPT !.switch = source]

\* Switching to a workspace ends a gesture in favour of the animation; a drag keeps its own.
activate(L) == IF L.switch = "drag" THEN L ELSE [L EXCEPT !.switch = "none"]

\* Replaces a gesture by an animation.
toggle_overview(L) == [L EXCEPT !.overview = ~@, !.overview_gesture = FALSE]

overview_gesture_begin(L) == [L EXCEPT !.overview = TRUE, !.overview_gesture = TRUE]

overview_gesture_end(L) ==
    IF L.overview_gesture
    THEN {[L EXCEPT !.overview = o, !.overview_gesture = FALSE] : o \in BOOLEAN} ELSE {L}

\* Refused (the empty set) when a move is under way or the window is not on the output.
interactive_move_begin(L, w) ==
    IF L.move # NoWindow \/ L.win[w] = "gone" \/ ~has_output THEN {}
    ELSE {[dnd_scroll_gesture_begin(L) EXCEPT !.move = w, !.resizing = @ \ {w}]}

interactive_move_end(L, w) ==
    IF L.move = w THEN [dnd_scroll_gesture_end(L) EXCEPT !.move = NoWindow] ELSE L

\* Only floating windows, and one per workspace.
interactive_resize_begin(L, w) ==
    IF L.win[w] # "floating" \/ w \in L.resizing \/ L.move = w THEN {}
    ELSE {[L EXCEPT !.resizing = @ \union {w}]}

interactive_resize_end(L, w) == [L EXCEPT !.resizing = @ \ {w}]

toggle_window_floating(L, w) ==
    IF L.win[w] = "gone" THEN L
    ELSE [L EXCEPT !.win[w] = IF @ = "floating" THEN "tiled" ELSE "floating",
                   !.resizing = @ \ {w}]

dnd_update(L) == [(IF L.dnd THEN L ELSE dnd_scroll_gesture_begin(L)) EXCEPT !.dnd = TRUE]

dnd_end(L) == IF L.dnd THEN [dnd_scroll_gesture_end(L) EXCEPT !.dnd = FALSE] ELSE L

remove_window(L, w) ==
    [interactive_move_end(L, w) EXCEPT !.win[w] = "gone", !.resizing = @ \ {w}]

-----------------------------------------------------------------------------
(* Grabs: a grab is told when it is unset, whoever unsets it, and ends the   *)
(* gesture it drives.                                                        *)

NoGrab == [kind |-> "None"]

Grab(kind, gesture, w, by) == [kind |-> kind, gesture |-> gesture, win |-> w, by |-> by]

PickGrab == {"PickWindow", "PickColor"}

Drag == {"Click", "Move", "Spatial", "Resize", "Dnd"}

\* A click in the overview goes to the window and leaves the overview.
ActivateOnRelease(L, g) ==
    IF L.overview /\ has_output /\ (g.win # NoWindow => g.win \in mapped(L))
    THEN toggle_overview(L) ELSE L

on_ungrab(L, g) ==
    CASE g.kind \in {"Move", "Overview"} /\ g.gesture = "Recognizing" -> ActivateOnRelease(L, g)
      [] g.kind \in {"Move", "Overview"} /\ g.gesture = "Move" -> interactive_move_end(L, g.win)
      [] g.kind \in {"Spatial", "Overview"} /\ g.gesture = "WorkspaceSwitch" ->
             workspace_switch_gesture_end(L, "grab")
      [] g.kind = "Resize" -> interactive_resize_end(L, g.win)
      [] g.kind = "Dnd" -> dnd_end(L)
      [] OTHER -> L

\* A pick that ends without a choice is answered with nothing.
unset_grab(L) ==
    /\ grab' = NoGrab
    /\ layout' = on_ungrab(L, grab)
    /\ picks' = picks \ {grab.kind}

set_grab(L, g) ==
    /\ grab' = g
    /\ layout' = on_ungrab(L, grab)
    /\ picks' = picks \ {grab.kind}

keep_grab(L) == layout' = L /\ UNCHANGED <<grab, picks>>

\* What a frame of motion does to a move: the grab after it and the layout before the
\* grab is told that it ended, if it did. A window that has closed, or cannot be moved
\* any more, ends it, and a horizontal motion over a tiled one.
MoveFrame(L, g) ==
    IF g.gesture = "Recognizing"
    THEN {<<L, g>>}
         \union {<<m, [g EXCEPT !.gesture = "Move"]>> : m \in interactive_move_begin(L, g.win)}
         \union (IF interactive_move_begin(L, g.win) = {} \/ L.win[g.win] = "tiled"
                 THEN {<<L, NoGrab>>} ELSE {})
    ELSE {<<L, IF L.move = g.win THEN g ELSE NoGrab>>}

\* The second button, or the second finger, of a move.
on_toggle_floating(L, g) ==
    IF g.gesture = "Move" THEN {<<toggle_window_floating(L, g.win), g>>}
    ELSE {<<toggle_window_floating(m, g.win), [g EXCEPT !.gesture = "Move"]>> :
              m \in interactive_move_begin(L, g.win)}
         \union (IF interactive_move_begin(L, g.win) = {} THEN {<<L, NoGrab>>} ELSE {})

\* Going on with the outcome of one of these, which may be the end of the grab.
continue_with(r) ==
    IF r[2] = NoGrab THEN unset_grab(r[1])
    ELSE grab' = r[2] /\ layout' = r[1] /\ UNCHANGED picks

-----------------------------------------------------------------------------
(* Buttons.                                                                 *)

is_grabbed == grab # NoGrab

\* The release of a press that the compositor kept for itself.
SuppressedButton(b) ==
    /\ b \in held /\ b \in suppressed_buttons
    /\ held' = held \ {b}
    /\ suppressed_buttons' = suppressed_buttons \ {b}
    /\ lost' = IF b \in seat_pressed THEN lost \union {b} ELSE lost
    /\ UNCHANGED <<seat_pressed, tip, slots, grab, touch_grab, layout, gestureVars, uiVars, picks, has_output>>

PressDown(b) == b \notin held /\ AnotherContact /\ held' = held \union {b}

\* The press is not passed on to the seat.
Kept(b) == suppressed_buttons' = suppressed_buttons \union {b} /\ UNCHANGED <<seat_pressed, lost, tip>>

Unsent == UNCHANGED <<suppressed_buttons, seat_pressed, lost, tip>>

\* A click confirms or cancels the window switcher.
PressOnSwitcher(b) ==
    /\ PressDown(b) /\ "mru" \in ui /\ b = "Left"
    /\ Kept(b)
    /\ ui' = ui \ {"mru"}
    /\ UNCHANGED <<slots, grab, touch_grab, layout, gestureVars, screenshot_button, picks, has_output>>

\* What an action does here; each one cancels the touch first. Opening the screenshot
\* UI, which can fail, clears the grabs.
cancel_touch(L) == on_ungrab(L, touch_grab)

open_screenshot_ui(L) ==
    /\ has_output /\ "screenshot" \notin ui
    /\ ui' = (ui \union {"screenshot"}) \ {"mru"} /\ screenshot_button' = "Up"
    /\ unset_grab(L)

DoAction(before) ==
    LET L == cancel_touch(before)
    IN /\ touch_grab' = NoGrab
       /\ \/ open_screenshot_ui(L)
          \/ "screenshot" \in ui /\ ui' = ui \ {"screenshot"} /\ screenshot_button' = "Up" /\ keep_grab(L)
          \/ /\ has_output /\ ui' = IF "mru" \in ui THEN ui \ {"mru"} ELSE ui \union {"mru"}
             /\ keep_grab(L) /\ UNCHANGED screenshot_button
          \/ keep_grab(toggle_overview(L)) /\ UNCHANGED uiVars
          \/ \E w \in Window : keep_grab(toggle_window_floating(L, w)) /\ UNCHANGED uiVars

PressBind(b) ==
    /\ PressDown(b) /\ ("mru" \in ui => b # "Left")
    /\ Kept(b)
    /\ DoAction(layout)
    /\ UNCHANGED <<slots, gestureVars, has_output>>

\* Right in the overview scrolls the view, Mod+Middle scrolls or switches workspaces.
PressSpatial(b) ==
    /\ PressDown(b) /\ ~is_grabbed /\ has_output
    /\ \/ b = "Right" /\ layout.overview /\ set_grab(layout, Grab("Spatial", "ViewOffset", NoWindow, b))
       \/ b = "Middle" /\ set_grab(layout, Grab("Spatial", "Recognizing", NoWindow, b))
    /\ Unsent
    /\ UNCHANGED <<slots, touch_grab, gestureVars, uiVars, has_output>>

\* The second of two quick resize clicks on a tiled window resets its size.
PressDoubleClick(b) ==
    /\ PressDown(b) /\ ~is_grabbed /\ b = "Right"
    /\ \E w \in Window : layout.win[w] = "tiled"
    /\ Unsent
    /\ UNCHANGED <<slots, grab, touch_grab, layout, gestureVars, uiVars, picks, has_output>>

\* The press reaches the seat, which hands it to the grab, if there is one.
SeatPress(b) == seat_pressed' = seat_pressed \union {b} /\ lost' = lost \ {b} /\ UNCHANGED tip

\* A press on the screenshot UI starts a selection.
ScreenshotPress(b) ==
    IF b = "Left" /\ "screenshot" \in ui /\ screenshot_button = "Up"
    THEN screenshot_button' \in {"Up", "Pointer"} /\ UNCHANGED ui
    ELSE UNCHANGED uiVars

\* Left in the overview or with Mod moves the window, Mod+Right resizes it.
PressStartsGrab(b) ==
    /\ PressDown(b) /\ ~is_grabbed /\ has_output /\ ("mru" \in ui => b # "Left")
    /\ \E w \in mapped(layout) :
           \/ b = "Left" /\ set_grab(layout, Grab("Move", "Recognizing", w, b))
           \/ b = "Right" /\ \E L \in interactive_resize_begin(layout, w) :
                                 set_grab(L, Grab("Resize", "none", w, b))
    /\ SeatPress(b)
    /\ ScreenshotPress(b)
    /\ UNCHANGED <<suppressed_buttons, slots, touch_grab, gestureVars, has_output>>

\* Any other press. A click on a workspace of the overview leaves it. The client under
\* the pointer gets the seat's own grab; a pick is answered, and keeps the release.
PressForwarded(b) ==
    /\ PressDown(b) /\ ("mru" \in ui => b # "Left")
    /\ SeatPress(b)
    /\ ScreenshotPress(b)
    /\ \E L \in {layout} \union (IF layout.overview /\ has_output THEN {toggle_overview(layout)} ELSE {}) :
           CASE grab.kind = "None" -> set_grab(L, Grab("Click", "none", NoWindow, b))
             [] grab.kind \in PickGrab -> unset_grab(L)
             [] grab.kind = "Move" /\ b # grab.by /\ b # "Middle" ->
                    \E r \in on_toggle_floating(L, grab) : continue_with(r)
             [] OTHER -> keep_grab(L)
    /\ suppressed_buttons' = IF grab.kind \in PickGrab THEN suppressed_buttons \union {b} ELSE suppressed_buttons
    /\ UNCHANGED <<slots, touch_grab, gestureVars, has_output>>

\* Mutant: a drag outlives the release of the other button's press.
GrabIgnoresOthers(g, now) == CASE g.kind = "Move" -> g.by \notin now [] g.kind \in {"Click", "Dnd"} -> now = {} [] OTHER -> FALSE

\* A move ends with its own button, the others with the last one.
ReleaseEnds(g, now) ==
    CASE g.kind = "Move" -> g.by \notin now
      [] g.kind \in Drag -> now = {}
      [] OTHER -> FALSE

\* A release on the screenshot UI ends the selection or confirms it.
ScreenshotRelease(source) ==
    IF screenshot_button = source
    THEN screenshot_button' = "Up" /\ ui' \in {ui, ui \ {"screenshot"}}
    ELSE UNCHANGED uiVars

Release(b) ==
    /\ b \in held /\ b \notin suppressed_buttons
    /\ held' = held \ {b}
    /\ seat_pressed' = seat_pressed \ {b}
    /\ IF b = "Left" THEN ScreenshotRelease("Pointer") ELSE UNCHANGED uiVars
    /\ IF ReleaseEnds(grab, seat_pressed') THEN unset_grab(layout) ELSE keep_grab(layout)
    /\ UNCHANGED <<suppressed_buttons, lost, tip, slots, touch_grab, gestureVars, has_output>>

-----------------------------------------------------------------------------
(* Motion of the pointer. Without outputs there is none.                    *)

\* A drag of the middle button becomes a switch of workspaces when it goes up or down, and
\* goes on while nobody else has taken the gesture.
SpatialFrame(L, g) ==
    CASE g.gesture = "Recognizing" ->
             {<<L, g>>, <<L, NoGrab>>,
              <<workspace_switch_gesture_begin(L, "grab"), [g EXCEPT !.gesture = "WorkspaceSwitch"]>>}
      [] g.gesture = "ViewOffset" -> {<<L, NoGrab>>}
      [] OTHER -> {<<L, IF L.switch = "grab" THEN g ELSE NoGrab>>}

ResizeMotion(L, g) == {<<L, IF g.win \in L.resizing /\ L.move # g.win THEN g ELSE NoGrab>>}

Motion ==
    /\ has_output
    /\ \/ /\ grab.kind = "Move" /\ \E r \in MoveFrame(layout, grab) : continue_with(r)
       \/ /\ grab.kind = "Spatial" /\ \E r \in SpatialFrame(layout, grab) : continue_with(r)
       \/ /\ grab.kind = "Resize" /\ \E r \in ResizeMotion(layout, grab) : continue_with(r)
       \/ /\ grab.kind = "Dnd" /\ keep_grab(dnd_update(layout))
    /\ UNCHANGED <<buttonVars, slots, touch_grab, gestureVars, uiVars, has_output>>

\* The corner of the screen toggles the overview, unless a drag other than of a window
\* or of data is under way.
HotCorner ==
    /\ has_output
    /\ grab.kind \in {"None", "Dnd"} \/ (grab.kind = "Move" /\ grab.gesture = "Move")
    /\ keep_grab(toggle_overview(layout))
    /\ UNCHANGED <<buttonVars, slots, touch_grab, gestureVars, uiVars, has_output>>

-----------------------------------------------------------------------------
(* Touches.                                                                 *)

\* A touch grab goes on, is replaced or ends.
unset_touch_grab(L) == touch_grab' = NoGrab /\ layout' = on_ungrab(L, touch_grab)

touch_continue_with(r) ==
    IF r[2] = NoGrab THEN unset_touch_grab(r[1]) ELSE touch_grab' = r[2] /\ layout' = r[1]

keep_touch(L) == layout' = L /\ UNCHANGED touch_grab

TouchDownOn(s) ==
    CASE "screenshot" \in ui -> /\ screenshot_button' \in {screenshot_button} \union
                                       IF screenshot_button = "Up" THEN {s} ELSE {}
                                /\ UNCHANGED ui
      [] "mru" \in ui -> ui' = ui \ {"mru"} /\ UNCHANGED screenshot_button
      [] OTHER -> UNCHANGED uiVars

TouchDown(s) ==
    /\ s \notin slots /\ slots' = slots \union {s} /\ has_output /\ AnotherContact
    /\ TouchDownOn(s)
    /\ IF touch_grab = NoGrab
       THEN \/ /\ ui = {} /\ layout.overview
               /\ \E w \in mapped(layout) \union {NoWindow} : touch_grab' = Grab("Overview", "Recognizing", w, s)
               /\ UNCHANGED layout
            \/ /\ ui = {}
               /\ \E w \in mapped(layout) : touch_grab' = Grab("Move", "Recognizing", w, s)
               /\ UNCHANGED layout
            \/ touch_grab' = Grab("Click", "none", NoWindow, s) /\ UNCHANGED layout
       ELSE IF touch_grab.kind = "Move" /\ s # touch_grab.by
       THEN \E r \in on_toggle_floating(layout, touch_grab) : touch_continue_with(r)
       ELSE IF touch_grab.kind = "Overview" /\ touch_grab.gesture = "Move" /\ s # touch_grab.by
       THEN keep_touch(toggle_window_floating(layout, touch_grab.win))
       ELSE keep_touch(layout)
    /\ UNCHANGED <<buttonVars, grab, gestureVars, picks, has_output>>

TouchUp(s) ==
    /\ s \in slots /\ slots' = slots \ {s}
    /\ ScreenshotRelease(s)
    /\ IF touch_grab # NoGrab /\ IF touch_grab.kind \in {"Click", "Dnd"} THEN slots' = {} ELSE s = touch_grab.by
       THEN unset_touch_grab(layout) ELSE keep_touch(layout)
    /\ UNCHANGED <<buttonVars, grab, gestureVars, picks, has_output>>

\* Held still on a window it moves it, otherwise it scrolls or switches workspaces.
OverviewMotion(L, g) ==
    CASE g.gesture = "Recognizing" ->
             {<<L, g>>, <<L, NoGrab>>,
              <<workspace_switch_gesture_begin(L, "grab"), [g EXCEPT !.gesture = "WorkspaceSwitch"]>>}
             \union (IF g.win = NoWindow THEN {}
                     ELSE {<<m, [g EXCEPT !.gesture = "Move"]>> : m \in interactive_move_begin(L, g.win)})
      [] g.gesture = "WorkspaceSwitch" -> {<<L, IF L.switch = "grab" THEN g ELSE NoGrab>>}
      [] OTHER -> {<<L, IF L.move = g.win THEN g ELSE NoGrab>>}

TouchMotion ==
    /\ has_output
    /\ \/ /\ touch_grab.kind = "Move" /\ \E r \in MoveFrame(layout, touch_grab) : touch_continue_with(r)
       \/ /\ touch_grab.kind = "Overview" /\ \E r \in OverviewMotion(layout, touch_grab) : touch_continue_with(r)
       \/ /\ touch_grab.kind = "Resize" /\ \E r \in ResizeMotion(layout, touch_grab) : touch_continue_with(r)
       \/ /\ touch_grab.kind = "Dnd" /\ keep_touch(dnd_update(layout))
    /\ UNCHANGED <<buttonVars, slots, grab, gestureVars, uiVars, picks, has_output>>

TouchCancel ==
    /\ slots # {} /\ slots' = {}
    /\ unset_touch_grab(layout)
    /\ UNCHANGED <<buttonVars, grab, gestureVars, uiVars, picks, has_output>>

-----------------------------------------------------------------------------
(* The tablet. Its pen starts no grab.                                      *)

TipDown ==
    /\ ~tip /\ tip' = TRUE /\ AnotherContact /\ has_output
    /\ IF "mru" \in ui THEN ui' = ui \ {"mru"} /\ UNCHANGED screenshot_button ELSE ScreenshotPress("Left")
    /\ layout' \in IF ui = {} /\ layout.overview THEN {layout, toggle_overview(layout)} ELSE {layout}
    /\ UNCHANGED <<held, seat_pressed, suppressed_buttons, lost, slots, grab, touch_grab, gestureVars, picks, has_output>>

TipUp ==
    /\ tip /\ tip' = FALSE
    /\ ScreenshotRelease("Pointer")
    /\ UNCHANGED <<held, seat_pressed, suppressed_buttons, lost, slots, grab, touch_grab, layout, gestureVars, picks, has_output>>

-----------------------------------------------------------------------------
(* Touchpad gestures.                                                       *)

GestureOnly == UNCHANGED <<buttonVars, slots, grab, touch_grab, uiVars, picks, has_output>>

\* Not started while the window switcher is open. Three fingers are watched, four open the
\* overview, more are the client's.
on_gesture_swipe_begin ==
    /\ ~swiping /\ swiping' = TRUE /\ AnotherContact
    /\ IF "mru" \in ui THEN UNCHANGED <<gesture_swipe_3f_cumulative, layout>>
       ELSE \/ gesture_swipe_3f_cumulative' = TRUE /\ UNCHANGED layout
            \/ layout' = overview_gesture_begin(layout) /\ UNCHANGED gesture_swipe_3f_cumulative
            \/ UNCHANGED <<gesture_swipe_3f_cumulative, layout>>
    /\ UNCHANGED overview_scroll_swipe_gesture
    /\ GestureOnly

\* Far enough to tell the direction.
on_gesture_swipe_update ==
    /\ swiping /\ gesture_swipe_3f_cumulative
    /\ gesture_swipe_3f_cumulative' = FALSE
    /\ layout' \in {layout} \union IF has_output THEN {workspace_switch_gesture_begin(layout, "touchpad")} ELSE {}
    /\ UNCHANGED <<swiping, overview_scroll_swipe_gesture>>
    /\ GestureOnly

\* Mutant: the end of a swipe ends the first gesture it finds.
SwipeEndFirstOnly ==
    /\ swiping /\ swiping' = FALSE
    /\ gesture_swipe_3f_cumulative' = FALSE
    /\ IF layout.switch = "touchpad" THEN layout' = workspace_switch_gesture_end(layout, "touchpad")
       ELSE layout' \in overview_gesture_end(layout)
    /\ UNCHANGED overview_scroll_swipe_gesture
    /\ GestureOnly

on_gesture_swipe_end ==
    /\ swiping /\ swiping' = FALSE
    /\ gesture_swipe_3f_cumulative' = FALSE
    /\ layout' \in overview_gesture_end(workspace_switch_gesture_end(layout, "touchpad"))
    /\ UNCHANGED overview_scroll_swipe_gesture
    /\ GestureOnly

\* Two fingers scroll: in the overview up or down they switch workspaces; anywhere else they
\* end that, and may be bound to an action.
OverviewScrollEnd == workspace_switch_gesture_end(layout, "touchpad")

OverviewScroll ==
    /\ layout.overview
    /\ IF overview_scroll_swipe_gesture THEN layout' = OverviewScrollEnd
       ELSE /\ AnotherContact
            /\ layout' = IF has_output THEN workspace_switch_gesture_begin(layout, "touchpad") ELSE layout
    /\ overview_scroll_swipe_gesture' = ~overview_scroll_swipe_gesture
    /\ UNCHANGED <<swiping, gesture_swipe_3f_cumulative>>
    /\ GestureOnly

OtherScroll ==
    /\ overview_scroll_swipe_gesture /\ overview_scroll_swipe_gesture' = FALSE
    /\ \/ keep_grab(OverviewScrollEnd) /\ UNCHANGED <<touch_grab, uiVars>>
       \/ DoAction(OverviewScrollEnd)
    /\ UNCHANGED <<buttonVars, slots, swiping, gesture_swipe_3f_cumulative, has_output>>

\* A tick of the wheel goes to another workspace.
WheelInOverview ==
    /\ layout.overview
    /\ keep_grab(activate(cancel_touch(layout))) /\ touch_grab' = NoGrab
    /\ UNCHANGED <<buttonVars, slots, gestureVars, uiVars, has_output>>

-----------------------------------------------------------------------------
(* Requests of clients and tools, and the rest of the compositor.           *)

\* The client whose surface the button or the finger went down on asks for a move, a
\* resize or a drag-and-drop, perhaps when another one is already under way.
move_request ==
    /\ \E w \in mapped(layout) : has_output /\
         \/ /\ grab.kind \in {"Click", "Move", "Resize"}
            /\ set_grab(layout, Grab("Move", "Recognizing", w, grab.by)) /\ UNCHANGED touch_grab
         \/ /\ touch_grab.kind \in {"Click", "Move", "Resize"}
            /\ touch_grab' = Grab("Move", "Recognizing", w, touch_grab.by)
            /\ layout' = on_ungrab(layout, touch_grab) /\ UNCHANGED <<grab, picks>>
    /\ UNCHANGED <<buttonVars, slots, gestureVars, uiVars, has_output>>

resize_request ==
    /\ \E w \in mapped(layout) : \E L \in interactive_resize_begin(layout, w) :
         \/ /\ grab.kind \in {"Click", "Move", "Resize"}
            /\ set_grab(L, Grab("Resize", "none", w, grab.by)) /\ UNCHANGED touch_grab
         \/ /\ touch_grab.kind \in {"Click", "Move", "Resize"}
            /\ touch_grab' = Grab("Resize", "none", w, touch_grab.by)
            /\ layout' = on_ungrab(L, touch_grab) /\ UNCHANGED <<grab, picks>>
    /\ UNCHANGED <<buttonVars, slots, gestureVars, uiVars, has_output>>

dnd_requested ==
    /\ \/ grab.kind = "Click" /\ set_grab(layout, Grab("Dnd", "none", NoWindow, grab.by)) /\ UNCHANGED touch_grab
       \/ /\ touch_grab.kind = "Click"
          /\ touch_grab' = Grab("Dnd", "none", NoWindow, touch_grab.by) /\ UNCHANGED <<layout, grab, picks>>
    /\ UNCHANGED <<buttonVars, slots, gestureVars, uiVars, has_output>>

\* A tool asks for a pick: the grab is set first, which answers an earlier request.
Pick(kind) ==
    /\ grab' = Grab(kind, "none", NoWindow, "none")
    /\ layout' = on_ungrab(layout, grab)
    /\ picks' = (picks \ {grab.kind}) \union {kind}
    /\ UNCHANGED <<buttonVars, slots, touch_grab, gestureVars, uiVars, has_output>>

\* Escape.
CancelGrab ==
    /\ grab.kind \in PickGrab \union {"Dnd"}
    /\ unset_grab(layout)
    /\ UNCHANGED <<buttonVars, slots, touch_grab, gestureVars, uiVars, has_output>>

\* A bind of the keyboard or of the wheel, or a request of a tool.
Act ==
    /\ DoAction(layout)
    /\ UNCHANGED <<buttonVars, slots, gestureVars, has_output>>

Environment == UNCHANGED <<buttonVars, slots, grab, touch_grab, gestureVars, picks>>

\* A window closes or is hidden, and perhaps is shown again.
WindowGone(w) == w \in mapped(layout) /\ layout' = remove_window(layout, w) /\ UNCHANGED <<uiVars, has_output>> /\ Environment

WindowMapped(w) ==
    /\ w \notin mapped(layout)
    /\ \E s \in {"tiled", "floating"} : layout' = [layout EXCEPT !.win[w] = s]
    /\ UNCHANGED <<uiVars, has_output>> /\ Environment

\* A window or a tool asks for a workspace.
activate_workspace ==
    /\ layout' = activate(layout)
    /\ UNCHANGED <<uiVars, has_output>> /\ Environment

\* The scrolling at the edges starts and stops with the drag when the layout refreshes.
refresh ==
    /\ layout' = CASE ~layout.overview -> dnd_scroll_gesture_end(layout)
                   [] layout.overview /\ (layout.dnd \/ layout.move # NoWindow) -> dnd_scroll_gesture_begin(layout)
                   [] OTHER -> layout
    /\ UNCHANGED <<uiVars, has_output>> /\ Environment

OutputChange ==
    /\ has_output' = ~has_output
    /\ layout' = IF has_output THEN [layout EXCEPT !.switch = "none"] ELSE layout
    /\ ui' = {} /\ screenshot_button' = "Up"
    /\ Environment

-----------------------------------------------------------------------------
PointerInit ==
    /\ held = {} /\ seat_pressed = {} /\ suppressed_buttons = {} /\ lost = {} /\ slots = {}
    /\ grab = NoGrab /\ touch_grab = NoGrab /\ layout = NewLayout
    /\ swiping = FALSE /\ gesture_swipe_3f_cumulative = FALSE /\ overview_scroll_swipe_gesture = FALSE
    /\ ui = {} /\ screenshot_button = "Up" /\ picks = {} /\ tip = FALSE /\ has_output = TRUE

PointerNext ==
    \/ \E b \in Button :
           \/ SuppressedButton(b) \/ PressOnSwitcher(b) \/ PressBind(b) \/ PressSpatial(b)
           \/ PressDoubleClick(b) \/ PressStartsGrab(b) \/ PressForwarded(b) \/ Release(b)
    \/ Motion \/ HotCorner
    \/ \E s \in Slot : TouchDown(s) \/ TouchUp(s)
    \/ TouchMotion \/ TouchCancel \/ TipDown \/ TipUp
    \/ on_gesture_swipe_begin \/ on_gesture_swipe_update \/ on_gesture_swipe_end
    \/ OverviewScroll \/ OtherScroll \/ WheelInOverview
    \/ move_request \/ resize_request \/ dnd_requested
    \/ \E k \in PickGrab : Pick(k)
    \/ CancelGrab \/ Act
    \/ \E w \in Window : WindowGone(w) \/ WindowMapped(w)
    \/ activate_workspace \/ refresh \/ OutputChange

PointerSpec == PointerInit /\ [][PointerNext]_pointerVars

-----------------------------------------------------------------------------
(* Properties.                                                              *)

Grabs == {grab, touch_grab}

\* Every gesture of the layout has somebody who will end it: the move and the resize of a
\* window, and the switch of workspaces, a grab that is in that gesture or a drag, and the touchpad's
\* gestures a swipe or a scroll that is not over. A gesture that lost its grab would lock the
\* layout in it: no other move could start and the workspaces would stay between two
\* positions (on_ungrab of the grabs, on_gesture_swipe_end, on_pointer_axis, remove_window).
GesturesHaveDrivers ==
    /\ layout.move # NoWindow =>
           \E g \in Grabs : g.kind \in {"Move", "Overview"} /\ g.gesture = "Move" /\ g.win = layout.move
    /\ \A w \in layout.resizing : \E g \in Grabs : g.kind = "Resize" /\ g.win = w
    /\ layout.switch = "grab" => \E g \in Grabs : g.kind \in {"Spatial", "Overview"} /\ g.gesture = "WorkspaceSwitch"
    /\ layout.switch = "touchpad" => swiping \/ overview_scroll_swipe_gesture
    /\ layout.switch = "drag" => layout.dnd \/ layout.move # NoWindow
    /\ layout.overview_gesture => swiping

\* A drag ends at the latest with the last button, and nothing is left behind of a button that
\* is up that would swallow its next click, unless the seat was not told of a release because
\* a pick kept it (on_pointer_button, the button handlers of the grabs).
DragsEndWithButtons ==
    /\ suppressed_buttons \subseteq held
    /\ seat_pressed \subseteq held \union lost
    /\ grab.kind \in Drag =>
           held \ suppressed_buttons # {} \/ lost # {} \/ seat_pressed \intersect suppressed_buttons # {}

\* A tool that asked for a pick gets an answer: its request is open exactly while the grab
\* that will answer it is the pointer's (PickWindow and PickColor requests, on_ungrab).
PicksAnswered == \A k \in PickGrab : k \in picks <=> grab.kind = k

\* What only a grab will end has a grab that will.
GrabsMatchGestures == GesturesHaveDrivers /\ PicksAnswered
=============================================================================
