------------------------------ MODULE Screenshot ------------------------------
(***************************************************************************)
(* The screenshot interface (ui/screenshot_ui.rs): a selection on one of   *)
(* the outputs that were captured when it opened, which the mouse, fingers *)
(* and keys draw, move and resize, and the handlers that feed it           *)
(* (input/mod.rs, niri.rs).                                                *)
(*                                                                         *)
(* Of the plane the model keeps one axis; the other is treated alike.      *)
(* Points and selections are in physical pixels of an output, the hands in *)
(* logical pixels of the space that the outputs share.  What is captured,  *)
(* the help panel but for its button, and the pointer in the picture are   *)
(* left out; a pen acts as the mouse does.  Where the mouse points between *)
(* its events is not kept: it may be anywhere.                             *)
(***************************************************************************)
EXTENDS Integers, FiniteSets

CONSTANTS
    None,           \* no selection, no slot, no move
    Screen,         \* the outputs
    Loc, Factor,    \* of each output: its first logical pixel and its scale
    Modes,          \* of each output: the sizes it may have
    ButtonAt,       \* of each output: the points of its capture button
    Finger,         \* the touch slots
    Spot,           \* bound: the logical pixels where hands are
    Stride,         \* DIRECTIONAL_MOVE_PX
    Grown,          \* half the size of the selection that a click leaves
    Shots           \* bound: how often the interface opens

ASSUME ScreenshotAssumption ==
    /\ None \notin Screen \cup Finger
    /\ \A s \in Screen : Modes[s] \subseteq Nat \ {0, 1} /\ Factor[s] \in Nat \ {0}

VARIABLES
    plugged,        \* the outputs that are connected
    mode,           \* the size of each output
    shot,           \* ScreenshotUi
    hands,          \* what is down: "mouse" and fingers
    gone,           \* history: fingers whose touch was cancelled under the open interface
    space,          \* whether the Space key is down
    shots           \* how often the interface has opened (Shots)

shotVars == <<plugged, mode, shot, hands, gone, space, shots>>
handVars == <<hands, gone, space>>
screenVars == <<plugged, mode>>

Least(x, y) == IF x <= y THEN x ELSE y
Most(x, y) == IF x >= y THEN x ELSE y
Within(x, lo, hi) == Most(lo, Least(x, hi))

\* To the nearest, for what is not negative.
Rounded(a, b) == (2 * a + b) \div (2 * b)

-----------------------------------------------------------------------------
(* The selection: two corners on an output; both are part of it.           *)

rect_from_corner_points(a, b) == [lo |-> Least(a, b), len |-> Most(a, b) - Least(a, b) + 1]
Area(sel) == rect_from_corner_points(sel.a, sel.b)
Selection(s, lo, len) == [screen |-> s, a |-> lo, b |-> lo + len - 1]

Inside(area, size) == area.lo >= 0 /\ area.lo + area.len <= size
DefaultSelection(s, size) == Selection(s, size \div 4, size \div 2)

\* What every change ends with: a selection that left its output is reset to the default.
update_buffers(ui) ==
    LET size == ui.data[ui.sel.screen]
    IN IF Inside(Area(ui.sel), size) THEN ui
       ELSE [ui EXCEPT !.sel = DefaultSelection(ui.sel.screen, size)]

Closed(last) == [open |-> FALSE, last |-> last]
is_open == shot.open
Up == [down |-> FALSE]

\* The interface over the outputs that were captured, at the last selection if its output
\* is one of them.
open(last, captured, default) ==
    update_buffers(
        [open   |-> TRUE,
         data   |-> [s \in captured |-> mode[s]],
         sel    |-> IF last # None /\ last.screen \in captured
                    THEN Selection(last.screen, last.lo, last.len)
                    ELSE DefaultSelection(default, mode[default]),
         button |-> Up])

close(ui) ==
    IF ui.open
    THEN Closed([screen |-> ui.sel.screen, lo |-> Area(ui.sel).lo, len |-> Area(ui.sel).len])
    ELSE ui

Moved(ui, delta) == update_buffers([ui EXCEPT !.sel.a = @ + delta, !.sel.b = @ + delta])

move_left(ui) ==
    Moved(ui, -Least(Stride * Factor[ui.sel.screen], Least(ui.sel.a, ui.sel.b)))

move_right(ui) ==
    Moved(ui, Least(Stride * Factor[ui.sel.screen],
                    ui.data[ui.sel.screen] - Most(ui.sel.a, ui.sel.b) - 1))

\* The relative position and the logical size are kept where they fit.
move_to_output(ui, s) ==
    LET here == ui.data[ui.sel.screen]
        there == ui.data[s]
        area == Area(ui.sel)
        len  == Within(Rounded(area.len * Factor[s], Factor[ui.sel.screen]), 1, there)
        lo   == Within(Rounded(area.lo * there, here), 0, there - len)
    IN IF s = ui.sel.screen \/ s \notin DOMAIN ui.data THEN ui
       ELSE update_buffers([ui EXCEPT !.sel = Selection(s, lo, len)])

\* The width a SizeChange asks for; proportions in quarters.
Asked(ui, change) ==
    LET size == ui.data[ui.sel.screen]
        len  == Area(ui.sel).len
    IN CASE change.kind = "SetFixed" -> change.by * Factor[ui.sel.screen]
         [] change.kind = "SetProportion" -> Rounded(size * Within(change.by, 0, 4), 4)
         [] change.kind = "AdjustFixed" -> len + change.by * Factor[ui.sel.screen]
         [] change.kind = "AdjustProportion" -> Rounded(Within(4 * len + size * change.by, 0, 4 * size), 4)

set_width(ui, change) ==
    LET lo == Area(ui.sel).lo
    IN update_buffers([ui EXCEPT
          !.sel = Selection(@.screen, lo, Within(Asked(ui, change), 1, ui.data[@.screen] - lo))])

-----------------------------------------------------------------------------
(* The button: what draws or moves the selection.                          *)

Pressed(slot, on_capture, s, point, move) ==
    [down |-> TRUE, slot |-> slot, on_capture |-> on_capture, screen |-> s, last |-> point,
     move |-> move]

Move(offset, slot) == [offset |-> offset, slot |-> slot]

\* Moves hold on to the point of the selection that the hand was at.
set_space_down(ui, down) ==
    CASE ~ui.open -> ui
      [] ui.open /\ ~ui.button.down -> ui
      [] OTHER ->
            IF down THEN IF ui.button.move = None
                         THEN [ui EXCEPT !.button.move = Move(ui.button.last - ui.sel.a, None)]
                         ELSE ui
            ELSE IF ui.button.move # None /\ ui.button.move.slot = None
                 THEN [ui EXCEPT !.button.move = None]
                 ELSE ui

\* Mutant: a move may leave the output.
MovedFreely(ui, point) ==
    LET delta == point - (ui.sel.a + ui.button.move.offset) IN Moved(ui, delta)

\* The selection follows a hand that moves it, up to the edges of the output.
MovedTo(ui, point) ==
    LET delta == point - (ui.sel.a + ui.button.move.offset)
        area  == Area(ui.sel)
        lo    == Within(area.lo + delta, 0, ui.data[ui.sel.screen] - area.len)
    IN Moved(ui, lo - area.lo)

\* A point may be outside the output.
pointer_motion(ui, point, slot) ==
    LET at   == [ui EXCEPT !.button.last = point]
        size == ui.data[ui.sel.screen]
    IN CASE ~ui.open -> ui
         [] ui.open /\ ~ui.button.down -> ui
         [] ui.open /\ ui.button.down /\ ui.button.slot # slot -> ui
         [] OTHER ->
               IF ui.button.on_capture THEN at
               ELSE IF ui.button.move # None THEN MovedTo(at, point)
               ELSE update_buffers([at EXCEPT !.sel.b = Within(point, 0, size - 1)])

\* A second finger on a drag moves the selection for as long as it stays.
SecondTouch(ui, slot) ==
    IF slot # None /\ ui.button.down /\ ~ui.button.on_capture /\ ui.button.move = None
    THEN [ui EXCEPT !.button.move = Move(ui.button.last - ui.sel.a, slot)]
    ELSE ui

PressedOn(ui, s, point, slot) ==
    LET edge == Within(point, 0, ui.data[s] - 1)
    IN IF point \in ButtonAt[s]
       THEN [ui EXCEPT !.button = Pressed(slot, TRUE, s, point, None)]
       ELSE update_buffers([ui EXCEPT !.button = Pressed(slot, FALSE, s, point, None),
                                      !.sel = Selection(s, edge, 1)])

pointer_down(ui, s, point, slot, move_existing) ==
    CASE ui.button.down -> SecondTouch(ui, slot)
      [] ~ui.button.down /\ move_existing ->
            IF s # ui.sel.screen THEN ui
            ELSE [ui EXCEPT !.button = Pressed(slot, FALSE, s, point, Move(point - ui.sel.a, slot))]
      [] OTHER -> IF s \in DOMAIN ui.data THEN PressedOn(ui, s, point, slot) ELSE ui

\* A click leaves a small selection around it.
AtLeast(ui) ==
    LET area == Area(ui.sel)
        lo   == Most(area.lo - Grown, 0)
        end  == Least(area.lo + Grown, ui.data[ui.sel.screen])
    IN IF area.len > 1 THEN ui ELSE [ui EXCEPT !.sel = Selection(@.screen, lo, end - lo)]

\* Whether letting go of the button takes the screenshot.
Captures(ui, slot) ==
    /\ ui.open /\ ui.button.down
    /\ ui.button.slot = slot /\ ui.button.on_capture
    /\ ui.button.last \in ButtonAt[ui.button.screen]

\* Mutant: the second finger's move outlives it.
SecondTouchForgotten(ui, slot) ==
    IF ~ui.open THEN ui
    ELSE IF ~ui.button.down \/ ui.button.slot # slot THEN ui
    ELSE update_buffers(AtLeast([ui EXCEPT !.button = Up]))

pointer_up(ui, slot) ==
    CASE ~ui.open -> ui
      [] ui.open /\ ~ui.button.down -> ui
      [] ui.open /\ ui.button.down /\ ui.button.slot # slot ->
            IF ui.button.move # None /\ slot # None /\ ui.button.move.slot = slot
            THEN [ui EXCEPT !.button.move = None]
            ELSE ui
      [] OTHER -> update_buffers(AtLeast([ui EXCEPT !.button = Up]))

-----------------------------------------------------------------------------
(* The handlers.                                                            *)

\* A logical pixel as a point of an output.
PointOn(s, spot) == (spot - Loc[s]) * Factor[s]

OutputUnder(spot) ==
    {s \in plugged : Loc[s] <= spot /\ (spot - Loc[s]) * Factor[s] < mode[s]}

ShotInit ==
    /\ plugged = Screen /\ mode \in {m \in [Screen -> UNION {Modes[s] : s \in Screen}] :
                                        \A s \in Screen : m[s] \in Modes[s]}
    /\ shot = Closed(None) /\ hands = {} /\ gone = {} /\ space = FALSE /\ shots = 0

\* The default is the output under the cursor, or else the active one: any.  Bound: no
\* output fails to be captured.
open_screenshot_ui(default) ==
    /\ ~is_open /\ shots < Shots /\ shots' = shots + 1
    /\ default \in plugged
    /\ shot' = open(shot.last, plugged, default) /\ gone' = {}
    /\ UNCHANGED <<screenVars, hands, space>>

\* Taken, cancelled, or closed by the lock.
CloseShot ==
    /\ is_open /\ shot' = close(shot)
    /\ UNCHANGED <<screenVars, handVars, shots>>

MoveLeft ==
    /\ is_open /\ shot' = move_left(shot)
    /\ UNCHANGED <<screenVars, handVars, shots>>

MoveRight ==
    /\ is_open /\ shot' = move_right(shot)
    /\ UNCHANGED <<screenVars, handVars, shots>>

\* The cursor goes with the selection.
MoveToMonitor(s) ==
    /\ is_open /\ s \in plugged
    /\ shot' = move_to_output(shot, s)
    /\ UNCHANGED <<screenVars, handVars, shots>>

SetWidth(change) ==
    /\ is_open /\ shot' = set_width(shot, change)
    /\ UNCHANGED <<screenVars, handVars, shots>>

\* While the button is up Space takes the screenshot.
SpaceKey ==
    /\ space' = ~space
    /\ shot' = IF is_open /\ ~space THEN IF shot.button.down THEN set_space_down(shot, TRUE) ELSE close(shot)
               ELSE set_space_down(shot, ~space)
    /\ UNCHANGED <<screenVars, hands, gone, shots>>

\* With the Mod key the selection is moved instead of drawn anew.
PointerDown(spot, slot, mod_down) ==
    shot' = IF ~is_open THEN shot
            ELSE IF mod_down THEN pointer_down(shot, shot.sel.screen, PointOn(shot.sel.screen, spot), slot, TRUE)
            ELSE IF OutputUnder(spot) = {} THEN shot
            ELSE LET s == CHOOSE s \in OutputUnder(spot) : TRUE
                 IN pointer_down(shot, s, PointOn(s, spot), slot, FALSE)

PointerUp(slot) ==
    shot' = IF Captures(shot, slot) THEN close(pointer_up(shot, slot)) ELSE pointer_up(shot, slot)

PointerMotion(spot, slot) ==
    shot' = IF is_open THEN pointer_motion(shot, PointOn(shot.sel.screen, spot), slot) ELSE shot

on_pointer_motion(spot) ==
    /\ PointerMotion(spot, None)
    /\ UNCHANGED <<screenVars, handVars, shots>>

MouseDown(spot, mod_down) ==
    /\ "mouse" \notin hands /\ hands' = hands \cup {"mouse"}
    /\ PointerDown(spot, None, mod_down)
    /\ UNCHANGED <<screenVars, gone, space, shots>>

MouseUp ==
    /\ "mouse" \in hands /\ hands' = hands \ {"mouse"}
    /\ PointerUp(None)
    /\ UNCHANGED <<screenVars, gone, space, shots>>

on_touch_down(f, spot, mod_down) ==
    /\ f \notin hands /\ hands' = hands \cup {f}
    /\ PointerDown(spot, f, mod_down)
    /\ UNCHANGED <<screenVars, gone, space, shots>>

on_touch_motion(f, spot) ==
    /\ f \in hands /\ PointerMotion(spot, f)
    /\ UNCHANGED <<screenVars, handVars, shots>>

on_touch_up(f) ==
    /\ f \in hands /\ hands' = hands \ {f}
    /\ PointerUp(f) /\ gone' = gone \ {f}
    /\ UNCHANGED <<screenVars, space, shots>>

\* All the touches are cancelled. The clients are told, the interface is not.
on_touch_cancel ==
    /\ hands \cap Finger # {} /\ hands' = hands \ Finger
    /\ gone' = IF is_open THEN gone \cup (hands \cap Finger) ELSE gone
    /\ UNCHANGED <<screenVars, shot, space, shots>>

\* The output is dropped, and with it the selection that was on it.
RemoveScreen(s) ==
    /\ s \in plugged /\ plugged' = plugged \ {s}
    /\ LET ui == close(shot)
       IN shot' = IF ui.last # None /\ ui.last.screen = s THEN Closed(None) ELSE ui
    /\ UNCHANGED <<mode, handVars, shots>>

AddScreen(s) ==
    /\ s \notin plugged /\ plugged' = plugged \cup {s}
    /\ UNCHANGED <<mode, shot, handVars, shots>>

\* A new size closes the interface, if it was open when the output was there.
output_resized(s, size) ==
    /\ s \in plugged /\ size \in Modes[s] \ {mode[s]}
    /\ mode' = [mode EXCEPT ![s] = size]
    /\ shot' = IF is_open /\ s \in DOMAIN shot.data THEN close(shot) ELSE shot
    /\ UNCHANGED <<plugged, handVars, shots>>

Change == {[kind |-> "SetFixed", by |-> 1], [kind |-> "SetProportion", by |-> 4],
           [kind |-> "AdjustFixed", by |-> -1], [kind |-> "AdjustProportion", by |-> 1]}

ShotNext ==
    \/ \E s \in Screen : open_screenshot_ui(s) \/ MoveToMonitor(s) \/ RemoveScreen(s) \/ AddScreen(s)
    \/ CloseShot
    \/ MoveLeft
    \/ MoveRight
    \/ \E change \in Change : SetWidth(change)
    \/ SpaceKey
    \/ \E spot \in Spot : on_pointer_motion(spot)
    \/ \E spot \in Spot, mod_down \in BOOLEAN : MouseDown(spot, mod_down)
    \/ MouseUp
    \/ \E f \in Finger, spot \in Spot, mod_down \in BOOLEAN : on_touch_down(f, spot, mod_down)
    \/ \E f \in Finger, spot \in Spot : on_touch_motion(f, spot)
    \/ \E f \in Finger : on_touch_up(f)
    \/ on_touch_cancel
    \/ \E s \in Screen : \E size \in Modes[s] : output_resized(s, size)

ShotSpec == ShotInit /\ [][ShotNext]_shotVars

-----------------------------------------------------------------------------
(* Properties.                                                              *)

HandOf(slot) == IF slot = None THEN "mouse" ELSE slot

\* What is selected was captured, and at this size: the code indexes its outputs by the
\* output of the selection and copies the selected part of its picture.
SelectionCaptured ==
    is_open => /\ shot.sel.screen \in DOMAIN shot.data
               /\ Inside(Area(shot.sel), shot.data[shot.sel.screen])
               /\ DOMAIN shot.data \subseteq plugged
               /\ \A s \in DOMAIN shot.data : shot.data[s] = mode[s]

\* A drag lasts as long as the button or the finger that began it, and a second finger's
\* move as long as that finger ("If so, stop the move"), whichever hand comes first. A touch
\* that is cancelled is not let go in the code: its drag lasts until its slot is used once more.
DragsHaveHands ==
    is_open /\ shot.button.down =>
        /\ HandOf(shot.button.slot) \in hands \cup gone
        /\ shot.button.move # None /\ shot.button.move.slot # None => shot.button.move.slot \in hands \cup gone

SelectionIsSound == SelectionCaptured /\ DragsHaveHands

Moving == is_open /\ shot.button.down /\ shot.button.move # None

\* The steps that move a selection: keys, and the hand of a move.
Moves ==
    \/ MoveLeft
    \/ MoveRight
    \/ /\ Moving
       /\ \E spot \in Spot, slot \in Finger \cup {None} : PointerMotion(spot, slot)

\* A selection that is moved, by keys or by a hand, keeps its size: it stays where its edge
\* meets the output's, rather than fall back to the default selection.
MovesKeepSize ==
    [][UNCHANGED shot \/ (Moves /\ UNCHANGED handVars => Area(shot.sel)'.len = Area(shot.sel).len)]_shotVars
=============================================================================
