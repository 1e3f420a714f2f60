---------------------------- MODULE PointerProofs ---------------------------
(***************************************************************************)
(* Who drives and who ends the gestures of the layout, for any windows and *)
(* any number of fingers. A gesture may have several drivers, and a grab   *)
(* may drive a gesture that has already ended, but each way a grab can go  *)
(* ends what it drove. The buttons are a second argument of its own.       *)
(***************************************************************************)
EXTENDS Pointer, TLAPS

Kind == {"None", "Click", "Move", "Spatial", "Resize", "Dnd", "Overview"} \cup PickGrab

Gesture == {"none", "Recognizing", "Move", "ViewOffset", "WorkspaceSwitch"}

LayoutType ==
    [move : Window \cup {NoWindow}, resizing : SUBSET Window, switch : {"none", "grab", "touchpad", "drag"},
     dnd : BOOLEAN, overview : BOOLEAN, overview_gesture : BOOLEAN,
     win : [Window -> {"floating", "tiled", "gone"}]]

\* A grab that moves or resizes has a window, and that of a move is not in another gesture.
OwnGrab ==
    {g \in [kind : Kind, gesture : Gesture, win : Window \cup {NoWindow}, by : Button \cup Slot \cup {"none"}] :
        /\ g.kind # "None"
        /\ g.kind \in {"Move", "Resize"} \/ g.gesture = "Move" => g.win \in Window
        /\ g.kind = "Move" => g.gesture \in {"Recognizing", "Move"}}

AnyGrab == {NoGrab} \cup OwnGrab

DevicesOK ==
    /\ held \subseteq Button /\ seat_pressed \subseteq Button /\ lost \subseteq Button
    /\ suppressed_buttons \subseteq Button
    /\ slots \subseteq Slot
    /\ swiping \in BOOLEAN /\ gesture_swipe_3f_cumulative \in BOOLEAN
    /\ overview_scroll_swipe_gesture \in BOOLEAN
    /\ ui \subseteq {"mru", "screenshot"} /\ screenshot_button \in {"Up", "Pointer"} \cup Slot
    /\ tip \in BOOLEAN /\ has_output \in BOOLEAN

PointerTypeOK ==
    /\ DevicesOK
    /\ grab \in AnyGrab /\ touch_grab \in AnyGrab
    /\ layout \in LayoutType
    /\ picks \subseteq PickGrab

\* GesturesHaveDrivers of a layout, of the grabs in gs and of the touchpad.
Driven(L, gs, swipes, scrolls) ==
    /\ L.move # NoWindow =>
           \E g \in gs : g.kind \in {"Move", "Overview"} /\ g.gesture = "Move" /\ g.win = L.move
    /\ \A w \in L.resizing : \E g \in gs : g.kind = "Resize" /\ g.win = w
    /\ L.switch = "grab" => \E g \in gs : g.kind \in {"Spatial", "Overview"} /\ g.gesture = "WorkspaceSwitch"
    /\ L.switch = "touchpad" => swipes \/ scrolls
    /\ L.switch = "drag" => L.dnd \/ L.move # NoWindow
    /\ L.overview_gesture => swipes

GesturesInv ==
    Driven(layout, {grab, touch_grab}, swiping, overview_scroll_swipe_gesture)

PointerInv ==
    /\ PointerTypeOK
    /\ GesturesInv
    /\ PicksAnswered
    /\ DragsEndWithButtons

-----------------------------------------------------------------------------
(***************************************************************************)
(* What the operators do to the gestures.                                  *)
(***************************************************************************)
\* M has no gesture that L has not.
Calmer(L, M) ==
    /\ M.move = L.move /\ M.resizing \subseteq L.resizing /\ M.dnd = L.dnd
    /\ M.switch \in {L.switch, "none"}
    /\ M.overview_gesture => L.overview_gesture

LEMMA CalmerDriven ==
    ASSUME NEW L \in LayoutType, NEW M \in LayoutType, NEW gs, NEW hs, NEW sw \in BOOLEAN, NEW sc \in BOOLEAN,
           Driven(L, gs, sw, sc), Calmer(L, M), gs \subseteq hs
    PROVE  Driven(M, hs, sw, sc)
BY DEF Driven, Calmer, LayoutType

LEMMA ToggleOverviewCalmer ==
    ASSUME NEW L \in LayoutType
    PROVE  toggle_overview(L) \in LayoutType /\ Calmer(L, toggle_overview(L))
BY DEF toggle_overview, LayoutType, Calmer

LEMMA ToggleFloatingCalmer ==
    ASSUME NEW L \in LayoutType, NEW w \in Window
    PROVE  toggle_window_floating(L, w) \in LayoutType /\ Calmer(L, toggle_window_floating(L, w))
<1>1. CASE L.win[w] = "gone"
  BY <1>1 DEF toggle_window_floating, Calmer
<1>2. CASE L.win[w] # "gone"
  <2>1. PICK v : v = [L.win EXCEPT ![w] = IF L.win[w] = "floating" THEN "tiled" ELSE "floating"]
    OBVIOUS
  <2>2. v \in [Window -> {"floating", "tiled", "gone"}]
    BY <2>1 DEF LayoutType
  <2>3. toggle_window_floating(L, w) = [L EXCEPT !.win = v, !.resizing = L.resizing \ {w}]
    BY <1>2, <2>1 DEF toggle_window_floating, LayoutType
  <2>. QED  BY <2>2, <2>3 DEF LayoutType, Calmer
<1>. QED  BY <1>1, <1>2

LEMMA SwitchEndCalmer ==
    ASSUME NEW L \in LayoutType
    PROVE  /\ \A source : /\ workspace_switch_gesture_end(L, source) \in LayoutType
                          /\ Calmer(L, workspace_switch_gesture_end(L, source))
           /\ dnd_scroll_gesture_end(L) \in LayoutType /\ Calmer(L, dnd_scroll_gesture_end(L))
           /\ activate(L) \in LayoutType /\ Calmer(L, activate(L))
BY DEF workspace_switch_gesture_end, dnd_scroll_gesture_end, activate, LayoutType, Calmer

\* A grab that ends takes its gesture with it. (The grab that replaces it, n, may drive one already.)
LEMMA UngrabDriven ==
    ASSUME NEW L \in LayoutType, NEW g \in AnyGrab, NEW t, NEW n, NEW sw \in BOOLEAN, NEW sc \in BOOLEAN,
           Driven(L, {g, t, n}, sw, sc)
    PROVE  on_ungrab(L, g) \in LayoutType /\ Driven(on_ungrab(L, g), {n, t}, sw, sc)
<1>1. CASE g.kind \in {"Move", "Overview"} /\ g.gesture = "Recognizing"
  <2>1. on_ungrab(L, g) = ActivateOnRelease(L, g)
    BY <1>1 DEF on_ungrab
  <2>2. ActivateOnRelease(L, g) \in {L, toggle_overview(L)}
    BY DEF ActivateOnRelease
  <2>3. Driven(L, {n, t}, sw, sc)
    BY <1>1 DEF Driven
  <2>. QED  BY <2>1, <2>2, <2>3, ToggleOverviewCalmer, CalmerDriven
<1>2. CASE g.kind \in {"Move", "Overview"} /\ g.gesture = "Move"
  <2>1. on_ungrab(L, g) = interactive_move_end(L, g.win)
    BY <1>2 DEF on_ungrab
  <2>2. g.win # NoWindow
    BY <1>2, PointerAssumption DEF AnyGrab, NoGrab, OwnGrab
  <2>3. CASE L.move = g.win
    BY <1>2, <2>1, <2>2, <2>3 DEF interactive_move_end, dnd_scroll_gesture_end, Driven, LayoutType
  <2>4. CASE L.move # g.win
    BY <1>2, <2>1, <2>4 DEF interactive_move_end, Driven
  <2>. QED  BY <2>3, <2>4
<1>3. CASE g.kind \in {"Spatial", "Overview"} /\ g.gesture = "WorkspaceSwitch"
  BY <1>3 DEF on_ungrab, workspace_switch_gesture_end, Driven, LayoutType
<1>4. CASE g.kind = "Resize"
  BY <1>4 DEF on_ungrab, interactive_resize_end, Driven, LayoutType
<1>5. CASE g.kind = "Dnd"
  BY <1>5, ZenonT(60) DEF on_ungrab, dnd_end, dnd_scroll_gesture_end, Driven, LayoutType
<1>6. CASE /\ ~(g.kind \in {"Move", "Overview"} /\ g.gesture \in {"Recognizing", "Move"})
           /\ ~(g.kind \in {"Spatial", "Overview"} /\ g.gesture = "WorkspaceSwitch")
           /\ g.kind \notin {"Resize", "Dnd"}
  <2>1. on_ungrab(L, g) = L
    BY <1>6 DEF on_ungrab
  <2>. QED  BY <1>6, <2>1 DEF Driven
<1>. QED  BY <1>1, <1>2, <1>3, <1>4, <1>5, <1>6

LEMMA MoreGrabs ==
    ASSUME NEW L, NEW gs, NEW hs, gs \subseteq hs, NEW sw, NEW sc, Driven(L, gs, sw, sc)
    PROVE  Driven(L, hs, sw, sc)
BY DEF Driven

\* What a frame of a grab g leads to, while the other grab is t: g goes on, perhaps with a gesture
\* that it drives, or it ends and drives until then what it did.
Goes(L, g, t, r) ==
    /\ r[1] \in LayoutType /\ r[2] \in AnyGrab
    /\ r[2] = NoGrab =>
           Driven(r[1], {g, t}, swiping, overview_scroll_swipe_gesture)
    /\ r[2] # NoGrab => /\ r[2].kind = g.kind
                        /\ Driven(r[1], {r[2], t}, swiping, overview_scroll_swipe_gesture)

\* A move that begins.
LEMMA MoveBegins ==
    ASSUME PointerTypeOK, NEW L \in LayoutType, NEW g \in OwnGrab, NEW t \in AnyGrab, g.win \in Window,
           g.kind \in {"Move", "Overview"}, g.gesture = "Recognizing",
           Driven(L, {g, t}, swiping, overview_scroll_swipe_gesture),
           NEW m \in interactive_move_begin(L, g.win)
    PROVE  /\ Goes(L, g, t, <<m, [g EXCEPT !.gesture = "Move"]>>)
           /\ Goes(L, g, t, <<toggle_window_floating(m, g.win), [g EXCEPT !.gesture = "Move"]>>)
<1>1. PICK h : h = [g EXCEPT !.gesture = "Move"]
  OBVIOUS
<1>2. h \in OwnGrab /\ h.kind = g.kind /\ h.gesture = "Move" /\ h.win = g.win
  BY <1>1 DEF OwnGrab, Gesture
<1>3. h # NoGrab
  BY <1>2 DEF OwnGrab, NoGrab
<1>4. /\ L.move = NoWindow
      /\ m = [dnd_scroll_gesture_begin(L) EXCEPT !.move = g.win, !.resizing = @ \ {g.win}]
  BY DEF interactive_move_begin
<1>5. PICK d : d = dnd_scroll_gesture_begin(L)
  OBVIOUS
<1>6. d \in LayoutType /\ d.resizing = L.resizing /\ d.switch \in {L.switch, "drag"} /\ d.dnd = L.dnd
      /\ d.overview_gesture = L.overview_gesture
  BY <1>5 DEF dnd_scroll_gesture_begin, LayoutType
<1>7. /\ m \in LayoutType /\ m.move = g.win /\ m.resizing \subseteq L.resizing
      /\ m.switch \in {L.switch, "drag"} /\ m.overview_gesture = L.overview_gesture /\ m.dnd = L.dnd
  BY <1>4, <1>5, <1>6 DEF LayoutType
<1>8. g.win # NoWindow
  BY PointerAssumption
<1>9. Driven(m, {h, t}, swiping, overview_scroll_swipe_gesture)
  <2>1. h.kind \in {"Move", "Overview"} /\ h.win = m.move
    BY <1>2, <1>7
  <2>2. \A w \in m.resizing : \E k \in {h, t} : k.kind = "Resize" /\ k.win = w
    BY <1>7 DEF Driven
  <2>3. m.switch = "grab" => \E k \in {h, t} : k.kind \in {"Spatial", "Overview"} /\ k.gesture = "WorkspaceSwitch"
    BY <1>7 DEF Driven
  <2>. QED  BY <2>1, <2>2, <2>3, <1>2, <1>7, <1>8 DEF Driven
<1>10. /\ toggle_window_floating(m, g.win) \in LayoutType
       /\ Driven(toggle_window_floating(m, g.win), {h, t}, swiping, overview_scroll_swipe_gesture)
  BY <1>7, <1>9, ToggleFloatingCalmer, CalmerDriven DEF PointerTypeOK, DevicesOK
<1>. QED  BY <1>1, <1>2, <1>3, <1>7, <1>9, <1>10 DEF Goes, AnyGrab

\* A grab of a move, of the middle button or of a resize, and the finger in the overview.
LEMMA FrameGoes ==
    ASSUME PointerTypeOK, NEW L \in LayoutType, NEW g \in OwnGrab, NEW t \in AnyGrab,
           Driven(L, {g, t}, swiping, overview_scroll_swipe_gesture)
    PROVE  /\ g.kind = "Move" => \A r \in MoveFrame(L, g) \cup on_toggle_floating(L, g) : Goes(L, g, t, r)
           /\ g.kind = "Spatial" => \A r \in SpatialFrame(L, g) : Goes(L, g, t, r)
           /\ g.kind = "Resize" => \A r \in ResizeMotion(L, g) : Goes(L, g, t, r)
           /\ g.kind = "Overview" => \A r \in OverviewMotion(L, g) : Goes(L, g, t, r)
<1>1. g \in AnyGrab /\ g # NoGrab /\ NoGrab \in AnyGrab
  BY DEF AnyGrab, OwnGrab, NoGrab
<1>2. Goes(L, g, t, <<L, g>>) /\ Goes(L, g, t, <<L, NoGrab>>)
  BY <1>1 DEF Goes
<1>3. g.kind = "Move" => g.win \in Window
  BY DEF OwnGrab
<1>4. ASSUME g.kind = "Move", NEW r \in MoveFrame(L, g) PROVE Goes(L, g, t, r)
  <2>1. CASE g.gesture = "Recognizing"
    <3>1. \/ r = <<L, g>> \/ r = <<L, NoGrab>>
          \/ \E m \in interactive_move_begin(L, g.win) : r = <<m, [g EXCEPT !.gesture = "Move"]>>
      BY <2>1, <1>4 DEF MoveFrame
    <3>. QED  BY <3>1, <2>1, <1>2, <1>3, <1>4, MoveBegins
  <2>2. CASE g.gesture # "Recognizing"
    <3>1. r = <<L, g>> \/ r = <<L, NoGrab>>
      BY <2>2, <1>4 DEF MoveFrame
    <3>. QED  BY <3>1, <1>2
  <2>. QED  BY <2>1, <2>2
<1>5. ASSUME g.kind = "Move", NEW r \in on_toggle_floating(L, g) PROVE Goes(L, g, t, r)
  <2>1. CASE g.gesture = "Move"
    <3>1. r = <<toggle_window_floating(L, g.win), g>>
      BY <2>1, <1>5 DEF on_toggle_floating
    <3>2. /\ toggle_window_floating(L, g.win) \in LayoutType
          /\ Driven(toggle_window_floating(L, g.win), {g, t}, swiping, overview_scroll_swipe_gesture)
      BY <1>3, <1>5, ToggleFloatingCalmer, CalmerDriven DEF PointerTypeOK, DevicesOK
    <3>. QED  BY <3>1, <3>2, <1>1 DEF Goes
  <2>2. CASE g.gesture # "Move"
    <3>1. \/ r = <<L, NoGrab>>
          \/ \E m \in interactive_move_begin(L, g.win) :
                 r = <<toggle_window_floating(m, g.win), [g EXCEPT !.gesture = "Move"]>>
      BY <2>2, <1>5 DEF on_toggle_floating
    <3>2. g.gesture = "Recognizing"
      BY <2>2, <1>5 DEF OwnGrab
    <3>. QED  BY <3>1, <3>2, <1>2, <1>3, <1>5, MoveBegins
  <2>. QED  BY <2>1, <2>2
<1>6. ASSUME g.kind \in {"Spatial", "Overview"}, g.gesture = "Recognizing"
      PROVE  Goes(L, g, t, <<workspace_switch_gesture_begin(L, "grab"), [g EXCEPT !.gesture = "WorkspaceSwitch"]>>)
  <2>1. PICK h, m : /\ h = [g EXCEPT !.gesture = "WorkspaceSwitch"]
                    /\ m = workspace_switch_gesture_begin(L, "grab")
    OBVIOUS
  <2>2. h \in OwnGrab /\ h.kind = g.kind /\ h.gesture = "WorkspaceSwitch"
    BY <2>1, <1>6 DEF OwnGrab, Gesture
  <2>3. /\ m \in LayoutType /\ m.move = L.move /\ m.resizing = L.resizing /\ m.switch = "grab"
        /\ m.overview_gesture = L.overview_gesture
    BY <2>1 DEF workspace_switch_gesture_begin, LayoutType
  <2>4. Driven(m, {h, t}, swiping, overview_scroll_swipe_gesture)
    BY <2>2, <2>3, <1>6 DEF Driven
  <2>5. h # NoGrab
    BY <2>2 DEF OwnGrab, NoGrab
  <2>. QED  BY <2>1, <2>2, <2>3, <2>4, <2>5 DEF Goes, AnyGrab
<1>7. ASSUME g.kind = "Spatial", NEW r \in SpatialFrame(L, g) PROVE Goes(L, g, t, r)
  <2>1. \/ r = <<L, g>> \/ r = <<L, NoGrab>>
        \/ /\ g.gesture = "Recognizing"
           /\ r = <<workspace_switch_gesture_begin(L, "grab"), [g EXCEPT !.gesture = "WorkspaceSwitch"]>>
    BY <1>7 DEF SpatialFrame
  <2>. QED  BY <2>1, <1>2, <1>6, <1>7
<1>8. ASSUME g.kind = "Resize", NEW r \in ResizeMotion(L, g) PROVE Goes(L, g, t, r)
  <2>1. r = <<L, g>> \/ r = <<L, NoGrab>>
    BY <1>8 DEF ResizeMotion
  <2>. QED  BY <2>1, <1>2
<1>9. ASSUME g.kind = "Overview", NEW r \in OverviewMotion(L, g) PROVE Goes(L, g, t, r)
  <2>1. \/ r = <<L, g>> \/ r = <<L, NoGrab>>
        \/ /\ g.gesture = "Recognizing"
           /\ r = <<workspace_switch_gesture_begin(L, "grab"), [g EXCEPT !.gesture = "WorkspaceSwitch"]>>
        \/ /\ g.gesture = "Recognizing" /\ g.win # NoWindow
           /\ \E m \in interactive_move_begin(L, g.win) : r = <<m, [g EXCEPT !.gesture = "Move"]>>
    BY <1>9 DEF OverviewMotion
  <2>2. g.win # NoWindow => g.win \in Window
    BY DEF OwnGrab
  <2>. QED  BY <2>1, <2>2, <1>2, <1>6, <1>9, MoveBegins
<1>. QED  BY <1>4, <1>5, <1>7, <1>8, <1>9

-----------------------------------------------------------------------------
(***************************************************************************)
(* How the two grabs change.                                               *)
(***************************************************************************)
DrivenBy(L, gs) == Driven(L, gs, swiping, overview_scroll_swipe_gesture)

\* The grabs, the layout and the picks after a step that is not one of the touchpad.
GrabsOK ==
    /\ grab' \in AnyGrab /\ touch_grab' \in AnyGrab /\ layout' \in LayoutType /\ picks' \subseteq PickGrab
    /\ DrivenBy(layout', {grab', touch_grab'})
    /\ PicksAnswered'

LEMMA UnsetGrab ==
    ASSUME PointerInv, NEW L \in LayoutType, NEW t \in AnyGrab, DrivenBy(L, {grab, t}),
           unset_grab(L), touch_grab' = t
    PROVE  GrabsOK /\ grab' = NoGrab
<1>1. grab \in AnyGrab /\ swiping \in BOOLEAN /\ overview_scroll_swipe_gesture \in BOOLEAN /\ picks \subseteq PickGrab
  BY DEF PointerInv, PointerTypeOK, DevicesOK
<1>2. DrivenBy(L, {grab, t, NoGrab})
  BY MoreGrabs DEF DrivenBy
<1>3. on_ungrab(L, grab) \in LayoutType /\ DrivenBy(on_ungrab(L, grab), {NoGrab, t})
  BY <1>1, <1>2, UngrabDriven DEF DrivenBy
<1>4. PicksAnswered'
  BY <1>1 DEF PointerInv, PicksAnswered, unset_grab, NoGrab, PickGrab
<1>. QED  BY <1>1, <1>3, <1>4 DEF unset_grab, GrabsOK, AnyGrab

LEMMA SetGrab ==
    ASSUME PointerInv, NEW L \in LayoutType, NEW t \in AnyGrab, NEW g \in OwnGrab, g.kind \notin PickGrab,
           DrivenBy(L, {grab, t, g}), set_grab(L, g), touch_grab' = t
    PROVE  GrabsOK /\ grab' = g
<1>1. grab \in AnyGrab /\ swiping \in BOOLEAN /\ overview_scroll_swipe_gesture \in BOOLEAN /\ picks \subseteq PickGrab
  BY DEF PointerInv, PointerTypeOK, DevicesOK
<1>2. on_ungrab(L, grab) \in LayoutType /\ DrivenBy(on_ungrab(L, grab), {g, t})
  BY <1>1, UngrabDriven DEF DrivenBy
<1>3. PicksAnswered'
  BY <1>1 DEF PointerInv, PicksAnswered, set_grab
<1>. QED  BY <1>1, <1>2, <1>3 DEF set_grab, GrabsOK, AnyGrab

LEMMA KeepGrab ==
    ASSUME PointerInv, NEW L \in LayoutType, NEW t \in AnyGrab, DrivenBy(L, {grab, t}),
           keep_grab(L), touch_grab' = t
    PROVE  GrabsOK /\ grab' = grab
<1>1. PicksAnswered'
  BY DEF PointerInv, PicksAnswered, keep_grab
<1>. QED  BY <1>1 DEF PointerInv, PointerTypeOK, keep_grab, GrabsOK

LEMMA ContinueGrab ==
    ASSUME PointerInv, NEW L, NEW r, grab.kind \notin PickGrab, Goes(L, grab, touch_grab, r),
           continue_with(r), UNCHANGED touch_grab
    PROVE  GrabsOK /\ grab'.kind \in {"None", grab.kind}
<1>1. CASE r[2] = NoGrab
  <2>1. unset_grab(r[1]) /\ r[1] \in LayoutType /\ DrivenBy(r[1], {grab, touch_grab})
    BY <1>1 DEF continue_with, Goes, DrivenBy
  <2>2. touch_grab \in AnyGrab
    BY DEF PointerInv, PointerTypeOK
  <2>. QED  BY <2>1, <2>2, UnsetGrab DEF NoGrab
<1>2. CASE r[2] # NoGrab
  <2>1. /\ grab' = r[2] /\ layout' = r[1] /\ picks' = picks
        /\ r[1] \in LayoutType /\ r[2] \in AnyGrab /\ r[2].kind = grab.kind
        /\ DrivenBy(layout', {grab', touch_grab'})
    BY <1>2 DEF continue_with, Goes, DrivenBy
  <2>2. PicksAnswered'
    BY <2>1 DEF PointerInv, PicksAnswered
  <2>. QED  BY <2>1, <2>2 DEF PointerInv, PointerTypeOK, GrabsOK
<1>. QED  BY <1>1, <1>2

LEMMA UnsetTouchGrab ==
    ASSUME PointerInv, NEW L \in LayoutType, DrivenBy(L, {grab, touch_grab}),
           unset_touch_grab(L), UNCHANGED <<grab, picks>>
    PROVE  GrabsOK
<1>1. /\ touch_grab \in AnyGrab /\ swiping \in BOOLEAN /\ overview_scroll_swipe_gesture \in BOOLEAN
      /\ grab \in AnyGrab /\ picks \subseteq PickGrab
  BY DEF PointerInv, PointerTypeOK, DevicesOK
<1>2. DrivenBy(L, {touch_grab, grab, NoGrab})
  BY MoreGrabs DEF DrivenBy
<1>3. on_ungrab(L, touch_grab) \in LayoutType /\ DrivenBy(on_ungrab(L, touch_grab), {NoGrab, grab})
  BY <1>1, <1>2, UngrabDriven DEF DrivenBy
<1>4. {NoGrab, grab} = {grab', touch_grab'}
  BY DEF unset_touch_grab
<1>5. PicksAnswered'
  BY DEF PointerInv, PicksAnswered
<1>. QED  BY <1>1, <1>3, <1>4, <1>5 DEF unset_touch_grab, GrabsOK, AnyGrab

LEMMA ContinueTouchGrab ==
    ASSUME PointerInv, NEW L, NEW r, Goes(L, touch_grab, grab, r),
           touch_continue_with(r), UNCHANGED <<grab, picks>>
    PROVE  GrabsOK
<1>0. {touch_grab, grab} = {grab, touch_grab}
  OBVIOUS
<1>1. CASE r[2] = NoGrab
  <2>1. unset_touch_grab(r[1]) /\ r[1] \in LayoutType /\ DrivenBy(r[1], {grab, touch_grab})
    BY <1>0, <1>1 DEF touch_continue_with, Goes, DrivenBy
  <2>. QED  BY <2>1, UnsetTouchGrab
<1>2. CASE r[2] # NoGrab
  <2>1. /\ touch_grab' = r[2] /\ layout' = r[1]
        /\ r[1] \in LayoutType /\ r[2] \in AnyGrab
        /\ DrivenBy(layout', {touch_grab', grab'})
    BY <1>2 DEF touch_continue_with, Goes, DrivenBy
  <2>2. {touch_grab', grab'} = {grab', touch_grab'}
    OBVIOUS
  <2>3. PicksAnswered'
    BY DEF PointerInv, PicksAnswered
  <2>. QED  BY <2>1, <2>2, <2>3 DEF PointerInv, PointerTypeOK, GrabsOK
<1>. QED  BY <1>1, <1>2

\* Buttons that stay as they are say the same of a grab that is no new drag.
LEMMA SameButtons ==
    ASSUME DragsEndWithButtons, UNCHANGED <<held, seat_pressed, suppressed_buttons, lost>>,
           grab'.kind \in Drag => grab.kind \in Drag
    PROVE  DragsEndWithButtons'
BY DEF DragsEndWithButtons

LEMMA Together ==
    ASSUME PointerInv, GrabsOK, UNCHANGED <<swiping, overview_scroll_swipe_gesture>>, DevicesOK', DragsEndWithButtons'
    PROVE  PointerInv'
BY DEF GrabsOK, PointerInv, PointerTypeOK, GesturesInv, DrivenBy

LEMMA Now ==
    ASSUME PointerInv
    PROVE  /\ DevicesOK /\ grab \in AnyGrab /\ touch_grab \in AnyGrab /\ layout \in LayoutType
           /\ picks \subseteq PickGrab /\ NoGrab \in AnyGrab
           /\ DrivenBy(layout, {grab, touch_grab}) /\ DragsEndWithButtons
BY DEF PointerInv, PointerTypeOK, GesturesInv, DrivenBy, AnyGrab

LEMMA NewGrab ==
    ASSUME NEW kind \in Kind \ {"None"}, NEW gesture \in Gesture, NEW w \in Window \cup {NoWindow},
           NEW by \in Button \cup Slot \cup {"none"},
           kind \in {"Move", "Resize"} \/ gesture = "Move" => w \in Window,
           kind = "Move" => gesture \in {"Recognizing", "Move"}
    PROVE  Grab(kind, gesture, w, by) \in OwnGrab /\ Grab(kind, gesture, w, by).kind = kind
BY DEF Grab, OwnGrab

\* A grab's own button or finger.
LEMMA GrabsBy == \A g \in AnyGrab : g # NoGrab => g \in OwnGrab /\ g.by \in Button \cup Slot \cup {"none"}
BY DEF AnyGrab, OwnGrab

LEMMA CalmerStep ==
    ASSUME PointerInv, NEW L \in LayoutType, NEW M \in LayoutType, NEW gs, NEW hs,
           DrivenBy(L, gs), Calmer(L, M), gs \subseteq hs
    PROVE  DrivenBy(M, hs)
BY CalmerDriven DEF DrivenBy, PointerInv, PointerTypeOK, DevicesOK

\* An action, which cancels the touch first. The buttons are not its business.
LEMMA DoActionKeeps ==
    ASSUME PointerInv, NEW before \in LayoutType, DrivenBy(before, {grab, touch_grab}), DoAction(before)
    PROVE  /\ GrabsOK /\ (grab' = grab \/ grab' = NoGrab)
           /\ ui' \subseteq {"mru", "screenshot"} /\ screenshot_button' \in {"Up", "Pointer"} \cup Slot
<1>0. /\ DevicesOK /\ grab \in AnyGrab /\ touch_grab \in AnyGrab /\ NoGrab \in AnyGrab
      /\ swiping \in BOOLEAN /\ overview_scroll_swipe_gesture \in BOOLEAN
  BY Now DEF DevicesOK
<1>1. PICK L : L = cancel_touch(before)
  OBVIOUS
<1>2. L \in LayoutType /\ DrivenBy(L, {grab, NoGrab})
  <2>1. DrivenBy(before, {touch_grab, grab, NoGrab})
    BY MoreGrabs DEF DrivenBy
  <2>2. L \in LayoutType /\ DrivenBy(L, {NoGrab, grab})
    BY <1>0, <1>1, <2>1, UngrabDriven DEF cancel_touch, DrivenBy
  <2>3. {NoGrab, grab} = {grab, NoGrab}
    OBVIOUS
  <2>. QED  BY <2>2, <2>3
<1>3. touch_grab' = NoGrab
  BY DEF DoAction
<1>4. \/ open_screenshot_ui(L)
      \/ "screenshot" \in ui /\ ui' = ui \ {"screenshot"} /\ screenshot_button' = "Up" /\ keep_grab(L)
      \/ /\ has_output /\ ui' = IF "mru" \in ui THEN ui \ {"mru"} ELSE ui \union {"mru"}
         /\ keep_grab(L) /\ UNCHANGED screenshot_button
      \/ keep_grab(toggle_overview(L)) /\ UNCHANGED uiVars
      \/ \E w \in Window : keep_grab(toggle_window_floating(L, w)) /\ UNCHANGED uiVars
  BY <1>1 DEF DoAction
<1>5. CASE open_screenshot_ui(L)
  <2>1. unset_grab(L) /\ screenshot_button' = "Up" /\ ui' \subseteq {"mru", "screenshot"}
    BY <1>0, <1>5 DEF open_screenshot_ui, DevicesOK
  <2>. QED  BY <2>1, <1>0, <1>2, <1>3, UnsetGrab
<1>6. CASE "screenshot" \in ui /\ ui' = ui \ {"screenshot"} /\ screenshot_button' = "Up" /\ keep_grab(L)
  <2>1. GrabsOK /\ grab' = grab
    BY <1>0, <1>2, <1>3, <1>6, KeepGrab
  <2>. QED  BY <2>1, <1>0, <1>6 DEF DevicesOK
<1>7. CASE /\ has_output /\ ui' = IF "mru" \in ui THEN ui \ {"mru"} ELSE ui \union {"mru"}
           /\ keep_grab(L) /\ UNCHANGED screenshot_button
  <2>1. GrabsOK /\ grab' = grab
    BY <1>0, <1>2, <1>3, <1>7, KeepGrab
  <2>. QED  BY <2>1, <1>0, <1>7 DEF DevicesOK
<1>8. CASE keep_grab(toggle_overview(L)) /\ UNCHANGED uiVars
  <2>1. PICK M : M = toggle_overview(L)
    OBVIOUS
  <2>2. M \in LayoutType /\ DrivenBy(M, {grab, NoGrab})
    BY <2>1, <1>2, ToggleOverviewCalmer, CalmerStep
  <2>3. GrabsOK /\ grab' = grab
    BY <2>1, <2>2, <1>0, <1>3, <1>8, KeepGrab
  <2>. QED  BY <2>3, <1>0, <1>8 DEF DevicesOK, uiVars
<1>9. CASE \E w \in Window : keep_grab(toggle_window_floating(L, w)) /\ UNCHANGED uiVars
  <2>1. PICK w \in Window : keep_grab(toggle_window_floating(L, w)) /\ UNCHANGED uiVars
    BY <1>9
  <2>2. PICK M : M = toggle_window_floating(L, w)
    OBVIOUS
  <2>3. M \in LayoutType /\ DrivenBy(M, {grab, NoGrab})
    BY <2>2, <1>2, ToggleFloatingCalmer, CalmerStep
  <2>4. GrabsOK /\ grab' = grab
    BY <2>1, <2>2, <2>3, <1>0, <1>3, KeepGrab
  <2>. QED  BY <2>1, <2>4, <1>0 DEF DevicesOK, uiVars
<1>. QED  BY <1>4, <1>5, <1>6, <1>7, <1>8, <1>9

-----------------------------------------------------------------------------
(***************************************************************************)
(* The buttons.                                                            *)
(***************************************************************************)
LEMMA SuppressedButtonKeeps == \A b \in Button : PointerInv /\ SuppressedButton(b) => PointerInv'
<1>. SUFFICES ASSUME NEW b \in Button, PointerInv, SuppressedButton(b) PROVE PointerInv'
  OBVIOUS
<1>1. DevicesOK' /\ DragsEndWithButtons'
  BY Now DEF SuppressedButton, DevicesOK, DragsEndWithButtons, gestureVars, uiVars
<1>. QED  BY <1>1 DEF PointerInv, PointerTypeOK, GesturesInv, PicksAnswered, SuppressedButton, gestureVars

LEMMA PressOnSwitcherKeeps == \A b \in Button : PointerInv /\ PressOnSwitcher(b) => PointerInv'
<1>. SUFFICES ASSUME NEW b \in Button, PointerInv, PressOnSwitcher(b) PROVE PointerInv'
  OBVIOUS
<1>1. DevicesOK' /\ DragsEndWithButtons'
  BY Now DEF PressOnSwitcher, PressDown, Kept, DevicesOK, DragsEndWithButtons, gestureVars
<1>. QED  BY <1>1 DEF PointerInv, PointerTypeOK, GesturesInv, PicksAnswered, PressOnSwitcher, gestureVars

LEMMA PressBindKeeps == \A b \in Button : PointerInv /\ PressBind(b) => PointerInv'
<1>. SUFFICES ASSUME NEW b \in Button, PointerInv, PressBind(b) PROVE PointerInv'
  OBVIOUS
<1>1. /\ GrabsOK /\ (grab' = grab \/ grab' = NoGrab)
      /\ ui' \subseteq {"mru", "screenshot"} /\ screenshot_button' \in {"Up", "Pointer"} \cup Slot
  BY Now, DoActionKeeps DEF PressBind
<1>2. DevicesOK'
  BY <1>1, Now DEF PressBind, PressDown, Kept, DevicesOK, gestureVars
<1>3. DragsEndWithButtons'
  BY <1>1, Now DEF PressBind, PressDown, Kept, DragsEndWithButtons, NoGrab, Drag
<1>. QED  BY <1>1, <1>2, <1>3, Together DEF PressBind, gestureVars

LEMMA PressSpatialKeeps == \A b \in Button : PointerInv /\ PressSpatial(b) => PointerInv'
<1>. SUFFICES ASSUME NEW b \in Button, PointerInv, PressSpatial(b) PROVE PointerInv'
  OBVIOUS
<1>1. PICK gesture \in {"ViewOffset", "Recognizing"} : set_grab(layout, Grab("Spatial", gesture, NoWindow, b))
  BY DEF PressSpatial
<1>2. PICK g : g = Grab("Spatial", gesture, NoWindow, b)
  OBVIOUS
<1>3. g \in OwnGrab /\ g.kind = "Spatial"
  BY <1>2, NewGrab DEF Kind, Gesture
<1>4. DrivenBy(layout, {grab, touch_grab, g}) /\ layout \in LayoutType /\ touch_grab \in AnyGrab
  BY Now, MoreGrabs DEF DrivenBy
<1>5. touch_grab' = touch_grab
  BY DEF PressSpatial
<1>6. GrabsOK /\ grab' = g
  BY <1>1, <1>2, <1>3, <1>4, <1>5, SetGrab DEF PickGrab
<1>7. DevicesOK'
  BY Now DEF PressSpatial, PressDown, Unsent, DevicesOK, gestureVars, uiVars
<1>8. DragsEndWithButtons'
  BY Now DEF PressSpatial, PressDown, Unsent, DragsEndWithButtons
<1>. QED  BY <1>6, <1>7, <1>8, Together DEF PressSpatial, gestureVars

LEMMA PressDoubleClickKeeps == \A b \in Button : PointerInv /\ PressDoubleClick(b) => PointerInv'
<1>. SUFFICES ASSUME NEW b \in Button, PointerInv, PressDoubleClick(b) PROVE PointerInv'
  OBVIOUS
<1>1. DevicesOK' /\ DragsEndWithButtons'
  BY Now DEF PressDoubleClick, PressDown, Unsent, DevicesOK, DragsEndWithButtons, gestureVars, uiVars
<1>. QED  BY <1>1 DEF PointerInv, PointerTypeOK, GesturesInv, PicksAnswered, PressDoubleClick, gestureVars

\* A resize that begins is driven by the grab that is about to be set.
LEMMA ResizeBegins ==
    ASSUME PointerInv, NEW w \in Window, NEW by \in Button \cup Slot \cup {"none"},
           NEW L \in interactive_resize_begin(layout, w)
    PROVE  /\ Grab("Resize", "none", w, by) \in OwnGrab /\ Grab("Resize", "none", w, by).kind = "Resize"
           /\ L \in LayoutType /\ DrivenBy(L, {grab, touch_grab, Grab("Resize", "none", w, by)})
<1>1. PICK g : g = Grab("Resize", "none", w, by)
  OBVIOUS
<1>2. g \in OwnGrab /\ g.kind = "Resize"
  BY <1>1, NewGrab DEF Kind, Gesture
<1>3. g.win = w
  BY <1>1 DEF Grab
<1>4. layout \in LayoutType /\ DrivenBy(layout, {grab, touch_grab, g})
  BY Now, MoreGrabs DEF DrivenBy
<1>5. /\ L \in LayoutType /\ L.move = layout.move /\ L.switch = layout.switch /\ L.dnd = layout.dnd
      /\ L.overview_gesture = layout.overview_gesture /\ L.resizing = layout.resizing \cup {w}
  BY <1>4 DEF interactive_resize_begin, LayoutType
<1>6. DrivenBy(L, {grab, touch_grab, g})
  BY <1>2, <1>3, <1>4, <1>5 DEF Driven, DrivenBy
<1>. QED  BY <1>1, <1>2, <1>5, <1>6

LEMMA ScreenshotPressOK ==
    \A b : DevicesOK /\ ScreenshotPress(b) =>
        ui' \subseteq {"mru", "screenshot"} /\ screenshot_button' \in {"Up", "Pointer"} \cup Slot
BY DEF ScreenshotPress, DevicesOK, uiVars

LEMMA PressStartsGrabKeeps == \A b \in Button : PointerInv /\ PressStartsGrab(b) => PointerInv'
<1>. SUFFICES ASSUME NEW b \in Button, PointerInv, PressStartsGrab(b) PROVE PointerInv'
  OBVIOUS
<1>0. touch_grab' = touch_grab /\ touch_grab \in AnyGrab /\ DevicesOK /\ layout \in LayoutType
  BY Now DEF PressStartsGrab
<1>1. PICK w \in mapped(layout) :
           \/ b = "Left" /\ set_grab(layout, Grab("Move", "Recognizing", w, b))
           \/ b = "Right" /\ \E L \in interactive_resize_begin(layout, w) :
                                 set_grab(L, Grab("Resize", "none", w, b))
  BY Zenon DEF PressStartsGrab
<1>2. w \in Window
  BY DEF mapped
<1>3. GrabsOK
  <2>1. CASE set_grab(layout, Grab("Move", "Recognizing", w, b))
    <3>1. PICK g : g = Grab("Move", "Recognizing", w, b)
      OBVIOUS
    <3>2. g \in OwnGrab /\ g.kind = "Move"
      BY <3>1, <1>2, NewGrab DEF Kind, Gesture
    <3>3. DrivenBy(layout, {grab, touch_grab, g})
      BY Now, MoreGrabs DEF DrivenBy
    <3>. QED  BY <3>1, <3>2, <3>3, <2>1, <1>0, SetGrab DEF PickGrab
  <2>2. CASE \E L \in interactive_resize_begin(layout, w) : set_grab(L, Grab("Resize", "none", w, b))
    <3>1. PICK L \in interactive_resize_begin(layout, w) : set_grab(L, Grab("Resize", "none", w, b))
      BY <2>2
    <3>2. PICK g : g = Grab("Resize", "none", w, b)
      OBVIOUS
    <3>3. g \in OwnGrab /\ g.kind = "Resize" /\ L \in LayoutType /\ DrivenBy(L, {grab, touch_grab, g})
      BY <3>2, <1>2, ResizeBegins
    <3>. QED  BY <3>1, <3>2, <3>3, <1>0, SetGrab DEF PickGrab
  <2>. QED  BY <2>1, <2>2, <1>1
<1>4. ScreenshotPress(b) /\ SeatPress(b) /\ PressDown(b)
      /\ UNCHANGED <<suppressed_buttons, slots, touch_grab, gestureVars, has_output>>
  BY DEF PressStartsGrab
<1>5. DevicesOK'
  BY <1>0, <1>4, ScreenshotPressOK DEF SeatPress, PressDown, DevicesOK, gestureVars
<1>6. DragsEndWithButtons'
  BY <1>4, Now DEF SeatPress, PressDown, DragsEndWithButtons
<1>. QED  BY <1>3, <1>4, <1>5, <1>6, Together DEF gestureVars

LEMMA PressForwardedKeeps == \A b \in Button : PointerInv /\ PressForwarded(b) => PointerInv'
<1>. SUFFICES ASSUME NEW b \in Button, PointerInv, PressForwarded(b) PROVE PointerInv'
  OBVIOUS
<1>0. /\ touch_grab' = touch_grab /\ touch_grab \in AnyGrab /\ grab \in AnyGrab /\ DevicesOK /\ layout \in LayoutType
      /\ DrivenBy(layout, {grab, touch_grab})
  BY Now DEF PressForwarded
<1>1. PICK L \in {layout} \union (IF layout.overview /\ has_output THEN {toggle_overview(layout)} ELSE {}) :
           CASE grab.kind = "None" -> set_grab(L, Grab("Click", "none", NoWindow, b))
             [] grab.kind \in PickGrab -> unset_grab(L)
             [] grab.kind = "Move" /\ b # grab.by /\ b # "Middle" ->
                    \E r \in on_toggle_floating(L, grab) : continue_with(r)
             [] OTHER -> keep_grab(L)
  BY Zenon DEF PressForwarded
<1>2. L \in LayoutType /\ DrivenBy(L, {grab, touch_grab})
  <2>1. L = layout \/ L = toggle_overview(layout)
    OBVIOUS
  <2>. QED  BY <2>1, <1>0, ToggleOverviewCalmer, CalmerStep
<1>3. GrabsOK /\ (grab.kind \in PickGrab => grab' = NoGrab)
  <2>1. CASE grab.kind = "None"
    <3>1. set_grab(L, Grab("Click", "none", NoWindow, b))
      <4>1. grab.kind \notin PickGrab /\ grab.kind # "Move"
        BY <2>1 DEF PickGrab
      <4>. QED  BY <4>1, <1>1, <2>1
    <3>2. PICK g : g = Grab("Click", "none", NoWindow, b)
      OBVIOUS
    <3>3. g \in OwnGrab /\ g.kind = "Click"
      BY <3>2, NewGrab DEF Kind, Gesture
    <3>4. DrivenBy(L, {grab, touch_grab, g})
      BY <1>2, MoreGrabs DEF DrivenBy
    <3>. QED  BY <3>1, <3>2, <3>3, <3>4, <2>1, <1>0, <1>2, SetGrab DEF PickGrab
  <2>2. CASE grab.kind \in PickGrab
    <3>1. unset_grab(L)
      BY <1>1, <2>2 DEF PickGrab
    <3>. QED  BY <3>1, <1>0, <1>2, UnsetGrab
  <2>3. CASE grab.kind = "Move" /\ b # grab.by /\ b # "Middle"
    <3>1. PICK r \in on_toggle_floating(L, grab) : continue_with(r)
      BY <1>1, <2>3 DEF PickGrab
    <3>2. grab \in OwnGrab
      BY <2>3, <1>0 DEF AnyGrab, NoGrab
    <3>3. Goes(L, grab, touch_grab, r)
      BY <3>2, <2>3, <1>0, <1>2, FrameGoes DEF DrivenBy, PointerInv
    <3>. QED  BY <3>1, <3>3, <2>3, <1>0, <1>2, ContinueGrab DEF PickGrab
  <2>4. CASE grab.kind \notin PickGrab \cup {"None"} /\ ~(grab.kind = "Move" /\ b # grab.by /\ b # "Middle")
    <3>1. keep_grab(L)
      BY <1>1, <2>4
    <3>. QED  BY <3>1, <2>4, <1>0, <1>2, KeepGrab
  <2>. QED  BY <2>1, <2>2, <2>3, <2>4
<1>4. /\ ScreenshotPress(b) /\ SeatPress(b) /\ PressDown(b)
      /\ suppressed_buttons' = IF grab.kind \in PickGrab THEN suppressed_buttons \union {b} ELSE suppressed_buttons
      /\ UNCHANGED <<slots, touch_grab, gestureVars, has_output>>
  BY DEF PressForwarded
<1>5. DevicesOK'
  BY <1>0, <1>4, ScreenshotPressOK DEF SeatPress, PressDown, DevicesOK, gestureVars
<1>6. DragsEndWithButtons'
  BY <1>3, <1>4, Now DEF SeatPress, PressDown, DragsEndWithButtons, NoGrab, Drag
<1>. QED  BY <1>3, <1>4, <1>5, <1>6, Together DEF gestureVars

LEMMA ScreenshotReleaseOK ==
    \A source : DevicesOK /\ ScreenshotRelease(source) =>
        ui' \subseteq {"mru", "screenshot"} /\ screenshot_button' \in {"Up", "Pointer"} \cup Slot
BY DEF ScreenshotRelease, DevicesOK, uiVars

LEMMA ReleaseKeeps == \A b \in Button : PointerInv /\ Release(b) => PointerInv'
<1>. SUFFICES ASSUME NEW b \in Button, PointerInv, Release(b) PROVE PointerInv'
  OBVIOUS
<1>0. /\ touch_grab' = touch_grab /\ touch_grab \in AnyGrab /\ grab \in AnyGrab /\ DevicesOK /\ layout \in LayoutType
      /\ DrivenBy(layout, {grab, touch_grab}) /\ DragsEndWithButtons
  BY Now DEF Release
<1>1. /\ b \in held /\ b \notin suppressed_buttons /\ held' = held \ {b} /\ seat_pressed' = seat_pressed \ {b}
      /\ UNCHANGED <<suppressed_buttons, lost, tip, slots, gestureVars, has_output>>
  BY DEF Release
<1>2. ui' \subseteq {"mru", "screenshot"} /\ screenshot_button' \in {"Up", "Pointer"} \cup Slot
  BY <1>0, ScreenshotReleaseOK DEF Release, DevicesOK, uiVars
<1>3. DevicesOK'
  BY <1>0, <1>1, <1>2 DEF DevicesOK, gestureVars
<1>4. CASE ReleaseEnds(grab, seat_pressed')
  <2>1. GrabsOK /\ grab' = NoGrab
    BY <1>0, <1>4, UnsetGrab DEF Release
  <2>2. DragsEndWithButtons'
    BY <2>1, <1>0, <1>1 DEF DragsEndWithButtons, NoGrab, Drag
  <2>. QED  BY <2>1, <2>2, <1>1, <1>3, Together DEF gestureVars
<1>5. CASE ~ReleaseEnds(grab, seat_pressed')
  <2>1. GrabsOK /\ grab' = grab
    BY <1>0, <1>5, KeepGrab DEF Release
  <2>2. grab.kind \in Drag => seat_pressed' # {}
    BY <1>5 DEF ReleaseEnds, Drag
  <2>3. DragsEndWithButtons'
    BY <2>1, <2>2, <1>0, <1>1 DEF DragsEndWithButtons
  <2>. QED  BY <2>1, <2>3, <1>1, <1>3, Together DEF gestureVars
<1>. QED  BY <1>4, <1>5

-----------------------------------------------------------------------------
(***************************************************************************)
(* Motion, fingers and the pen.                                            *)
(***************************************************************************)
\* A step of the grabs that touches neither the buttons nor the touchpad.
LEMMA GrabsOnly ==
    ASSUME PointerInv, GrabsOK, grab'.kind \in Drag => grab.kind \in Drag,
           UNCHANGED <<buttonVars, gestureVars>>,
           slots' \subseteq Slot, has_output' \in BOOLEAN,
           ui' \subseteq {"mru", "screenshot"}, screenshot_button' \in {"Up", "Pointer"} \cup Slot
    PROVE  PointerInv'
<1>1. UNCHANGED <<held, seat_pressed, suppressed_buttons, lost, tip, swiping, gesture_swipe_3f_cumulative,
                  overview_scroll_swipe_gesture>>
  BY DEF buttonVars, gestureVars
<1>2. DevicesOK'
  BY <1>1, Now DEF DevicesOK
<1>3. DragsEndWithButtons'
  BY <1>1, Now, SameButtons
<1>. QED  BY <1>1, <1>2, <1>3, Together

\* The same, of a step that leaves the pointer's grab alone.
LEMMA LayoutOnly ==
    ASSUME PointerInv, layout' \in LayoutType, DrivenBy(layout', {grab, touch_grab}),
           UNCHANGED <<buttonVars, gestureVars, grab, touch_grab, picks>>,
           slots' \subseteq Slot, has_output' \in BOOLEAN,
           ui' \subseteq {"mru", "screenshot"}, screenshot_button' \in {"Up", "Pointer"} \cup Slot
    PROVE  PointerInv'
<1>1. GrabsOK
  BY Now DEF GrabsOK, PointerInv, PicksAnswered
<1>. QED  BY <1>1, GrabsOnly

LEMMA UiStays ==
    ASSUME PointerInv, UNCHANGED uiVars
    PROVE  ui' \subseteq {"mru", "screenshot"} /\ screenshot_button' \in {"Up", "Pointer"} \cup Slot
BY Now DEF uiVars, DevicesOK

\* The data that is dragged over the screen; scrolling at its edges belongs to the drag.
LEMMA DndUpdateDriven ==
    ASSUME PointerInv, NEW L \in LayoutType, NEW gs, DrivenBy(L, gs)
    PROVE  dnd_update(L) \in LayoutType /\ DrivenBy(dnd_update(L), gs)
<1>1. PICK d : d = IF L.dnd THEN L ELSE dnd_scroll_gesture_begin(L)
  OBVIOUS
<1>2. /\ d \in LayoutType /\ d.move = L.move /\ d.resizing = L.resizing
      /\ d.switch \in {L.switch, "drag"} /\ d.overview_gesture = L.overview_gesture
  BY <1>1 DEF dnd_scroll_gesture_begin, LayoutType
<1>3. PICK M : M = dnd_update(L)
  OBVIOUS
<1>4. /\ M \in LayoutType /\ M.move = L.move /\ M.resizing = L.resizing /\ M.dnd = TRUE
      /\ M.switch \in {L.switch, "drag"} /\ M.overview_gesture = L.overview_gesture
  BY <1>1, <1>2, <1>3 DEF dnd_update, LayoutType
<1>5. DrivenBy(M, gs)
  BY <1>4 DEF DrivenBy, Driven
<1>. QED  BY <1>3, <1>4, <1>5

LEMMA MotionKeeps == PointerInv /\ Motion => PointerInv'
<1>. SUFFICES ASSUME PointerInv, Motion PROVE PointerInv'
  OBVIOUS
<1>0. /\ grab \in AnyGrab /\ touch_grab \in AnyGrab /\ DevicesOK /\ layout \in LayoutType /\ PointerTypeOK
      /\ DrivenBy(layout, {grab, touch_grab})
  BY Now DEF PointerInv
<1>1. UNCHANGED <<buttonVars, slots, touch_grab, gestureVars, uiVars, has_output>>
  BY DEF Motion
<1>2. GrabsOK /\ grab'.kind \in {"None", grab.kind}
  <2>1. CASE grab.kind \in {"Move", "Spatial", "Resize"}
    <3>1. PICK r : /\ \/ grab.kind = "Move" /\ r \in MoveFrame(layout, grab)
                      \/ grab.kind = "Spatial" /\ r \in SpatialFrame(layout, grab)
                      \/ grab.kind = "Resize" /\ r \in ResizeMotion(layout, grab)
                   /\ continue_with(r)
      BY <2>1 DEF Motion
    <3>2. grab \in OwnGrab
      BY <2>1, <1>0 DEF AnyGrab, NoGrab
    <3>3. Goes(layout, grab, touch_grab, r)
      BY <3>1, <3>2, <1>0, FrameGoes DEF DrivenBy
    <3>. QED  BY <3>1, <3>3, <2>1, <1>1, ContinueGrab DEF PickGrab
  <2>2. CASE grab.kind \notin {"Move", "Spatial", "Resize"}
    <3>1. keep_grab(dnd_update(layout))
      BY <2>2 DEF Motion
    <3>2. PICK M : M = dnd_update(layout)
      OBVIOUS
    <3>3. M \in LayoutType /\ DrivenBy(M, {grab, touch_grab})
      BY <3>2, <1>0, DndUpdateDriven
    <3>. QED  BY <3>1, <3>2, <3>3, <1>0, <1>1, KeepGrab
  <2>. QED  BY <2>1, <2>2
<1>3. "None" \notin Drag
  BY DEF Drag
<1>. QED  BY <1>0, <1>1, <1>2, <1>3, GrabsOnly, UiStays DEF DevicesOK

LEMMA HotCornerKeeps == PointerInv /\ HotCorner => PointerInv'
<1>. SUFFICES ASSUME PointerInv, HotCorner PROVE PointerInv'
  OBVIOUS
<1>1. PICK M : M = toggle_overview(layout)
  OBVIOUS
<1>2. M \in LayoutType /\ DrivenBy(M, {grab, touch_grab})
  BY <1>1, Now, ToggleOverviewCalmer, CalmerStep
<1>3. layout' = M /\ UNCHANGED <<grab, picks>>
      /\ UNCHANGED <<buttonVars, slots, touch_grab, gestureVars, uiVars, has_output>>
  BY <1>1 DEF HotCorner, keep_grab
<1>. QED  BY <1>2, <1>3, Now, LayoutOnly, UiStays DEF DevicesOK

LEMMA TouchDownKeeps == \A s \in Slot : PointerInv /\ TouchDown(s) => PointerInv'
<1>. SUFFICES ASSUME NEW s \in Slot, PointerInv, TouchDown(s) PROVE PointerInv'
  OBVIOUS
<1>0. /\ grab \in AnyGrab /\ touch_grab \in AnyGrab /\ DevicesOK /\ layout \in LayoutType /\ PointerTypeOK
      /\ DrivenBy(layout, {grab, touch_grab}) /\ DrivenBy(layout, {touch_grab, grab})
  BY Now, MoreGrabs DEF PointerInv, DrivenBy
<1>1. slots' = slots \union {s} /\ TouchDownOn(s) /\ UNCHANGED <<buttonVars, grab, gestureVars, picks, has_output>>
  BY DEF TouchDown
<1>2. ui' \subseteq {"mru", "screenshot"} /\ screenshot_button' \in {"Up", "Pointer"} \cup Slot
  <2>1. CASE "screenshot" \in ui
    BY <2>1, <1>0, <1>1 DEF TouchDownOn, DevicesOK
  <2>2. CASE "screenshot" \notin ui /\ "mru" \in ui
    BY <2>2, <1>0, <1>1 DEF TouchDownOn, DevicesOK
  <2>3. CASE "screenshot" \notin ui /\ "mru" \notin ui
    BY <2>3, <1>0, <1>1 DEF TouchDownOn, DevicesOK, uiVars
  <2>. QED  BY <2>1, <2>2, <2>3
<1>3. GrabsOK
  <2>1. CASE touch_grab = NoGrab
    <3>1. layout' = layout
      BY <2>1 DEF TouchDown
    <3>2. touch_grab' \in OwnGrab
      <4>1. CASE \E w \in mapped(layout) \union {NoWindow} : touch_grab' = Grab("Overview", "Recognizing", w, s)
        BY <4>1, NewGrab DEF Kind, Gesture, mapped
      <4>2. CASE \E w \in mapped(layout) : touch_grab' = Grab("Move", "Recognizing", w, s)
        BY <4>2, NewGrab DEF Kind, Gesture, mapped
      <4>3. CASE touch_grab' = Grab("Click", "none", NoWindow, s)
        BY <4>3, NewGrab DEF Kind, Gesture
      <4>. QED  BY <4>1, <4>2, <4>3, <2>1 DEF TouchDown
    <3>3. DrivenBy(layout, {grab})
      BY <2>1, <1>0 DEF DrivenBy, Driven, NoGrab
    <3>4. DrivenBy(layout, {grab, touch_grab'})
      BY <3>3, MoreGrabs DEF DrivenBy
    <3>5. grab' = grab /\ picks' = picks /\ picks \subseteq PickGrab /\ PicksAnswered'
      BY <1>1, Now DEF PointerInv, PicksAnswered
    <3>. QED  BY <3>1, <3>2, <3>4, <3>5, <1>0 DEF GrabsOK, AnyGrab
  <2>2. CASE touch_grab # NoGrab /\ touch_grab.kind = "Move" /\ s # touch_grab.by
    <3>1. PICK r \in on_toggle_floating(layout, touch_grab) : touch_continue_with(r)
      BY <2>2 DEF TouchDown
    <3>2. touch_grab \in OwnGrab
      BY <2>2, <1>0 DEF AnyGrab
    <3>3. Goes(layout, touch_grab, grab, r)
      BY <3>1, <3>2, <2>2, <1>0, FrameGoes DEF DrivenBy
    <3>. QED  BY <3>1, <3>3, <1>1, ContinueTouchGrab
  <2>3. CASE touch_grab # NoGrab /\ ~(touch_grab.kind = "Move" /\ s # touch_grab.by)
    <3>1. \/ keep_touch(layout)
          \/ /\ touch_grab.gesture = "Move" /\ touch_grab.kind = "Overview"
             /\ keep_touch(toggle_window_floating(layout, touch_grab.win))
      BY <2>3 DEF TouchDown
    <3>2. PICK M : M = layout'
      OBVIOUS
    <3>3. M \in LayoutType /\ DrivenBy(M, {grab, touch_grab}) /\ touch_grab' = touch_grab
      <4>1. CASE keep_touch(layout)
        BY <4>1, <3>2, <1>0 DEF keep_touch
      <4>2. CASE /\ touch_grab.gesture = "Move" /\ touch_grab.kind = "Overview"
                 /\ keep_touch(toggle_window_floating(layout, touch_grab.win))
        <5>1. touch_grab.win \in Window
          BY <4>2, <2>3, <1>0 DEF AnyGrab, OwnGrab
        <5>. QED  BY <5>1, <4>2, <3>2, <1>0, ToggleFloatingCalmer, CalmerStep DEF keep_touch
      <4>. QED  BY <4>1, <4>2, <3>1
    <3>4. grab' = grab /\ picks' = picks /\ picks \subseteq PickGrab /\ PicksAnswered'
      BY <1>1, Now DEF PointerInv, PicksAnswered
    <3>. QED  BY <3>2, <3>3, <3>4, <1>0 DEF GrabsOK
  <2>. QED  BY <2>1, <2>2, <2>3
<1>4. slots' \subseteq Slot /\ has_output' \in BOOLEAN /\ UNCHANGED <<buttonVars, gestureVars>>
  BY <1>0, <1>1 DEF DevicesOK
<1>5. grab' = grab
  BY <1>1
<1>. QED  BY <1>2, <1>3, <1>4, <1>5, GrabsOnly

\* The finger's grab goes on as it is.
LEMMA KeepTouch ==
    ASSUME PointerInv, keep_touch(layout), UNCHANGED <<grab, picks>>
    PROVE  GrabsOK
BY Now DEF keep_touch, GrabsOK, PointerInv, PicksAnswered

LEMMA TouchUpKeeps == \A s \in Slot : PointerInv /\ TouchUp(s) => PointerInv'
<1>. SUFFICES ASSUME NEW s \in Slot, PointerInv, TouchUp(s) PROVE PointerInv'
  OBVIOUS
<1>1. /\ slots' = slots \ {s} /\ ScreenshotRelease(s)
      /\ unset_touch_grab(layout) \/ keep_touch(layout)
      /\ UNCHANGED <<buttonVars, grab, gestureVars, picks, has_output>>
  BY DEF TouchUp
<1>2. GrabsOK
  BY <1>1, Now, UnsetTouchGrab, KeepTouch
<1>3. slots' \subseteq Slot /\ has_output' \in BOOLEAN
  BY <1>1, Now DEF DevicesOK
<1>4. ui' \subseteq {"mru", "screenshot"} /\ screenshot_button' \in {"Up", "Pointer"} \cup Slot
  BY <1>1, Now, ScreenshotReleaseOK
<1>5. grab' = grab /\ UNCHANGED <<buttonVars, gestureVars>>
  BY <1>1
<1>. QED  BY <1>2, <1>3, <1>4, <1>5, GrabsOnly

LEMMA TouchMotionKeeps == PointerInv /\ TouchMotion => PointerInv'
<1>. SUFFICES ASSUME PointerInv, TouchMotion PROVE PointerInv'
  OBVIOUS
<1>0. /\ grab \in AnyGrab /\ touch_grab \in AnyGrab /\ DevicesOK /\ layout \in LayoutType /\ PointerTypeOK
      /\ DrivenBy(layout, {grab, touch_grab}) /\ DrivenBy(layout, {touch_grab, grab})
  BY Now, MoreGrabs DEF PointerInv, DrivenBy
<1>1. UNCHANGED <<buttonVars, slots, grab, gestureVars, uiVars, picks, has_output>>
  BY DEF TouchMotion
<1>2. GrabsOK
  <2>1. CASE touch_grab.kind \in {"Move", "Overview", "Resize"}
    <3>1. PICK r : /\ \/ touch_grab.kind = "Move" /\ r \in MoveFrame(layout, touch_grab)
                      \/ touch_grab.kind = "Overview" /\ r \in OverviewMotion(layout, touch_grab)
                      \/ touch_grab.kind = "Resize" /\ r \in ResizeMotion(layout, touch_grab)
                   /\ touch_continue_with(r)
      BY <2>1 DEF TouchMotion
    <3>2. touch_grab \in OwnGrab
      BY <2>1, <1>0 DEF AnyGrab, NoGrab
    <3>3. Goes(layout, touch_grab, grab, r)
      BY <3>1, <3>2, <1>0, FrameGoes DEF DrivenBy
    <3>. QED  BY <3>1, <3>3, <1>1, ContinueTouchGrab
  <2>2. CASE touch_grab.kind \notin {"Move", "Overview", "Resize"}
    <3>1. keep_touch(dnd_update(layout))
      BY <2>2 DEF TouchMotion
    <3>2. PICK M : M = dnd_update(layout)
      OBVIOUS
    <3>3. M \in LayoutType /\ DrivenBy(M, {grab, touch_grab})
      BY <3>2, <1>0, DndUpdateDriven
    <3>4. PicksAnswered' /\ picks' \subseteq PickGrab
      BY <1>1, Now DEF PointerInv, PicksAnswered
    <3>5. layout' = M /\ touch_grab' = touch_grab /\ grab' = grab
      BY <3>1, <3>2, <1>1 DEF keep_touch
    <3>. QED  BY <3>3, <3>4, <3>5, <1>0 DEF GrabsOK
  <2>. QED  BY <2>1, <2>2
<1>3. slots' \subseteq Slot /\ has_output' \in BOOLEAN /\ grab' = grab
      /\ UNCHANGED <<buttonVars, gestureVars>> /\ UNCHANGED uiVars
  BY <1>0, <1>1 DEF DevicesOK
<1>. QED  BY <1>2, <1>3, GrabsOnly, UiStays

LEMMA TouchCancelKeeps == PointerInv /\ TouchCancel => PointerInv'
<1>. SUFFICES ASSUME PointerInv, TouchCancel PROVE PointerInv'
  OBVIOUS
<1>1. /\ slots' = {} /\ unset_touch_grab(layout)
      /\ UNCHANGED <<buttonVars, grab, gestureVars, uiVars, picks, has_output>>
  BY DEF TouchCancel
<1>2. GrabsOK
  BY <1>1, Now, UnsetTouchGrab
<1>3. slots' \subseteq Slot /\ has_output' \in BOOLEAN
  BY <1>1, Now DEF DevicesOK
<1>. QED  BY <1>1, <1>2, <1>3, GrabsOnly, UiStays

LEMMA PenKeeps == PointerInv /\ (TipDown \/ TipUp) => PointerInv'
<1>1. ASSUME PointerInv, TipDown PROVE PointerInv'
  <2>1. ui' \subseteq {"mru", "screenshot"} /\ screenshot_button' \in {"Up", "Pointer"} \cup Slot
    BY <1>1, Now, ScreenshotPressOK DEF TipDown, DevicesOK
  <2>2. UNCHANGED <<held, seat_pressed, suppressed_buttons, lost, slots, grab, touch_grab, gestureVars,
                    picks, has_output>> /\ tip' = TRUE
    BY <1>1 DEF TipDown
  <2>3. layout' = layout \/ layout' = toggle_overview(layout)
    BY <1>1 DEF TipDown
  <2>4. PICK M : M = layout'
    OBVIOUS
  <2>5. M \in LayoutType /\ DrivenBy(M, {grab, touch_grab})
    BY <1>1, <2>3, <2>4, Now, ToggleOverviewCalmer, CalmerStep
  <2>6. GrabsOK
    BY <1>1, <2>2, <2>4, <2>5, Now DEF GrabsOK, PointerInv, PicksAnswered
  <2>7. DevicesOK'
    BY <1>1, <2>1, <2>2, Now DEF DevicesOK, gestureVars
  <2>8. DragsEndWithButtons'
    BY <1>1, <2>2, Now, SameButtons
  <2>. QED  BY <1>1, <2>2, <2>6, <2>7, <2>8, Together DEF gestureVars
<1>2. ASSUME PointerInv, TipUp PROVE PointerInv'
  <2>1. ui' \subseteq {"mru", "screenshot"} /\ screenshot_button' \in {"Up", "Pointer"} \cup Slot
    BY <1>2, Now, ScreenshotReleaseOK DEF TipUp
  <2>2. UNCHANGED <<held, seat_pressed, suppressed_buttons, lost, slots, grab, touch_grab, layout, gestureVars,
                    picks, has_output>> /\ tip' = FALSE
    BY <1>2 DEF TipUp
  <2>3. GrabsOK
    BY <1>2, <2>2, Now DEF GrabsOK, PointerInv, PicksAnswered
  <2>4. DevicesOK'
    BY <1>2, <2>1, <2>2, Now DEF DevicesOK, gestureVars
  <2>5. DragsEndWithButtons'
    BY <1>2, <2>2, Now, SameButtons
  <2>. QED  BY <1>2, <2>2, <2>3, <2>4, <2>5, Together DEF gestureVars
<1>. QED  BY <1>1, <1>2

-----------------------------------------------------------------------------
(***************************************************************************)
(* The touchpad.                                                           *)
(***************************************************************************)
\* A step of the touchpad's own gestures.
LEMMA TouchpadOnly ==
    ASSUME PointerInv, layout' \in LayoutType,
           Driven(layout', {grab, touch_grab}, swiping', overview_scroll_swipe_gesture'),
           swiping' \in BOOLEAN, gesture_swipe_3f_cumulative' \in BOOLEAN,
           overview_scroll_swipe_gesture' \in BOOLEAN,
           UNCHANGED <<held, seat_pressed, suppressed_buttons, lost, tip, slots, grab, touch_grab,
                       ui, screenshot_button, picks, has_output>>
    PROVE  PointerInv'
<1>1. DevicesOK'
  BY Now DEF DevicesOK
<1>2. DragsEndWithButtons'
  BY Now, SameButtons
<1>3. PointerTypeOK'
  BY <1>1, Now DEF PointerTypeOK
<1>4. PicksAnswered'
  BY DEF PointerInv, PicksAnswered
<1>. QED  BY <1>2, <1>3, <1>4 DEF PointerInv, GesturesInv

LEMMA SwipeKeeps ==
    PointerInv /\ (on_gesture_swipe_begin \/ on_gesture_swipe_update \/ on_gesture_swipe_end) => PointerInv'
<1>. SUFFICES ASSUME PointerInv, on_gesture_swipe_begin \/ on_gesture_swipe_update \/ on_gesture_swipe_end
              PROVE  PointerInv'
  OBVIOUS
<1>0. /\ DevicesOK /\ layout \in LayoutType
      /\ Driven(layout, {grab, touch_grab}, swiping, overview_scroll_swipe_gesture)
  BY Now DEF DrivenBy
<1>1. /\ UNCHANGED <<held, seat_pressed, suppressed_buttons, lost, tip, slots, grab, touch_grab,
                     ui, screenshot_button, picks, has_output>>
      /\ UNCHANGED overview_scroll_swipe_gesture
  BY DEF on_gesture_swipe_begin, on_gesture_swipe_update, on_gesture_swipe_end, GestureOnly, buttonVars, uiVars
<1>2. swiping' \in BOOLEAN /\ gesture_swipe_3f_cumulative' \in BOOLEAN /\ overview_scroll_swipe_gesture' \in BOOLEAN
  BY <1>0, <1>1 DEF on_gesture_swipe_begin, on_gesture_swipe_update, on_gesture_swipe_end, DevicesOK
<1>3. CASE on_gesture_swipe_begin
  <2>1. swiping' = TRUE /\ (layout' = layout \/ layout' = overview_gesture_begin(layout))
    BY <1>3 DEF on_gesture_swipe_begin
  <2>2. layout' \in LayoutType /\ Driven(layout', {grab, touch_grab}, TRUE, overview_scroll_swipe_gesture)
    BY <2>1, <1>0, ZenonT(60) DEF overview_gesture_begin, Driven, LayoutType
  <2>. QED  BY <2>1, <2>2, <1>1, <1>2, TouchpadOnly
<1>4. CASE on_gesture_swipe_update
  <2>1. swiping' = swiping /\ swiping
        /\ (layout' = layout \/ layout' = workspace_switch_gesture_begin(layout, "touchpad"))
    BY <1>4 DEF on_gesture_swipe_update
  <2>2. layout' \in LayoutType /\ Driven(layout', {grab, touch_grab}, swiping, overview_scroll_swipe_gesture)
    BY <2>1, <1>0 DEF workspace_switch_gesture_begin, Driven, LayoutType
  <2>. QED  BY <2>1, <2>2, <1>1, <1>2, TouchpadOnly
<1>5. CASE on_gesture_swipe_end
  <2>1. PICK M : M = workspace_switch_gesture_end(layout, "touchpad")
    OBVIOUS
  <2>2. /\ M \in LayoutType /\ M.move = layout.move /\ M.resizing = layout.resizing /\ M.dnd = layout.dnd
        /\ M.switch \in {layout.switch, "none"} /\ M.switch # "touchpad"
        /\ M.overview_gesture = layout.overview_gesture
    BY <2>1, <1>0 DEF workspace_switch_gesture_end, LayoutType
  <2>3. swiping' = FALSE /\ layout' \in overview_gesture_end(M)
    BY <2>1, <1>5 DEF on_gesture_swipe_end
  <2>4. /\ layout' \in LayoutType /\ layout'.move = M.move /\ layout'.resizing = M.resizing /\ layout'.dnd = M.dnd
        /\ layout'.switch = M.switch /\ ~layout'.overview_gesture
    <3>1. CASE M.overview_gesture
      <4>1. PICK o \in BOOLEAN : layout' = [M EXCEPT !.overview = o, !.overview_gesture = FALSE]
        BY <3>1, <2>3 DEF overview_gesture_end
      <4>. QED  BY <4>1, <2>2 DEF LayoutType
    <3>2. CASE ~M.overview_gesture
      BY <3>2, <2>2, <2>3 DEF overview_gesture_end
    <3>. QED  BY <3>1, <3>2
  <2>5. Driven(layout', {grab, touch_grab}, FALSE, overview_scroll_swipe_gesture)
    BY <2>2, <2>4, <1>0 DEF Driven
  <2>. QED  BY <2>3, <2>4, <2>5, <1>1, <1>2, TouchpadOnly
<1>. QED  BY <1>3, <1>4, <1>5

\* Ending the touchpad's switch of workspaces leaves one that it does not drive.
LEMMA ScrollEndDriven ==
    ASSUME PointerInv
    PROVE  /\ OverviewScrollEnd \in LayoutType /\ DrivenBy(OverviewScrollEnd, {grab, touch_grab})
           /\ OverviewScrollEnd.switch # "touchpad"
<1>1. PICK M : M = OverviewScrollEnd
  OBVIOUS
<1>2. M \in LayoutType /\ DrivenBy(M, {grab, touch_grab})
  BY <1>1, Now, SwitchEndCalmer, CalmerStep DEF OverviewScrollEnd
<1>3. M.switch # "touchpad"
  BY <1>1, Now DEF OverviewScrollEnd, workspace_switch_gesture_end, LayoutType
<1>. QED  BY <1>1, <1>2, <1>3

LEMMA OverviewScrollKeeps == PointerInv /\ OverviewScroll => PointerInv'
<1>. SUFFICES ASSUME PointerInv, OverviewScroll PROVE PointerInv'
  OBVIOUS
<1>0. /\ DevicesOK /\ layout \in LayoutType
      /\ Driven(layout, {grab, touch_grab}, swiping, overview_scroll_swipe_gesture)
  BY Now DEF DrivenBy
<1>1. /\ UNCHANGED <<held, seat_pressed, suppressed_buttons, lost, tip, slots, grab, touch_grab,
                     ui, screenshot_button, picks, has_output>>
      /\ swiping' = swiping /\ gesture_swipe_3f_cumulative' = gesture_swipe_3f_cumulative
      /\ overview_scroll_swipe_gesture' = ~overview_scroll_swipe_gesture
  BY DEF OverviewScroll, GestureOnly, buttonVars, uiVars
<1>2. swiping' \in BOOLEAN /\ gesture_swipe_3f_cumulative' \in BOOLEAN /\ overview_scroll_swipe_gesture' \in BOOLEAN
  BY <1>0, <1>1 DEF DevicesOK
<1>3. CASE overview_scroll_swipe_gesture
  <2>1. layout' = OverviewScrollEnd
    BY <1>3 DEF OverviewScroll
  <2>2. layout' \in LayoutType /\ layout'.switch # "touchpad"
        /\ Driven(layout', {grab, touch_grab}, swiping, overview_scroll_swipe_gesture)
    BY <2>1, ScrollEndDriven DEF DrivenBy
  <2>3. Driven(layout', {grab, touch_grab}, swiping, FALSE)
    BY <2>2 DEF Driven
  <2>. QED  BY <2>2, <2>3, <1>1, <1>2, <1>3, TouchpadOnly
<1>4. CASE ~overview_scroll_swipe_gesture
  <2>1. layout' = layout \/ layout' = workspace_switch_gesture_begin(layout, "touchpad")
    BY <1>4 DEF OverviewScroll
  <2>2. layout' \in LayoutType /\ Driven(layout', {grab, touch_grab}, swiping, TRUE)
    BY <2>1, <1>0 DEF workspace_switch_gesture_begin, Driven, LayoutType
  <2>. QED  BY <2>2, <1>1, <1>2, <1>4, TouchpadOnly
<1>. QED  BY <1>3, <1>4

\* No action and no end of a grab makes a switch of workspaces the touchpad's.
LEMMA DoActionSwitch ==
    ASSUME PointerInv, NEW before \in LayoutType, DrivenBy(before, {grab, touch_grab}), DoAction(before)
    PROVE  layout'.switch \in {before.switch, "none"}
<1>1. ASSUME NEW L \in LayoutType, NEW g PROVE on_ungrab(L, g).switch \in {L.switch, "none"}
  <2>1. /\ ActivateOnRelease(L, g).switch = L.switch
        /\ interactive_move_end(L, g.win).switch \in {L.switch, "none"}
        /\ workspace_switch_gesture_end(L, "grab").switch \in {L.switch, "none"}
        /\ interactive_resize_end(L, g.win).switch = L.switch
        /\ dnd_end(L).switch \in {L.switch, "none"}
    BY DEF ActivateOnRelease, toggle_overview, interactive_move_end, workspace_switch_gesture_end,
           interactive_resize_end, dnd_end, dnd_scroll_gesture_end, LayoutType
  <2>2. CASE g.kind \in {"Move", "Overview"} /\ g.gesture = "Recognizing"
    BY <2>1, <2>2 DEF on_ungrab
  <2>3. CASE g.kind \in {"Move", "Overview"} /\ g.gesture = "Move"
    BY <2>1, <2>3 DEF on_ungrab
  <2>4. CASE g.kind \in {"Spatial", "Overview"} /\ g.gesture = "WorkspaceSwitch"
    BY <2>1, <2>4 DEF on_ungrab
  <2>5. CASE g.kind = "Resize"
    BY <2>1, <2>5 DEF on_ungrab
  <2>6. CASE g.kind = "Dnd"
    BY <2>1, <2>6 DEF on_ungrab
  <2>7. CASE /\ ~(g.kind \in {"Move", "Overview"} /\ g.gesture \in {"Recognizing", "Move"})
             /\ ~(g.kind \in {"Spatial", "Overview"} /\ g.gesture = "WorkspaceSwitch")
             /\ g.kind \notin {"Resize", "Dnd"}
    BY <2>7 DEF on_ungrab
  <2>. QED  BY <2>2, <2>3, <2>4, <2>5, <2>6, <2>7
<1>2. PICK L : L = cancel_touch(before)
  OBVIOUS
<1>3. L.switch \in {before.switch, "none"}
  BY <1>1, <1>2 DEF cancel_touch
<1>4. L \in LayoutType
  <2>1. DrivenBy(before, {touch_grab, grab, NoGrab})
    BY MoreGrabs DEF DrivenBy
  <2>2. touch_grab \in AnyGrab /\ swiping \in BOOLEAN /\ overview_scroll_swipe_gesture \in BOOLEAN
    BY Now DEF DevicesOK
  <2>. QED  BY <2>1, <2>2, <1>2, UngrabDriven DEF cancel_touch, DrivenBy
<1>5. \/ layout' = on_ungrab(L, grab) \/ layout' = L \/ layout' = toggle_overview(L)
      \/ \E w \in Window : layout' = toggle_window_floating(L, w)
  BY <1>2 DEF DoAction, open_screenshot_ui, unset_grab, keep_grab
<1>6. layout'.switch \in {L.switch, "none"}
  <2>1. CASE layout' = on_ungrab(L, grab)
    BY <2>1, <1>1, <1>4
  <2>2. CASE layout' = L \/ layout' = toggle_overview(L)
    BY <2>2, <1>4 DEF toggle_overview, LayoutType
  <2>3. CASE \E w \in Window : layout' = toggle_window_floating(L, w)
    BY <2>3, <1>4 DEF toggle_window_floating, LayoutType
  <2>. QED  BY <2>1, <2>2, <2>3, <1>5
<1>. QED  BY <1>3, <1>6

\* A step that ends the scroll of the touchpad, and with it the touchpad's switch of workspaces.
LEMMA OtherScrollKeeps == PointerInv /\ OtherScroll => PointerInv'
<1>. SUFFICES ASSUME PointerInv, OtherScroll PROVE PointerInv'
  OBVIOUS
<1>1. PICK M : M = OverviewScrollEnd
  OBVIOUS
<1>2. M \in LayoutType /\ DrivenBy(M, {grab, touch_grab}) /\ M.switch # "touchpad"
  BY <1>1, ScrollEndDriven
<1>3. /\ overview_scroll_swipe_gesture' = FALSE
      /\ UNCHANGED <<buttonVars, slots, swiping, gesture_swipe_3f_cumulative, has_output>>
      /\ (keep_grab(M) /\ UNCHANGED <<touch_grab, uiVars>>) \/ DoAction(M)
  BY <1>1 DEF OtherScroll
<1>4. /\ GrabsOK /\ (grab' = grab \/ grab' = NoGrab) /\ layout'.switch # "touchpad"
      /\ ui' \subseteq {"mru", "screenshot"} /\ screenshot_button' \in {"Up", "Pointer"} \cup Slot
  <2>1. CASE keep_grab(M) /\ UNCHANGED <<touch_grab, uiVars>>
    <3>1. GrabsOK /\ grab' = grab
      BY <2>1, <1>2, Now, KeepGrab
    <3>. QED  BY <3>1, <2>1, <1>2, UiStays DEF keep_grab
  <2>2. CASE DoAction(M)
    <3>1. layout'.switch \in {M.switch, "none"}
      BY <2>2, <1>2, DoActionSwitch
    <3>. QED  BY <3>1, <2>2, <1>2, DoActionKeeps
  <2>. QED  BY <2>1, <2>2, <1>3
<1>5. UNCHANGED <<held, seat_pressed, suppressed_buttons, lost, tip>>
  BY <1>3 DEF buttonVars
<1>6. DevicesOK'
  BY <1>3, <1>4, <1>5, Now DEF DevicesOK
<1>7. DragsEndWithButtons'
  BY <1>4, <1>5, Now, SameButtons DEF NoGrab, Drag
<1>8. Driven(layout', {grab', touch_grab'}, swiping, FALSE)
  BY <1>4 DEF GrabsOK, DrivenBy, Driven
<1>9. GesturesInv'
  BY <1>3, <1>8 DEF GesturesInv
<1>. QED  BY <1>4, <1>6, <1>7, <1>9 DEF PointerInv, PointerTypeOK, GrabsOK

\* A step that ends the touch and leaves the pointer's grab alone.
LEMMA WheelKeeps == PointerInv /\ WheelInOverview => PointerInv'
<1>. SUFFICES ASSUME PointerInv, WheelInOverview PROVE PointerInv'
  OBVIOUS
<1>1. PICK L : L = cancel_touch(layout)
  OBVIOUS
<1>2. L \in LayoutType /\ DrivenBy(L, {grab, NoGrab})
  <2>1. DrivenBy(layout, {touch_grab, grab, NoGrab})
    BY Now, MoreGrabs DEF DrivenBy
  <2>2. L \in LayoutType /\ DrivenBy(L, {NoGrab, grab})
    BY <1>1, <2>1, Now, UngrabDriven, ZenonT(60) DEF cancel_touch, DrivenBy, DevicesOK
  <2>3. {NoGrab, grab} = {grab, NoGrab}
    OBVIOUS
  <2>. QED  BY <2>2, <2>3
<1>3. PICK M : M = activate(L)
  OBVIOUS
<1>4. M \in LayoutType /\ DrivenBy(M, {grab, NoGrab})
  BY <1>2, <1>3, SwitchEndCalmer, CalmerStep
<1>5. /\ keep_grab(M) /\ touch_grab' = NoGrab
      /\ UNCHANGED <<buttonVars, slots, gestureVars, uiVars, has_output>>
  BY <1>1, <1>3 DEF WheelInOverview
<1>6. GrabsOK /\ grab' = grab
  BY <1>4, <1>5, Now, KeepGrab
<1>. QED  BY <1>5, <1>6, Now, GrabsOnly, UiStays DEF DevicesOK

-----------------------------------------------------------------------------
(***************************************************************************)
(* The requests of clients and tools, and the rest of the compositor.      *)
(***************************************************************************)
\* The touch's grab is replaced by g, told that it ended.
LEMMA SetTouchGrab ==
    ASSUME PointerInv, NEW L \in LayoutType, NEW g \in OwnGrab, DrivenBy(L, {grab, touch_grab, g}),
           touch_grab' = g, layout' = on_ungrab(L, touch_grab), UNCHANGED <<grab, picks>>
    PROVE  GrabsOK
<1>1. /\ touch_grab \in AnyGrab /\ swiping \in BOOLEAN /\ overview_scroll_swipe_gesture \in BOOLEAN
      /\ grab \in AnyGrab /\ picks \subseteq PickGrab
  BY Now DEF DevicesOK
<1>2. DrivenBy(L, {touch_grab, grab, g})
  BY MoreGrabs DEF DrivenBy
<1>3. on_ungrab(L, touch_grab) \in LayoutType /\ DrivenBy(on_ungrab(L, touch_grab), {g, grab})
  BY <1>1, <1>2, UngrabDriven DEF DrivenBy
<1>4. {g, grab} = {grab', touch_grab'}
  OBVIOUS
<1>5. PicksAnswered'
  BY DEF PointerInv, PicksAnswered
<1>. QED  BY <1>1, <1>3, <1>4, <1>5 DEF GrabsOK, AnyGrab

\* Either grab gives way to g, which drives a gesture of its own at most.
LEMMA Replaced ==
    ASSUME PointerInv, NEW L \in LayoutType, NEW g \in OwnGrab, g.kind \notin PickGrab,
           DrivenBy(L, {grab, touch_grab, g}),
           \/ grab.kind \in Drag /\ set_grab(L, g) /\ UNCHANGED touch_grab
           \/ touch_grab' = g /\ layout' = on_ungrab(L, touch_grab) /\ UNCHANGED <<grab, picks>>,
           UNCHANGED <<buttonVars, slots, gestureVars, uiVars, has_output>>
    PROVE  PointerInv'
<1>1. GrabsOK /\ (grab'.kind \in Drag => grab.kind \in Drag)
  BY Now, SetGrab, SetTouchGrab
<1>2. slots' \subseteq Slot /\ has_output' \in BOOLEAN
  BY Now DEF DevicesOK
<1>. QED  BY <1>1, <1>2, GrabsOnly, UiStays

LEMMA MoveRequestKeeps == PointerInv /\ move_request => PointerInv'
<1>. SUFFICES ASSUME PointerInv, move_request PROVE PointerInv'
  OBVIOUS
<1>1. UNCHANGED <<buttonVars, slots, gestureVars, uiVars, has_output>>
  BY DEF move_request
<1>2. PICK w \in mapped(layout) : has_output /\
         \/ /\ grab.kind \in {"Click", "Move", "Resize"}
            /\ set_grab(layout, Grab("Move", "Recognizing", w, grab.by)) /\ UNCHANGED touch_grab
         \/ /\ touch_grab.kind \in {"Click", "Move", "Resize"}
            /\ touch_grab' = Grab("Move", "Recognizing", w, touch_grab.by)
            /\ layout' = on_ungrab(layout, touch_grab) /\ UNCHANGED <<grab, picks>>
  BY Zenon DEF move_request
<1>3. w \in Window
  BY DEF mapped
<1>4. CASE grab.kind \in {"Click", "Move", "Resize"}
           /\ set_grab(layout, Grab("Move", "Recognizing", w, grab.by)) /\ UNCHANGED touch_grab
  <2>1. PICK g : g = Grab("Move", "Recognizing", w, grab.by)
    OBVIOUS
  <2>2. grab.by \in Button \cup Slot \cup {"none"}
    BY <1>4, Now, GrabsBy DEF NoGrab
  <2>3. g \in OwnGrab /\ g.kind = "Move"
    BY <2>1, <2>2, <1>3, NewGrab DEF Kind, Gesture
  <2>4. layout \in LayoutType /\ DrivenBy(layout, {grab, touch_grab, g})
    BY Now, MoreGrabs DEF DrivenBy
  <2>. QED  BY <2>1, <2>3, <2>4, <1>1, <1>4, Replaced DEF PickGrab, Drag
<1>5. CASE /\ touch_grab.kind \in {"Click", "Move", "Resize"}
           /\ touch_grab' = Grab("Move", "Recognizing", w, touch_grab.by)
           /\ layout' = on_ungrab(layout, touch_grab) /\ UNCHANGED <<grab, picks>>
  <2>1. PICK g : g = Grab("Move", "Recognizing", w, touch_grab.by)
    OBVIOUS
  <2>2. touch_grab.by \in Button \cup Slot \cup {"none"}
    BY <1>5, Now, GrabsBy DEF NoGrab
  <2>3. g \in OwnGrab /\ g.kind = "Move"
    BY <2>1, <2>2, <1>3, NewGrab DEF Kind, Gesture
  <2>4. layout \in LayoutType /\ DrivenBy(layout, {grab, touch_grab, g})
    BY Now, MoreGrabs DEF DrivenBy
  <2>. QED  BY <2>1, <2>3, <2>4, <1>1, <1>5, Replaced DEF PickGrab
<1>. QED  BY <1>2, <1>4, <1>5

LEMMA ResizeRequestKeeps == PointerInv /\ resize_request => PointerInv'
<1>. SUFFICES ASSUME PointerInv, resize_request PROVE PointerInv'
  OBVIOUS
<1>1. UNCHANGED <<buttonVars, slots, gestureVars, uiVars, has_output>>
  BY DEF resize_request
<1>2. PICK w \in mapped(layout) : \E L \in interactive_resize_begin(layout, w) :
         \/ /\ grab.kind \in {"Click", "Move", "Resize"}
            /\ set_grab(L, Grab("Resize", "none", w, grab.by)) /\ UNCHANGED touch_grab
         \/ /\ touch_grab.kind \in {"Click", "Move", "Resize"}
            /\ touch_grab' = Grab("Resize", "none", w, touch_grab.by)
            /\ layout' = on_ungrab(L, touch_grab) /\ UNCHANGED <<grab, picks>>
  BY Zenon DEF resize_request
<1>3. PICK L \in interactive_resize_begin(layout, w) :
         \/ /\ grab.kind \in {"Click", "Move", "Resize"}
            /\ set_grab(L, Grab("Resize", "none", w, grab.by)) /\ UNCHANGED touch_grab
         \/ /\ touch_grab.kind \in {"Click", "Move", "Resize"}
            /\ touch_grab' = Grab("Resize", "none", w, touch_grab.by)
            /\ layout' = on_ungrab(L, touch_grab) /\ UNCHANGED <<grab, picks>>
  BY <1>2
<1>4. w \in Window
  BY DEF mapped
<1>5. CASE grab.kind \in {"Click", "Move", "Resize"}
           /\ set_grab(L, Grab("Resize", "none", w, grab.by)) /\ UNCHANGED touch_grab
  <2>1. PICK g : g = Grab("Resize", "none", w, grab.by)
    OBVIOUS
  <2>2. grab.by \in Button \cup Slot \cup {"none"}
    BY <1>5, Now, GrabsBy DEF NoGrab
  <2>3. g \in OwnGrab /\ g.kind = "Resize" /\ L \in LayoutType /\ DrivenBy(L, {grab, touch_grab, g})
    BY <2>1, <2>2, <1>4, ResizeBegins
  <2>. QED  BY <2>1, <2>3, <1>1, <1>5, Replaced DEF PickGrab, Drag
<1>6. CASE /\ touch_grab.kind \in {"Click", "Move", "Resize"}
           /\ touch_grab' = Grab("Resize", "none", w, touch_grab.by)
           /\ layout' = on_ungrab(L, touch_grab) /\ UNCHANGED <<grab, picks>>
  <2>1. PICK g : g = Grab("Resize", "none", w, touch_grab.by)
    OBVIOUS
  <2>2. touch_grab.by \in Button \cup Slot \cup {"none"}
    BY <1>6, Now, GrabsBy DEF NoGrab
  <2>3. g \in OwnGrab /\ g.kind = "Resize" /\ L \in LayoutType /\ DrivenBy(L, {grab, touch_grab, g})
    BY <2>1, <2>2, <1>4, ResizeBegins
  <2>. QED  BY <2>1, <2>3, <1>1, <1>6, Replaced DEF PickGrab
<1>. QED  BY <1>3, <1>5, <1>6

LEMMA DndRequestedKeeps == PointerInv /\ dnd_requested => PointerInv'
<1>. SUFFICES ASSUME PointerInv, dnd_requested PROVE PointerInv'
  OBVIOUS
<1>1. UNCHANGED <<buttonVars, slots, gestureVars, uiVars, has_output>>
  BY DEF dnd_requested
<1>2. CASE grab.kind = "Click" /\ set_grab(layout, Grab("Dnd", "none", NoWindow, grab.by)) /\ UNCHANGED touch_grab
  <2>1. PICK g : g = Grab("Dnd", "none", NoWindow, grab.by)
    OBVIOUS
  <2>2. grab.by \in Button \cup Slot \cup {"none"}
    BY <1>2, Now, GrabsBy DEF NoGrab
  <2>3. g \in OwnGrab /\ g.kind = "Dnd"
    BY <2>1, <2>2, NewGrab DEF Kind, Gesture
  <2>4. layout \in LayoutType /\ DrivenBy(layout, {grab, touch_grab, g})
    BY Now, MoreGrabs DEF DrivenBy
  <2>. QED  BY <2>1, <2>3, <2>4, <1>1, <1>2, Replaced DEF PickGrab, Drag
<1>3. CASE /\ touch_grab.kind = "Click"
           /\ touch_grab' = Grab("Dnd", "none", NoWindow, touch_grab.by) /\ UNCHANGED <<layout, grab, picks>>
  <2>1. PICK g : g = Grab("Dnd", "none", NoWindow, touch_grab.by)
    OBVIOUS
  <2>2. touch_grab.by \in Button \cup Slot \cup {"none"}
    BY <1>3, Now, GrabsBy DEF NoGrab
  <2>3. g \in OwnGrab /\ g.kind = "Dnd"
    BY <2>1, <2>2, NewGrab DEF Kind, Gesture
  <2>4. layout \in LayoutType /\ DrivenBy(layout, {grab, touch_grab, g})
    BY Now, MoreGrabs DEF DrivenBy
  <2>5. layout' = on_ungrab(layout, touch_grab)
    BY <1>3 DEF on_ungrab
  <2>. QED  BY <2>1, <2>3, <2>4, <2>5, <1>1, <1>3, Replaced DEF PickGrab
<1>. QED  BY <1>2, <1>3 DEF dnd_requested

LEMMA PickKeeps == \A k \in PickGrab : PointerInv /\ Pick(k) => PointerInv'
<1>. SUFFICES ASSUME NEW k \in PickGrab, PointerInv, Pick(k) PROVE PointerInv'
  OBVIOUS
<1>1. PICK g : g = Grab(k, "none", NoWindow, "none")
  OBVIOUS
<1>2. g \in OwnGrab /\ g.kind = k
  BY <1>1, NewGrab DEF Kind, Gesture, PickGrab
<1>3. /\ grab' = g /\ layout' = on_ungrab(layout, grab) /\ picks' = (picks \ {grab.kind}) \union {k}
      /\ UNCHANGED <<buttonVars, slots, touch_grab, gestureVars, uiVars, has_output>>
  BY <1>1 DEF Pick
<1>4. DrivenBy(layout, {grab, touch_grab, g}) /\ swiping \in BOOLEAN /\ overview_scroll_swipe_gesture \in BOOLEAN
  BY Now, MoreGrabs DEF DrivenBy, DevicesOK
<1>5. layout' \in LayoutType /\ DrivenBy(layout', {g, touch_grab})
  BY <1>3, <1>4, Now, UngrabDriven DEF DrivenBy
<1>6. PicksAnswered' /\ picks' \subseteq PickGrab
  BY <1>2, <1>3, Now DEF PointerInv, PicksAnswered
<1>7. GrabsOK
  BY <1>2, <1>3, <1>5, <1>6, Now DEF GrabsOK, AnyGrab
<1>8. grab'.kind \notin Drag
  BY <1>2, <1>3 DEF PickGrab, Drag
<1>. QED  BY <1>3, <1>7, <1>8, Now, GrabsOnly, UiStays DEF DevicesOK

LEMMA CancelGrabKeeps == PointerInv /\ CancelGrab => PointerInv'
<1>. SUFFICES ASSUME PointerInv, CancelGrab PROVE PointerInv'
  OBVIOUS
<1>1. unset_grab(layout) /\ UNCHANGED <<buttonVars, slots, touch_grab, gestureVars, uiVars, has_output>>
  BY DEF CancelGrab
<1>2. GrabsOK /\ grab' = NoGrab
  BY <1>1, Now, UnsetGrab
<1>. QED  BY <1>1, <1>2, Now, GrabsOnly, UiStays DEF DevicesOK, NoGrab, Drag

LEMMA ActKeeps == PointerInv /\ Act => PointerInv'
<1>. SUFFICES ASSUME PointerInv, Act PROVE PointerInv'
  OBVIOUS
<1>1. DoAction(layout) /\ UNCHANGED <<buttonVars, slots, gestureVars, has_output>>
  BY DEF Act
<1>2. /\ GrabsOK /\ (grab' = grab \/ grab' = NoGrab)
      /\ ui' \subseteq {"mru", "screenshot"} /\ screenshot_button' \in {"Up", "Pointer"} \cup Slot
  BY <1>1, Now, DoActionKeeps
<1>. QED  BY <1>1, <1>2, Now, GrabsOnly DEF DevicesOK, NoGrab, Drag

\* A window that closes takes the move and the resize of it along.
LEMMA WindowsKeep == \A w \in Window : PointerInv /\ (WindowGone(w) \/ WindowMapped(w)) => PointerInv'
<1>. SUFFICES ASSUME NEW w \in Window, PointerInv, WindowGone(w) \/ WindowMapped(w) PROVE PointerInv'
  OBVIOUS
<1>1. /\ UNCHANGED <<buttonVars, gestureVars, grab, touch_grab, picks, slots, has_output>> /\ UNCHANGED uiVars
  BY DEF WindowGone, WindowMapped, Environment
<1>2. layout' \in LayoutType /\ DrivenBy(layout', {grab, touch_grab})
  <2>0. layout \in LayoutType /\ DrivenBy(layout, {grab, touch_grab})
    BY Now
  <2>1. CASE WindowGone(w)
    <3>1. PICK M : M = interactive_move_end(layout, w)
      OBVIOUS
    <3>2. /\ M \in LayoutType /\ M.resizing = layout.resizing /\ M.overview_gesture = layout.overview_gesture
          /\ M.dnd = layout.dnd /\ M.move \in {layout.move, NoWindow}
          /\ M.switch \in {layout.switch, "none"} /\ (M.switch = "drag" => M.move = layout.move)
      BY <3>1, <2>0 DEF interactive_move_end, dnd_scroll_gesture_end, LayoutType
    <3>3. PICK v : v = [M.win EXCEPT ![w] = "gone"]
      OBVIOUS
    <3>4. v \in [Window -> {"floating", "tiled", "gone"}]
      BY <3>2, <3>3 DEF LayoutType
    <3>5. layout' = [M EXCEPT !.win = v, !.resizing = M.resizing \ {w}]
      BY <3>1, <3>2, <3>3, <2>1 DEF WindowGone, remove_window, LayoutType
    <3>6. /\ layout' \in LayoutType /\ layout'.resizing \subseteq layout.resizing
          /\ layout'.overview_gesture = layout.overview_gesture
          /\ layout'.dnd = layout.dnd /\ layout'.move = M.move /\ layout'.switch = M.switch
      BY <3>2, <3>4, <3>5 DEF LayoutType
    <3>. QED  BY <3>2, <3>6, <2>0 DEF DrivenBy, Driven
  <2>2. CASE WindowMapped(w)
    <3>1. PICK s \in {"tiled", "floating"} : layout' = [layout EXCEPT !.win[w] = s]
      BY <2>2 DEF WindowMapped
    <3>2. PICK v : v = [layout.win EXCEPT ![w] = s]
      OBVIOUS
    <3>3. v \in [Window -> {"floating", "tiled", "gone"}]
      BY <3>2, <2>0 DEF LayoutType
    <3>4. layout' = [layout EXCEPT !.win = v]
      BY <3>1, <3>2, <2>0 DEF LayoutType
    <3>. QED  BY <3>3, <3>4, <2>0 DEF LayoutType, DrivenBy, Driven
  <2>. QED  BY <2>1, <2>2
<1>. QED  BY <1>1, <1>2, Now, LayoutOnly, UiStays DEF DevicesOK

LEMMA LayoutKeeps == PointerInv /\ (activate_workspace \/ refresh \/ OutputChange) => PointerInv'
<1>. SUFFICES ASSUME PointerInv, activate_workspace \/ refresh \/ OutputChange PROVE PointerInv'
  OBVIOUS
<1>0. layout \in LayoutType /\ DrivenBy(layout, {grab, touch_grab}) /\ has_output \in BOOLEAN /\ slots \subseteq Slot
  BY Now DEF DevicesOK
<1>1. UNCHANGED <<buttonVars, gestureVars, grab, touch_grab, picks, slots>>
  BY DEF activate_workspace, refresh, OutputChange, Environment
<1>2. CASE activate_workspace
  <2>1. PICK M : M = activate(layout)
    OBVIOUS
  <2>2. M \in LayoutType /\ DrivenBy(M, {grab, touch_grab})
    BY <2>1, <1>0, SwitchEndCalmer, CalmerStep
  <2>3. layout' = M /\ UNCHANGED uiVars /\ has_output' = has_output
    BY <2>1, <1>2 DEF activate_workspace
  <2>. QED  BY <2>2, <2>3, <1>0, <1>1, LayoutOnly, UiStays
<1>3. CASE refresh
  <2>1. /\ UNCHANGED uiVars /\ has_output' = has_output
        /\ \/ layout' = dnd_scroll_gesture_end(layout) \/ layout' = layout
           \/ (layout.dnd \/ layout.move # NoWindow) /\ layout' = dnd_scroll_gesture_begin(layout)
    BY <1>3 DEF refresh
  <2>2. layout' \in LayoutType /\ DrivenBy(layout', {grab, touch_grab})
    <3>1. CASE layout' = dnd_scroll_gesture_end(layout)
      <4>1. PICK M : M = dnd_scroll_gesture_end(layout)
        OBVIOUS
      <4>2. M \in LayoutType /\ DrivenBy(M, {grab, touch_grab})
        BY <4>1, <1>0, SwitchEndCalmer, CalmerStep
      <4>. QED  BY <3>1, <4>1, <4>2
    <3>2. CASE layout' = layout
      BY <3>2, <1>0
    <3>3. CASE (layout.dnd \/ layout.move # NoWindow) /\ layout' = dnd_scroll_gesture_begin(layout)
      BY <3>3, <1>0 DEF dnd_scroll_gesture_begin, LayoutType, DrivenBy, Driven
    <3>. QED  BY <2>1, <3>1, <3>2, <3>3
  <2>. QED  BY <2>1, <2>2, <1>0, <1>1, LayoutOnly, UiStays
<1>4. CASE OutputChange
  <2>1. /\ ui' = {} /\ screenshot_button' = "Up" /\ has_output' \in BOOLEAN
        /\ layout' = layout \/ layout' = [layout EXCEPT !.switch = "none"]
    BY <1>4 DEF OutputChange
  <2>2. layout' \in LayoutType /\ DrivenBy(layout', {grab, touch_grab})
    BY <2>1, <1>0 DEF LayoutType, DrivenBy, Driven
  <2>. QED  BY <2>1, <2>2, <1>0, <1>1, LayoutOnly
<1>. QED  BY <1>2, <1>3, <1>4

-----------------------------------------------------------------------------
LEMMA PointerStart == PointerInit => PointerInv
<1>. SUFFICES ASSUME PointerInit PROVE PointerInv
  OBVIOUS
<1>1. PointerTypeOK
  <2>1. layout \in LayoutType
    BY DEF PointerInit, NewLayout, LayoutType
  <2>. QED  BY <2>1 DEF PointerInit, PointerTypeOK, DevicesOK, AnyGrab
<1>2. /\ layout.move = NoWindow /\ layout.resizing = {} /\ layout.switch = "none" /\ ~layout.overview_gesture
  BY DEF PointerInit, NewLayout
<1>3. GesturesInv
  BY <1>2 DEF GesturesInv, Driven
<1>4. PicksAnswered /\ DragsEndWithButtons
  BY DEF PointerInit, PicksAnswered, DragsEndWithButtons, NoGrab, PickGrab, Drag
<1>. QED  BY <1>1, <1>3, <1>4 DEF PointerInv

LEMMA PointerStep == PointerInv /\ [PointerNext]_pointerVars => PointerInv'
<1>. SUFFICES ASSUME PointerInv, [PointerNext]_pointerVars PROVE PointerInv'
  OBVIOUS
<1>1. ASSUME NEW b \in Button,
             \/ SuppressedButton(b) \/ PressOnSwitcher(b) \/ PressBind(b) \/ PressSpatial(b)
             \/ PressDoubleClick(b) \/ PressStartsGrab(b) \/ PressForwarded(b) \/ Release(b)
      PROVE  PointerInv'
  BY <1>1, SuppressedButtonKeeps, PressOnSwitcherKeeps, PressBindKeeps, PressSpatialKeeps, PressDoubleClickKeeps,
     PressStartsGrabKeeps, PressForwardedKeeps, ReleaseKeeps
<1>2. CASE Motion \/ HotCorner
  BY <1>2, MotionKeeps, HotCornerKeeps
<1>3. CASE \E s \in Slot : TouchDown(s) \/ TouchUp(s)
  BY <1>3, TouchDownKeeps, TouchUpKeeps
<1>4. CASE TouchMotion \/ TouchCancel \/ TipDown \/ TipUp
  BY <1>4, TouchMotionKeeps, TouchCancelKeeps, PenKeeps
<1>5. CASE \/ on_gesture_swipe_begin \/ on_gesture_swipe_update \/ on_gesture_swipe_end
           \/ OverviewScroll \/ OtherScroll \/ WheelInOverview
  BY <1>5, SwipeKeeps, OverviewScrollKeeps, OtherScrollKeeps, WheelKeeps
<1>6. CASE move_request \/ resize_request \/ dnd_requested \/ \E k \in PickGrab : Pick(k)
  BY <1>6, MoveRequestKeeps, ResizeRequestKeeps, DndRequestedKeeps, PickKeeps
<1>7. CASE CancelGrab \/ Act \/ \E w \in Window : WindowGone(w) \/ WindowMapped(w)
  BY <1>7, CancelGrabKeeps, ActKeeps, WindowsKeep
<1>8. CASE activate_workspace \/ refresh \/ OutputChange
  BY <1>8, LayoutKeeps
<1>9. CASE UNCHANGED pointerVars
  BY <1>9 DEF pointerVars, PointerInv, PointerTypeOK, DevicesOK, GesturesInv, PicksAnswered, DragsEndWithButtons
<1>. QED  BY <1>1, <1>2, <1>3, <1>4, <1>5, <1>6, <1>7, <1>8, <1>9 DEF PointerNext

LEMMA PointerSafety == PointerSpec => []PointerInv
BY PointerStart, PointerStep, PTL DEF PointerSpec

\* However windows close, outputs go and clients, tools and interfaces take a grab away in the middle
\* of a gesture, each gesture of the layout keeps somebody who will end it, and each pick that is
\* open keeps the grab that will answer it (on_ungrab of the grabs and their unset functions, the
\* end of the swipe and of the scroll in on_gesture_swipe_end and on_pointer_axis).
THEOREM GrabsSafety == PointerSpec => []GrabsMatchGestures
<1>1. PointerInv => GrabsMatchGestures
  BY DEF PointerInv, GesturesInv, Driven, GrabsMatchGestures, GesturesHaveDrivers, Grabs
<1>. QED  BY <1>1, PointerSafety, PTL

\* No press that the compositor keeps for itself is left behind to swallow the next click, and no drag
\* outlives the last button, however presses, releases, picks and grabs are mixed (on_pointer_button
\* and its suppressed_buttons, the button handlers of the grabs).
THEOREM DragsSafety == PointerSpec => []DragsEndWithButtons
<1>1. PointerInv => DragsEndWithButtons
  BY DEF PointerInv
<1>. QED  BY <1>1, PointerSafety, PTL
=============================================================================
