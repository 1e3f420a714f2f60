------------------------------- MODULE Scene --------------------------------
(***************************************************************************)
(* What one output shows and what its points belong to: the order in which *)
(* niri.rs (render_inner) paints, the order in which it looks for the      *)
(* surface or the window under the pointer (contents_under, window_under), *)
(* and the view they share: the workspace switch and the overview of       *)
(* layout/monitor.rs and layout/mod.rs.                                    *)
(*                                                                         *)
(* Of the plane the model keeps one column of rows; a workspace is as high *)
(* as the output, Rows.  Indices of workspaces count from 0, as in the     *)
(* code; render indices are in units of 1/Unit, the progress of the        *)
(* overview is in quarters and its zoom is 1/2 when it is open, so the     *)
(* height of a workspace is Rows minus the progress (Rows = 8).  What      *)
(* covers a row is what is painted first there.  Borders, focus rings,     *)
(* shadows, closing windows and the pop-ups of windows are left out, as    *)
(* are the offsets of tiles that move.                                     *)
(***************************************************************************)
EXTENDS Integers, Sequences, FiniteSets, SequencesExt

CONSTANTS
    Nothing,
    Scenes,            \* what the output starts with: [tiles, layers]
    WorkingArea,       \* the rows that layer surfaces leave to windows
    HotCorner,         \* the rows of the hot corner, none when it is off
    SwitchDuration,    \* animations.workspace_switch, in ticks
    OverviewDuration,  \* animations.overview_open_close, in ticks
    Unit,              \* one workspace, in the unit of render indices
    MaxTurns           \* bound: handlers that move the view before it rests again

Rows == 8
Row == 0..Rows - 1

\* Bound: where the pointer drags a window.
PointerRow == {0, Rows \div 2, Rows - 1}

ASSUME SceneAssumption ==
    /\ WorkingArea \subseteq Row /\ HotCorner \subseteq Row
    /\ {SwitchDuration, OverviewDuration, Unit} \subseteq Nat \ {0}

VARIABLES
    tiles,             \* per workspace: [scrolling, floating, floating_active]
    layers,            \* per layer its surfaces, the topmost first
    active,            \* active_workspace_idx
    switch,            \* workspace_switch
    overview_open,
    progress,          \* overview_progress, of the layout and of the monitor
    held,              \* interactive_move: the window and the row of the pointer
    ui,                \* the dialog or user interface that is open
    lock,              \* whether the session is locked, and its surface here
    outdated,             \* time has passed since advance_animations()
    turns              \* handlers since the view rested (MaxTurns)

viewVars == <<active, switch, overview_open, progress>>
stuffVars == <<tiles, layers, held, ui, lock>>
sceneVars == <<viewVars, stuffVars, outdated, turns>>

Workspace == DOMAIN tiles
LastWorkspace == Cardinality(Workspace) - 1

Animation(from, to, duration) ==
    [kind |-> "animation", from |-> from, to |-> to, duration |-> duration, age |-> 0]

\* To the nearest, halves away from zero.
RoundDiv(a, b) == IF a >= 0 THEN (2 * a + b) \div (2 * b) ELSE -((2 * (-a) + b) \div (2 * b))

Clamp(x, lo, hi) == IF x < lo THEN lo ELSE IF x > hi THEN hi ELSE x

Value(a) == a.from + RoundDiv((a.to - a.from) * a.age, a.duration)
Done(a) == a.age >= a.duration

-----------------------------------------------------------------------------
(* The view.                                                                *)

Absent == [kind |-> "none"]
Opened == [kind |-> "open"]
Swiped(value) == [kind |-> "gesture", value |-> value]

ProgressValue(p) ==
    CASE p.kind = "none" -> 0
      [] p.kind = "animation" -> Value(p)
      [] p.kind = "gesture" -> p.value
      [] p.kind = "open" -> 4

\* Of a workspace, of the gap below it, and of both, in rows.
WorkspaceHeight(p) == Rows - p
WorkspaceGap == 1
HeightWithGap(p) == WorkspaceHeight(p) + WorkspaceGap
StaticOffset(p) == RoundDiv(Rows - WorkspaceHeight(p), 2)

current_idx(s) ==
    CASE s.kind = "animation" -> Value(s)
      [] s.kind = "gesture" -> s.current + IF s.shift = Nothing THEN 0 ELSE Value(s.shift)

\* An animated switch and an animated overview that began together and take equally long.
Synchronized(s, p) ==
    /\ s.kind = "animation" /\ p.kind = "animation"
    /\ s.age = p.age /\ s.duration = p.duration

\* The switch is then corrected, so that it seems to go one way only.
CorrectedIdx(s, p) ==
    LET h    == HeightWithGap(Value(p))
        from == HeightWithGap(p.from)
    IN RoundDiv(Value(s) * from - s.to * (from - h), h)

workspace_render_idx(s, p, idx) ==
    CASE Synchronized(s, p) -> CorrectedIdx(s, p)
      [] s.kind # "none" /\ ~Synchronized(s, p) -> current_idx(s)
      [] s.kind = "none" -> idx * Unit

RenderIdx == workspace_render_idx(switch, progress, active)

\* The first row of every workspace, and of the one past the last.
RenderGeo ==
    LET p   == ProgressValue(progress)
        top == StaticOffset(p) + RoundDiv(-(RenderIdx * HeightWithGap(p)), Unit)
    IN [i \in 0..LastWorkspace + 1 |-> top + i * HeightWithGap(p)]

RowsFrom(first) == first..first + WorkspaceHeight(ProgressValue(progress)) - 1

\* Only the workspaces that intersect the output.
RenderedGeo ==
    LET geo == RenderGeo
    IN [i \in {j \in Workspace : RowsFrom(geo[j]) \cap Row # {}} |-> geo[i]]

restarted(a, from) == Animation(from, a.to, a.duration)

\* Mutant: the switch goes on from where it would be without the correction.
NeverRestarted(s, p, idx) == s

\* The monitor follows the overview to p: a switch that would jump starts anew from where it was.
set_overview_progress(s, p, idx) ==
    LET before == workspace_render_idx(s, progress, idx)
    IN IF s.kind = "animation" /\ workspace_render_idx(s, p, idx) # before
       THEN restarted(s, before) ELSE s

\* A gesture from where the view is; start_idx and the tracker only serve to give current_idx.
SwitchGesture(dnd) ==
    [kind |-> "gesture", center |-> active, current |-> RenderIdx, shift |-> Nothing,
     clamped |-> ~overview_open /\ ~dnd, dnd |-> dnd]

MinMax(s) ==
    IF s.clamped
    THEN {i \in Workspace : s.center - 1 <= i /\ i <= s.center + 1}
    ELSE Workspace

\* The positions a gesture may be at: every half of a workspace between its bounds.
Within(s) ==
    LET ends == MinMax(s)
        lo   == CHOOSE i \in ends : \A j \in ends : i <= j
        hi   == CHOOSE i \in ends : \A j \in ends : j <= i
    IN {(j * Unit) \div 2 : j \in (2 * lo)..(2 * hi)}

\* The switch once workspace i is activated; a drag in the overview scrolls on from there.
Activated(i, duration) ==
    LET at == i * Unit
    IN CASE switch.kind = "gesture" /\ switch.dnd ->
               [switch EXCEPT !.center = i, !.current = at,
                              !.shift = Animation(current_idx(switch) - at, 0, duration)]
         [] ~(switch.kind = "gesture" /\ switch.dnd) /\ active = i -> switch
         [] OTHER -> Animation(RenderIdx, at, duration)

-----------------------------------------------------------------------------
(* What is painted.                                                         *)

\* The first of the alternatives that is something.
OrElse(alternatives) ==
    LET i == SelectInSeq(alternatives, LAMBDA a : a # Nothing)
    IN IF i = 0 THEN Nothing ELSE alternatives[i]

Zoomed == progress.kind # "none"

Unzoomed(rows) == (rows * Rows) \div WorkspaceHeight(ProgressValue(progress))

\* A row of the output: the workspace it is on, if any (they do not overlap), and the row
\* of that workspace, as its windows see it and as its layers do, who know no zoom.
PointAt(geo, y) ==
    LET on  == {i \in DOMAIN geo : y \in RowsFrom(geo[i])}
        i   == CHOOSE j \in on : TRUE
    IN IF on = {} THEN [y |-> y, ws |-> Nothing, row |-> -1, plain |-> -1]
       ELSE [y |-> y, ws |-> i, row |-> Unzoomed(y - geo[i]), plain |-> y - geo[i]]

OfWindow(w, how) == [what |-> "window", who |-> w, how |-> how]
OfLayer(layer, l, how) == [what |-> layer, who |-> l, how |-> how]

Fullscreen(i) == {k \in DOMAIN tiles[i].scrolling : tiles[i].scrolling[k].sizing = "fullscreen"}
RendersAbove(i) == Fullscreen(i) # {}
render_above_top_layer == switch.kind = "none" /\ ~Zoomed /\ RendersAbove(active)

is_floating_visible(i) == tiles[i].floating_active = "yes" \/ ~RendersAbove(i)

\* The column that has the workspace, or its working area, for itself.
takeover(i) == SelectInSeq(tiles[i].scrolling, LAMBDA t : t.sizing # "normal")
TakeoverRows(t) == IF t.sizing = "fullscreen" THEN Row ELSE WorkingArea

\* The topmost of a sequence of tiles at row r; how it takes a hit is the caller's business.
TileAt(seq, r) ==
    LET k == SelectInSeq(seq, LAMBDA t : r \in t.rows)
    IN IF k = 0 THEN Nothing ELSE OfWindow(seq[k].win, "input")

ScrollingPicture(i, r) ==
    LET k == takeover(i)
        t == tiles[i].scrolling[k]
    IN IF k # 0 THEN IF r \in TakeoverRows(t) THEN OfWindow(t.win, "input") ELSE Nothing
       ELSE TileAt(tiles[i].scrolling, r)

FloatingPicture(i, r) ==
    IF is_floating_visible(i) THEN TileAt(tiles[i].floating, r) ELSE Nothing

WorkspacePicture(i, r) == OrElse(<<FloatingPicture(i, r), ScrollingPicture(i, r)>>)

IsKeyboardSwitch == switch.kind = "animation"

\* The two workspaces of a crossfade, the one that goes first.
Outgoing == IF switch.to < switch.from THEN -((-switch.from) \div Unit) ELSE switch.from \div Unit
Incoming == RoundDiv(switch.to, Unit)
Crossfades ==
    /\ IsKeyboardSwitch /\ switch.to # switch.from /\ Outgoing # Incoming
    /\ {Outgoing, Incoming} \subseteq Workspace

WorkspaceXfade(y) == OrElse(<<WorkspacePicture(Outgoing, y), WorkspacePicture(Incoming, y)>>)

WorkspacesPicture(at) ==
    CASE Crossfades -> WorkspaceXfade(at.y)
      [] ~Crossfades /\ at.ws = Nothing -> Nothing
      [] OTHER -> WorkspacePicture(at.ws, at.row)

\* The surfaces of a layer in this order; those in the backdrop are scenery.
layers_in_render_order(layer) == SelectSeq(layers[layer], LAMBDA l : ~l.backdrop)

SurfaceAt(layer, r, popup) ==
    LET seq == layers_in_render_order(layer)
        k   == SelectInSeq(seq, LAMBDA l : r \in IF popup THEN l.popup ELSE l.rows)
    IN IF k = 0 THEN Nothing ELSE OfLayer(layer, seq[k].id, IF popup THEN "popup" ELSE "surface")

Popups(layer, r) == SurfaceAt(layer, r, TRUE)
Normal(layer, r) == SurfaceAt(layer, r, FALSE)

\* The low layers are painted once on every workspace, and move and shrink with it.
PopupsOn(r) == OrElse(<<Popups("bottom", r), Popups("background", r)>>)
NormalOn(r) == OrElse(<<Normal("bottom", r), Normal("background", r)>>)

StaticRow(y) == Unzoomed(y - StaticOffset(ProgressValue(progress)))

\* A crossfade leaves them where the active workspace comes to rest.
LowRow(at) == IF IsKeyboardSwitch THEN StaticRow(at.y) ELSE at.row

HeldHeight == Rows \div 2

\* The window that is dragged hangs down from the pointer, as small as the workspaces.
HeldAt(y) ==
    IF held # Nothing /\ Unzoomed(y - held.row) \in 0..HeldHeight - 1 THEN OfWindow(held.win, "input")
    ELSE Nothing

\* Surfaces of the backdrop, colors and the compositor's own interfaces take no input.
Scenery == [what |-> "scenery", who |-> Nothing, how |-> "none"]

Layered(layer, y) == <<Popups(layer, y), Normal(layer, y)>>

\* The layers and the windows at a row, the topmost first.
PictureOfMonitor(at) ==
    IF render_above_top_layer
    THEN Layered("overlay", at.y) \o <<HeldAt(at.y), WorkspacesPicture(at)>>
             \o Layered("top", at.y) \o <<PopupsOn(at.y), NormalOn(at.y)>>
    ELSE Layered("overlay", at.y) \o Layered("top", at.y)
             \o <<HeldAt(at.y), PopupsOn(LowRow(at)), WorkspacesPicture(at), NormalOn(LowRow(at))>>

\* What render_inner() paints at a row, the pointer and notifications aside.
render_inner(at) ==
    CASE ui = "exit" -> <<Scenery>>
      [] ui # "exit" /\ lock # "no" ->
            (IF lock = "surface" THEN <<OfLayer("lock", Nothing, "surface")>> ELSE <<>>) \o <<Scenery>>
      [] ui \in {"screenshot", "mru"} /\ lock = "no" -> <<Scenery>>
      [] OTHER -> PictureOfMonitor(at) \o <<Scenery>>

-----------------------------------------------------------------------------
(* What a point belongs to.                                                 *)

\* During the overview nothing inside a window can be hit, only the window.
Hit(h) ==
    IF h # Nothing /\ Zoomed THEN [h EXCEPT !.how = "activate"] ELSE h

ScrollingUnder(i, r) ==
    LET k == takeover(i)
        t == tiles[i].scrolling[k]
    IN IF k # 0 THEN IF r \in TakeoverRows(t) THEN OfWindow(t.win, "input") ELSE Nothing
       ELSE TileAt(tiles[i].scrolling, r)

\* Mutant: a floating window is hit where a fullscreen one hides it.
HiddenFloatingUnder(i, r) == TileAt(tiles[i].floating, r)

FloatingUnder(i, r) ==
    IF is_floating_visible(i) THEN TileAt(tiles[i].floating, r) ELSE Nothing

WorkspaceWindowUnder(i, r) == OrElse(<<FloatingUnder(i, r), ScrollingUnder(i, r)>>)

window_under(at) ==
    IF at.ws = Nothing THEN Nothing ELSE Hit(WorkspaceWindowUnder(at.ws, at.row))

interactive_moved_window_under(at) == Hit(HeldAt(at.y))

\* The surfaces of a layer are looked for at full size, the low ones on the workspace there.
layer_under(layer, at, popup) ==
    SurfaceAt(layer, IF layer \in {"overlay", "top"} THEN at.y ELSE at.plain, popup)

Corner == [what |-> "corner", who |-> Nothing, how |-> "none"]

UnlessOverview(hit) == IF overview_open THEN Nothing ELSE hit

HitsOfLow(at, popup) ==
    OrElse(<<layer_under("bottom", at, popup), layer_under("background", at, popup)>>)
HitsOf(layer, at) == OrElse(<<layer_under(layer, at, TRUE), layer_under(layer, at, FALSE)>>)

\* The layers and the windows at a row, from the top down.
UnderOnMonitor(at) ==
    CASE render_above_top_layer ->
            OrElse(<<HitsOf("overlay", at), interactive_moved_window_under(at), window_under(at),
                     HitsOf("top", at), HitsOfLow(at, TRUE), HitsOfLow(at, FALSE)>>)
      [] ~render_above_top_layer /\ at.y \in HotCorner -> Corner
      [] OTHER ->
            OrElse(<<HitsOf("overlay", at), HitsOf("top", at), interactive_moved_window_under(at),
                     UnlessOverview(HitsOfLow(at, TRUE)), window_under(at),
                     UnlessOverview(HitsOfLow(at, FALSE))>>)

\* What gets the pointer at a row.
contents_under(at) ==
    CASE ui = "exit" -> Nothing
      [] ui # "exit" /\ lock # "no" -> IF lock = "surface" THEN OfLayer("lock", Nothing, "surface") ELSE Nothing
      [] ui \in {"screenshot", "mru"} /\ lock = "no" -> Nothing
      [] OTHER -> UnderOnMonitor(at)

is_sticky_obscured_under(at) ==
    \/ HitsOf("overlay", at) # Nothing
    \/ ~render_above_top_layer /\ (at.y \in HotCorner \/ HitsOf("top", at) # Nothing)

is_layout_obscured_under(at) == ~overview_open /\ HitsOfLow(at, TRUE) # Nothing

\* The window that a click at a row is for.
WindowUnder(at) ==
    CASE ui # "none" \/ lock # "no" \/ is_sticky_obscured_under(at) -> Nothing
      [] interactive_moved_window_under(at) # Nothing -> interactive_moved_window_under(at)
      [] is_layout_obscured_under(at) -> Nothing
      [] OTHER -> window_under(at)

\* The workspace that a click at a row is for.
workspace_under(at) ==
    IF \/ ui \in {"exit", "screenshot"} \/ lock # "no"
       \/ is_sticky_obscured_under(at) \/ is_layout_obscured_under(at)
       \/ interactive_moved_window_under(at) # Nothing
    THEN Nothing ELSE at.ws

\* Where a window dropped at row y goes: onto a workspace, or in between two.
insert_position(y) ==
    LET geo   == RenderedGeo
        top   == CHOOSE i \in DOMAIN geo : \A j \in DOMAIN geo : i <= j
        above == {i \in DOMAIN geo : geo[i] <= y}
        last  == CHOOSE i \in above : \A j \in above : j <= i
    IN CASE above = {} -> [new |-> TRUE, at |-> top]
         [] above # {} /\ y \in RowsFrom(geo[last]) -> [new |-> FALSE, at |-> last]
         [] OTHER -> [new |-> TRUE, at |-> last + 1]

-----------------------------------------------------------------------------
(* Handlers that move the view.                                             *)

\* Bound: interfaces and the lock are looked at over a view that rests.
Turn ==
    /\ ui = "none" /\ lock = "no"
    /\ turns < MaxTurns /\ turns' = turns + 1
    /\ UNCHANGED outdated

GoToWorkspace(i) ==
    /\ Turn
    /\ active' = i /\ switch' = Activated(i, SwitchDuration)
    /\ UNCHANGED <<overview_open, progress, stuffVars>>

Toggled == Animation(ProgressValue(progress), IF overview_open THEN 0 ELSE 4, OverviewDuration)

toggle_overview ==
    /\ Turn
    /\ overview_open' = ~overview_open /\ progress' = Toggled
    /\ switch' = set_overview_progress(switch, Toggled, active)
    /\ UNCHANGED <<active, stuffVars>>

\* A click on a workspace or a window of the overview leaves it for that workspace.
toggle_overview_to_workspace(y) ==
    /\ Turn
    /\ overview_open /\ held = Nothing
    /\ LET i == workspace_under(PointAt(RenderedGeo, y))
       IN /\ i # Nothing /\ active' = i
          /\ switch' = set_overview_progress(Activated(i, OverviewDuration), Toggled, i)
    /\ overview_open' = FALSE /\ progress' = Toggled
    /\ UNCHANGED stuffVars

FollowsFingers(value) ==
    /\ progress' = Swiped(value)
    /\ switch' = set_overview_progress(switch, Swiped(value), active)

overview_gesture_begin ==
    /\ Turn
    /\ overview_open' = TRUE /\ FollowsFingers(ProgressValue(progress))
    /\ UNCHANGED <<active, stuffVars>>

overview_gesture_update(value) ==
    /\ progress.kind = "gesture" /\ FollowsFingers(value)
    /\ UNCHANGED <<active, overview_open, stuffVars, outdated, turns>>

\* The speed of the fingers decides where it ends.
overview_gesture_end(opens) ==
    /\ Turn
    /\ progress.kind = "gesture"
    /\ LET p == Animation(progress.value, IF opens THEN 4 ELSE 0, OverviewDuration)
       IN progress' = p /\ switch' = set_overview_progress(switch, p, active)
    /\ overview_open' = opens
    /\ UNCHANGED <<active, stuffVars>>

workspace_switch_gesture_begin ==
    /\ Turn
    /\ switch' = SwitchGesture(FALSE)
    /\ UNCHANGED <<active, overview_open, progress, stuffVars>>

workspace_switch_gesture_update(at) ==
    /\ switch.kind = "gesture" /\ ~switch.dnd
    /\ switch' = [switch EXCEPT !.current = at]
    /\ UNCHANGED <<active, overview_open, progress, stuffVars, outdated, turns>>

EndAt(i) == active' = i /\ switch' = Animation(switch.current, i * Unit, SwitchDuration)

workspace_switch_gesture_end(i) ==
    /\ Turn
    /\ switch.kind = "gesture" /\ i \in MinMax(switch) /\ EndAt(i)
    /\ ~switch.dnd
    /\ UNCHANGED <<overview_open, progress, stuffVars>>

\* The first motion of a drag takes a floating window out of its workspace.
DragStart(i, k, y) ==
    /\ Turn
    /\ held = Nothing /\ ui = "none" /\ lock = "no"
    /\ k \in DOMAIN tiles[i].floating
    /\ LET hit == WindowUnder(PointAt(RenderedGeo, y)) IN hit # Nothing /\ hit.who = tiles[i].floating[k].win
    /\ held' = [win |-> tiles[i].floating[k].win, row |-> y]
    /\ tiles' = [tiles EXCEPT ![i].floating = RemoveAt(@, k),
                              ![i].floating_active = IF Len(tiles[i].floating) = 1 THEN "no" ELSE @]
    /\ switch' = IF overview_open /\ ~(switch.kind = "gesture" /\ switch.dnd)
                 THEN SwitchGesture(TRUE) ELSE switch
    /\ UNCHANGED <<active, overview_open, progress, layers, ui, lock>>

DragTo(y) ==
    /\ held # Nothing /\ held' = [held EXCEPT !.row = y]
    /\ UNCHANGED <<viewVars, tiles, layers, ui, lock, outdated, turns>>

\* Dropped beyond the last workspace a window joins that one; no workspace is added here.
DropTarget ==
    LET to == insert_position(held.row) IN IF to.at > LastWorkspace THEN LastWorkspace ELSE to.at

\* The rows of the workspace that the window covers where it is dropped.
DroppedOn(i) == {r \in Row : Unzoomed(held.row - RenderGeo[i]) \in r - HeldHeight + 1..r}

DragEnd(i) ==
    /\ Turn
    /\ held # Nothing /\ held' = Nothing
    /\ insert_position(held.row).new => insert_position(held.row).at >= LastWorkspace
    /\ IF switch.kind = "gesture" /\ switch.dnd THEN i \in MinMax(switch) /\ EndAt(i)
       ELSE IF overview_open THEN i = active /\ UNCHANGED <<active, switch>>
       ELSE i = DropTarget /\ active' = i /\ switch' = Activated(i, SwitchDuration)
    /\ tiles' = [tiles EXCEPT
          ![DropTarget].floating = <<[win |-> held.win, rows |-> DroppedOn(DropTarget)]>> \o @,
          ![DropTarget].floating_active = "yes"]
    /\ UNCHANGED <<overview_open, progress, layers, ui, lock>>

-----------------------------------------------------------------------------
(* Time.                                                                    *)

Older(a) == IF a # Nothing /\ a.kind = "animation" THEN [a EXCEPT !.age = @ + 1] ELSE a

\* A tick, after which the animations are advanced before the next one.
TimePasses ==
    /\ ~outdated /\ outdated' = TRUE
    /\ switch' = IF switch.kind = "gesture" THEN [switch EXCEPT !.shift = Older(@)] ELSE Older(switch)
    /\ progress' = Older(progress)
    /\ UNCHANGED <<active, overview_open, stuffVars, turns>>

Scrolls == held # Nothing /\ switch.kind = "gesture" /\ switch.dnd

\* A window held at the edge of the output scrolls the overview.
DndScrolled ==
    LET step == CASE held.row = 0 -> -(Unit \div 2)
                  [] held.row = Rows - 1 -> Unit \div 2
                  [] OTHER -> 0
    IN [switch EXCEPT !.current = Clamp(@ + step, 0, LastWorkspace * Unit)]

SettledProgress(p) ==
    CASE p.kind = "animation" /\ Done(p) /\ overview_open -> Opened
      [] p.kind = "animation" /\ Done(p) /\ ~overview_open -> Absent
      [] OTHER -> p

WithoutDone(s) ==
    CASE s.kind = "animation" /\ Done(s) -> Absent
      [] s.kind = "gesture" /\ s.shift # Nothing -> IF Done(s.shift) THEN [s EXCEPT !.shift = Nothing] ELSE s
      [] OTHER -> s

Rests(s, p) == s.kind = "none" /\ p.kind \in {"none", "open"}

advance_animations ==
    /\ outdated /\ outdated' = FALSE
    /\ \E s \in {switch} \union (IF Scrolls THEN {DndScrolled} ELSE {}) :
          switch' = WithoutDone(set_overview_progress(s, SettledProgress(progress), active))
    /\ progress' = SettledProgress(progress)
    /\ turns' = IF Rests(switch', progress') THEN 0 ELSE turns
    /\ UNCHANGED <<active, overview_open, stuffVars>>

-----------------------------------------------------------------------------
(* What else changes the picture, while the view rests.                     *)

AtRest == turns = 0 /\ ~outdated /\ UNCHANGED <<viewVars, outdated, turns>>

Enlarged == {p \in Workspace \X {1, 2} :
    p[2] \in DOMAIN tiles[p[1]].scrolling /\ tiles[p[1]].scrolling[p[2]].sizing # "normal"}

\* Fullscreen and maximized exclude one another.  Bounds: one such window at a time, the
\* first of its workspace; a window is maximized from the start or not at all.
set_sizing(i, k, sizing) ==
    /\ AtRest
    /\ Enlarged \subseteq {<<i, k>>}
    /\ k \in DOMAIN tiles[i].scrolling
    /\ tiles' = [tiles EXCEPT ![i].scrolling[k].sizing = sizing]
    /\ UNCHANGED <<layers, held, ui, lock>>

switch_focus_floating_tiling ==
    /\ AtRest
    /\ tiles[active].floating # <<>> /\ tiles[active].scrolling # <<>>
    /\ tiles' = [tiles EXCEPT ![active].floating_active = IF @ = "yes" THEN "no" ELSE "yes"]
    /\ UNCHANGED <<layers, held, ui, lock>>

OpenUi(u) ==
    /\ AtRest
    /\ ui = "none" /\ ui' = u /\ (lock = "no" \/ u = "exit")
    /\ UNCHANGED <<tiles, layers, held, lock>>

CloseUi ==
    /\ AtRest
    /\ ui # "none" /\ ui' = "none"
    /\ UNCHANGED <<tiles, layers, held, lock>>

\* Locking closes the screenshot interface and the window switcher.
LockSession ==
    /\ AtRest
    /\ lock = "no" /\ lock' = "bare" /\ ui' = IF ui = "exit" THEN ui ELSE "none"
    /\ UNCHANGED <<tiles, layers, held>>

LockSurface ==
    /\ AtRest
    /\ lock = "bare" /\ lock' = "surface"
    /\ UNCHANGED <<tiles, layers, held, ui>>

UnlockSession ==
    /\ AtRest
    /\ lock # "no" /\ lock' = "no"
    /\ UNCHANGED <<tiles, layers, held, ui>>

SceneInit ==
    /\ \E scene \in Scenes : tiles = scene.tiles /\ layers = scene.layers
    /\ active = 0 /\ switch = Absent /\ overview_open = FALSE /\ progress = Absent
    /\ held = Nothing /\ ui = "none" /\ lock = "no" /\ outdated = FALSE /\ turns = 0

SceneNext ==
    \/ \E i \in Workspace : GoToWorkspace(i)
    \/ toggle_overview
    \/ \E y \in Row : toggle_overview_to_workspace(y)
    \/ overview_gesture_begin
    \/ \E value \in {0, 2, 4} : overview_gesture_update(value)
    \/ \E opens \in BOOLEAN : overview_gesture_end(opens)
    \/ workspace_switch_gesture_begin
    \/ switch.kind = "gesture" /\ \E at \in Within(switch) : workspace_switch_gesture_update(at)
    \/ \E i \in Workspace : workspace_switch_gesture_end(i)
    \/ \E i \in Workspace, k \in 1..2, y \in PointerRow : DragStart(i, k, y)
    \/ \E y \in PointerRow : DragTo(y)
    \/ \E i \in Workspace : DragEnd(i)
    \/ TimePasses
    \/ advance_animations
    \/ \E i \in Workspace, sizing \in {"normal", "fullscreen"} : set_sizing(i, 1, sizing)
    \/ switch_focus_floating_tiling
    \/ \E u \in {"exit", "screenshot", "mru"} : OpenUi(u)
    \/ CloseUi
    \/ LockSession
    \/ LockSurface
    \/ UnlockSession

SceneSpec == SceneInit /\ [][SceneNext]_sceneVars

-----------------------------------------------------------------------------
(* Properties.                                                              *)

LowLayers == {"bottom", "background"}

\* What the picture at a row promises the pointer: the topmost thing that takes input.
\* In the overview the low layers do not, and windows are only picked.
Promised(at) ==
    LET painted == render_inner(at)
        k == SelectInSeq(painted, LAMBDA p :
                p # Nothing /\ ~(p.what \in LowLayers /\ overview_open))
    IN CASE painted[k].what = "scenery" -> Nothing
         [] painted[k].what = "window" -> Hit(painted[k])
         [] OTHER -> painted[k]

\* While a crossfade or the overview's closing animation runs the two are known to differ.
Transitory == IsKeyboardSwitch \/ (Zoomed /\ ~overview_open)

\* "The ordering here must be consistent with the ordering in render() so that input is
\* consistent with the visuals" (contents_under): what takes the pointer is what is
\* painted topmost there, save in the hot corner.
PointerHitsPicture(at) ==
    \/ contents_under(at) = Promised(at)
    \/ contents_under(at) = Corner /\ at.y \in HotCorner

\* A click activates the window that gets the pointer, unless a fullscreen window covers
\* the pop-up of a low layer there: is_layout_obscured_under() looks at the pop-up only.
ClicksHitPicture(at) ==
    LET hit == contents_under(at)
    IN \/ WindowUnder(at) = IF hit # Nothing /\ hit.what = "window" THEN hit ELSE Nothing
       \/ render_above_top_layer /\ HitsOfLow(at, TRUE) # Nothing

InputMatchesVisuals ==
    ~Transitory => LET geo == RenderedGeo
                   IN \A y \in Row : LET at == PointAt(geo, y)
                                    IN PointerHitsPicture(at) /\ ClicksHitPicture(at)

ViewStays == RenderIdx' = RenderIdx /\ ProgressValue(progress)' = ProgressValue(progress)

\* Only time, fingers and a scrolling drag move the view: what begins, ends or interrupts
\* a switch, a gesture or the overview ("restart the workspace switch to avoid jumps",
\* set_overview_progress) carries on from where the view is.  The end of a drag forgets
\* the animation of a switch under way in it.
ViewIsContinuous ==
    [][\/ UNCHANGED viewVars \/ ViewStays
       \/ TimePasses
       \/ Scrolls /\ outdated
       \/ Scrolls /\ switch.shift # Nothing
       \/ \E value \in {0, 2, 4} : overview_gesture_update(value)
       \/ switch.kind = "gesture" /\ \E at \in Within(switch) : workspace_switch_gesture_update(at)
      ]_sceneVars
=============================================================================
