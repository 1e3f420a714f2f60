----------------------------- MODULE Workspace -----------------------------
(***************************************************************************)
(* A workspace, layout/workspace.rs: the tiled windows, the floating       *)
(* windows and which of the two has the focus. On top of it the three      *)
(* requests of layout/mod.rs about one window that a workspace forwards    *)
(* with a condition of their own (the two kinds of fullscreen).            *)
(*                                                                         *)
(* The variables are the three fields of Workspace and the parents the     *)
(* clients have set. Operators named ws_... take a workspace record to the *)
(* workspace after the call.                                               *)
(***************************************************************************)
EXTENDS ScrollingSpace, FloatingSpace

VARIABLE floating_is_active   \* the enum FloatingActive

wsVars == <<scrolling, floating, floating_is_active, parent>>

FloatingActive == {"No", "NoButRaised", "Yes"}

Workspace == [scrolling |-> scrolling, floating |-> floating, active |-> floating_is_active]

\* The call leaves the workspace as ws.
Becomes(ws) ==
    /\ scrolling' = ws.scrolling
    /\ floating' = ws.floating
    /\ floating_is_active' = ws.active

-----------------------------------------------------------------------------
(***************************************************************************)
(* Reading a workspace.                                                    *)
(***************************************************************************)
ws_windows(ws) == SpaceWindows(ws.scrolling) \union FloatingWindows(ws.floating)

ws_active_window(ws) ==
    IF ws.active = "Yes" THEN ws.floating.active ELSE active_window(ws.scrolling)

ColumnOf(sp, w) == columns(sp)[PositionOf(sp, w) + 1]

\* The tile of a window, in whichever space it is.
TileOf(ws, w) ==
    IF w \in FloatingWindows(ws.floating) THEN RemovedTile(ws.floating, w)
    ELSE ColumnOf(ws.scrolling, w).tile

\* Replaces the tile of window w by Op of it, as a visit with &mut does.
AtTile(ws, w, Op(_)) ==
    [ws EXCEPT !.scrolling = AtWindow(@, w, LAMBDA c : [c EXCEPT !.tile = Op(@)]),
               !.floating.tiles = [i \in DOMAIN @ |-> IF @[i].id = w THEN Op(@[i]) ELSE @[i]]]

-----------------------------------------------------------------------------
(***************************************************************************)
(* Windows that come and go.                                               *)
(***************************************************************************)
map_smart(activate, smart) ==
    \/ activate = "Yes"
    \/ activate = "Smart" /\ smart

\* The two halves of every add: a floating arrival takes the focus when it is
\* activated or nothing is tiled, a tiled one only when it is activated.
AddFloating(ws, fl, activate) ==
    [ws EXCEPT !.floating = fl,
               !.active = IF activate \/ is_empty(ws.scrolling) THEN "Yes" ELSE @]

AddTiled(ws, t, activate) ==
    [ws EXCEPT !.scrolling = add_tile(@, t, activate), !.active = IF activate THEN "No" ELSE @]

\* A window that is pending maximized or fullscreen is tiled whatever it asked.
Floats(t, is_floating) == is_floating /\ pending_sizing_mode(t) = "Normal"

ws_add_tile_auto(ws, tile, activate, is_floating) ==
    LET t == [tile EXCEPT !.restore = is_floating]
        act == map_smart(activate, ~is_active_pending_fullscreen(ws.scrolling))
    IN IF Floats(t, is_floating)
       THEN AddFloating(ws, floating_add_tile(ws.floating, t, act, parent), act)
       ELSE AddTiled(ws, t, act)

ws_add_tile_new_column(ws, tile, activate, is_floating) ==
    AddTiled(ws, [tile EXCEPT !.restore = is_floating], map_smart(activate, FALSE))

ws_add_tile_next_to(ws, tile, next_to, activate, is_floating) ==
    LET t == [tile EXCEPT !.restore = is_floating]
        act == map_smart(activate, ws_active_window(ws) = {next_to})
    IN IF ~Floats(t, is_floating) THEN AddTiled(ws, t, act)
       ELSE AddFloating(ws, IF next_to \in FloatingWindows(ws.floating)
                            THEN add_tile_above(ws.floating, next_to, t, act, parent)
                            ELSE floating_add_tile(ws.floating, t, act, parent), act)

ws_add_column(ws, col, activate) ==
    [ws EXCEPT !.scrolling = add_column(@, col, activate), !.active = IF activate THEN "No" ELSE @]

\* Mutant: only the floating layer is left when it empties.
FocusLeavesFloatingOnly(ws, removed_from_floating) ==
    [ws EXCEPT !.active = IF removed_from_floating /\ ws.floating.tiles = <<>> THEN "No" ELSE @]

update_focus_floating_tiling_after_removing(ws, removed_from_floating) ==
    [ws EXCEPT !.active =
        IF removed_from_floating
        THEN IF ws.floating.tiles = <<>> THEN "No" ELSE @
        ELSE IF is_empty(ws.scrolling) /\ ws.floating.tiles # <<>> THEN "Yes" ELSE @]

ws_remove_tile(ws, w) ==
    LET from_floating == w \in FloatingWindows(ws.floating)
        left == IF from_floating THEN [ws EXCEPT !.floating = floating_remove_tile(@, w)]
                ELSE [ws EXCEPT !.scrolling = remove_tile(@, w)]
    IN update_focus_floating_tiling_after_removing(left, from_floating)

-----------------------------------------------------------------------------
(***************************************************************************)
(* Between floating and tiled.                                             *)
(***************************************************************************)
\* Mutant: the window that changes layers is always activated.
ToggleActivating(ws, w) ==
    IF w \in FloatingWindows(ws.floating)
    THEN AddTiled([ws EXCEPT !.floating = floating_remove_tile(@, w)], TileOf(ws, w), TRUE)
    ELSE [ws EXCEPT !.scrolling = remove_tile(@, w),
                    !.floating = floating_add_tile(@, TileOf(ws, w), TRUE, parent),
                    !.active = "Yes"]

ws_toggle_window_floating(ws, w) ==
    LET target_is_active == ws_active_window(ws) = {w}
        t == TileOf(ws, w)
    IN IF w \in FloatingWindows(ws.floating)
       THEN AddTiled([ws EXCEPT !.floating = floating_remove_tile(@, w)], t, target_is_active)
       ELSE [ws EXCEPT !.scrolling = remove_tile(@, w),
                       !.floating = floating_add_tile(@, t, target_is_active, parent),
                       !.active = IF target_is_active THEN "Yes" ELSE @]

\* Remembers whether to return to the floating layer when a request takes the
\* window out of its normal state.
RememberRestore(before, after, w, restore) ==
    IF pending_sizing_mode(TileOf(before, w)) = "Normal"
       /\ pending_sizing_mode(TileOf(after, w)) # "Normal"
    THEN AtTile(after, w, LAMBDA t : [t EXCEPT !.restore = restore])
    ELSE after

ws_set_fullscreen(ws, w, is_fullscreen) ==
    LET floats == w \in FloatingWindows(ws.floating)
        tiled == IF floats THEN ws_toggle_window_floating(ws, w) ELSE ws
        col == ColumnOf(ws.scrolling, w)
    IN CASE floats /\ ~is_fullscreen -> ws
         [] ~floats /\ ~is_fullscreen /\ col.fs /\ ~col.max /\ col.tile.restore ->
              ws_toggle_window_floating(ws, w)
         [] OTHER ->
              RememberRestore(tiled, [tiled EXCEPT !.scrolling = set_fullscreen(@, w, is_fullscreen)],
                              w, floats)

ws_toggle_fullscreen(ws, w) ==
    ws_set_fullscreen(ws, w, pending_sizing_mode(TileOf(ws, w)) # "Fullscreen")

ws_set_maximized(ws, w, maximize) ==
    LET floats == w \in FloatingWindows(ws.floating)
        tiled == IF floats THEN ws_toggle_window_floating(ws, w) ELSE ws
        col == ColumnOf(ws.scrolling, w)
    IN CASE floats /\ ~maximize -> ws
         [] ~floats /\ ~maximize /\ pending_sizing_mode(col.tile) = "Maximized" /\ col.tile.restore ->
              ws_toggle_window_floating(ws, w)
         [] OTHER ->
              RememberRestore(tiled, [tiled EXCEPT !.scrolling = set_maximized(@, w, maximize)],
                              w, floats)

ws_toggle_maximized(ws, w) ==
    ws_set_maximized(ws, w, ~(/\ w \in SpaceWindows(ws.scrolling)
                              /\ ColumnOf(ws.scrolling, w).max))

switch_focus_floating_tiling(ws) ==
    IF ws.floating.tiles = <<>> \/ is_empty(ws.scrolling) THEN ws
    ELSE [ws EXCEPT !.active = IF @ = "Yes" THEN "No" ELSE "Yes"]

focus_floating(ws) == IF ws.active # "Yes" THEN switch_focus_floating_tiling(ws) ELSE ws

focus_tiling(ws) == IF ws.active = "Yes" THEN switch_focus_floating_tiling(ws) ELSE ws

ws_activate_window(ws, w) ==
    IF w \in FloatingWindows(ws.floating)
    THEN [ws EXCEPT !.floating = floating_activate_window(@, w, parent), !.active = "Yes"]
    ELSE [ws EXCEPT !.scrolling = activate_window(@, w), !.active = "No"]

ws_activate_window_without_raising(ws, w) ==
    IF w \in FloatingWindows(ws.floating)
    THEN [ws EXCEPT !.floating = floating_activate_window_without_raising(@, w), !.active = "Yes"]
    ELSE [ws EXCEPT !.scrolling = activate_window(@, w),
                    !.active = IF @ = "Yes" THEN "NoButRaised" ELSE @]

-----------------------------------------------------------------------------
(***************************************************************************)
(* The two kinds of fullscreen, layout/mod.rs.                             *)
(***************************************************************************)
\* A client that leaves fullscreen leaves the windowed kind first.
layout_set_fullscreen(ws, w, is_fullscreen) ==
    IF ~is_fullscreen /\ TileOf(ws, w).wfs
    THEN AtTile(ws, w, LAMBDA t : request_windowed_fullscreen(t, FALSE))
    ELSE ws_set_fullscreen(ws, w, is_fullscreen)

toggle_windowed_fullscreen(ws, w) ==
    LET windowed == IF pending_sizing_mode(TileOf(ws, w)) = "Fullscreen"
                    THEN ws_set_fullscreen(ws, w, FALSE) ELSE ws
    IN AtTile(windowed, w, LAMBDA t : request_windowed_fullscreen(t, ~t.wfs))

-----------------------------------------------------------------------------
(***************************************************************************)
(* The specification.                                                      *)
(***************************************************************************)
WsInit ==
    /\ Init
    /\ FloatingInit
    /\ floating_is_active = "No"

\* What the layout may hand over: a window just mapped, or one that was on
\* another workspace, with what it was told there.
Arriving(w) ==
    {[t EXCEPT !.restore = restore] :
        t \in {NewTile(w, mode) : mode \in SizingMode}
                \union {request_windowed_fullscreen(NewTile(w, mode), TRUE) :
                           mode \in {"Normal", "Maximized"}},
        restore \in BOOLEAN}

WsAddTile(w) ==
    /\ w \notin ws_windows(Workspace)
    /\ \E t \in Arriving(w), activate \in {"Yes", "Smart", "No"}, is_floating \in BOOLEAN :
         \/ Becomes(ws_add_tile_auto(Workspace, t, activate, is_floating))
         \/ Becomes(ws_add_tile_new_column(Workspace, t, activate, is_floating))
         \/ \E next_to \in ws_windows(Workspace) :
               Becomes(ws_add_tile_next_to(Workspace, t, next_to, activate, is_floating))
    /\ UNCHANGED parent

WsAddColumn(w) ==
    /\ w \notin ws_windows(Workspace)
    /\ \E t \in Arriving(w), activate \in BOOLEAN :
         Becomes(ws_add_column(Workspace, new_with_tile(t, scrolling.area), activate))
    /\ UNCHANGED parent

WsRemoveTile(w) ==
    /\ w \in ws_windows(Workspace)
    /\ Becomes(ws_remove_tile(Workspace, w))
    /\ UNCHANGED parent

\* remove_active_column() gives up when the focus is on the floating layer.
WsRemoveActive(column) ==
    /\ column => floating_is_active # "Yes"
    /\ \E w \in ws_active_window(Workspace) : Becomes(ws_remove_tile(Workspace, w))
    /\ UNCHANGED parent

\* focus_column() first leaves the floating layer; every other focus request
\* goes to the layer that has the focus.
WsFocusColumn ==
    LET tiling == focus_tiling(Workspace) IN
    /\ \E index \in 0 .. Len(scrolling.stack) + 1 :
         Becomes([tiling EXCEPT !.scrolling = focus_column(@, index)])
    /\ UNCHANGED parent

OrElse(before, after, other) == IF after = before THEN other ELSE after

WsFocusStep ==
    \/ /\ floating_is_active = "Yes"
       /\ floating' \in FloatingFocusResults(floating, parent)
       /\ UNCHANGED <<scrolling, floating_is_active, parent>>
    \/ /\ floating_is_active # "Yes"
       /\ \/ FocusStep
          \/ scrolling' = OrElse(scrolling, focus_right(scrolling), focus_column_first(scrolling))
          \/ scrolling' = OrElse(scrolling, focus_left(scrolling), focus_column_last(scrolling))
          \/ scrolling' = OrElse(scrolling, focus_down(scrolling), focus_top(scrolling))
          \/ scrolling' = OrElse(scrolling, focus_up(scrolling), focus_bottom(scrolling))
       /\ UNCHANGED <<floating, floating_is_active, parent>>

\* Moving a floating window changes its position only.
WsMoveStep ==
    /\ floating_is_active # "Yes"
    /\ MoveStep
    /\ UNCHANGED <<floating, floating_is_active, parent>>

WsActivateWindow(w) ==
    /\ w \in ws_windows(Workspace)
    /\ \/ Becomes(ws_activate_window(Workspace, w))
       \/ Becomes(ws_activate_window_without_raising(Workspace, w))
    /\ UNCHANGED parent

WsSwitchFocus ==
    /\ \/ Becomes(focus_floating(Workspace))
       \/ Becomes(focus_tiling(Workspace))
       \/ Becomes(switch_focus_floating_tiling(Workspace))
    /\ UNCHANGED parent

\* toggle_window_floating() of one window or of the active one, and
\* set_window_floating() when it changes anything.
WsToggleWindowFloating(w) ==
    /\ w \in ws_windows(Workspace)
    /\ Becomes(ws_toggle_window_floating(Workspace, w))
    /\ UNCHANGED parent

WsFullscreen(w) ==
    /\ w \in ws_windows(Workspace)
    /\ \/ \E value \in BOOLEAN : Becomes(layout_set_fullscreen(Workspace, w, value))
       \/ Becomes(ws_toggle_fullscreen(Workspace, w))
       \/ Becomes(toggle_windowed_fullscreen(Workspace, w))
    /\ UNCHANGED parent

WsMaximize(w) ==
    /\ w \in ws_windows(Workspace)
    /\ \/ \E value \in BOOLEAN : Becomes(ws_set_maximized(Workspace, w, value))
       \/ Becomes(ws_toggle_maximized(Workspace, w))
    /\ UNCHANGED parent

WsUpdateConfig ==
    /\ \E a \in Area : UpdateConfig(a)
    /\ UNCHANGED <<floating, floating_is_active, parent>>

WsNext ==
    \/ \E w \in Window : WsAddTile(w)
    \/ \E w \in Window : WsAddColumn(w)
    \/ \E w \in Window : WsRemoveTile(w)
    \/ \E column \in BOOLEAN : WsRemoveActive(column)
    \/ WsFocusColumn
    \/ WsFocusStep
    \/ WsMoveStep
    \/ \E w \in Window : WsActivateWindow(w)
    \/ WsSwitchFocus
    \/ \E w \in Window : WsToggleWindowFloating(w)
    \/ \E w \in Window : WsFullscreen(w)
    \/ \E w \in Window : WsMaximize(w)
    \/ WsUpdateConfig

WsSpec == WsInit /\ [][WsNext]_wsVars

-----------------------------------------------------------------------------
(***************************************************************************)
(* Properties.                                                             *)
(***************************************************************************)
\* The types of the fields of Workspace, FloatingSpace and ScrollingSpace.
WsTypeOK ==
    /\ TypeOK
    /\ FloatingTypeOK
    /\ floating_is_active \in FloatingActive

\* Whenever a workspace has windows, one of them is active: each layer has an
\* active window of its own while it has any, and the layer with the focus is
\* never the empty one while the other has a window (verify_invariants).
SomeWindowActive ==
    /\ FocusValid
    /\ FloatingActiveValid
    /\ floating_is_active = "Yes" => floating.tiles # <<>>
    /\ is_empty(scrolling) /\ floating.tiles # <<>> => floating_is_active = "Yes"

\* Taking a window out of a layer and putting it into the other one, which is
\* what floating, tiling, maximizing and fullscreening do, never changes which
\* window is active: not when it is a background window, and not when it is
\* the active one.
ChangingLayersKeepsActive ==
    [][/\ ws_windows(Workspace)' = ws_windows(Workspace)
       /\ SpaceWindows(scrolling)' # SpaceWindows(scrolling)
       => ws_active_window(Workspace)' = ws_active_window(Workspace)]_wsVars

\* "Toggle fullscreen on the focused window" (sol-ipc, FullscreenWindow): the
\* toggle takes a fullscreen window out of fullscreen.
ToggleLeavesFullscreen ==
    \A i \in DOMAIN columns(scrolling) :
       LET w == columns(scrolling)[i].tile.id
           after == ws_toggle_fullscreen(Workspace, w)
       IN columns(scrolling)[i].fs /\ w \in SpaceWindows(after.scrolling)
            => ~ColumnOf(after.scrolling, w).fs
=============================================================================
