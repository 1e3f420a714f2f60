--------------------------- MODULE FloatingSpace ---------------------------
(***************************************************************************)
(* The floating layer of a workspace, layout/floating.rs: which windows it *)
(* holds, how they are stacked and which one is active. Positions and      *)
(* sizes in pixels are left out; what reads them (the directional focus)   *)
(* is a choice among the windows it may pick.                              *)
(*                                                                         *)
(* A floating space is a record                                            *)
(*   tiles  - Vec<Tile>, the topmost first                                 *)
(*   active - active_window_id, as a set of at most one window             *)
(* parent maps each window to the set of its xdg_toplevel parent: empty    *)
(* for none.                                                               *)
(*                                                                         *)
(* Each method is an operator from the space before to the space after;    *)
(* the specification at the end takes them one at a time.                  *)
(***************************************************************************)
EXTENDS Tile, Sequences, SequencesExt, FiniteSets

CONSTANT MaxChildren   \* how many windows have a parent at a time

ASSUME MaxChildrenAssumption == MaxChildren \in Nat

Floating == [tiles : Seq(TileRecord), active : SUBSET Window]

NewFloating == [tiles |-> <<>>, active |-> {}]

Parents == {p \in [Window -> SUBSET Window] : \A w \in Window : p[w] = {} \/ \E v \in Window : p[w] = {v}}

FloatingWindows(fl) == {fl.tiles[i].id : i \in DOMAIN fl.tiles}

idx_of(fl, w) == SelectInSeq(fl.tiles, LAMBDA t : t.id = w)

is_child_of(parent, w, p) == parent[w] = {p}

\* The window at index i is kept where it is and its descendants among those
\* below it are put right above it, in the order they had. One walk from the
\* back finds them all as long as children are above their parents.
bring_up_descendants_of(fl, i, parent) ==
    LET above == SubSeq(fl.tiles, 1, i - 1)
        below == SubSeq(fl.tiles, i + 1, Len(fl.tiles))
        family == FoldRight(LAMBDA t, found :
                               IF parent[t.id] \intersect found # {}
                               THEN found \union {t.id} ELSE found,
                            below, {fl.tiles[i].id})
    IN [fl EXCEPT !.tiles = above \o SelectSeq(below, LAMBDA t : t.id \in family)
                              \o <<fl.tiles[i]>>
                              \o SelectSeq(below, LAMBDA t : t.id \notin family)]

\* add_tile_at(): asks for the floating size, which also ends any maximized or
\* fullscreen state, and goes no lower than the window's parent.
add_tile_at(fl, i, t, activate, parent) ==
    LET j == SelectInSeq(SubSeq(fl.tiles, 1, i - 1), LAMBDA o : is_child_of(parent, t.id, o.id))
        at == IF j = 0 THEN i ELSE j
    IN bring_up_descendants_of(
         [tiles |-> InsertAt(fl.tiles, at, request_size_once(t)),
          active |-> IF activate \/ fl.tiles = <<>> THEN {t.id} ELSE fl.active], at, parent)

floating_add_tile(fl, t, activate, parent) == add_tile_at(fl, 1, t, activate, parent)

add_tile_above(fl, above, t, activate, parent) ==
    add_tile_at(fl, idx_of(fl, above), t, activate, parent)

\* The topmost window becomes active when the active one leaves.
floating_remove_tile(fl, w) ==
    LET tiles == RemoveAt(fl.tiles, idx_of(fl, w)) IN
    [tiles |-> tiles,
     active |-> IF tiles = <<>> THEN {}
                ELSE IF fl.active = {w} THEN {tiles[1].id} ELSE fl.active]

RemovedTile(fl, w) == fl.tiles[idx_of(fl, w)]

floating_activate_window_without_raising(fl, w) == [fl EXCEPT !.active = {w}]

raise_window(fl, i) == [fl EXCEPT !.tiles = <<fl.tiles[i]>> \o RemoveAt(fl.tiles, i)]

\* Mutant: the window is raised without its descendants.
ActivateWithoutDescendants(fl, w, parent) ==
    [raise_window(fl, idx_of(fl, w)) EXCEPT !.active = {w}]

floating_activate_window(fl, w, parent) ==
    bring_up_descendants_of([raise_window(fl, idx_of(fl, w)) EXCEPT !.active = {w}], 1, parent)

\* focus_directional() activates the nearest window on one side of the active
\* one, if there is any; focus_leftmost() and the like the extreme one, which
\* may be the active window itself.
FloatingFocusResults(fl, parent) ==
    {fl} \union {floating_activate_window(fl, w, parent) : w \in FloatingWindows(fl)}

floating_descendants_added(fl, w, parent) ==
    IF w \in FloatingWindows(fl) THEN bring_up_descendants_of(fl, idx_of(fl, w), parent) ELSE fl
-----------------------------------------------------------------------------
(***************************************************************************)
(* The specification: one floating space driven by every operation, and    *)
(* clients that set the parents of their windows. What a window was told   *)
(* before it came is in module Workspace, where both layers are.           *)
(***************************************************************************)
VARIABLES floating, parent

floatingVars == <<floating, parent>>

FloatingInit ==
    /\ floating = NewFloating
    /\ parent = [w \in Window |-> {}]

FloatingAddTile(w) ==
    /\ w \notin FloatingWindows(floating)
    /\ \E activate \in BOOLEAN :
         \/ floating' = floating_add_tile(floating, NewTile(w, "Normal"), activate, parent)
         \/ \E above \in FloatingWindows(floating) :
               floating' = add_tile_above(floating, above, NewTile(w, "Normal"), activate, parent)
    /\ UNCHANGED parent

FloatingRemoveTile(w) ==
    /\ w \in FloatingWindows(floating)
    /\ floating' = floating_remove_tile(floating, w)
    /\ UNCHANGED parent

FloatingActivate(w) ==
    /\ w \in FloatingWindows(floating)
    /\ \/ floating' = floating_activate_window(floating, w, parent)
       \/ floating' = floating_activate_window_without_raising(floating, w)
    /\ UNCHANGED parent

FloatingFocus ==
    /\ floating' \in FloatingFocusResults(floating, parent)
    /\ UNCHANGED parent

\* The layout's toggle of windowed fullscreen visits the window in place.
FloatingToggleWindowed(w) ==
    /\ w \in FloatingWindows(floating)
    /\ floating' = [floating EXCEPT !.tiles[idx_of(floating, w)] =
                                     request_windowed_fullscreen(@, ~@.wfs)]
    /\ UNCHANGED parent

\* The ancestors of w and w itself.
Ancestors(w) ==
    LET up[n \in 0 .. Cardinality(Window)] ==
          IF n = 0 THEN {w} ELSE up[n - 1] \union UNION {parent[v] : v \in up[n - 1]}
    IN up[Cardinality(Window)]

\* A client sets or unsets the parent of a window; the protocol refuses a
\* parent that descends from the window. The new parent brings its
\* descendants up (parent_changed), wherever the child is.
SetParent(w, p) ==
    /\ p = {} \/ \E v \in Window : p = {v} /\ w \notin Ancestors(v)
    /\ parent' = [parent EXCEPT ![w] = p]
    /\ Cardinality({v \in Window : parent'[v] # {}}) <= MaxChildren
    /\ floating' = IF p = {} THEN floating
                   ELSE floating_descendants_added(floating, CHOOSE v \in p : TRUE, parent')

FloatingNext ==
    \/ \E w \in Window : FloatingAddTile(w)
    \/ \E w \in Window : FloatingRemoveTile(w)
    \/ \E w \in Window : FloatingActivate(w)
    \/ FloatingFocus
    \/ \E w \in Window : FloatingToggleWindowed(w)
    \/ \E w \in Window, p \in {{}} \union {{v} : v \in Window} : SetParent(w, p)

FloatingSpec == FloatingInit /\ [][FloatingNext]_floatingVars

-----------------------------------------------------------------------------
(***************************************************************************)
(* Properties.                                                             *)
(***************************************************************************)
\* The types of the fields of FloatingSpace, each window having one parent at
\* most.
FloatingTypeOK ==
    /\ floating \in Floating
    /\ parent \in Parents

\* The floating layer has an active window, one of its own, exactly when it
\* has a window (verify_invariants). An active window that has left makes
\* focus_directional() panic at idx_of(active).unwrap().
FloatingActiveValid ==
    IF floating.tiles = <<>> THEN floating.active = {}
    ELSE \E w \in FloatingWindows(floating) : floating.active = {w}

\* "children must be stacked above parents" (verify_invariants), through every
\* insertion, raise and late set_parent. bring_up_descendants_of() finds all
\* descendants in one walk only because of it.
ChildrenAboveParents ==
    \A i, j \in DOMAIN floating.tiles :
       is_child_of(parent, floating.tiles[i].id, floating.tiles[j].id) => i < j
=============================================================================
