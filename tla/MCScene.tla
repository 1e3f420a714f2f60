------------------------------ MODULE MCScene -------------------------------
(***************************************************************************)
(* The lock of some outputs and the scene of one, for TLC: a behaviour is  *)
(* that of one of them.  The two share no state.                           *)
(***************************************************************************)
EXTENDS MCSessionLock, Scene

CONSTANTS t1, t2, t3, f1, bar, dock, paper, wall, note

VARIABLE part   \* the one that this behaviour works on

Tiled(w, rows) == [win |-> w, rows |-> rows, sizing |-> "normal"]
Floating(w, rows) == [win |-> w, rows |-> rows]
Surface(id, rows, popup) == [id |-> id, rows |-> rows, popup |-> popup, backdrop |-> FALSE]

\* Two windows share the first workspace, with a floating one or without; one has the second,
\* maximized or not.
Tiling(floating, third) ==
    (0 :> [scrolling |-> <<Tiled(t1, 1..3), Tiled(t2, 4..7)>>, floating |-> floating,
           floating_active |-> "no"])
    @@ (1 :> [scrolling |-> <<third>>, floating |-> <<>>, floating_active |-> "no"])

\* A bar with a pop-up over the windows, a dock with one below them.
Around(overlay, background) ==
    [overlay |-> overlay, top |-> <<Surface(bar, {0}, 1..2)>>,
     bottom |-> <<Surface(dock, 6..7, {5})>>, background |-> background]

Wallpaper == [Surface(wall, Row, {}) EXCEPT !.backdrop = TRUE]

MCScenes ==
    {[tiles |-> Tiling(<<Floating(f1, 2..5)>>, Tiled(t3, 1..7)),
      layers |-> Around(<<>>, <<Surface(paper, Row, {3}), Wallpaper>>)],
     [tiles |-> Tiling(<<>>, [Tiled(t3, 1..7) EXCEPT !.sizing = "maximized"]), layers |-> Around(<<Surface(note, {0, 1}, {7})>>, <<>>)]}

\* While the lock is at work the view is between two workspaces, where there is less to check.
SceneAside ==
    /\ \E scene \in MCScenes : scene.tiles[0].floating = <<>> /\ tiles = scene.tiles /\ layers = scene.layers
    /\ active = 1 /\ switch = Animation(0, Unit, SwitchDuration)
    /\ overview_open = FALSE /\ progress = Absent
    /\ held = Nothing /\ ui = "none" /\ lock = "no" /\ outdated = FALSE /\ turns = 1

SideInit ==
    \/ part = "lock" /\ LockInit /\ SceneAside
    \/ part = "scene" /\ LockInit /\ SceneInit

SideNext ==
    \/ part = "lock" /\ LockNext /\ UNCHANGED <<sceneVars, part>>
    \/ part = "scene" /\ SceneNext /\ UNCHANGED <<allVars, part>>

SideSpec == SideInit /\ [][SideNext]_<<allVars, sceneVars, part>>
=============================================================================
