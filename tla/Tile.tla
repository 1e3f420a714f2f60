-------------------------------- MODULE Tile --------------------------------
(***************************************************************************)
(* What the layout asks of one window: the half of a Tile and of the       *)
(* Mapped window inside it that the layout engine writes.                  *)
(*                                                                         *)
(* A tile is a record                                                      *)
(*   id      - the window (Mapped::id)                                     *)
(*   wfs     - Mapped::is_pending_windowed_fullscreen                      *)
(*   pmax    - Mapped::is_pending_maximized                                *)
(*   proto   - the xdg_toplevel state of the pending configure             *)
(*   size    - the size of the pending configure                           *)
(*   restore - Tile::restore_to_floating                                   *)
(*                                                                         *)
(* Sizes are symbolic: a size is the record of everything its computation  *)
(* reads (which slot, of which area, at which master ratio, among how many *)
(* rows), so two equal sizes are equal in pixels whatever the numbers are. *)
(***************************************************************************)
EXTENDS Integers

CONSTANTS Window,   \* the windows that may be mapped
          Area      \* the values of (view size, working area, scale, options)

SizingMode == {"Normal", "Maximized", "Fullscreen"}

\* The master ratio in percent. The code clamps it to 0.15 ..= 0.85.
MinRatio == 15
MaxRatio == 85
Ratio == MinRatio .. MaxRatio

\* Which rectangle a requested size is the size of. "own" is the size the
\* window chooses for itself, a (0, 0) or a floating request.
SizeKind == {"own", "whole", "master", "row", "working", "view"}

Size == [kind : SizeKind, area : Area \union {"none"}, ratio : Int, rows : Nat]

OwnSize == [kind |-> "own", area |-> "none", ratio |-> 0, rows |-> 0]
WorkingAreaSize(a) == [kind |-> "working", area |-> a, ratio |-> 0, rows |-> 0]
ViewSize(a) == [kind |-> "view", area |-> a, ratio |-> 0, rows |-> 0]

TileRecord == [id : Window, wfs : BOOLEAN, pmax : BOOLEAN, proto : SizingMode,
               size : Size, restore : BOOLEAN]

-----------------------------------------------------------------------------
\* A window is mapped with the state it asked for before its first commit:
\* the initial configure carries Fullscreen or Maximized when the client or a
\* window rule wanted it. Mapped starts with is_pending_maximized set from
\* that configure.
NewTile(w, mode) ==
    [id |-> w, wfs |-> FALSE, pmax |-> mode = "Maximized", proto |-> mode,
     size |-> OwnSize, restore |-> FALSE]

\* A windowed-fullscreen window is told Fullscreen by the protocol while the
\* layout treats it as the maximized or normal window it otherwise is.
pending_sizing_mode(t) ==
    IF t.wfs THEN (IF t.pmax THEN "Maximized" ELSE "Normal") ELSE t.proto

\* A layout-side fullscreen is told to the client as Maximized; only windowed
\* fullscreen is forwarded as Fullscreen.
request_size(t, size, mode) ==
    LET wfs == t.wfs /\ mode # "Fullscreen" IN
    [t EXCEPT !.wfs = wfs,
              !.pmax = (mode = "Maximized"),
              !.proto = IF wfs THEN "Fullscreen"
                        ELSE IF mode = "Normal" THEN "Normal" ELSE "Maximized",
              !.size = size]

\* The request of the floating layout: one size, then the window's own.
request_size_once(t) ==
    [t EXCEPT !.pmax = FALSE,
              !.proto = IF t.wfs THEN "Fullscreen" ELSE "Normal",
              !.size = OwnSize]

request_windowed_fullscreen(t, value) ==
    IF t.wfs = value
    THEN t
    ELSE [t EXCEPT !.wfs = value,
                   !.proto = IF value THEN "Fullscreen"
                             ELSE IF t.pmax THEN "Maximized" ELSE "Normal"]

request_tile_size(t, size) == request_size(t, size, "Normal")
request_maximized(t, area) == request_size(t, WorkingAreaSize(area), "Maximized")
request_fullscreen(t, area) == request_size(t, ViewSize(area), "Fullscreen")
=============================================================================
