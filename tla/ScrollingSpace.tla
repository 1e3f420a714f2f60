--------------------------- MODULE ScrollingSpace ---------------------------
(***************************************************************************)
(* The master-stack tiling engine of layout/scrolling.rs.                  *)
(*                                                                         *)
(* A space is a record                                                     *)
(*   master         - Option<Column> as a sequence of at most one column,  *)
(*                    which is what master.iter() yields                   *)
(*   stack          - Vec<Column>                                          *)
(*   focus          - the enum Focus                                       *)
(*   last_stack_idx - Option<usize>, NoIdx for None                        *)
(*   master_ratio   - in percent                                           *)
(*   area           - view size, working area, scale and options           *)
(* and a column owns a tile and the two pending takeover flags. Indices    *)
(* are the code's: 0 is the first row of the stack, and in the unified     *)
(* order 0 is the master.                                                  *)
(*                                                                         *)
(* Each method of ScrollingSpace is an operator from the space before to   *)
(* the space after; the specification at the end takes them one at a time. *)
(***************************************************************************)
EXTENDS Tile, Sequences, SequencesExt

CONSTANT NudgeStep   \* the delta of NudgeMasterRatio, in percent

ASSUME NudgeStepAssumption == NudgeStep \in Nat \ {0}

NoIdx == -1

Focus(tag, idx) == [tag |-> tag, idx |-> idx]
FocusEmpty == Focus("Empty", 0)
FocusMaster == Focus("Master", 0)
FocusStack(idx) == Focus("Stack", idx)

Column == [tile : TileRecord, fs : BOOLEAN, max : BOOLEAN]

Space == [master : Seq(Column), stack : Seq(Column),
          focus : [tag : {"Empty", "Master", "Stack"}, idx : Int],
          last_stack_idx : Int, master_ratio : Int, area : Area]

NewSpace(a) == [master |-> <<>>, stack |-> <<>>, focus |-> FocusEmpty,
                last_stack_idx |-> NoIdx, master_ratio |-> 50, area |-> a]

-----------------------------------------------------------------------------
(***************************************************************************)
(* Reading a space.                                                        *)
(***************************************************************************)
columns(sp) == sp.master \o sp.stack

WindowsOf(cols) == {cols[i].tile.id : i \in DOMAIN cols}

SpaceWindows(sp) == WindowsOf(columns(sp))

is_empty(sp) == sp.master = <<>> /\ sp.stack = <<>>

HasMaster(sp) == sp.master # <<>>

\* focused_column(): the empty sequence is None.
focused_column(sp) ==
    CASE sp.focus.tag = "Empty" -> <<>>
      [] sp.focus.tag = "Master" -> sp.master
      [] sp.focus.tag = "Stack" ->
            IF sp.focus.idx \in 0 .. Len(sp.stack) - 1
            THEN <<sp.stack[sp.focus.idx + 1]>> ELSE <<>>

\* The active window as a set of at most one window.
active_window(sp) == WindowsOf(focused_column(sp))

is_active_pending_fullscreen(sp) ==
    \E i \in DOMAIN focused_column(sp) : focused_column(sp)[i].fs

\* The position of a window in the unified order, from 0.
PositionOf(sp, w) ==
    CHOOSE u \in 0 .. Len(columns(sp)) - 1 : columns(sp)[u + 1].tile.id = w

\* The column that is pending fullscreen or maximized and so covers the
\* others: the first one in the unified order, NoIdx when there is none.
takeover(sp) ==
    SelectInSeq(columns(sp), LAMBDA c : c.fs \/ c.max) - 1

\* The size column_layout() gives the column at unified index u: the whole
\* area for a lone master, else the two panes split at the master ratio and
\* the stack pane split evenly among its rows.
SlotSize(sp, u) ==
    LET n == Len(sp.stack) IN
    CASE n = 0 -> [kind |-> "whole", area |-> sp.area, ratio |-> 0, rows |-> 0]
      [] n # 0 /\ u = 0 ->
            [kind |-> "master", area |-> sp.area, ratio |-> sp.master_ratio, rows |-> 0]
      [] n # 0 /\ u # 0 ->
            [kind |-> "row", area |-> sp.area, ratio |-> sp.master_ratio, rows |-> n]

-----------------------------------------------------------------------------
(***************************************************************************)
(* Columns.                                                                *)
(***************************************************************************)
ColumnSetFullscreen(c, value, a) ==
    IF c.fs = value THEN c
    ELSE IF value THEN [tile |-> request_fullscreen(c.tile, a), fs |-> TRUE, max |-> FALSE]
    ELSE [c EXCEPT !.fs = FALSE]

ColumnSetMaximized(c, value, a) ==
    IF c.max = value THEN c
    ELSE IF value THEN [tile |-> request_maximized(c.tile, a), fs |-> FALSE, max |-> TRUE]
    ELSE [c EXCEPT !.max = FALSE]

\* A new column takes over at once when its window is pending maximized or
\* fullscreen.
new_with_tile(t, a) ==
    LET c == [tile |-> t, fs |-> FALSE, max |-> FALSE] IN
    CASE pending_sizing_mode(t) = "Normal" -> c
      [] pending_sizing_mode(t) = "Maximized" -> ColumnSetMaximized(c, TRUE, a)
      [] pending_sizing_mode(t) = "Fullscreen" -> ColumnSetFullscreen(c, TRUE, a)

\* Mutant: an arrival ends a fullscreen takeover but not a maximized one.
DropFullscreenOnly(c, a) == ColumnSetFullscreen(c, FALSE, a)

\* Every existing column is asked to leave its takeover when a window arrives.
DropTakeover(c, a) == ColumnSetMaximized(ColumnSetFullscreen(c, FALSE, a), FALSE, a)

\* One column's share of update_tile_sizes().
Resized(sp, c, u) ==
    IF c.fs \/ c.max THEN c
    ELSE [c EXCEPT !.tile = request_tile_size(c.tile, SlotSize(sp, u))]

update_tile_sizes(sp) ==
    [sp EXCEPT !.master = [i \in DOMAIN sp.master |-> Resized(sp, sp.master[i], 0)],
               !.stack = [i \in DOMAIN sp.stack |-> Resized(sp, sp.stack[i], i)]]

-----------------------------------------------------------------------------
add_column(sp, col, activate) ==
    LET master == [i \in DOMAIN sp.master |-> DropTakeover(sp.master[i], sp.area)]
        stack == [i \in DOMAIN sp.stack |-> DropTakeover(sp.stack[i], sp.area)]
    IN update_tile_sizes(
         IF sp.master = <<>>
         THEN [sp EXCEPT !.master = <<col>>, !.stack = stack,
                         !.focus = IF activate \/ sp.focus.tag = "Empty"
                                   THEN FocusMaster ELSE sp.focus]
         ELSE [sp EXCEPT !.master = master, !.stack = Append(stack, col),
                         !.focus = IF activate THEN FocusStack(Len(sp.stack))
                                   ELSE IF sp.focus.tag = "Empty" THEN FocusMaster
                                   ELSE sp.focus])

\* add_tile(), add_tile_to_column() and add_tile_right_of() ignore the place
\* they are asked for and all come here.
add_tile(sp, t, activate) == add_column(sp, new_with_tile(t, sp.area), activate)

\* update_focus_after_removal() on the space that has already lost the column
\* at unified index u.
update_focus_after_removal(sp, u) ==
    LET n == Len(sp.stack)
        idx == sp.focus.idx
        focus ==
          CASE is_empty(sp) -> FocusEmpty
            [] ~is_empty(sp) /\ sp.focus.tag = "Empty" ->
                 IF HasMaster(sp) THEN FocusMaster ELSE FocusStack(0)
            [] ~is_empty(sp) /\ sp.focus.tag = "Master" ->
                 IF HasMaster(sp) THEN FocusMaster ELSE FocusStack(0)
            [] ~is_empty(sp) /\ sp.focus.tag = "Stack" /\ u = 0 ->
                 IF idx = 0 THEN FocusMaster
                 ELSE IF idx - 1 < n THEN FocusStack(idx - 1)
                 ELSE IF n > 0 THEN FocusStack(n - 1) ELSE FocusMaster
            [] ~is_empty(sp) /\ sp.focus.tag = "Stack" /\ u # 0 ->
                 IF u - 1 = idx
                 THEN IF idx > 0 THEN FocusStack(idx - 1)
                      ELSE IF n > 0 THEN FocusStack(0)
                      ELSE IF HasMaster(sp) THEN FocusMaster ELSE FocusEmpty
                 ELSE IF u - 1 < idx THEN FocusStack(idx - 1) ELSE sp.focus
    IN [sp EXCEPT !.focus = focus]

\* Mutant: the columns that remain keep the sizes they had.
TakeWithoutResizing(sp, u) ==
    update_focus_after_removal(
        IF u # 0 THEN [sp EXCEPT !.stack = RemoveAt(@, u)]
        ELSE IF sp.stack = <<>> THEN [sp EXCEPT !.master = <<>>]
        ELSE [sp EXCEPT !.master = <<Head(sp.stack)>>, !.stack = Tail(@)], u)

\* take_column_at(): the master's successor is the first row of the stack.
take_column_at(sp, u) ==
    LET left == IF u # 0 THEN [sp EXCEPT !.stack = RemoveAt(sp.stack, u)]
                ELSE IF sp.stack = <<>> THEN [sp EXCEPT !.master = <<>>]
                ELSE [sp EXCEPT !.master = <<Head(sp.stack)>>, !.stack = Tail(sp.stack)]
    IN update_tile_sizes(update_focus_after_removal(left, u))

remove_tile(sp, w) == take_column_at(sp, PositionOf(sp, w))

-----------------------------------------------------------------------------
(***************************************************************************)
(* Focus. can_focus_down() and the like are the Boolean results.           *)
(***************************************************************************)
activate_window(sp, w) ==
    [sp EXCEPT !.focus = IF PositionOf(sp, w) < Len(sp.master) THEN FocusMaster
                         ELSE FocusStack(PositionOf(sp, w) - Len(sp.master))]

focus_left(sp) ==
    IF sp.focus.tag = "Stack" /\ HasMaster(sp)
    THEN [sp EXCEPT !.last_stack_idx = sp.focus.idx, !.focus = FocusMaster]
    ELSE sp

\* The remembered row if the stack still has it, else the top row.
RememberedRow(sp) ==
    IF sp.last_stack_idx \in 0 .. Len(sp.stack) - 1 THEN sp.last_stack_idx ELSE 0

focus_right(sp) ==
    IF sp.focus.tag = "Master" /\ sp.stack # <<>>
    THEN [sp EXCEPT !.focus = FocusStack(RememberedRow(sp))]
    ELSE sp

focus_column_first(sp) == IF HasMaster(sp) THEN [sp EXCEPT !.focus = FocusMaster] ELSE sp

focus_column_last(sp) ==
    IF sp.stack # <<>> THEN [sp EXCEPT !.focus = FocusStack(Len(sp.stack) - 1)]
    ELSE focus_column_first(sp)

focus_column(sp, index) ==
    IF index = 0 THEN focus_column_first(sp)
    ELSE IF index - 1 < Len(sp.stack) THEN [sp EXCEPT !.focus = FocusStack(index - 1)]
    ELSE sp

can_focus_down(sp) ==
    \/ sp.focus.tag = "Stack" /\ sp.focus.idx + 1 < Len(sp.stack)
    \/ sp.focus.tag = "Master" /\ sp.stack # <<>>

focus_down(sp) ==
    IF can_focus_down(sp)
    THEN [sp EXCEPT !.focus = IF sp.focus.tag = "Stack"
                              THEN FocusStack(sp.focus.idx + 1) ELSE FocusStack(0)]
    ELSE sp

can_focus_up(sp) == sp.focus.tag = "Stack" /\ sp.focus.idx > 0

focus_up(sp) ==
    IF can_focus_up(sp) THEN [sp EXCEPT !.focus = FocusStack(sp.focus.idx - 1)] ELSE sp

focus_down_or_left(sp) == IF can_focus_down(sp) THEN focus_down(sp) ELSE focus_left(sp)
focus_down_or_right(sp) == IF can_focus_down(sp) THEN focus_down(sp) ELSE focus_right(sp)
focus_up_or_left(sp) == IF can_focus_up(sp) THEN focus_up(sp) ELSE focus_left(sp)
focus_up_or_right(sp) == IF can_focus_up(sp) THEN focus_up(sp) ELSE focus_right(sp)

focus_top(sp) == IF sp.focus.tag = "Stack" THEN [sp EXCEPT !.focus = FocusStack(0)] ELSE sp

focus_bottom(sp) ==
    IF sp.stack # <<>> THEN [sp EXCEPT !.focus = FocusStack(Len(sp.stack) - 1)] ELSE sp

-----------------------------------------------------------------------------
(***************************************************************************)
(* Moving the active column.                                               *)
(***************************************************************************)
\* Swaps the master with the row at index idx; the demoted master takes the
\* row the promoted column left.
SwapWithMaster(sp, idx) ==
    [sp EXCEPT !.master = <<sp.stack[idx + 1]>>,
               !.stack = IF HasMaster(sp) THEN [sp.stack EXCEPT ![idx + 1] = sp.master[1]]
                         ELSE RemoveAt(sp.stack, idx + 1)]

\* Mutant: the row the promoted column came from is not remembered.
MoveLeftForgetful(sp) ==
    IF sp.focus.tag = "Stack"
    THEN update_tile_sizes([SwapWithMaster(sp, sp.focus.idx) EXCEPT !.focus = FocusMaster])
    ELSE sp

move_left(sp) ==
    IF sp.focus.tag = "Stack"
    THEN update_tile_sizes([SwapWithMaster(sp, sp.focus.idx) EXCEPT
                              !.focus = FocusMaster, !.last_stack_idx = sp.focus.idx])
    ELSE sp

move_right(sp) ==
    IF sp.focus.tag = "Master" /\ sp.stack # <<>> /\ HasMaster(sp)
    THEN update_tile_sizes([SwapWithMaster(sp, RememberedRow(sp)) EXCEPT
                              !.focus = FocusStack(RememberedRow(sp))])
    ELSE sp

move_column_to_first(sp) == move_left(sp)

\* The rows keep their sizes, so nothing is resized.
move_column_to_last(sp) ==
    IF sp.focus.tag = "Stack" /\ sp.focus.idx + 1 < Len(sp.stack)
    THEN [sp EXCEPT !.stack = Append(RemoveAt(sp.stack, sp.focus.idx + 1),
                                     sp.stack[sp.focus.idx + 1]),
                    !.focus = FocusStack(Len(sp.stack) - 1)]
    ELSE sp

SwapRows(s, i, j) == [s EXCEPT ![i] = s[j], ![j] = s[i]]

\* Mutant: the rows are swapped and the focus stays on the index.
MoveDownFocusStays(sp) ==
    IF sp.focus.tag = "Stack" /\ sp.focus.idx + 1 < Len(sp.stack)
    THEN [sp EXCEPT !.stack = SwapRows(@, sp.focus.idx + 1, sp.focus.idx + 2)]
    ELSE sp

move_down(sp) ==
    IF sp.focus.tag = "Stack" /\ sp.focus.idx + 1 < Len(sp.stack)
    THEN [sp EXCEPT !.stack = SwapRows(sp.stack, sp.focus.idx + 1, sp.focus.idx + 2),
                    !.focus = FocusStack(sp.focus.idx + 1)]
    ELSE sp

move_up(sp) ==
    IF sp.focus.tag = "Stack" /\ sp.focus.idx > 0
    THEN [sp EXCEPT !.stack = SwapRows(sp.stack, sp.focus.idx + 1, sp.focus.idx),
                    !.focus = FocusStack(sp.focus.idx - 1)]
    ELSE sp

-----------------------------------------------------------------------------
(***************************************************************************)
(* Takeovers, the master ratio and configuration.                          *)
(***************************************************************************)
\* Applies Op to the column of window w.
AtWindow(sp, w, Op(_)) ==
    [sp EXCEPT !.master = [i \in DOMAIN sp.master |->
                             IF sp.master[i].tile.id = w THEN Op(sp.master[i]) ELSE sp.master[i]],
               !.stack = [i \in DOMAIN sp.stack |->
                             IF sp.stack[i].tile.id = w THEN Op(sp.stack[i]) ELSE sp.stack[i]]]

set_fullscreen(sp, w, value) ==
    LET changed == AtWindow(sp, w, LAMBDA c : ColumnSetFullscreen(c, value, sp.area))
    IN IF value THEN changed ELSE update_tile_sizes(changed)

set_maximized(sp, w, value) ==
    LET changed == AtWindow(sp, w, LAMBDA c : ColumnSetMaximized(c, value, sp.area))
    IN IF value THEN changed ELSE update_tile_sizes(changed)

Clamp(r) == IF r < MinRatio THEN MinRatio ELSE IF r > MaxRatio THEN MaxRatio ELSE r

nudge_master_ratio(sp, delta) ==
    LET new_ratio == Clamp(sp.master_ratio + delta) IN
    IF new_ratio = sp.master_ratio THEN sp
    ELSE update_tile_sizes([sp EXCEPT !.master_ratio = new_ratio])

update_config(sp, a) == update_tile_sizes([sp EXCEPT !.area = a])

-----------------------------------------------------------------------------
(***************************************************************************)
(* The specification: one space driven by every operation.                 *)
(***************************************************************************)
VARIABLE scrolling

vars == <<scrolling>>

Init == \E a \in Area : scrolling = NewSpace(a)

AddTile(w, mode, activate) ==
    /\ w \notin SpaceWindows(scrolling)
    /\ scrolling' = add_tile(scrolling, NewTile(w, mode), activate)

\* A column that leaves another workspace keeps the flags, and the sizes, it
\* had there.
AddColumn(w, mode, a, activate) ==
    /\ w \notin SpaceWindows(scrolling)
    /\ scrolling' = add_column(scrolling, new_with_tile(NewTile(w, mode), a), activate)

RemoveTile(w) ==
    /\ w \in SpaceWindows(scrolling)
    /\ scrolling' = remove_tile(scrolling, w)

ActivateWindow(w) ==
    /\ w \in SpaceWindows(scrolling)
    /\ scrolling' = activate_window(scrolling, w)

FocusStep ==
    \/ scrolling' = focus_left(scrolling)
    \/ scrolling' = focus_right(scrolling)
    \/ scrolling' = focus_column_first(scrolling)
    \/ scrolling' = focus_column_last(scrolling)
    \/ \E index \in 0 .. Len(scrolling.stack) + 1 : scrolling' = focus_column(scrolling, index)
    \/ scrolling' = focus_down(scrolling)
    \/ scrolling' = focus_up(scrolling)
    \/ scrolling' = focus_down_or_left(scrolling)
    \/ scrolling' = focus_down_or_right(scrolling)
    \/ scrolling' = focus_up_or_left(scrolling)
    \/ scrolling' = focus_up_or_right(scrolling)
    \/ scrolling' = focus_top(scrolling)
    \/ scrolling' = focus_bottom(scrolling)

MoveStep ==
    \/ scrolling' = move_left(scrolling)
    \/ scrolling' = move_right(scrolling)
    \/ scrolling' = move_column_to_first(scrolling)
    \/ scrolling' = move_column_to_last(scrolling)
    \/ scrolling' = move_down(scrolling)
    \/ scrolling' = move_up(scrolling)

SetFullscreen(w, value) ==
    /\ w \in SpaceWindows(scrolling)
    /\ scrolling' = set_fullscreen(scrolling, w, value)

SetMaximized(w, value) ==
    /\ w \in SpaceWindows(scrolling)
    /\ scrolling' = set_maximized(scrolling, w, value)

NudgeMasterRatio ==
    \E delta \in {-NudgeStep, NudgeStep} : scrolling' = nudge_master_ratio(scrolling, delta)

UpdateConfig(a) == scrolling' = update_config(scrolling, a)

Next ==
    \/ \E w \in Window, mode \in SizingMode, activate \in BOOLEAN : AddTile(w, mode, activate)
    \/ \E w \in Window, mode \in SizingMode, a \in Area, activate \in BOOLEAN :
          AddColumn(w, mode, a, activate)
    \/ \E w \in Window : RemoveTile(w)
    \/ \E w \in Window : ActivateWindow(w)
    \/ FocusStep
    \/ MoveStep
    \/ \E w \in Window, value \in BOOLEAN : SetFullscreen(w, value)
    \/ \E w \in Window, value \in BOOLEAN : SetMaximized(w, value)
    \/ NudgeMasterRatio
    \/ \E a \in Area : UpdateConfig(a)

Spec == Init /\ [][Next]_vars

-----------------------------------------------------------------------------
(***************************************************************************)
(* Properties.                                                             *)
(***************************************************************************)
\* The types of the fields of ScrollingSpace, an Option having at most one value.
TypeOK ==
    /\ scrolling \in Space
    /\ Len(scrolling.master) \in {0, 1}
    /\ scrolling.master_ratio \in Ratio

\* verify_invariants(): the focus points at an existing column, and is Empty
\* only when there is none. Every removal and move rewrites the index, and an
\* index that outlives its row leaves the keyboard without a window.
FocusValid ==
    CASE scrolling.focus.tag = "Empty" -> is_empty(scrolling)
      [] scrolling.focus.tag = "Master" -> HasMaster(scrolling)
      [] scrolling.focus.tag = "Stack" ->
            scrolling.focus.idx \in 0 .. Len(scrolling.stack) - 1

\* Every column was told what its place wants: one that does not take over was
\* last asked for exactly the size of the slot it is in, as a normal window, and
\* one that does for the size of a view or of a working area, never both. The
\* operations that change a slot must each reach update_tile_sizes(), and the
\* moves that skip it must be the ones that change no slot.
SlotSizesRequested ==
    \A i \in DOMAIN columns(scrolling) :
       LET c == columns(scrolling)[i] IN
       /\ ~(c.fs /\ c.max)
       /\ c.fs => c.tile.size.kind = "view"
       /\ c.max => c.tile.size.kind = "working"
       /\ ~(c.fs \/ c.max) => /\ c.tile.size = SlotSize(scrolling, i - 1)
                              /\ pending_sizing_mode(c.tile) = "Normal"

\* "Keeps the swap symmetric: doing move_left -> move_right returns to the
\* same arrangement" (move_left), and focus_left -> focus_right returns to the
\* row it came from, in every state the space can reach.
SwapRoundTrip ==
    scrolling.focus.tag = "Stack" =>
       LET swapped == move_right(move_left(scrolling)) IN
       /\ [i \in DOMAIN columns(swapped) |-> columns(swapped)[i].tile.id]
            = [i \in DOMAIN columns(scrolling) |-> columns(scrolling)[i].tile.id]
       /\ swapped.focus = scrolling.focus
       /\ focus_right(focus_left(scrolling)).focus = scrolling.focus

Order(sp) == [i \in DOMAIN columns(sp) |-> columns(sp)[i].tile.id]

\* When the arrangement changes by anything but an arrival, the active window
\* stays active unless it is the one that left: closing another window or
\* moving the active one never hands the keyboard to somebody else.
ActiveSurvivesRearrangement ==
    [][/\ Order(scrolling') # Order(scrolling)
       /\ SpaceWindows(scrolling') \subseteq SpaceWindows(scrolling)
       /\ active_window(scrolling) \subseteq SpaceWindows(scrolling')
       => active_window(scrolling') = active_window(scrolling)]_vars

\* A window that arrives goes to the end of the unified order and moves nobody,
\* and afterwards no window but the new one takes over: "any column that was in
\* fullscreen / maximized takeover drops the flag, so the new window doesn't
\* appear hidden underneath" (add_column).
ArrivalIsVisible ==
    [][\A w \in SpaceWindows(scrolling') \ SpaceWindows(scrolling) :
         /\ Order(scrolling') = Append(Order(scrolling), w)
         /\ takeover(scrolling') \in {NoIdx, Len(columns(scrolling'))  - 1}]_vars
=============================================================================
