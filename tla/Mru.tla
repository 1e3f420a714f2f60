-------------------------------- MODULE Mru --------------------------------
(***************************************************************************)
(* The window switcher, Alt-Tab: the order in which windows had the        *)
(* keyboard focus (focus timestamps and the commit that a debounce delays, *)
(* niri.rs), the list, scope, filter and selection of WindowMru, the       *)
(* states of WindowMruUi and the strip of thumbnails that Inner moves so   *)
(* that the selection stays in view (ui/mru.rs).                           *)
(*                                                                         *)
(* A thumbnail knows where its window was when the switcher opened. Widths *)
(* are small numbers and positions are whole; of an animated position only *)
(* the target is kept.                                                     *)
(***************************************************************************)
EXTENDS Integers, SequencesExt, FiniteSetsExt

CONSTANTS
    Toplevel,
    App,          \* the application of each window, or Nobody
    Nobody,
    Pending,      \* stands in the order for the timestamp of the pending commit
    OutputWidth, Strut,
    Early,        \* the windows that had the focus before
    Whereabouts,       \* bound: where the windows may be when the switcher opens
    Widths,       \* bound: the widths each thumbnail may have; the least when the switcher opens
    MaxView,      \* bound: how far the strip may drift while the pointer holds it
    Meanwhile     \* bound: whether the focus moves and windows open under the switcher

ASSUME MruAssumption ==
    /\ Early \subseteq Toplevel
    /\ Nobody \notin Toplevel /\ Pending \notin Toplevel /\ Pending # Nobody
    /\ DOMAIN App = Toplevel /\ DOMAIN Widths = Toplevel
    /\ Whereabouts \subseteq [Toplevel -> {"here", "output", "away"}]
    /\ OutputWidth \in Nat /\ Strut \in Nat /\ MaxView \in Nat /\ Meanwhile \in BOOLEAN

Scope == {"All", "Output", "Workspace"}
Direction == {"Forward", "Backward"}
Filter == {"AllApps", "AppId"}
GAP == 1

VARIABLES
    unborn, mapped, layout_focus,
    keyboard_focus,     \* a window, "mru" or "other"
    recency,            \* windows with a timestamp and Pending, latest first
    pending_mru_commit, \* the window of the pending commit, or Nobody
    ui

mruVars == <<unborn, mapped, layout_focus, keyboard_focus, recency, pending_mru_commit,
             ui>>

desktopVars == <<unborn, mapped, layout_focus>>
orderVars == <<keyboard_focus, recency, pending_mru_commit>>

-----------------------------------------------------------------------------
(* WindowMru.                                                               *)

matches(m, t) ==
    /\ CASE m.scope = "All" -> TRUE
         [] m.scope = "Output" -> t.output
         [] m.scope = "Workspace" -> t.workspace
    /\ m.filter # Nobody => App[t.id] = m.filter

thumbnails(m) == SelectSeq(m.thumbs, LAMBDA t : matches(m, t))

Ids(s) == [i \in DOMAIN s |-> s[i].id]

first_id(m) == LET shown == thumbnails(m) IN IF shown = <<>> THEN Nobody ELSE Head(shown).id

idx_of(m, w) == SelectInSeq(m.thumbs, LAMBDA t : t.id = w)

\* The index of the selection in the filtered list: `position(...).unwrap()`.
Selected(m) == SelectInSeq(thumbnails(m), LAMBDA t : t.id = m.current)

Turn(m, k) ==
    LET shown == thumbnails(m)
    IN IF m.current = Nobody THEN m
       ELSE [m EXCEPT !.current = shown[((Selected(m) + k - 1) % Len(shown)) + 1].id]

forward(m) == Turn(m, 1)
backward(m) == Turn(m, -1)
first(m) == [m EXCEPT !.current = first_id(m)]
last(m) ==
    [m EXCEPT !.current = IF thumbnails(m) = <<>> THEN Nobody ELSE Last(thumbnails(m)).id]

\* The same thumbnail, or the first to the left, or else to the right.
Reselect(old, m) ==
    LET shown == thumbnails(m)
        left == {i \in DOMAIN shown : idx_of(m, shown[i].id) <= idx_of(m, old)}
    IN [m EXCEPT !.current = IF old = Nobody \/ left = {} THEN first_id(m) ELSE shown[Max(left)].id]

set_scope(m, scope) ==
    IF m.scope = scope THEN m ELSE Reselect(m.current, [m EXCEPT !.scope = scope])

\* Mutant: the selection is left alone when the filter changes.
SetFilterKeepsSelection(m, filter) ==
    CASE (m.filter # Nobody) = (filter = "AppId") -> m
      [] filter = "AllApps" /\ m.filter # Nobody -> [m EXCEPT !.filter = Nobody]
      [] OTHER -> IF m.current = Nobody \/ App[m.current] = Nobody THEN m
                  ELSE [m EXCEPT !.filter = App[m.current]]

\* The filter is the application of the selection; without one it can't be set.
set_filter(m, filter) ==
    CASE (m.filter # Nobody) = (filter = "AppId") -> m
      [] filter = "AllApps" /\ m.filter # Nobody -> Reselect(m.current, [m EXCEPT !.filter = Nobody])
      [] OTHER -> IF m.current = Nobody \/ App[m.current] = Nobody THEN m
                  ELSE Reselect(m.current, [m EXCEPT !.filter = App[m.current]])

\* Mutant: removing the last thumbnail shown leaves it selected.
RemoveKeepsLast(m, idx) ==
    LET next == IF m.current = m.thumbs[idx].id THEN forward(m) ELSE m
    IN [next EXCEPT !.thumbs = RemoveAt(m.thumbs, idx)]

remove_by_idx(m, idx) ==
    LET id == m.thumbs[idx].id
        next == IF m.current = id THEN forward(m) ELSE m
    IN [next EXCEPT !.thumbs = RemoveAt(m.thumbs, idx),
                    !.current = IF next.current = id THEN Nobody ELSE next.current]

-----------------------------------------------------------------------------
(* Inner: where the thumbnails are on the strip, and the strip on the output. *)

WidthOf(t) == t.width + GAP

\* The left side of the thumbnail of w among those of a list.
XAmong(shown, w) ==
    LET before == {i \in DOMAIN shown : \A j \in 1..i : shown[j].id # w}
    IN MapThenSumSet(LAMBDA i : WidthOf(shown[i]), before)

StripWidth(shown) == MapThenSumSet(LAMBDA i : WidthOf(shown[i]), DOMAIN shown) - GAP

compute_view_offset(cur_x, working_width, x, w) ==
    IF cur_x <= x /\ x + w <= cur_x + working_width THEN cur_x - x
    ELSE LET to_left == IF cur_x > x THEN cur_x - x ELSE x - cur_x
             right == cur_x + working_width - (x + w)
         IN IF to_left <= (IF right < 0 THEN -right ELSE right) THEN 0 ELSE -(working_width - w)

compute_view_pos(m) ==
    LET shown == thumbnails(m)
        x == XAmong(shown, m.current)
        working_x == Strut + GAP
        working_width == OutputWidth - 2 * working_x
    IN CASE m.current = Nobody -> 0
         [] m.current # Nobody /\ StripWidth(shown) <= working_width ->
                -((OutputWidth - StripWidth(shown)) \div 2)
         [] OTHER -> compute_view_offset(m.view + working_x, working_width, x,
                                         shown[Selected(m)].width) + x - working_x

thumbnail_left_of_current(m, w) ==
    LET shown == thumbnails(m)
    IN \E i \in DOMAIN shown : shown[i].id = w /\ \A j \in 1..i : shown[j].id # m.current

\* What the strip left of the selection gains, when m becomes new and the selection is w.
ShiftLeftOf(m, new, w) ==
    LET left == 1..(idx_of(new, w) - 1)
        gain(i) == CASE matches(m, m.thumbs[i]) /\ ~matches(new, m.thumbs[i]) -> -WidthOf(m.thumbs[i])
                     [] ~matches(m, m.thumbs[i]) /\ matches(new, m.thumbs[i]) -> WidthOf(m.thumbs[i])
                     [] OTHER -> 0
    IN MapThenSumSet(gain, left)

\* Mutant: the strip isn't moved back by what appears left of the selection.
ScopeFilterUncompensated(m, new) ==
    IF new = m \/ new.current = Nobody THEN new
    ELSE [new EXCEPT !.view = IF m.current = Nobody THEN compute_view_pos(new) ELSE m.view]

animate_scope_filter_change(m, new) ==
    IF new = m \/ new.current = Nobody THEN new
    ELSE [new EXCEPT !.view = IF m.current = Nobody THEN compute_view_pos(new)
                              ELSE m.view + ShiftLeftOf(m, new, new.current)]

\* Inner::remove_window() for a thumbnail of the list.
InnerRemove(m, w) ==
    LET idx == idx_of(m, w)
        shown == thumbnails(m)
        last_visible == shown # <<>> /\ Last(shown).id = w
        shift == IF ~last_visible /\ thumbnail_left_of_current(m, w) THEN WidthOf(m.thumbs[idx]) ELSE 0
    IN remove_by_idx([m EXCEPT !.view = m.view - shift], idx)

\* Inner::update_window().
InnerUpdate(m, w, new) ==
    LET idx == idx_of(m, w)
        shift == IF thumbnail_left_of_current(m, w) THEN new - m.thumbs[idx].width ELSE 0
    IN IF idx = 0 THEN m
       ELSE [m EXCEPT !.thumbs[idx].width = new, !.view = m.view + shift]

-----------------------------------------------------------------------------
(* WindowMruUi.                                                             *)

NotOpen(scope) ==
    [state |-> "Closed", thumbs |-> <<>>, current |-> Nobody, scope |-> scope, filter |-> Nobody,
     view |-> 0, freeze |-> FALSE, fully_open |-> FALSE]

\* What fades out is only looked at.
Fading(scope) == [NotOpen(scope) EXCEPT !.state = "Closing"]

is_open == ui.state = "Open"

\* WindowMruUi::close(): it fades out only when it had been on the screen.
close ==
    ui' = IF ui.fully_open THEN Fading(ui.scope) ELSE NotOpen(ui.scope)

\* WindowMruUi::remove_window().
UiRemoved(w) ==
    IF ~is_open \/ idx_of(ui, w) = 0 THEN ui
    ELSE LET rest == InnerRemove(ui, w)
         IN CASE rest.thumbs # <<>> -> rest
              [] rest.thumbs = <<>> /\ ui.fully_open -> Fading(ui.scope)
              [] OTHER -> NotOpen(ui.scope)

MruInit ==
    /\ unborn = Toplevel \ Early /\ mapped = Early /\ layout_focus = Nobody
    /\ keyboard_focus = "other" /\ recency = SetToSeq(Early) /\ pending_mru_commit = Nobody
    /\ ui = NotOpen("All")

-----------------------------------------------------------------------------
(* The focus and its timestamps.                                            *)

\* A layer surface or a dialog may take the keyboard from the layout's window.
Focusable == IF is_open THEN {"mru"} ELSE {"other"} \union ({layout_focus} \ {Nobody})

Drop(s, x) == SelectSeq(s, LAMBDA y : y # x)

\* A new window is stamped at once, another one when the focus stays with it.
Stamp(w) ==
    IF w \notin ToSet(recency)
    THEN recency' = <<w>> \o recency /\ UNCHANGED pending_mru_commit
    ELSE recency' = <<Pending>> \o Drop(recency, Pending) /\ pending_mru_commit' = w

update_keyboard_focus ==
    /\ keyboard_focus' \in Focusable \ {keyboard_focus}
    /\ IF keyboard_focus' \in Toplevel THEN Stamp(keyboard_focus')
       ELSE UNCHANGED <<recency, pending_mru_commit>>
    /\ UNCHANGED <<desktopVars, ui>>

\* Mutant: the pending commit is cancelled, not applied.
CommitCancelled == Drop(recency, Pending)

\* The order when the pending timestamp becomes that of its window, if it is still there.
Committed ==
    LET w == pending_mru_commit
    IN CASE w = Nobody -> recency
         [] w # Nobody /\ w \notin mapped -> Drop(recency, Pending)
         [] OTHER -> [i \in DOMAIN Drop(recency, w) |->
                         IF Drop(recency, w)[i] = Pending THEN w ELSE Drop(recency, w)[i]]

\* The debounce timer; a key that reaches the window does the same.
mru_apply_keyboard_commit ==
    /\ pending_mru_commit # Nobody
    /\ recency' = Committed /\ pending_mru_commit' = Nobody
    /\ UNCHANGED <<desktopVars, keyboard_focus, ui>>

OpenWindow(w) ==
    /\ is_open => Meanwhile
    /\ w \in unborn /\ unborn' = unborn \ {w} /\ mapped' = mapped \union {w}
    /\ layout_focus' \in {layout_focus, w}
    /\ UNCHANGED <<orderVars, ui>>

\* The window is unmapped or destroyed; the layout focuses what it likes.
CloseWindow(w) ==
    /\ w \in mapped /\ mapped' = mapped \ {w}
    /\ layout_focus' \in IF layout_focus = w THEN mapped' \union {Nobody} ELSE {layout_focus}
    /\ recency' = Drop(recency, w)
    /\ ui' = UiRemoved(w)
    /\ UNCHANGED <<unborn, keyboard_focus, pending_mru_commit>>

\* A commit resizes a window of the switcher: WindowMruUi::update_window().
ResizeWindow(w, new) ==
    /\ is_open /\ w \in mapped /\ ui' = InnerUpdate(ui, w, new)
    /\ UNCHANGED <<desktopVars, orderVars>>

\* A click, an action, a workspace switch: the layout focuses another window or none.
MoveFocus ==
    /\ is_open => Meanwhile
    /\ layout_focus' \in (mapped \union {Nobody}) \ {layout_focus}
    /\ UNCHANGED <<unborn, mapped, orderVars, ui>>

\* The windows without a timestamp are the oldest.
LatestOf(S) ==
    LET stamped == {i \in DOMAIN recency : recency[i] \in S}
    IN IF stamped = {} THEN S ELSE {recency[Min(stamped)]}

FocusWindowPrevious ==
    /\ is_open => Meanwhile
    /\ mapped \ {layout_focus} # {}
    /\ layout_focus' \in LatestOf(mapped \ {layout_focus})
    /\ recency' = Committed /\ pending_mru_commit' = Nobody
    /\ UNCHANGED <<unborn, mapped, keyboard_focus, ui>>

-----------------------------------------------------------------------------
(* The actions of the switcher.                                             *)

\* The windows by timestamp, then in the layout's order, whichever that is.
Orders(order) ==
    LET stamped == SelectSeq(order, LAMBDA w : w \in mapped)
    IN {stamped \o rest : rest \in SetToSeqs(mapped \ ToSet(stamped))}

Thumbnail(w, place) ==
    [id |-> w, output |-> place[w] # "away", workspace |-> place[w] = "here", width |-> Min(Widths[w])]

\* WindowMru::new(), in scope and filtered, and shown with the selection in view.
NewUi(order, place, scope, filter) ==
    LET thumbs == [i \in DOMAIN order |-> Thumbnail(order[i], place)]
        new == [NotOpen("All") EXCEPT !.state = "Open", !.thumbs = thumbs, !.current = Head(order)]
        scoped == set_scope(new, scope)
        filtered == IF filter = Nobody THEN scoped ELSE set_filter(scoped, filter)
    IN [filtered EXCEPT !.view = compute_view_pos(filtered)]

Advanced(m, direction) == IF direction = "Forward" THEN forward(m) ELSE backward(m)

\* WindowMruUi::advance().
advance(direction, filter) ==
    LET filtered == IF filter = Nobody THEN ui ELSE animate_scope_filter_change(ui, set_filter(ui, filter))
    IN /\ ui' = [Advanced(filtered, direction) EXCEPT !.freeze = FALSE]
       /\ UNCHANGED <<desktopVars, orderVars>>

\* The switcher opens. Without a focused window Forward selects the first one.
OpenSwitcher(direction, scope, filter) ==
    /\ mapped # {}
    /\ recency' = Committed /\ pending_mru_commit' = Nobody
    /\ \E place \in Whereabouts, order \in Orders(Committed) :
          /\ layout_focus # Nobody => place[layout_focus] = "here"
          /\ LET new == NewUi(order, place, scope, filter)
             IN ui' = IF direction = "Forward" /\ layout_focus = Nobody THEN new
                      ELSE Advanced(new, direction)
    /\ UNCHANGED <<desktopVars, keyboard_focus>>

MruAdvance ==
    \E direction \in Direction, filter \in Filter \union {Nobody} :
        IF is_open THEN advance(direction, filter)
        ELSE \E scope \in Scope \union {ui.scope} : OpenSwitcher(direction, scope, filter)

Selecting(new) ==
    /\ is_open /\ ui' = [new EXCEPT !.freeze = FALSE]
    /\ UNCHANGED <<desktopVars, orderVars>>

MruFirst == Selecting(first(ui))
MruLast == Selecting(last(ui))

SetScope(scope) == Selecting(animate_scope_filter_change(ui, set_scope(ui, scope)))

\* MruSetScope, and MruCycleScope which sets the next of the three.
MruSetScope == \E scope \in Scope : SetScope(scope)

\* The pointer is on a thumbnail, or a click or a touch is and confirms.
pointer_motion(w) ==
    IF ~ui.fully_open THEN ui
    ELSE [ui EXCEPT !.freeze = TRUE,
                    !.current = IF w \in ToSet(Ids(thumbnails(ui))) THEN w ELSE @]

PointAt(w) ==
    /\ is_open /\ ui' = pointer_motion(w)
    /\ UNCHANGED <<desktopVars, orderVars>>

\* close_mru(Confirm) and focus_window().
MruConfirm ==
    /\ is_open /\ close
    /\ layout_focus' = IF ui.current = Nobody THEN layout_focus ELSE ui.current
    /\ UNCHANGED <<unborn, mapped, orderVars>>

\* Escape, a click beside the thumbnails, the lock, the removal of the output.
cancel_mru ==
    /\ is_open /\ close
    /\ UNCHANGED <<desktopVars, orderVars>>

\* The delay of the switcher is over.
BecomeVisible ==
    /\ is_open /\ ~ui.fully_open /\ ui' = [ui EXCEPT !.fully_open = TRUE]
    /\ UNCHANGED <<desktopVars, orderVars>>

\* Inner::advance_animations(): the strip follows the selection, unless the pointer chose it.
advance_animations ==
    /\ is_open /\ ~ui.freeze
    /\ ui' = [ui EXCEPT !.view = compute_view_pos(ui)]
    /\ UNCHANGED <<desktopVars, orderVars>>

\* The closing animation is over.
FadedOut ==
    /\ ui.state = "Closing" /\ ui' = NotOpen(ui.scope)
    /\ UNCHANGED <<desktopVars, orderVars>>

Step ==
    \/ update_keyboard_focus \/ mru_apply_keyboard_commit
    \/ MoveFocus \/ FocusWindowPrevious
    \/ \E w \in Toplevel : OpenWindow(w) \/ CloseWindow(w) \/ PointAt(w) \/ (\E new \in Widths[w] : ResizeWindow(w, new))
    \/ MruAdvance \/ MruFirst \/ MruLast \/ MruSetScope \/ MruConfirm \/ cancel_mru
    \/ BecomeVisible \/ advance_animations \/ FadedOut

MruNext == Step /\ ui'.view \in -MaxView..MaxView

MruSpec == MruInit /\ [][MruNext]_mruVars

-----------------------------------------------------------------------------
(* Properties.                                                              *)

(* The selection is one of the thumbnails shown, and there is none only when none is shown: *)
(* set_scope(), set_filter() and forward() unwrap it (verify_invariants() of the tests).     *)
SelectionShown ==
    is_open =>
        LET shown == ToSet(Ids(thumbnails(ui)))
        IN IF ui.current = Nobody THEN shown = {} ELSE ui.current \in shown

(* While the switcher is open every thumbnail stands for a window that is still in the layout *)
(* ("window in the MRU must be present in the layout"), and there is one at least.            *)
ThumbnailsLive == is_open => ui.thumbs # <<>> /\ ToSet(Ids(ui.thumbs)) \subseteq mapped

(* The switcher never selects what it doesn't show, or shows what is gone. *)
SwitcherIsSound == SelectionShown /\ ThumbnailsLive

OnScreen == XAmong(thumbnails(ui), ui.current) - ui.view

(* A thumbnail that stays selected stays where it is on the output while others go, change size, *)
(* appear or disappear with the scope: only the strip's own animation moves it.                  *)
SelectionStaysPut ==
    is_open /\ ui'.state = "Open" /\ ui.current # Nobody /\ ui'.current = ui.current =>
        OnScreen' = OnScreen \/ advance_animations

(* When the focused window has the keyboard, the switcher opens with it as the first thumbnail *)
(* ("some window (which should be the first one) is already focused").                          *)
FocusedComesFirst ==
    ~is_open /\ ui'.state = "Open" /\ keyboard_focus = layout_focus => ui'.thumbs[1].id = layout_focus

(* What the user sees of the switcher is steady: the selection doesn't jump, and the first step *)
(* forward goes to the window that had the focus before.                                        *)
SwitcherIsSteady == [][SelectionStaysPut /\ FocusedComesFirst]_mruVars
=============================================================================
