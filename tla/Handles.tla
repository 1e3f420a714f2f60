------------------------------ MODULE Handles ------------------------------
(***************************************************************************)
(* The two Wayland protocols that tell bars and docks of the desktop: the  *)
(* workspaces and their groups (protocols/ext_workspace.rs) and the        *)
(* toplevels of other clients (protocols/foreign_toplevel.rs).  Each keeps *)
(* what it last sent and sends the differences at each refresh; a client   *)
(* that binds is sent what was last sent.  The bar shows workspaces, and   *)
(* changes what it shows when it gets a done event; the panel shows        *)
(* windows.  A handle is a sequence of what was last sent for it, which is *)
(* empty once its client has destroyed it.                                 *)
(***************************************************************************)
EXTENDS Desktop

CONSTANTS
    MaxActions,     \* bound: actions of the bar that wait for a commit
    CommitGone      \* whether the bar commits an assignment to an output that has gone

VARIABLES
    ext,        \* ExtWorkspaceManagerState: the workspaces and the groups, as last sent
    bar,        \* the bar: its handles, the members of its groups, what it shows
    actions,    \* what the bar has asked for and not committed; Nil when not bound
    toplevels,  \* ForeignToplevelManagerState.toplevels, as last sent
    panel,      \* the panel: its handles, and the most windows it had activated at once
    managed,    \* whether the panel's manager is "off", "bound" or "stopped"
    panicked    \* the compositor has met an output it does not know

handleVars == <<ext, bar, actions, toplevels, panel, managed, panicked>>

------------------------------------------------------------------------------
\* ext-workspace.

Without(f, S) == [x \in DOMAIN f \ S |-> f[x]]

\* Whether the client has a handle, among those of f, that it has not destroyed.
Alive(f, x) == x \in DOMAIN f /\ f[x] # <<>>

\* What is sent of a workspace: its id is its name, its name that or its index.
ExtWorkspace(d, s) ==
    [id |-> d.name[s], name |-> IF d.name[s] = Nil THEN WsIdx(d, s) ELSE d.name[s],
     coordinates |-> WsIdx(d, s), state |-> <<IsActive(d, s), IsUrgent(d, s)>>]

\* add_instance() of a workspace, and send_workspace_enter_leave(), for a bar that is
\* bound: workspaces enter and leave the groups that exist.
AddInstance(b, s, data) == IF actions = Nil THEN b ELSE [b EXCEPT !.ws = Inserted(@, s, <<data>>)]
Enter(b, s, o) == IF o \in DOMAIN b.groups THEN [b EXCEPT !.groups[o] = @ \cup {s}] ELSE b
Leave(b, s, o) == IF o \in DOMAIN b.groups THEN [b EXCEPT !.groups[o] = @ \ {s}] ELSE b

\* Workspaces that no longer exist leave their groups and are removed.
RemoveWorkspaces(acc, d) ==
    LET old == DOMAIN acc.ws \ Workspaces(d)
        told(b) == [b EXCEPT !.ws = Without(@, old), !.groups = [o \in DOMAIN @ |-> @[o] \ old]]
    IN  [acc EXCEPT !.ws = Without(@, old), !.output = Without(@, old),
                    !.bar = told(@), !.changed = old # {}]

\* Groups of outputs that no longer exist.
RemoveGroups(acc, d) ==
    LET old == acc.groups \ Connected(d)
        told(b) == [b EXCEPT !.groups = Without(@, old)]
    IN  [acc EXCEPT !.groups = @ \ old, !.bar = told(@), !.changed = @ \/ old # {}]

\* Mutant: the name of a workspace without one is not looked at when its index changes.
NameCheckedIfNamed(old, new) == old.id # new.id

\* Whether the name is built again: the workspace got, lost or changed its name, or has
\* none and its index changed.
NameChecked(old, new) ==
    \/ old.id # new.id
    \/ new.id = Nil /\ old.coordinates # new.coordinates

\* What a bar is told of a workspace that was sent as old, on the output from.  An id
\* cannot be changed once set, so a workspace that loses its name or gets another one is
\* removed and sent afresh.
TellChange(b, s, old, from, data, out) ==
    LET recreate == old.id # data.id /\ old.id # Nil
        moved    == IF from = out THEN b ELSE Leave(b, s, from)
        told     == IF Alive(moved.ws, s) THEN [moved EXCEPT !.ws[s] = <<data>>] ELSE moved
    IN  IF recreate THEN Enter(AddInstance(Leave(moved, s, out), s, data), s, out)
        ELSE IF from = out \/ ~Alive(moved.ws, s) THEN told
        ELSE Enter(told, s, out)

\* refresh_workspace().
RefreshWorkspace(acc, d, s) ==
    LET new == ExtWorkspace(d, s)
        out == OutputOf(d, s)
    IN  IF s \notin DOMAIN acc.ws
        THEN [acc EXCEPT !.ws = Inserted(@, s, new), !.output = Inserted(@, s, out),
                         !.bar = Enter(AddInstance(@, s, new), s, out), !.changed = TRUE]
        ELSE LET old  == acc.ws[s]
                 from == acc.output[s]
                 data == [new EXCEPT !.name = IF NameChecked(old, new) THEN @ ELSE old.name]
             IN  [acc EXCEPT !.ws[s] = data, !.output[s] = out,
                             !.bar = TellChange(@, s, old, from, data, out),
                             !.changed = @ \/ old # data \/ from # out]

\* refresh_workspace_group(): a new group is entered by the workspaces of its output.
\* The group of a workspace whose handle the bar has destroyed does not hold it.
RefreshGroup(acc, o) ==
    LET members == {s \in DOMAIN acc.bar.ws : acc.bar.ws[s] # <<>> /\ acc.output[s] = o}
        told(b) == IF actions = Nil THEN b ELSE [b EXCEPT !.groups = Inserted(@, o, members)]
    IN  IF o \in acc.groups THEN acc
        ELSE [acc EXCEPT !.groups = @ \cup {o}, !.bar = told(@), !.changed = TRUE]

\* What a bar shows from a done event on.
Done(b) == [b EXCEPT !.shown = [ws |-> b.ws, groups |-> b.groups]]

\* Bound: what a client does with its handles counts as a change.
Spend == changes > 0 /\ changes' = changes - 1

NoBar == [ws |-> <<>>, groups |-> <<>>, shown |-> [ws |-> <<>>, groups |-> <<>>]]

\* bind(): the workspaces and groups as last sent.
BindBar ==
    /\ actions = Nil
    /\ actions' = <<>>
    /\ bar' = Done([ws |-> [s \in DOMAIN ext.ws |-> <<ext.ws[s]>>],
                    groups |-> [o \in ext.groups |-> {s \in DOMAIN ext.ws : ext.output[s] = o}],
                    shown |-> Nil])
    /\ UNCHANGED <<deskVars, ext, toplevels, panel, managed, panicked>>

\* Stop.
StopBar ==
    /\ actions # Nil
    /\ actions' = Nil
    /\ bar' = NoBar
    /\ Spend /\ UNCHANGED <<desk, gone, dirty, ext, toplevels, panel, managed, panicked>>

\* The bar destroys a workspace handle; it is in no group any more.
DestroyHandle ==
    /\ \E s \in DOMAIN bar.ws :
         /\ bar.ws[s] # <<>>
         /\ bar' = [bar EXCEPT !.ws[s] = <<>>, !.shown.ws[s] = <<>>,
                               !.groups = [o \in DOMAIN @ |-> @[o] \ {s}],
                               !.shown.groups = [o \in DOMAIN @ |-> @[o] \ {s}]]
    /\ Spend /\ UNCHANGED <<desk, gone, dirty, ext, actions, toplevels, panel, managed, panicked>>

\* The requests of a workspace handle wait for the commit.
RequestAction ==
    /\ actions # Nil /\ Len(actions) < MaxActions
    /\ \E s \in DOMAIN bar.ws :
         /\ bar.ws[s] # <<>>
         /\ \/ actions' = Append(actions, [do |-> "activate", ws |-> s, output |-> Nil])
            \/ \E o \in DOMAIN bar.groups :
                   actions' = Append(actions, [do |-> "assign", ws |-> s, output |-> o])
    /\ UNCHANGED <<deskVars, ext, bar, toplevels, panel, managed, panicked>>

\* activate_workspace(): the workspace is looked up by its id again.
ActivateWorkspace(d, s) ==
    IF s \notin Workspaces(d) \/ OutputOf(d, s) = Nil THEN d
    ELSE [d EXCEPT !.main = OutputOf(d, s), !.active[OutputOf(d, s)] = WsIdx(d, s)]

\* assign_workspace(), and Layout::move_workspace_to_output_by_id(): the focused
\* workspace takes the focus along.  Not before the last one of a workspace after the
\* active one of the target.
AssignWorkspace(d, s, o) ==
    IF s \notin Workspaces(d) \/ OutputOf(d, s) \in {Nil, o} THEN d
    ELSE LET from  == OutputOf(d, s)
             i     == WsIdx(d, s)
             to    == d.mons[o]
             act   == d.active[o]
             at    == IF act + 1 = Len(to) + 1 THEN act ELSE act + 1
             takes == IsFocused(d, s)
             mons  == [d.mons EXCEPT ![from] = RemoveAt(@, i), ![o] = InsertAt(@, at, s)]
             moved == [d.active EXCEPT
                         ![from] = IF i <= @ /\ @ > 1 THEN @ - 1 ELSE @,
                         ![o] = IF takes THEN at ELSE IF at <= @ THEN @ + 1 ELSE @]
         IN  [d EXCEPT !.mons = mons, !.active = moved, !.main = IF takes THEN o ELSE @]

\* An assignment holds its output weakly; that still exists while its global does, and
\* the layout is asked for a monitor it does not have.
Panics(d, a) ==
    /\ a.do = "assign" /\ a.output \in gone
    /\ a.ws \in Workspaces(d) /\ Connected(d) # {}

Perform(d, a) ==
    IF a.do = "activate" THEN ActivateWorkspace(d, a.ws)
    ELSE IF a.output \notin Connected(d) THEN d ELSE AssignWorkspace(d, a.ws, a.output)

\* The desktop after each of the actions of one kind.
Performed(kind, d) ==
    LET after[i \in 0 .. Len(actions)] ==
            IF i = 0 THEN d
            ELSE IF actions[i].do = kind THEN Perform(after[i - 1], actions[i]) ELSE after[i - 1]
    IN  after

\* Commit: Action::order(), first assign everything, then activate.  Bound: no monitor
\* is left without workspaces on the way (see no_workspace).
Commit ==
    /\ actions \notin {Nil, <<>>}
    /\ changes > 0
    /\ actions' = <<>>
    /\ IF \E i \in DOMAIN actions : Panics(desk, actions[i])
       THEN CommitGone /\ panicked' = TRUE /\ UNCHANGED deskVars
       ELSE LET assigned == Performed("assign", desk)
            IN  /\ \A i \in DOMAIN assigned : \A o \in Connected(assigned[i]) :
                       assigned[i].mons[o] # <<>>
                /\ desk' = Performed("activate", assigned[Len(actions)])[Len(actions)]
                /\ dirty' = TRUE
                /\ changes' = changes - 1
                /\ UNCHANGED <<gone, panicked>>
    /\ UNCHANGED <<ext, bar, toplevels, panel, managed>>

------------------------------------------------------------------------------
\* foreign-toplevel.

\* What is sent of a window; to_state_vec() calls the one with the keyboard focus
\* activated.
Toplevel(d, w) ==
    [info |-> d.win[w].info, shape |-> d.win[w].shape, activated |-> d.focus = w,
     output |-> WindowOutput(d, w)]

Activated(view) == {w \in DOMAIN view : view[w] # <<>> /\ view[w][1].activated}

\* refresh_toplevel(): a changed window is sent to those with a handle of it, a new one to
\* the managers that are bound.  The panel shows each at once.
RefreshToplevel(acc, d, w) ==
    LET view == IF w \in DOMAIN acc.data
                THEN IF Alive(acc.view, w) THEN [acc.view EXCEPT ![w] = <<Toplevel(d, w)>>] ELSE acc.view
                ELSE IF managed = "bound" THEN Inserted(acc.view, w, <<Toplevel(d, w)>>) ELSE acc.view
    IN  [data |-> Inserted(acc.data, w, Toplevel(d, w)), view |-> view,
         most |-> IF Cardinality(Activated(view)) > acc.most
                  THEN Cardinality(Activated(view)) ELSE acc.most]

\* "Save the focused window for last".
FocusedLast(d) ==
    SetToSeq(DOMAIN d.win \ {d.focus}) \o (IF d.focus = Nil THEN <<>> ELSE <<d.focus>>)

BindPanel ==
    /\ managed = "off"
    /\ managed' = "bound"
    /\ panel' = [view |-> [w \in DOMAIN toplevels |-> <<toplevels[w]>>], most |-> 0]
    /\ UNCHANGED <<deskVars, ext, bar, actions, toplevels, panicked>>

\* Stop: the handles there are stay alive.
StopPanel ==
    /\ managed = "bound"
    /\ managed' = "stopped"
    /\ Spend /\ UNCHANGED <<desk, gone, dirty, ext, bar, actions, toplevels, panel, panicked>>

DestroyToplevel ==
    /\ \E w \in DOMAIN panel.view :
           panel.view[w] # <<>> /\ panel' = [panel EXCEPT !.view[w] = <<>>]
    /\ Spend /\ UNCHANGED <<desk, gone, dirty, ext, bar, actions, toplevels, managed, panicked>>

\* The requests of a toplevel handle, for a window that is still there: activate.  (To
\* close it, and to change its size, are up to the window's client.)
ActivateToplevel ==
    /\ changes > 0
    /\ \E w \in DOMAIN panel.view \cap DOMAIN desk.win :
         /\ panel.view[w] # <<>>
         /\ Change(LET s == desk.win[w].ws
                       d == IF s = Nil THEN desk ELSE ActivateWorkspace(desk, s)
                   IN  [d EXCEPT !.focus = w, !.front = w])
    /\ UNCHANGED handleVars

------------------------------------------------------------------------------
\* The loops of the two refreshes, over a list of what there is.
RefreshOne(kind, acc, d, x) ==
    CASE kind = "workspace" -> RefreshWorkspace(acc, d, x)
      [] kind = "group" -> RefreshGroup(acc, x)
      [] kind = "toplevel" -> RefreshToplevel(acc, d, x)

RefreshAll(kind, acc, d, q) ==
    LET after[i \in 0 .. Len(q)] == IF i = 0 THEN acc ELSE RefreshOne(kind, after[i - 1], d, q[i])
    IN  after[Len(q)]

\* ext_workspace::refresh().
ExtRefreshed(d) ==
    LET start   == [ws |-> ext.ws, output |-> ext.output, groups |-> ext.groups,
                    bar |-> bar, changed |-> FALSE]
        removed == RemoveGroups(RemoveWorkspaces(start, d), d)
        updated == RefreshAll("workspace", removed, d, SetToSeq(Workspaces(d)))
    IN  RefreshAll("group", updated, d, SetToSeq(Connected(d)))

\* foreign_toplevel::refresh(): closed windows first.
ToplevelsRefreshed(d) ==
    LET closed == DOMAIN toplevels \ DOMAIN d.win
        start  == [data |-> Without(toplevels, closed), view |-> Without(panel.view, closed),
                   most |-> 0]
    IN  RefreshAll("toplevel", start, d, FocusedLast(d))

\* The part of State::refresh() that is about these protocols.
HandlesRefresh ==
    LET acc == ExtRefreshed(desk)
        top == ToplevelsRefreshed(desk)
    IN  /\ ext' = [ws |-> acc.ws, output |-> acc.output, groups |-> acc.groups]
        /\ bar' = IF acc.changed /\ actions # Nil THEN Done(acc.bar) ELSE acc.bar
        /\ toplevels' = top.data
        /\ panel' = [view |-> top.view, most |-> top.most]
        /\ UNCHANGED <<actions, managed, panicked>>

HandlesInit ==
    /\ ext = [ws |-> <<>>, output |-> <<>>, groups |-> {}]
    /\ bar = NoBar
    /\ actions = Nil
    /\ toplevels = <<>>
    /\ panel = [view |-> <<>>, most |-> 0]
    /\ managed = "off"
    /\ panicked = FALSE

HandlesStep ==
    \/ StopBar \/ DestroyHandle \/ RequestAction \/ Commit
    \/ StopPanel \/ DestroyToplevel

------------------------------------------------------------------------------
(***************************************************************************)
(* After a refresh a bar shows the workspaces there are, by their names    *)
(* and places, in the group of their output, and a panel the windows there *)
(* are: whatever changed together in the turn, and whenever they bound.    *)
(* (protocols/ext_workspace.rs:84, protocols/foreign_toplevel.rs:95)       *)
(***************************************************************************)
HandlesAreTrue ==
    ~dirty =>
        /\ actions # Nil =>
             /\ DOMAIN bar.shown.ws = Workspaces(desk)
             /\ \A s \in Workspaces(desk) : bar.shown.ws[s] \in {<<>>, <<ExtWorkspace(desk, s)>>}
             /\ bar.shown.groups =
                  [o \in Connected(desk) |->
                      {s \in Workspaces(desk) : OutputOf(desk, s) = o /\ bar.shown.ws[s] # <<>>}]
        /\ \A w \in DOMAIN panel.view :
             w \in DOMAIN desk.win /\ panel.view[w] \in {<<>>, <<Toplevel(desk, w)>>}
        /\ managed = "bound" => DOMAIN panel.view = DOMAIN desk.win

(***************************************************************************)
(* At no time does a panel have two windows activated, not even between    *)
(* two events of one refresh: clients "don't expect multiple windows to    *)
(* have it set at once".  (protocols/foreign_toplevel.rs:113, :688)        *)
(***************************************************************************)
OneActivated == panel.most <= 1 /\ Cardinality(Activated(panel.view)) <= 1

(***************************************************************************)
(* What bars and panels are shown is true after every turn and, as far as  *)
(* activation goes, at every event.  (protocols/foreign_toplevel.rs:95)    *)
(***************************************************************************)
ClientsSeeTruth == HandlesAreTrue /\ OneActivated

(***************************************************************************)
(* "Right after the output global is disabled, but before it is removed    *)
(* for good," an output can still be had "but since niri already forgot    *)
(* the output" nothing may use it: what a bar commits never makes the      *)
(* layout look for a monitor that has gone.  (niri.rs:2953,                *)
(* layout/mod.rs:3587)                                                     *)
(***************************************************************************)
OutputsLookedUp == ~panicked
=============================================================================
