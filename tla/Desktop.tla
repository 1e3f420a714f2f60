------------------------------ MODULE Desktop ------------------------------
(***************************************************************************)
(* What the layout and the keyboard focus hold of windows, workspaces and  *)
(* outputs, as far as clients are told about it: the three mirrors of      *)
(* Mirrors.tla are brought up to date from it at the end of each turn of   *)
(* the event loop.  How the layout gets from one arrangement to the next   *)
(* is the subject of Layout.tla; here its monitors change from any of      *)
(* Arrangements to any other.                                              *)
(***************************************************************************)
EXTENDS Integers, Sequences, FiniteSets, SequencesExt

CONSTANTS
    Window, Workspace, Output,
    WsName,         \* names of workspaces (model values)
    Nil,
    Arrangements,   \* [mons, stray]: the workspaces of each monitor, in order
    MaxChanges      \* bound: changes of the desktop in a behaviour

\* A monitor has workspaces (see no_workspace); none is on two monitors or twice on one.
WellArranged(mons) ==
    /\ DOMAIN mons \subseteq Output
    /\ \A o \in DOMAIN mons : mons[o] \in Seq(Workspace) \ {<<>>}
    /\ \A o, p \in DOMAIN mons : \A i \in DOMAIN mons[o], j \in DOMAIN mons[p] :
           mons[o][i] = mons[p][j] => o = p /\ i = j

ASSUME DesktopAssumption ==
    /\ IsFiniteSet(Window) /\ IsFiniteSet(Workspace)
    /\ Nil \notin Window \cup Output \cup {0, 1}
    /\ \A a \in Arrangements : WellArranged(a.mons) /\ a.stray \in Seq(Workspace)

VARIABLES
    desk,           \* the layout, the focus and the overview
    gone,           \* outputs unplugged whose globals still exist
    dirty,          \* the turn of the event loop has not been refreshed
    changes         \* changes left

deskVars == <<desk, gone, dirty, changes>>

------------------------------------------------------------------------------
\* Reading it.

Connected(d) == DOMAIN d.mons

\* The output whose monitor has the workspace.
OutputOf(d, s) ==
    IF \E o \in Connected(d) : s \in Range(d.mons[o])
    THEN CHOOSE o \in Connected(d) : s \in Range(d.mons[o]) ELSE Nil

\* Layout::workspaces(): those of the monitors, or those that wait for one.
Workspaces(d) == Range(d.stray) \cup UNION {Range(d.mons[o]) : o \in Connected(d)}

WsList(d, s) == IF OutputOf(d, s) = Nil THEN d.stray ELSE d.mons[OutputOf(d, s)]

WsIdx(d, s) == CHOOSE i \in DOMAIN WsList(d, s) : WsList(d, s)[i] = s

IsActive(d, s) == OutputOf(d, s) # Nil /\ d.active[OutputOf(d, s)] = WsIdx(d, s)

IsFocused(d, s) == d.main # Nil /\ OutputOf(d, s) = d.main /\ IsActive(d, s)

WindowsOn(d, s) == {w \in DOMAIN d.win : d.win[w].ws = s}

\* Workspace::is_urgent().
IsUrgent(d, s) == \E w \in WindowsOn(d, s) : d.win[w].urgent

\* Workspace::active_window(): a workspace with windows has one.
ActiveWindow(d, s) ==
    IF d.front \in WindowsOn(d, s) THEN d.front
    ELSE IF WindowsOn(d, s) = {} THEN Nil ELSE CHOOSE w \in WindowsOn(d, s) : TRUE

\* The output with_windows() gives for a window: that of a window being dragged is
\* the output it is dragged over.
WindowOutput(d, w) == IF d.win[w].ws = Nil THEN d.main ELSE OutputOf(d, d.win[w].ws)

------------------------------------------------------------------------------
\* Changing it.

\* A map with an entry inserted.
Inserted(f, k, v) == [x \in DOMAIN f \cup {k} |-> IF x = k THEN v ELSE f[x]]

Change(d) ==
    /\ changes > 0
    /\ d # desk
    /\ desk' = d
    /\ gone' = gone \cup (Connected(desk) \ Connected(d))
    /\ dirty' = TRUE
    /\ changes' = changes - 1

\* Outputs come and go, workspaces are added, removed, reordered and moved.  The
\* windows of a removed workspace have gone before it; a window is dragged over an
\* output, and dropped where that goes away.
Rearrange ==
    \E a \in Arrangements :
        LET kept == Range(a.stray) \cup UNION {Range(a.mons[o]) : o \in DOMAIN a.mons}
        IN  /\ DOMAIN a.mons \cap gone = {}
            /\ \A w \in DOMAIN desk.win : desk.win[w].ws \in kept
            /\ \E m \in (IF DOMAIN a.mons = {} THEN {Nil} ELSE DOMAIN a.mons) :
                 Change([desk EXCEPT !.mons = a.mons, !.stray = a.stray, !.main = m,
                                     !.active = [o \in DOMAIN a.mons |-> 1],
                                     !.name = [s \in Workspace |-> IF s \in kept THEN @[s] ELSE Nil]])

\* Another workspace of a monitor is switched to; another output gets the focus.
SwitchTo ==
    \/ \E o \in Connected(desk) : \E i \in DOMAIN desk.mons[o] :
           Change([desk EXCEPT !.active[o] = i])
    \/ \E o \in Connected(desk) : Change([desk EXCEPT !.main = o])

Rename ==
    \E s \in Workspaces(desk), n \in WsName \cup {Nil} :
        /\ n = Nil \/ \A t \in Workspaces(desk) : desk.name[t] # n
        /\ Change([desk EXCEPT !.name[s] = n])

NewWindow(s) == [ws |-> s, info |-> 0, shape |-> 0, urgent |-> FALSE, ts |-> 0]

\* A window is mapped, on a workspace, or unmapped; the focus does not outlive it.  (Ids
\* are never reused in the code; a mirror that copes with reuse copes without.)
OpenWindow ==
    \E w \in Window \ DOMAIN desk.win, s \in Workspaces(desk) :
        Change([desk EXCEPT !.win = Inserted(@, w, NewWindow(s))])

CloseWindow ==
    \E w \in DOMAIN desk.win :
        Change([desk EXCEPT !.win = [v \in DOMAIN @ \ {w} |-> @[v]],
                            !.focus = IF @ = w THEN Nil ELSE @,
                            !.front = IF @ = w THEN Nil ELSE @])

\* It is moved to a workspace, or picked up (Nil) where there are outputs.
MoveWindow ==
    \E w \in DOMAIN desk.win, s \in Workspaces(desk) \cup (IF desk.main = Nil THEN {} ELSE {Nil}) :
        /\ s = Nil => \A v \in DOMAIN desk.win : desk.win[v].ws # Nil
        /\ Change([desk EXCEPT !.win[w].ws = s])

\* Its title or whether it floats (info), its size and place and the xdg states it has
\* committed (shape), its urgency and the time it was last focused change.
AlterWindow ==
    \E w \in DOMAIN desk.win :
        \/ Change([desk EXCEPT !.win[w].info = 1 - @])
        \/ Change([desk EXCEPT !.win[w].shape = 1 - @])
        \/ Change([desk EXCEPT !.win[w].urgent = ~@])
        \/ Change([desk EXCEPT !.win[w].ts = 1 - @])

\* The keyboard focus goes to a window, or to something that is none.
FocusWindow ==
    \E w \in DOMAIN desk.win \cup {Nil} :
        Change([desk EXCEPT !.focus = w, !.front = IF w = Nil THEN @ ELSE w])

\* The overview opens or closes; the keyboard layout is switched; a screencast starts
\* (pending until it has a target), is paused, or ends for good.
Toggle ==
    \/ Change([desk EXCEPT !.overview = ~@])
    \/ Change([desk EXCEPT !.kb = 1 - @])
    \/ \E c \in {"pending", "casting", "paused", "ended"} :
           /\ desk.cast # "ended"
           /\ c = "pending" => desk.cast = "none"
           /\ Change([desk EXCEPT !.cast = c])

\* The timer of remove_output() removes the global of an output for good.
ForgetGlobal(o) ==
    /\ o \in gone
    /\ gone' = gone \ {o}
    /\ dirty' = TRUE
    /\ UNCHANGED <<desk, changes>>

\* Some moment with nothing, or with every window, open.
DeskInit ==
    /\ \E a \in Arrangements, wins \in {{}, Window} : \E o \in DOMAIN a.mons :
         /\ DOMAIN a.mons = {o}
         /\ desk = [mons |-> a.mons, stray |-> a.stray,
                    active |-> [p \in DOMAIN a.mons |-> 1], main |-> o,
                    name |-> [s \in Workspace |-> Nil],
                    win |-> [w \in wins |-> NewWindow(a.mons[o][1])], front |-> Nil, focus |-> Nil,
                    overview |-> FALSE, kb |-> 0, cast |-> "none"]
    /\ gone = {}
    /\ dirty = TRUE
    /\ changes = MaxChanges

DeskStep ==
    \/ Rearrange \/ SwitchTo \/ Rename
    \/ OpenWindow \/ CloseWindow \/ MoveWindow \/ AlterWindow \/ FocusWindow
    \/ Toggle

=============================================================================
