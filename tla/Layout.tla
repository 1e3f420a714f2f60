------------------------------- MODULE Layout -------------------------------
(***************************************************************************)
(* The monitors and their workspaces: src/src/layout/mod.rs (Layout) and    *)
(* src/src/layout/monitor.rs (Monitor).                                     *)
(*                                                                         *)
(* A workspace is its name, the output it belongs to (original_output) and *)
(* the set of its windows; what happens inside a workspace is the subject  *)
(* of module Workspace.  Indices count from 1.                             *)
(* Where the code takes the active window or column of a workspace, the    *)
(* model takes any; the position of a gesture is any workspace of the      *)
(* monitor, and the overview is open or not whenever that is asked.  Of a   *)
(* monitor's workspace_switch the model keeps whether there is one, not    *)
(* whether it is an animation, a swipe or a drag-and-drop scroll.          *)
(* Workspace ids are left out: previous_workspace_id only picks one of the *)
(* workspaces to switch to, and last_active_workspace_id is kept the other *)
(* way round, as the set of outputs whose entry names the workspace.       *)
(***************************************************************************)
EXTENDS Integers, Sequences, FiniteSets, SequencesExt

CONSTANTS
    Output,          \* the outputs that may be connected
    Window,          \* the windows that may be open
    Name,            \* the workspace names
    OpenOnOutput,    \* open_on_output of the named workspaces of the config
    Nil,             \* no output, no name, no window or no workspace
    WorkspaceCount,  \* layout.workspace_count
    EmptyAbove,      \* layout.empty_workspace_above_first
    MaxWorkspaces,   \* bound: workspaces are added to an output up to this many
    MaxInUse         \* bound: open windows and workspace names, together

ASSUME LayoutAssumption ==
    /\ Nil \notin Output \cup Window \cup Name
    /\ OpenOnOutput \in [Name -> Output \cup {Nil}]
    /\ WorkspaceCount \in Nat \ {0}
    /\ MaxWorkspaces \in [Output -> Nat]
    /\ \A o \in Output : MaxWorkspaces[o] >= WorkspaceCount
    /\ EmptyAbove \in BOOLEAN
    /\ MaxInUse \in Nat

VARIABLES
    monitors,            \* MonitorSet::Normal: the monitors, the primary one first
    orphans,             \* MonitorSet::NoOutputs: the workspaces without a monitor
    active_monitor_idx,
    interactive_move,    \* what is dragged: [phase, window, output]
    open,                \* the windows the compositor has mapped
    panicked             \* an index was out of range or an assertion failed

layoutVars == <<monitors, orphans, active_monitor_idx, interactive_move, open, panicked>>

-----------------------------------------------------------------------------
(***************************************************************************)
(* Workspaces and where they are.                                          *)
(***************************************************************************)
HasWindowsOrName(ws) == ws.windows # {} \/ ws.name # Nil

Idle == [phase |-> "none", window |-> Nil, output |-> Nil]

MonitorIdx == DOMAIN monitors

Connected == {monitors[k].output : k \in MonitorIdx}

MonitorOf(o) == CHOOSE k \in MonitorIdx : monitors[k].output = o

\* The places of all workspaces: monitor and index, monitor 0 for the orphans.
Places ==
    UNION {{k} \X DOMAIN monitors[k].workspaces : k \in MonitorIdx}
        \cup ({0} \X DOMAIN orphans)

Indices == {p[2] : p \in Places}

At(p) == IF p[1] = 0 THEN orphans[p[2]] ELSE monitors[p[1]].workspaces[p[2]]

NamesInUse == {At(p).name : p \in Places} \ {Nil}

\* The bound on windows and names allows one more.
MayAdd == Cardinality(open) + Cardinality(NamesInUse) < MaxInUse

NewWorkspace(home) == [name |-> Nil, home |-> home, windows |-> {}, last_on |-> {}]

\* Mutant: a named workspace stays the other output's.
OwnedUnlessNamed(ws, o) == IF ws.name = Nil THEN [ws EXCEPT !.home = o] ELSE ws

\* An explicit move makes the workspace the output's own.
OwnedBy(ws, o) == [ws EXCEPT !.home = o]

\* Without outputs a workspace goes when it is out of use.
DropIfUnused(seq, i) == IF HasWindowsOrName(seq[i]) THEN seq ELSE RemoveAt(seq, i)

-----------------------------------------------------------------------------
(***************************************************************************)
(* Operations on one monitor.                                              *)
(***************************************************************************)
\* activate_workspace(): animates unless nothing changes.
Activate(mon, i) ==
    [mon EXCEPT !.active = i, !.switching = @ \/ mon.active # i]

\* add_workspace_top() does nothing, and its callers step over the workspace
\* that it would have added.
StepOverTop(i) == IF EmptyAbove /\ i = 1 THEN i + 1 ELSE i

\* The windows go to the workspace, which becomes this output's own.
PutWindows(mon, i, wins) ==
    [mon EXCEPT !.workspaces[i].windows = @ \cup wins,
                !.workspaces[i].home = IF mon.workspaces[i].name = Nil
                                       THEN mon.output ELSE @]

\* add_tile() and add_column().
AddTile(mon, i, wins, activate) ==
    LET put == PutWindows(mon, i, wins)
    IN  IF activate THEN Activate(put, StepOverTop(i)) ELSE put

\* add_tile_to_column().
AddTileToColumn(mon, i, wins, activate) ==
    LET put == PutWindows(mon, i, wins)
    IN  IF activate THEN Activate(put, i) ELSE put

TakeWindows(mon, wins) ==
    [mon EXCEPT !.workspaces = [i \in DOMAIN @ |-> [@[i] EXCEPT !.windows = @ \ wins]]]

\* add_workspace_at().
AddWorkspaceAt(mon, i) ==
    [mon EXCEPT !.workspaces = InsertAt(@, i, NewWorkspace(mon.output)),
                !.active = IF i <= @ THEN @ + 1 ELSE @]

\* remove_workspace_by_idx(): the workspace above takes over from the active one.
RemoveWorkspaceByIdx(mon, i) ==
    LET at == StepOverTop(i)
    IN  [mon EXCEPT !.workspaces = RemoveAt(@, at),
                    !.active = IF at <= @ /\ @ > 1 THEN @ - 1 ELSE @,
                    !.switching = FALSE]

\* insert_workspace().
InsertWorkspace(mon, ws, i, activate) ==
    LET at  == StepOverTop(IF i = Len(mon.workspaces) + 1 THEN i - 1 ELSE i)
        ins == [mon EXCEPT !.workspaces = InsertAt(@, at, ws),
                           !.active = IF at <= @ THEN @ + 1 ELSE @,
                           !.switching = FALSE]
    IN  IF activate THEN [Activate(ins, at) EXCEPT !.switching = FALSE] ELSE ins

\* append_workspaces(): before the last workspace, which stays the active one
\* if it was.
AppendWorkspaces(mon, seq) ==
    IF seq = <<>> THEN mon
    ELSE LET n == Len(mon.workspaces)
         IN  [mon EXCEPT
                 !.workspaces = SubSeq(@, 1, n - 1) \o seq \o <<@[n]>>,
                 !.active = IF @ = n THEN n + Len(seq) ELSE @,
                 !.switching = FALSE]

\* workspace_switch_gesture_end(): the gesture settles on workspace i.
SettleOn(mon, i) == [mon EXCEPT !.active = i, !.switching = TRUE]

\* The workspaces that the monitors with a switch in progress may settle on.
Settlements ==
    {where \in [MonitorIdx -> Indices] :
        \A k \in MonitorIdx : IF monitors[k].switching
                              THEN where[k] \in DOMAIN monitors[k].workspaces
                              ELSE where[k] = monitors[k].active}

\* dnd_scroll_gesture_end() on every monitor.
Settled(where) ==
    [k \in MonitorIdx |->
        IF monitors[k].switching THEN SettleOn(monitors[k], where[k]) ELSE monitors[k]]

-----------------------------------------------------------------------------
(***************************************************************************)
(* Outputs come and go.                                                    *)
(***************************************************************************)
\* last_active_workspace_id.remove(): the entry of output o goes.
Forget(o, seq) == [i \in DOMAIN seq |-> [seq[i] EXCEPT !.last_on = @ \ {o}]]

\* The workspace that was active when the output was last there, or the first.
StartOn(o, seq) ==
    LET own == {i \in DOMAIN seq : o \in seq[i].last_on}
    IN  IF own = {} THEN 1 ELSE CHOOSE i \in own : TRUE

\* Monitor::new(): the workspaces are padded to workspace_count.
NewMonitor(o, seq) ==
    LET pad == IF Len(seq) < WorkspaceCount THEN WorkspaceCount - Len(seq) ELSE 0
    IN  [output     |-> o,
         workspaces |-> Forget(o, seq) \o [i \in 1..pad |-> NewWorkspace(o)],
         active     |-> StartOn(o, seq),
         switching  |-> FALSE]

\* What add_output() leaves of the primary monitor when output o takes its
\* own workspaces back, from the last to the first.
GiveBack(mon, o) ==
    LET n     == Len(mon.workspaces)
        goes  == {i \in 1..n : mon.workspaces[i].home = o}
        after[i \in 1..n + 1] ==   \* active_workspace_idx once i..n are done
            IF i = n + 1 THEN mon.active
            ELSE LET a == after[i + 1]
                 IN  IF i \in goes /\ i <= a /\ a > 1 /\ ~(EmptyAbove /\ a = 2)
                     THEN a - 1 ELSE a
    IN  [mon EXCEPT !.workspaces = Forget(o, SelectSeq(@, LAMBDA ws : ws.home # o)),
                    !.active = after[1],
                    !.switching = @ /\ goes = {}]

AddOutput(o) ==
    /\ o \notin Connected
    /\ IF monitors = <<>>
       THEN /\ monitors' = <<NewMonitor(o, orphans)>>
            /\ panicked' = \E i \in DOMAIN orphans : ~HasWindowsOrName(orphans[i])
       ELSE /\ monitors' =
                   Append([k \in MonitorIdx |->
                              IF k = 1 THEN GiveBack(monitors[1], o)
                              ELSE [monitors[k] EXCEPT !.workspaces = Forget(o, @)]],
                          NewMonitor(o, SelectSeq(monitors[1].workspaces,
                                            LAMBDA ws : ws.home = o /\ HasWindowsOrName(ws))))
            /\ UNCHANGED panicked
    /\ orphans' = <<>>
    /\ active_monitor_idx' = IF monitors = <<>> THEN 1 ELSE active_monitor_idx
    /\ UNCHANGED <<interactive_move, open>>

\* The active monitor once monitor k is removed.
ActiveMonitorWithout(k) ==
    IF active_monitor_idx >= k /\ active_monitor_idx > 1
    THEN active_monitor_idx - 1 ELSE active_monitor_idx

\* remove_output(): the workspaces in use go to the primary monitor.
RemoveOutput(o) ==
    /\ o \in Connected
    /\ LET k    == MonitorOf(o)
           last == [monitors[k].workspaces EXCEPT ![monitors[k].active].last_on = @ \cup {o}]
           kept == SelectSeq(last, HasWindowsOrName)
           rest == RemoveAt(monitors, k)
       IN  IF rest = <<>>
           THEN monitors' = <<>> /\ orphans' = kept /\ active_monitor_idx' = 1
           ELSE /\ Len(rest[1].workspaces) + Len(kept) <= MaxWorkspaces[rest[1].output]
                /\ monitors' = [rest EXCEPT ![1] = AppendWorkspaces(@, kept)]
                /\ active_monitor_idx' = ActiveMonitorWithout(k)
                /\ UNCHANGED orphans
    /\ UNCHANGED <<interactive_move, open, panicked>>

FocusOutput(o) ==
    /\ o \in Connected
    /\ active_monitor_idx' = MonitorOf(o)
    /\ UNCHANGED <<monitors, orphans, interactive_move, open, panicked>>

-----------------------------------------------------------------------------
(***************************************************************************)
(* Windows.                                                                *)
(***************************************************************************)
\* add_window(): on the active workspace, an output's active workspace, a
\* given workspace or beside another window.  Without outputs, a workspace is
\* made if there is none.
AddWindow(w, p, activate) ==
    /\ w \notin open /\ MayAdd
    /\ open' = open \cup {w}
    /\ IF monitors = <<>>
       THEN /\ LET seq == IF orphans = <<>> THEN <<NewWorkspace(Nil)>> ELSE orphans
               IN  /\ p \in {0} \X DOMAIN seq
                   /\ orphans' = [seq EXCEPT ![p[2]].windows = @ \cup {w}]
            /\ UNCHANGED <<monitors, active_monitor_idx>>
       ELSE /\ p \in Places
            /\ monitors' = [monitors EXCEPT ![p[1]] = AddTile(@, p[2], {w}, activate)]
            /\ active_monitor_idx' = IF activate THEN p[1] ELSE active_monitor_idx
            /\ UNCHANGED orphans
    /\ UNCHANGED <<interactive_move, panicked>>

\* The clean-up of remove_window() on the monitor whose workspace i lost a
\* window: that workspace goes if it is neither active nor last.
CleanUpAfterRemoval(mon, i) ==
    IF /\ ~HasWindowsOrName(mon.workspaces[i])
       /\ i # mon.active
       /\ i # Len(mon.workspaces)
       /\ ~mon.switching
    THEN [mon EXCEPT !.workspaces = RemoveAt(@, i),
                     !.active = IF i < @ THEN @ - 1 ELSE @]
    ELSE mon

\* With an empty workspace above the first, two workspaces are taken to be empty.
TwoLeft(mon) == EmptyAbove /\ Len(mon.workspaces) = 2 /\ ~mon.switching

\* remove_window() of a window that is in a workspace; mons are the monitors.
TakeOut(w, mons) ==
    IF mons = <<>>
    THEN \E i \in DOMAIN orphans :
            /\ w \in orphans[i].windows
            /\ orphans' = DropIfUnused([orphans EXCEPT ![i].windows = @ \ {w}], i)
            /\ UNCHANGED <<monitors, panicked>>
    ELSE \E k \in DOMAIN mons : \E i \in DOMAIN mons[k].workspaces :
            /\ w \in mons[k].workspaces[i].windows
            /\ LET mon == CleanUpAfterRemoval(TakeWindows(mons[k], {w}), i)
               IN  /\ monitors' =
                          [mons EXCEPT ![k] =
                              IF TwoLeft(mon)
                              THEN [mon EXCEPT !.workspaces = SubSeq(@, 1, 1), !.active = 1]
                              ELSE mon]
                   /\ panicked' = (/\ TwoLeft(mon)
                                   /\ \E j \in 1..2 : HasWindowsOrName(mon.workspaces[j]))
            /\ UNCHANGED orphans

\* A drag of the removed window ends.
DragWithout(w) == IF interactive_move.window = w THEN Idle ELSE interactive_move

\* remove_window(): a drag of the window ends with it.
RemoveWindow(w) ==
    /\ w \in open
    /\ open' = open \ {w}
    /\ \E mons \in IF interactive_move.window = w THEN {Settled(where) : where \in Settlements}
                                                 ELSE {monitors} :
          IF interactive_move.window = w /\ interactive_move.phase = "moving"
          THEN monitors' = mons /\ UNCHANGED <<orphans, panicked>>
          ELSE TakeOut(w, mons)
    /\ interactive_move' = DragWithout(w)
    /\ UNCHANGED active_monitor_idx

\* activate_window(): in the middle of a swipe past its workspace, the
\* monitor does not switch.
ActivateWindow(w) ==
    /\ \E k \in MonitorIdx : \E i \in DOMAIN monitors[k].workspaces :
          /\ w \in monitors[k].workspaces[i].windows
          /\ active_monitor_idx' = k
          /\ \/ monitors' = [monitors EXCEPT ![k] = Activate(@, i)]
             \/ monitors[k].switching /\ UNCHANGED monitors
    /\ UNCHANGED <<orphans, interactive_move, open, panicked>>

\* move_to_workspace() and its variants: a window goes to another workspace
\* of its monitor.
MoveToWorkspace(w, i, activate) ==
    /\ \E k \in MonitorIdx : \E j \in DOMAIN monitors[k].workspaces :
          /\ w \in monitors[k].workspaces[j].windows
          /\ i \in DOMAIN monitors[k].workspaces \ {j}
          /\ monitors' = [monitors EXCEPT ![k] =
                              AddTile(TakeWindows(@, {w}), i, {w}, activate)]
    /\ UNCHANGED <<orphans, active_monitor_idx, interactive_move, open, panicked>>

\* move_to_output(): to workspace i of output o.
MoveToOutput(w, o, i, activate) ==
    /\ o \in Connected
    /\ LET n == MonitorOf(o)
       IN  \E k \in MonitorIdx : \E j \in DOMAIN monitors[k].workspaces :
              /\ w \in monitors[k].workspaces[j].windows
              /\ i \in DOMAIN monitors[n].workspaces
              /\ <<k, j>> # <<n, i>>
              /\ monitors' = [[monitors EXCEPT ![k] = TakeWindows(@, {w})]
                                 EXCEPT ![n] = AddTile(@, i, {w}, activate)]
              /\ active_monitor_idx' = IF activate THEN n ELSE active_monitor_idx
    /\ UNCHANGED <<orphans, interactive_move, open, panicked>>

\* move_column_to_workspace() and move_column_to_output(): a column of the
\* active workspace goes to workspace i of monitor n.
MoveColumn(wins, n, i, activate) ==
    /\ monitors # <<>>
    /\ LET mon == monitors[active_monitor_idx]
       IN  /\ wins # {} /\ wins \subseteq mon.workspaces[mon.active].windows
           /\ i \in DOMAIN monitors[n].workspaces
    /\ monitors' = [[monitors EXCEPT ![active_monitor_idx] = TakeWindows(@, wins)]
                       EXCEPT ![n] = AddTile(@, i, wins, activate)]
    /\ active_monitor_idx' = IF activate THEN n ELSE active_monitor_idx
    /\ UNCHANGED <<orphans, interactive_move, open, panicked>>

-----------------------------------------------------------------------------
(***************************************************************************)
(* Workspaces: switching, moving and naming them.                          *)
(***************************************************************************)
\* switch_workspace() and its variants, the previous workspace included: to
\* workspace i of the active monitor.
SwitchWorkspace(i) ==
    /\ monitors # <<>>
    /\ i \in DOMAIN monitors[active_monitor_idx].workspaces
    /\ monitors' = [monitors EXCEPT ![active_monitor_idx] = Activate(@, i)]
    /\ UNCHANGED <<orphans, active_monitor_idx, interactive_move, open, panicked>>

\* workspace_switch_gesture_begin(): gestures on the other outputs end.
SwitchGestureBegin(o) ==
    /\ o \in Connected
    /\ \E where \in Settlements :
          LET k == MonitorOf(o)
          IN  monitors' = [Settled(where) EXCEPT ![k] = [monitors[k] EXCEPT !.switching = TRUE]]
    /\ UNCHANGED <<orphans, active_monitor_idx, interactive_move, open, panicked>>

SwitchGestureEnd(k, i) ==
    /\ monitors[k].switching
    /\ monitors' = [monitors EXCEPT ![k] = SettleOn(@, i)]
    /\ UNCHANGED <<orphans, active_monitor_idx, interactive_move, open, panicked>>

\* advance_animations(): the animation of the switch is done.
SwitchDone(k) ==
    /\ monitors[k].switching
    /\ monitors' = [monitors EXCEPT ![k].switching = FALSE]
    /\ UNCHANGED <<orphans, active_monitor_idx, interactive_move, open, panicked>>

\* Where a workspace is taken to be that moved from old to new: a move of or
\* to the first steps over the workspace that add_workspace_top() would add.
PastTop(old, new) == IF EmptyAbove /\ 1 \in {old, new} THEN new + 1 ELSE new

\* move_workspace_up() and move_workspace_down(), by d.
MoveWorkspace(d) ==
    /\ monitors # <<>>
    /\ LET mon == monitors[active_monitor_idx]
           to  == mon.active + d
       IN  /\ to \in DOMAIN mon.workspaces
           /\ monitors' = [monitors EXCEPT ![active_monitor_idx] =
                  [@ EXCEPT !.workspaces[mon.active] = mon.workspaces[to],
                            !.workspaces[to] = mon.workspaces[mon.active],
                            !.active = PastTop(mon.active, to),
                            !.switching = FALSE]]
    /\ UNCHANGED <<orphans, active_monitor_idx, interactive_move, open, panicked>>

\* Mutant: a workspace that moves up onto the active one does not push it down.
ActiveAfterMoveOffByOne(active, old, new) ==
    CASE active = old                  -> new
      [] new < active /\ old > active  -> active + 1
      [] new >= active /\ old < active -> active - 1
      [] OTHER                         -> active

\* The active workspace of a monitor on which workspace old moved to new.
ActiveAfterMove(active, old, new) ==
    CASE active = old                  -> new
      [] new <= active /\ old > active -> active + 1
      [] new >= active /\ old < active -> active - 1
      [] OTHER                         -> active

\* move_workspace_to_idx().
MoveWorkspaceToIdx(k, old, new) ==
    /\ {old, new} \subseteq DOMAIN monitors[k].workspaces
    /\ old # new
    /\ monitors' = [monitors EXCEPT ![k] =
           [@ EXCEPT !.workspaces = InsertAt(RemoveAt(@, old), new, @[old]),
                     !.active = ActiveAfterMove(@, old, PastTop(old, new)),
                     !.switching = FALSE]]
    /\ UNCHANGED <<orphans, active_monitor_idx, interactive_move, open, panicked>>

\* move_workspace_to_output_by_id() to the output it is on.
AdoptWorkspace(k, i) ==
    /\ monitors' = [monitors EXCEPT ![k].workspaces[i] = OwnedBy(@, monitors[k].output)]
    /\ UNCHANGED <<orphans, active_monitor_idx, interactive_move, open, panicked>>

\* move_workspace_to_output_by_id(): workspace i of monitor k goes to monitor n.
MoveWorkspaceToOutput(k, i, n) ==
    /\ n # k
    /\ Len(monitors[n].workspaces) < MaxWorkspaces[monitors[n].output]
    /\ LET activate == k = active_monitor_idx /\ i = monitors[k].active
           moved    == StepOverTop(i)
       IN  IF moved \notin DOMAIN monitors[k].workspaces
           THEN panicked' = TRUE /\ UNCHANGED <<monitors, active_monitor_idx>>
           ELSE /\ monitors' =
                       [[monitors EXCEPT ![k] = RemoveWorkspaceByIdx(@, i)]
                           EXCEPT ![n] = InsertWorkspace(@,
                               OwnedBy(monitors[k].workspaces[moved], monitors[n].output),
                               @.active + 1, activate)]
                /\ active_monitor_idx' = IF activate THEN n ELSE active_monitor_idx
                /\ UNCHANGED panicked
    /\ UNCHANGED <<orphans, interactive_move, open>>

\* ensure_named_workspace(), for a workspace of the configuration.
EnsureNamedWorkspace(name) ==
    /\ name \notin NamesInUse /\ MayAdd
    /\ LET on == OpenOnOutput[name]
           k  == IF on = Nil THEN active_monitor_idx
                 ELSE IF on \in Connected THEN MonitorOf(on) ELSE 1
           ws == [NewWorkspace(IF on = Nil /\ monitors # <<>> THEN monitors[k].output ELSE on)
                  EXCEPT !.name = name]
       IN  IF monitors = <<>>
           THEN orphans' = <<ws>> \o orphans /\ UNCHANGED monitors
           ELSE /\ Len(monitors[k].workspaces) < MaxWorkspaces[monitors[k].output]
                /\ monitors' = [monitors EXCEPT ![k] = InsertWorkspace(@, ws, 1, FALSE)]
                /\ UNCHANGED orphans
    /\ UNCHANGED <<active_monitor_idx, interactive_move, open, panicked>>

\* set_workspace_name().
SetWorkspaceName(p, name) ==
    /\ name \notin NamesInUse /\ MayAdd
    /\ p \in Places
    /\ IF p[1] = 0
       THEN orphans' = [orphans EXCEPT ![p[2]].name = name] /\ UNCHANGED monitors
       ELSE monitors' = [monitors EXCEPT ![p[1]].workspaces[p[2]].name = name]
            /\ UNCHANGED orphans
    /\ UNCHANGED <<active_monitor_idx, interactive_move, open, panicked>>

\* unname_workspace_by_id(): without outputs, an empty workspace goes with its name.
UnnameWorkspace(p) ==
    /\ p \in Places
    /\ At(p).name # Nil
    /\ IF p[1] = 0
       THEN /\ orphans' = DropIfUnused([orphans EXCEPT ![p[2]].name = Nil], p[2])
            /\ UNCHANGED monitors
       ELSE monitors' = [monitors EXCEPT ![p[1]].workspaces[p[2]].name = Nil]
            /\ UNCHANGED orphans
    /\ UNCHANGED <<active_monitor_idx, interactive_move, open, panicked>>

-----------------------------------------------------------------------------
(***************************************************************************)
(* Dragging a window.                                                      *)
(***************************************************************************)
\* interactive_move_begin(): the window stays where it is; in the overview
\* every monitor begins a drag-and-drop scroll.
InteractiveMoveBegin(w, overview_open) ==
    /\ interactive_move.phase = "none"
    /\ \E p \in Places : p[1] # 0 /\ w \in At(p).windows
    /\ interactive_move' = [phase |-> "starting", window |-> w, output |-> Nil]
    /\ monitors' = IF overview_open THEN [k \in MonitorIdx |-> [monitors[k] EXCEPT !.switching = TRUE]]
                   ELSE monitors
    /\ UNCHANGED <<orphans, active_monitor_idx, open, panicked>>

\* interactive_move_update() past the threshold: the window leaves its
\* workspace, which remove_window() then cleans up.
InteractiveMoveStart(o) ==
    /\ interactive_move.phase = "starting"
    /\ o \in Connected
    /\ TakeOut(interactive_move.window, monitors)
    /\ interactive_move' = [interactive_move EXCEPT !.phase = "moving", !.output = o]
    /\ UNCHANGED <<active_monitor_idx, open>>

\* interactive_move_update() onto another output.
InteractiveMoveTo(o) ==
    /\ interactive_move.phase = "moving"
    /\ o \in Connected \ {interactive_move.output}
    /\ interactive_move' = [interactive_move EXCEPT !.output = o]
    /\ active_monitor_idx' = MonitorOf(o)
    /\ UNCHANGED <<monitors, orphans, open, panicked>>

\* interactive_move_end() before the threshold.
InteractiveMoveCancel ==
    /\ interactive_move.phase = "starting"
    /\ \E where \in Settlements : monitors' = Settled(where)
    /\ interactive_move' = Idle
    /\ UNCHANGED <<orphans, active_monitor_idx, open, panicked>>

\* Where interactive_move_end() drops window w on a monitor: in workspace i, a
\* column of it, or a new workspace between i - 1 and i; the first and the last
\* workspace are used again instead of a new one beyond them.
Dropped(mon, w, i, at, activate) ==
    CASE at = "column" -> AddTileToColumn(mon, i, {w}, activate)
      [] at = "new" /\ ~(EmptyAbove /\ i = 1) /\ i < Len(mon.workspaces) ->
             AddTile(AddWorkspaceAt(mon, i), i, {w}, activate)
      [] OTHER -> AddTile(mon, i, {w}, activate)

\* interactive_move_end(): on the output the window is over, or on the first
\* workspace of the active monitor if that output is gone.  In the overview it
\* does not switch to that workspace.
InteractiveMoveEnd(i, at, overview_open) ==
    /\ interactive_move.phase = "moving"
    /\ interactive_move' = Idle
    /\ LET w == interactive_move.window
       IN  IF monitors = <<>>
           THEN /\ i = 1 /\ at = "workspace"
                /\ LET seq == IF orphans = <<>> THEN <<NewWorkspace(Nil)>>
                              ELSE orphans
                   IN  orphans' = [seq EXCEPT ![1].windows = @ \cup {w}]
                /\ UNCHANGED monitors
           ELSE LET over == interactive_move.output \in Connected
                    k    == IF over THEN MonitorOf(interactive_move.output) ELSE active_monitor_idx
                IN  /\ i \in DOMAIN monitors[k].workspaces
                    /\ ~over => i = 1 /\ at # "new"
                    /\ at = "column" => monitors[k].workspaces[i].windows # {}
                    /\ at = "new" => Len(monitors[k].workspaces) < MaxWorkspaces[monitors[k].output]
                    /\ \E where \in Settlements :
                          monitors' = [Settled(where) EXCEPT ![k] = Dropped(@, w, i, at, ~overview_open)]
                    /\ UNCHANGED orphans
    /\ UNCHANGED <<active_monitor_idx, open, panicked>>

-----------------------------------------------------------------------------
\* A frame renders the active workspace of every monitor.
RenderPanics ==
    /\ \E k \in MonitorIdx : monitors[k].active \notin DOMAIN monitors[k].workspaces
    /\ panicked' = TRUE
    /\ UNCHANGED <<monitors, orphans, active_monitor_idx, interactive_move, open>>

CanGoOn ==
    /\ ~panicked
    /\ \A k \in MonitorIdx : monitors[k].active \in DOMAIN monitors[k].workspaces

LayoutInit ==
    /\ monitors = <<>>
    /\ \E named \in UNION {SetToSeqs(S) : S \in SUBSET Name} :
          orphans = [i \in DOMAIN named |->
                        [NewWorkspace(OpenOnOutput[named[i]]) EXCEPT !.name = named[i]]]
    /\ active_monitor_idx = 1
    /\ interactive_move = Idle
    /\ open = {}
    /\ panicked = FALSE

OutputStep == \E o \in Output : AddOutput(o) \/ RemoveOutput(o) \/ FocusOutput(o)

WindowStep ==
    \/ \E w \in Window \ open, p \in Places \cup {<<0, 1>>}, activate \in BOOLEAN :
          AddWindow(w, p, activate)
    \/ \E w \in open :
          \/ RemoveWindow(w)
          \/ ActivateWindow(w)
          \/ \E overview_open \in BOOLEAN : InteractiveMoveBegin(w, overview_open)
          \/ \E i \in Indices, activate \in BOOLEAN :
                \/ MoveToWorkspace(w, i, activate)
                \/ \E o \in Connected : MoveToOutput(w, o, i, activate)

ColumnStep ==
    \E wins \in (SUBSET open) \ {{}}, n \in MonitorIdx, activate \in BOOLEAN :
        \E i \in DOMAIN monitors[n].workspaces : MoveColumn(wins, n, i, activate)

WorkspaceStep ==
    \/ \E i \in Indices : SwitchWorkspace(i)
    \/ \E d \in {-1, 1} : MoveWorkspace(d)
    \/ \E k \in MonitorIdx : \E i \in DOMAIN monitors[k].workspaces :
          \/ AdoptWorkspace(k, i)
          \/ \E j \in DOMAIN monitors[k].workspaces : MoveWorkspaceToIdx(k, i, j)
          \/ \E n \in MonitorIdx : MoveWorkspaceToOutput(k, i, n)
    \/ \E n \in Name : EnsureNamedWorkspace(n)
    \/ \E p \in Places, n \in Name : SetWorkspaceName(p, n)
    \/ \E p \in Places : UnnameWorkspace(p)

GestureStep ==
    \/ \E o \in Output : SwitchGestureBegin(o)
    \/ \E k \in MonitorIdx : \E i \in DOMAIN monitors[k].workspaces : SwitchGestureEnd(k, i)
    \/ \E k \in MonitorIdx : SwitchDone(k)

DragStep ==
    \/ \E o \in Output : InteractiveMoveStart(o) \/ InteractiveMoveTo(o)
    \/ InteractiveMoveCancel
    \/ \E i \in Indices \cup {1}, at \in {"workspace", "column", "new"},
         overview_open \in BOOLEAN : InteractiveMoveEnd(i, at, overview_open)

LayoutNext ==
    \/ /\ CanGoOn
       /\ \/ OutputStep \/ WindowStep \/ ColumnStep \/ WorkspaceStep \/ GestureStep \/ DragStep
    \/ ~panicked /\ RenderPanics

LayoutSpec == LayoutInit /\ [][LayoutNext]_layoutVars

-----------------------------------------------------------------------------
(***************************************************************************)
(* Properties.                                                             *)
(***************************************************************************)
\* Every open window is in exactly one workspace, or is the one being dragged:
\* no hot-plug, move or drag loses a window or leaves it in two places.  A drag
\* is of an open window ("interactive move must be on an existing window" in
\* verify_invariants): remove_window() ends the drag of its window.
WindowsPlacedOnce ==
    /\ \A w \in Window :
          LET held == interactive_move.phase = "moving" /\ interactive_move.window = w
              in   == {p \in Places : w \in At(p).windows}
          IN  Cardinality(in) + (IF held THEN 1 ELSE 0) = (IF w \in open THEN 1 ELSE 0)
    /\ interactive_move.phase # "none" => interactive_move.window \in open

\* Every workspace can be found again: by its name, which no other one has
\* ("workspace name must be unique" in verify_invariants); by the output that
\* last showed it, which remembers one workspace at most; and by its own output,
\* because it is away from that only while it is disconnected, and then waits on
\* the primary monitor, where add_output() looks for it.
WorkspacesFindable ==
    /\ \A p, q \in Places : p # q =>
          /\ At(p).name = Nil \/ At(p).name # At(q).name
          /\ At(p).last_on \cap At(q).last_on = {}
    /\ \A p \in Places : p[1] > 0 /\ At(p).home # monitors[p[1]].output =>
          p[1] = 1 /\ At(p).home \notin Connected

\* No hot-plug, move, drag or renaming loses a window or a workspace, or leaves one
\* in two places.
NothingIsLost == WindowsPlacedOnce /\ WorkspacesFindable

\* The windows that a monitor shows, and those in some workspace.
Shown(mon) == mon.workspaces[mon.active].windows

Placed == UNION {At(p).windows : p \in Places}

\* Taking a window out of its workspace, because it closes or is dragged away,
\* does not make a monitor show another workspace, even when remove_window()
\* drops the emptied one.
RemovalKeepsView ==
    <<open, interactive_move>>' # <<open, interactive_move>> =>
        \A w \in Placed \ Placed' :
           interactive_move.window # w \/ w \in open'   \* else its drag ends as well
           => \A k \in MonitorIdx : Shown(monitors'[k]) = Shown(monitors[k]) \ {w}

\* A monitor that stays goes on showing the same windows when another output
\* comes or goes, unless the workspace it shows goes back to that output.
HotplugKeepsView ==
    Len(monitors') # Len(monitors) =>
        \A k \in MonitorIdx, n \in MonitorIdx' :
            LET mon == monitors[k]
            IN  /\ mon.output = monitors'[n].output
                /\ mon.workspaces[mon.active].home \notin Connected' \ Connected
                => Shown(monitors'[n]) = Shown(mon)

\* An output that comes back shows the windows of the workspace that was active
\* when it left, if that workspace is still in use and comes back with it.
ReconnectRestoresView ==
    Len(monitors') > Len(monitors) =>
       \A o \in Connected' \ Connected : \A p \in Places :
          /\ o \in At(p).last_on
          /\ HasWindowsOrName(At(p))
          /\ p[1] = 0 \/ At(p).home = o
          => Shown(monitors'[Len(monitors')]) = At(p).windows

WindowSets(mon) == {mon.workspaces[i].windows : i \in DOMAIN mon.workspaces}

\* The steps that reorder the workspaces of monitor k.
Reorders(k) ==
    /\ ~monitors'[k].switching
    /\ WindowSets(monitors[k]) \subseteq WindowSets(monitors'[k])
    /\ \/ \E i, j \in DOMAIN monitors[k].workspaces : MoveWorkspaceToIdx(k, i, j)
       \/ \E d \in {-1, 1} : MoveWorkspace(d)
       \/ \E n \in Name : EnsureNamedWorkspace(n)

\* Reordering the workspaces of a monitor, and inserting one for a new named
\* workspace, leaves the same windows in view on it: a step that changes the
\* view of a monitor does not reorder its workspaces.
ReorderKeepsView ==
    CanGoOn =>
        \A k \in MonitorIdx \cap MonitorIdx' :
           /\ monitors'[k].workspaces # <<>>
           /\ Shown(monitors'[k]) # Shown(monitors[k])
           => ~Reorders(k)

\* A monitor goes on showing what it showed when a window closes or is dragged away,
\* when another output comes or goes, and when its workspaces are reordered, and has it again
\* when it comes back.
MonitorsKeepTheirView ==
    [][RemovalKeepsView /\ HotplugKeepsView /\ ReorderKeepsView /\ ReconnectRestoresView]_layoutVars

-----------------------------------------------------------------------------
(***************************************************************************)
(* What the repository says and the code does not do.                      *)
(***************************************************************************)
\* "Must always contain at least one." (monitor.rs:67).
MonitorsHaveWorkspaces == \A k \in MonitorIdx : monitors[k].workspaces # <<>>
=============================================================================
