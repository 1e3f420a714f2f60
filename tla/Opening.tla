------------------------------- MODULE Opening ------------------------------
(***************************************************************************)
(* The life of a toplevel until it is mapped: the initial commit, the      *)
(* initial configure (sent in an idle callback), the requests the client   *)
(* makes before it maps, the map itself, and the way back by a null buffer *)
(* (handlers/xdg_shell.rs, handlers/compositor.rs, window/unmapped.rs).    *)
(*                                                                         *)
(* Where the window opens is decided in steps, and everything it is        *)
(* decided by may change between them: outputs come and go, workspaces     *)
(* move and lose their names, the parent moves. Those are steps of the     *)
(* environment here (Layout has the details). Sizes, bounds and the tiled  *)
(* state are left out.                                                     *)
(***************************************************************************)
EXTENDS Naturals, Sequences, FiniteSets

CONSTANTS Output, Name,   \* outputs, and names of workspaces
          None,           \* no output, no name, no parent
          Nowhere,        \* the place of what is in a layout without outputs
          Redirects       \* a window that was configured for a named workspace may ask to be
                          \* fullscreen on some output after all

ASSUME OpeningAssumption ==
    /\ Redirects \in BOOLEAN /\ None # Nowhere
    /\ {None, Nowhere} \cap (Output \cup Name) = {}

VARIABLES env,    \* [outs, active, home, shown, parent]: what the layout has
          win,    \* the window, see UnmappedNew
          opened, \* history: how it was mapped last
          hist    \* history: [fs, max]: what it asked for, [lost]: while there was no
                  \* workspace, [on]: the monitor it was configured for, if nothing has
                  \* moved since the initial configure

openVars == <<env, win, opened, hist>>

NotOpened == [on |-> Nowhere, mode |-> "Normal", configured |-> FALSE]
NoHistory == [fs |-> FALSE, max |-> FALSE, lost |-> FALSE, on |-> None]

-----------------------------------------------------------------------------
(***************************************************************************)
(* The layout, as far as a new window looks at it.                         *)
(***************************************************************************)
monitor_for_output(o) == IF o \in env.outs THEN o ELSE None
monitor_for_workspace(name) == IF name # None /\ env.home[name] \in env.outs THEN env.home[name] ELSE None

\* The name of the workspace that a monitor shows.
ShownName(mon) ==
    IF \E n \in env.shown : env.home[n] = mon THEN CHOOSE n \in env.shown : env.home[n] = mon ELSE None

\* The workspace that a window is configured for: none, or [name]. A name that is not found
\* on the monitor finds nothing, though the monitor has an active workspace.
TargetWorkspace(name, mon) ==
    IF mon = None THEN {}       \* and the layout has no active workspace
    ELSE IF name = None THEN {[name |-> ShownName(mon)]}
    ELSE {[name |-> n] : n \in {n \in {name} : env.home[n] = mon}}

ParentMonitor == IF env.parent = None THEN None ELSE monitor_for_output(env.parent.at)

\* The first monitor of those preferred, or the parent's, or the active one.
PickMonitor(preferred) ==
    LET some == {i \in DOMAIN preferred : preferred[i] # None}
    IN  IF some # {} THEN [mon |-> preferred[CHOOSE i \in some : \A j \in some : i <= j], parent |-> FALSE]
        ELSE IF ParentMonitor # None THEN [mon |-> ParentMonitor, parent |-> TRUE]
        ELSE [mon |-> env.active, parent |-> FALSE]

-----------------------------------------------------------------------------
(***************************************************************************)
(* Before the initial configure.                                           *)
(***************************************************************************)
UnmappedNew ==
    [state |-> "NotConfigured", wants_fullscreen |-> FALSE, wants_output |-> None,
     wants_maximized |-> FALSE,
     mode |-> "Normal",          \* the pending state of the toplevel
     output |-> None, workspace_name |-> None, is_pending_maximized |-> FALSE,
     idles |-> 0, late |-> FALSE]

MaxIdles == 2   \* a bound on the callbacks under way

\* The client creates another toplevel.
new_toplevel ==
    /\ win.state = "Destroyed" /\ win.idles = 0
    /\ win' = UnmappedNew
    /\ UNCHANGED <<env, opened, hist>>

\* A commit without a buffer queues the initial configure.
InitialCommit ==
    /\ win.state = "NotConfigured" /\ win.idles < MaxIdles
    /\ win' = [win EXCEPT !.idles = @ + 1]
    /\ UNCHANGED <<env, opened, hist>>

\* What the rules that match may say: one thing at a time, a bound.
Rules == [workspace : Name \cup {None}, output : Output \cup {None},
         fs : {"unset", "yes", "no"}, max : {"unset", "yes", "no"}]
Rule == {r \in Rules : Cardinality({i \in 1..4 : <<r.workspace # None, r.output # None,
                                                  r.fs # "unset", r.max # "unset">>[i]}) <= 1}

Ruled(rule, wanted) == IF rule = "unset" THEN wanted ELSE rule = "yes"

\* What a rule and the client together ask for, and the pending mode that says so: a
\* toplevel is never fullscreen and maximized at once.
ModeOf(fs, max) == IF fs THEN "Fullscreen" ELSE IF max THEN "Maximized" ELSE "Normal"

Configured(w, mode, pick, name, max) ==
    [w EXCEPT !.state = "Configured", !.mode = mode,
              !.wants_fullscreen = FALSE, !.wants_output = None, !.wants_maximized = FALSE,
              !.output = IF pick.parent THEN None ELSE pick.mon,
              !.workspace_name = name, !.is_pending_maximized = max]

\* send_initial_configure() under the rules that match the window now.
send_initial_configure(rules) ==
    LET pick == PickMonitor(<<monitor_for_workspace(rules.workspace),
                              monitor_for_output(rules.output),
                              monitor_for_output(win.wants_output)>>)
        ws == TargetWorkspace(rules.workspace, pick.mon)
        fs == Ruled(rules.fs, win.wants_fullscreen)
        max == Ruled(rules.max, win.wants_maximized)
    IN  /\ win' = Configured([win EXCEPT !.idles = @ - 1],
                             IF ws # {} /\ (fs \/ max) THEN ModeOf(fs, max) ELSE win.mode, pick,
                             IF ws = {} THEN None ELSE (CHOOSE t \in ws : TRUE).name,
                             ws # {} /\ max)
        /\ hist' = [fs |-> fs, max |-> max, lost |-> ws = {}, on |-> pick.mon]

\* The idle callback: nothing if another one was faster, or the window is gone.
QueuedInitialConfigure(rules) ==
    /\ win.idles > 0
    /\ \/ win.state = "NotConfigured" /\ send_initial_configure(rules)
       \/ win.state # "NotConfigured" /\ win' = [win EXCEPT !.idles = @ - 1] /\ UNCHANGED hist
    /\ UNCHANGED <<env, opened>>

-----------------------------------------------------------------------------
(***************************************************************************)
(* Requests of the client before it maps. Each picks the monitor anew and  *)
(* sends another configure.                                                *)
(***************************************************************************)
Reconfigured(pick, ws, mode, max) ==
    IF ws = {} THEN Configured(win, win.mode, pick, win.workspace_name, win.is_pending_maximized)
    ELSE Configured(win, mode, pick, win.workspace_name, max)

Asked(pick, ws, fs, max) ==
    hist' = [fs |-> fs, max |-> max, lost |-> hist.lost \/ ws = {},
             on |-> IF hist.on = None THEN None ELSE pick.mon]

maximize_request ==
    /\ \/ /\ win.state = "NotConfigured"
          /\ win' = [win EXCEPT !.wants_maximized = TRUE]
          /\ UNCHANGED hist
       \/ /\ win.state = "Configured"
          /\ LET pick == PickMonitor(<<monitor_for_output(win.output)>>)
                 ws == TargetWorkspace(None, pick.mon)
             IN  /\ win' = Reconfigured(pick, ws, ModeOf(win.mode = "Fullscreen", TRUE), TRUE)
                 /\ Asked(pick, ws, hist.fs, TRUE)
    /\ UNCHANGED <<env, opened>>

\* The two requests that leave a mode look at the workspace first that was configured.
PickAgain == PickMonitor(<<monitor_for_workspace(win.workspace_name), monitor_for_output(win.output)>>)

unmaximize_request ==
    /\ \/ /\ win.state = "NotConfigured"
          /\ win' = [win EXCEPT !.wants_maximized = FALSE]
          /\ UNCHANGED hist
       \/ /\ win.state = "Configured"
          /\ LET pick == PickAgain
                 ws == TargetWorkspace(win.workspace_name, pick.mon)
             IN  /\ win' = Reconfigured(pick, ws, ModeOf(win.mode = "Fullscreen", FALSE), FALSE)
                 /\ Asked(pick, ws, hist.fs, FALSE)
    /\ UNCHANGED <<env, opened>>

\* fullscreen_request(), on an output of the client's choice or on none in particular.
fullscreen_request(requested) ==
    /\ \/ /\ win.state = "NotConfigured"
          /\ win' = [win EXCEPT !.wants_fullscreen = TRUE, !.wants_output = requested]
          /\ UNCHANGED hist
       \/ /\ win.state = "Configured"
          /\ requested = None \/ win.workspace_name = None \/ Redirects
          /\ LET o == IF requested # None THEN requested ELSE win.output
                 pick == PickMonitor(<<monitor_for_output(o)>>)
                 ws == TargetWorkspace(None, pick.mon)
             IN  /\ win' = Reconfigured(pick, ws, "Fullscreen", win.is_pending_maximized)
                 /\ Asked(pick, ws, TRUE, hist.max)
    /\ UNCHANGED <<env, opened>>

\* Mutant: a window that leaves fullscreen before it maps is no longer maximized.
UnfullscreenForgetsMaximized ==
    /\ \/ /\ win.state = "NotConfigured"
          /\ win' = [win EXCEPT !.wants_fullscreen = FALSE, !.wants_output = None]
          /\ UNCHANGED hist
       \/ /\ win.state = "Configured"
          /\ LET pick == PickAgain
                 ws == TargetWorkspace(win.workspace_name, pick.mon)
             IN  /\ win' = Reconfigured(pick, ws, "Normal", win.is_pending_maximized)
                 /\ Asked(pick, ws, FALSE, hist.max)
    /\ UNCHANGED <<env, opened>>

unfullscreen_request ==
    /\ \/ /\ win.state = "NotConfigured"
          /\ win' = [win EXCEPT !.wants_fullscreen = FALSE, !.wants_output = None]
          /\ UNCHANGED hist
       \/ /\ win.state = "Configured"
          /\ LET pick == PickAgain
                 ws == TargetWorkspace(win.workspace_name, pick.mon)
             IN  /\ win' = Reconfigured(pick, ws, ModeOf(FALSE, win.is_pending_maximized),
                                        win.is_pending_maximized)
                 /\ Asked(pick, ws, FALSE, hist.max)
    /\ UNCHANGED <<env, opened>>

-----------------------------------------------------------------------------
\* Where the commit that maps a window puts it: next to its parent if it was configured for
\* the parent's output or none, else to the workspace or the output that are still there.
Target(output, name) ==
    LET o == monitor_for_output(output)
        n == IF name # None /\ env.home[name] # None THEN name ELSE None
    IN  IF env.parent # None /\ (o = None \/ env.parent.at \in {Nowhere, o}) THEN [tag |-> "NextTo"]
        ELSE IF n # None THEN [tag |-> "Workspace", name |-> n]
        ELSE IF o # None THEN [tag |-> "Output", output |-> o]
        ELSE [tag |-> "Auto"]

\* Layout::add_window(): the monitor the window is added to, None where the code unwraps
\* or panics. A parent that is being moved by the pointer is in no workspace.
add_window(target) ==
    LET auto == IF env.outs = {} THEN Nowhere ELSE env.active
    IN  CASE target.tag = "NextTo" /\ env.parent.moving ->
                IF env.parent.at \in env.outs THEN env.parent.at ELSE auto
          [] target.tag = "NextTo" /\ ~env.parent.moving -> env.parent.at
          [] target.tag = "Workspace" -> env.home[target.name]
          [] target.tag = "Output" -> monitor_for_output(target.output)
          [] target.tag = "Auto" -> auto

\* The commit that maps the window. One that was unmapped while configures were in flight
\* may map without an initial configure of its own.
Map ==
    /\ win.state = "Configured" \/ (win.state = "NotConfigured" /\ win.late)
    /\ opened' = [on |-> add_window(Target(win.output, win.workspace_name)), mode |-> win.mode,
                  configured |-> win.state = "Configured"]
    /\ win' = [UnmappedNew EXCEPT !.state = "Mapped", !.idles = win.idles]
    /\ UNCHANGED <<env, hist>>

\* A null buffer takes the window back to where it was created; Smithay forgets what it was
\* told (external). Configures may be in flight.
Unmap ==
    /\ win.state = "Mapped"
    /\ \E late \in BOOLEAN : win' = [UnmappedNew EXCEPT !.idles = win.idles, !.late = late]
    /\ opened' = NotOpened /\ hist' = NoHistory /\ UNCHANGED env

toplevel_destroyed ==
    /\ win.state # "Destroyed"
    /\ win' = [UnmappedNew EXCEPT !.state = "Destroyed", !.idles = win.idles]
    /\ opened' = NotOpened /\ hist' = NoHistory /\ UNCHANGED env

-----------------------------------------------------------------------------
(***************************************************************************)
(* The environment.                                                        *)
(***************************************************************************)
\* Where things are in a layout with these outputs, and where a thing goes that was at p.
Places(outs) == IF outs = {} THEN {Nowhere} ELSE outs
Evacuated(p, outs) == IF p \in outs \cup {None} THEN {p} ELSE Places(outs)

\* A parent, or none. One that is dragged is on the output that the pointer was over last.
Parents(outs) ==
    {None} \cup [at : Places(outs), moving : {FALSE}] \cup [at : Output, moving : {TRUE}]

\* An output comes or goes, and takes along what has to move.
Hotplug(o) ==
    LET outs == IF o \in env.outs THEN env.outs \ {o} ELSE env.outs \cup {o}
    IN  \E active \in IF env.active \in outs THEN {env.active} ELSE Places(outs),
           home \in [Name -> Places(outs) \cup {None}],
           at \in Places(outs) :
          /\ \A n \in Name : home[n] \in Evacuated(env.home[n], outs)
          /\ env' = [outs |-> outs, active |-> IF outs = {} THEN None ELSE active, home |-> home,
                     shown |-> {n \in env.shown : home[n] = env.home[n]},
                     parent |-> IF env.parent = None \/ env.parent.moving \/ env.parent.at \in outs
                                THEN env.parent ELSE [env.parent EXCEPT !.at = at]]

\* The user looks at another monitor, moves a workspace or takes its name, shows it or not.
Rearrange ==
    \/ \E o \in env.outs : env' = [env EXCEPT !.active = o]
    \/ \E n \in Name, p \in Places(env.outs) \cup {None} :
          env' = [env EXCEPT !.home[n] = p, !.shown = @ \ {n}]
    \/ \E n \in Name :
          /\ env.home[n] \in env.outs
          /\ env' = [env EXCEPT !.shown = {m \in @ : env.home[m] # env.home[n]} \cup ({n} \ @)]

\* The parent moves, or is dragged, or comes into being, or goes away.
ParentChanges == \E p \in Parents(env.outs) : env' = [env EXCEPT !.parent = p]

\* Nothing looks at the environment before the initial configure, and it begins anyhow.
Environment ==
    /\ win.state = "Configured" \/ win.late
    /\ (\E o \in Output : Hotplug(o)) \/ Rearrange \/ ParentChanges
    /\ hist' = [hist EXCEPT !.on = None]
    /\ UNCHANGED <<win, opened>>

-----------------------------------------------------------------------------
OpenInit ==
    /\ \E outs \in SUBSET Output : \E home \in [Name -> Places(outs) \cup {None}] :
          \E shown \in SUBSET {n \in Name : home[n] \in outs}, parent \in Parents(outs),
             active \in IF outs = {} THEN {None} ELSE outs :
            /\ \A m, n \in shown : home[m] = home[n] => m = n
            /\ env = [outs |-> outs, active |-> active, home |-> home, shown |-> shown,
                      parent |-> parent]
    /\ win = UnmappedNew /\ opened = NotOpened
    /\ hist = NoHistory

OpenNext ==
    \/ new_toplevel \/ InitialCommit
    \/ \E rules \in Rule : QueuedInitialConfigure(rules)
    \/ maximize_request \/ unmaximize_request
    \/ \E o \in Output \cup {None} : fullscreen_request(o)
    \/ unfullscreen_request
    \/ Map \/ Unmap \/ toplevel_destroyed
    \/ Environment

OpenSpec == OpenInit /\ [][OpenNext]_openVars

-----------------------------------------------------------------------------
(***************************************************************************)
(* Properties.                                                             *)
(***************************************************************************)
\* Wherever outputs, workspaces and the parent went since the window was configured, the
\* layout is given a place that exists: add_window() unwraps its targets.
OpensSomewhere == opened.on # None

\* "Output to open this window on": as long as nothing moves, a window opens on the monitor
\* that it was configured for last.
OpensWhereConfigured ==
    win.state = "Mapped" /\ opened.configured /\ hist.on # None => opened.on = hist.on

\* A window opens in the mode that the rules and its last requests ask for, in whatever
\* order it made them before and after its initial configure ("we simply remember that it
\* is now pending maximized").
OpensInMode ==
    win.state = "Mapped" /\ opened.configured /\ ~hist.lost => opened.mode = ModeOf(hist.fs, hist.max)

\* What happens between the first commit of a window and its map decides where and how it opens.
OpensAsAsked == OpensSomewhere /\ OpensWhereConfigured /\ OpensInMode
=============================================================================
