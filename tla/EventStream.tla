---------------------------- MODULE EventStream ----------------------------
(***************************************************************************)
(* The event stream of the IPC socket (ipc/server.rs) and the state that   *)
(* both its ends keep (sol-ipc/src/state.rs).  The server compares its     *)
(* EventStreamState with the desktop at each refresh, sends the            *)
(* differences as events and applies them to its own copy; a client that   *)
(* asks for the stream is sent the server's copy and from then on applies  *)
(* the same events to its own.                                             *)
(***************************************************************************)
EXTENDS Desktop

CONSTANT BufferSize    \* EVENT_STREAM_BUFFER_SIZE, 64 in the code

VARIABLES
    server,     \* event_stream_state
    stream,     \* Nil, or the EventStreamSender of the client: its queue, and whether
                \* the task that writes it to the socket still runs
    replica     \* the client's EventStreamState; Nil when it is not connected

ipcVars == <<server, stream, replica>>

\* "Initial event burst had more events than buffer size" is an expect() of
\* on_new_ipc_client(): there is room for what replicate() makes.
ASSUME BufferAssumption == BufferSize \in Nat /\ BufferSize >= 6

------------------------------------------------------------------------------
\* The records of sol-ipc, as the server fills them in.

IpcWorkspace(d, s) ==
    [idx |-> WsIdx(d, s), name |-> d.name[s], output |-> OutputOf(d, s),
     urgent |-> IsUrgent(d, s), active |-> IsActive(d, s), focused |-> IsFocused(d, s),
     window |-> ActiveWindow(d, s)]

\* make_ipc_window().
IpcWindow(d, w) ==
    [ws |-> d.win[w].ws, info |-> d.win[w].info, layout |-> d.win[w].shape,
     urgent |-> d.win[w].urgent, ts |-> d.win[w].ts, focused |-> d.focus = w]

AllWorkspaces(d) == [s \in Workspaces(d) |-> IpcWorkspace(d, s)]

\* EventStreamState::default().  ok: no expect() has failed.
DefaultState ==
    [ws |-> <<>>, win |-> <<>>, kb |-> Nil, overview |-> FALSE, failed |-> FALSE,
     casts |-> <<>>, ok |-> TRUE]

------------------------------------------------------------------------------
\* EventStreamStatePart::apply(), part by part.

ApplyWorkspace(st, e) ==
    CASE e.ev = "WorkspacesChanged" -> [st EXCEPT !.ws = e.workspaces]
      [] e.ev = "WorkspaceUrgencyChanged" ->
           [st EXCEPT !.ws = [s \in DOMAIN @ |->
               IF s = e.id THEN [@[s] EXCEPT !.urgent = e.urgent] ELSE @[s]]]
      [] e.ev = "WorkspaceActivated" ->
           IF e.id \notin DOMAIN st.ws THEN [st EXCEPT !.ok = FALSE]
           ELSE LET sameOutput(s) == st.ws[s].output = st.ws[e.id].output
                    activated(s) == [st.ws[s] EXCEPT
                        !.active = IF sameOutput(s) THEN s = e.id ELSE @,
                        !.focused = IF e.focused THEN s = e.id ELSE @]
                IN  [st EXCEPT !.ws = [s \in DOMAIN @ |-> activated(s)]]
      [] OTHER ->   \* WorkspaceActiveWindowChanged
           IF e.id \notin DOMAIN st.ws THEN [st EXCEPT !.ok = FALSE]
           ELSE [st EXCEPT !.ws[e.id].window = e.window]

ApplyWindow(st, e) ==
    CASE e.ev = "WindowsChanged" -> [st EXCEPT !.win = e.windows]
      [] e.ev = "WindowOpenedOrChanged" ->
           LET wins == Inserted(st.win, e.id, e.window)
           IN  [st EXCEPT !.win = [v \in DOMAIN wins |->
                   IF v # e.id /\ e.window.focused
                   THEN [wins[v] EXCEPT !.focused = FALSE] ELSE wins[v]]]
      [] e.ev = "WindowClosed" ->
           IF e.id \notin DOMAIN st.win THEN [st EXCEPT !.ok = FALSE]
           ELSE [st EXCEPT !.win = [v \in DOMAIN @ \ {e.id} |-> @[v]]]
      [] e.ev = "WindowFocusChanged" ->
           [st EXCEPT !.win = [v \in DOMAIN @ |-> [@[v] EXCEPT !.focused = v = e.id]]]
      [] e.ev = "WindowFocusTimestampChanged" ->
           [st EXCEPT !.win = [v \in DOMAIN @ |->
               IF v = e.id THEN [@[v] EXCEPT !.ts = e.ts] ELSE @[v]]]
      [] e.ev = "WindowUrgencyChanged" ->
           [st EXCEPT !.win = [v \in DOMAIN @ |->
               IF v = e.id THEN [@[v] EXCEPT !.urgent = e.urgent] ELSE @[v]]]
      [] OTHER ->   \* WindowLayoutsChanged
           IF ~ DOMAIN e.layouts \subseteq DOMAIN st.win THEN [st EXCEPT !.ok = FALSE]
           ELSE [st EXCEPT !.win = [v \in DOMAIN @ |->
                   IF v \in DOMAIN e.layouts THEN [@[v] EXCEPT !.layout = e.layouts[v]] ELSE @[v]]]

ApplyOther(st, e) ==
    CASE e.ev = "KeyboardLayoutsChanged" -> [st EXCEPT !.kb = e.idx]
      [] e.ev = "KeyboardLayoutSwitched" ->
           IF st.kb = Nil THEN [st EXCEPT !.ok = FALSE] ELSE [st EXCEPT !.kb = e.idx]
      [] e.ev = "OverviewOpenedOrClosed" -> [st EXCEPT !.overview = e.is_open]
      [] e.ev = "ConfigLoaded" -> [st EXCEPT !.failed = e.failed]
      [] e.ev = "CastsChanged" -> [st EXCEPT !.casts = e.casts]
      [] e.ev = "CastStartedOrChanged" -> [st EXCEPT !.casts = Inserted(@, 1, e.cast)]
      [] OTHER ->   \* CastStopped
           IF st.casts = <<>> THEN [st EXCEPT !.ok = FALSE] ELSE [st EXCEPT !.casts = <<>>]

WorkspaceEvents ==
    {"WorkspacesChanged", "WorkspaceUrgencyChanged", "WorkspaceActivated",
     "WorkspaceActiveWindowChanged"}

WindowEvents ==
    {"WindowsChanged", "WindowOpenedOrChanged", "WindowClosed", "WindowFocusChanged",
     "WindowFocusTimestampChanged", "WindowUrgencyChanged", "WindowLayoutsChanged"}

apply(st, e) ==
    IF e.ev \in WorkspaceEvents THEN ApplyWorkspace(st, e)
    ELSE IF e.ev \in WindowEvents THEN ApplyWindow(st, e) ELSE ApplyOther(st, e)

ApplyAll(st, events) ==
    LET after[i \in 0 .. Len(events)] == IF i = 0 THEN st ELSE apply(after[i - 1], events[i])
    IN  after[Len(events)]

\* EventStreamState::replicate(): the events that rebuild it from the default.
replicate(st) ==
    <<[ev |-> "WorkspacesChanged", workspaces |-> st.ws],
      [ev |-> "WindowsChanged", windows |-> st.win]>>
    \o (IF st.kb = Nil THEN <<>> ELSE <<[ev |-> "KeyboardLayoutsChanged", idx |-> st.kb]>>)
    \o <<[ev |-> "OverviewOpenedOrClosed", is_open |-> st.overview],
         [ev |-> "ConfigLoaded", failed |-> st.failed],
         [ev |-> "CastsChanged", casts |-> st.casts]>>

------------------------------------------------------------------------------
\* The differences between the server's copy and the desktop.

If(c, e) == IF c THEN <<e>> ELSE <<>>

\* The changes of a workspace that are events of their own.
WorkspaceDiff(st, d, s) ==
    LET old == st.ws[s]
        new == IpcWorkspace(d, s)
    IN  If(old.window # new.window,
           [ev |-> "WorkspaceActiveWindowChanged", id |-> s, window |-> new.window])
        \o If(old.urgent # new.urgent,
              [ev |-> "WorkspaceUrgencyChanged", id |-> s, urgent |-> new.urgent])
        \o (IF new.focused /\ ~old.focused
            THEN <<[ev |-> "WorkspaceActivated", id |-> s, focused |-> TRUE]>>
            ELSE If(new.active /\ ~old.active,
                    [ev |-> "WorkspaceActivated", id |-> s, focused |-> FALSE]))

\* ipc_refresh_workspaces(): one event for all when one cannot be told by itself.
ipc_refresh_workspaces(st, d) ==
    LET told(s) == /\ s \in DOMAIN st.ws
                   /\ st.ws[s].idx = WsIdx(d, s)
                   /\ st.ws[s].name = d.name[s]
                   /\ st.ws[s].output = OutputOf(d, s)
        all == SetToSeq(Workspaces(d))
    IN  IF Workspaces(d) = DOMAIN st.ws /\ \A s \in Workspaces(d) : told(s)
        THEN FlattenSeq([i \in DOMAIN all |-> WorkspaceDiff(st, d, all[i])])
        ELSE <<[ev |-> "WorkspacesChanged", workspaces |-> AllWorkspaces(d)]>>

\* A window the events below cannot describe is sent whole.
SentWhole(st, d, w) ==
    \/ w \notin DOMAIN st.win
    \/ st.win[w].ws # d.win[w].ws
    \/ st.win[w].info # d.win[w].info

WindowDiff(st, d, w) ==
    LET new == IpcWindow(d, w)
    IN  IF SentWhole(st, d, w)
        THEN <<[ev |-> "WindowOpenedOrChanged", id |-> w, window |-> new]>>
        ELSE If(new.focused /\ ~st.win[w].focused, [ev |-> "WindowFocusChanged", id |-> w])
             \o If(new.ts # st.win[w].ts,
                   [ev |-> "WindowFocusTimestampChanged", id |-> w, ts |-> new.ts])
             \o If(new.urgent # st.win[w].urgent,
                   [ev |-> "WindowUrgencyChanged", id |-> w, urgent |-> new.urgent])

\* "Extra check for focus becoming None".
FocusBecameNone(st, d) ==
    If(d.focus = Nil /\ \E w \in DOMAIN st.win : st.win[w].focused,
       [ev |-> "WindowFocusChanged", id |-> Nil])

ipc_refresh_windows(st, d) ==
    LET open    == SetToSeq(DOMAIN d.win)
        closed  == SetToSeq(DOMAIN st.win \ DOMAIN d.win)
        resized == {w \in DOMAIN d.win : ~SentWhole(st, d, w) /\ st.win[w].layout # d.win[w].shape}
    IN  FlattenSeq([i \in DOMAIN open |-> WindowDiff(st, d, open[i])])
        \o If(resized # {}, [ev |-> "WindowLayoutsChanged",
                             layouts |-> [w \in resized |-> d.win[w].shape]])
        \o [i \in DOMAIN closed |-> [ev |-> "WindowClosed", id |-> closed[i]]]
        \o FocusBecameNone(st, d)

\* ipc_refresh_casts(): a pending cast is told once, a started one when it changes.
ipc_refresh_casts(st, d) ==
    CASE d.cast \in {"none", "ended"} -> If(st.casts # <<>>, [ev |-> "CastStopped"])
      [] d.cast = "pending" -> If(st.casts = <<>>, [ev |-> "CastStartedOrChanged", cast |-> "pending"])
      [] OTHER -> If(st.casts = <<>> \/ st.casts[1] # d.cast,
                     [ev |-> "CastStartedOrChanged", cast |-> d.cast])

ipc_refresh_overview(st, d) ==
    If(st.overview # d.overview, [ev |-> "OverviewOpenedOrClosed", is_open |-> d.overview])

ipc_refresh_keyboard_layout_index(st, d) ==
    If(st.kb # d.kb, [ev |-> "KeyboardLayoutSwitched", idx |-> d.kb])

\* All of a refresh.  The parts do not meet, so each is compared with the server's copy
\* from before the others.
IpcEvents(st, d) ==
    ipc_refresh_casts(st, d)
    \o ipc_refresh_workspaces(st, d) \o ipc_refresh_windows(st, d) \o ipc_refresh_overview(st, d)
    \o ipc_refresh_keyboard_layout_index(st, d)

------------------------------------------------------------------------------
\* Mutant: a full buffer loses the event and keeps the client.
SendLosing(events) ==
    /\ stream' = IF stream = Nil \/ events = <<>> THEN stream
                 ELSE IF ~stream.open THEN Nil
                 ELSE [stream EXCEPT !.q = SubSeq(@ \o events, 1,
                          IF Len(@ \o events) < BufferSize THEN Len(@ \o events) ELSE BufferSize)]
    /\ UNCHANGED replica

\* send_event() for each of the events: a client that has gone, or whose buffer is full,
\* is taken off the list; the latter is disconnected and what it has not read is lost.
SendEvents(events) ==
    LET fits == Len(stream.q) + Len(events) <= BufferSize
    IN  /\ stream' = IF stream = Nil \/ events = <<>> THEN stream
                     ELSE IF ~stream.open \/ ~fits THEN Nil
                     ELSE [stream EXCEPT !.q = @ \o events]
        /\ replica' = IF stream # Nil /\ stream.open /\ events # <<>> /\ ~fits THEN Nil
                      ELSE replica

\* The part of State::refresh() that is about the event streams.
IpcRefresh ==
    LET events == IpcEvents(server, desk)
    IN  /\ server' = ApplyAll(server, events)
        /\ SendEvents(events)

\* ipc_config_loaded(): told at once, by the watcher.
ConfigLoaded ==
    /\ changes > 0
    /\ changes' = changes - 1
    /\ dirty' = TRUE
    /\ LET event == [ev |-> "ConfigLoaded", failed |-> ~server.failed]
       IN  /\ server' = apply(server, event)
           /\ SendEvents(<<event>>)
    /\ UNCHANGED <<desk, gone>>

\* handle_client() for an EventStream request.
Subscribe ==
    /\ stream = Nil /\ replica = Nil
    /\ stream' = [q |-> replicate(server), open |-> TRUE]
    /\ replica' = DefaultState
    /\ UNCHANGED <<server, deskVars>>

\* handle_event_stream_client() writes the events, and the client applies them.  Bound:
\* all that are waiting, since events applied are as good as events that will be.
ReadEvents ==
    /\ stream # Nil /\ stream.open /\ stream.q # <<>>
    /\ replica' = ApplyAll(replica, stream.q)
    /\ stream' = [stream EXCEPT !.q = <<>>]
    /\ UNCHANGED <<server, deskVars>>

\* The client closes its socket; the sender is found out at the next event.
Hangup ==
    /\ stream # Nil /\ stream.open
    /\ stream' = [q |-> <<>>, open |-> FALSE]
    /\ replica' = Nil
    /\ UNCHANGED <<server, deskVars>>

\* IpcServer::start(), and ipc_keyboard_layouts_changed() of State::new().
IpcInit ==
    /\ server = [DefaultState EXCEPT !.kb = 0]
    /\ stream = Nil
    /\ replica = Nil

IpcStep == ReadEvents \/ Hangup

------------------------------------------------------------------------------
(***************************************************************************)
(* A client that is on the list of streams misses nothing: what it has     *)
(* applied and what it has still to read make up the server's copy, which  *)
(* after a refresh is the desktop, and no expect() of either end fails.  A *)
(* client that cannot be kept up is disconnected.  (ipc/server.rs:113,     *)
(* sol-ipc/src/state.rs:113)                                               *)
(***************************************************************************)
StreamsAgree ==
    /\ stream # Nil /\ stream.open => ApplyAll(replica, stream.q) = server
    /\ server.ok
    /\ ~dirty => /\ server.ws = AllWorkspaces(desk)
                 /\ server.win = [w \in DOMAIN desk.win |-> IpcWindow(desk, w)]
                 /\ server.kb = desk.kb
                 /\ server.overview = desk.overview
                 /\ server.casts = IF desk.cast \in {"none", "ended"} THEN <<>> ELSE <<desk.cast>>

=============================================================================
