----------------------------- MODULE Configures -----------------------------
(***************************************************************************)
(* What a mapped window is told and what the layout believes of it: the    *)
(* configures that Mapped sends, acks and commits of the client, and the   *)
(* values that only change when the client commits the configure that      *)
(* carries them (window/mapped.rs, refresh() of the two layers).           *)
(*                                                                         *)
(* The layout is an environment here: it may ask for anything that         *)
(* LayoutElement offers at any time. Which sequences of calls it makes is  *)
(* the business of Workspace.                                              *)
(*                                                                         *)
(* Serials are relative: 1 is the first configure that the client has not  *)
(* committed, so "no older than" is >=, and a commit renumbers the rest.   *)
(***************************************************************************)
EXTENDS Naturals, Sequences

CONSTANTS SlotSize, WorkingSize, ViewSize,   \* of a tile, maximized and fullscreen
          FloatSize,     \* the sizes that a floating window is given
          OwnSize,       \* the size of a client that does not take what it is told
          MaxInFlight,   \* bound on configures that the client has not committed
          AsksBack       \* a floating window may be asked for what it was sent last
                         \* while another request waits to be sent

ASSUME ConfiguresAssumption == MaxInFlight \in Nat \ {0} /\ AsksBack \in BOOLEAN

SizingMode == {"Normal", "Maximized", "Fullscreen"}

SizeFor(mode) == CASE mode = "Normal" -> SlotSize
                   [] mode = "Maximized" -> WorkingSize
                   [] mode = "Fullscreen" -> ViewSize

VARIABLES mapped,      \* the window, see MappedNew
          sent,        \* configures that the client has not committed, oldest first
          committed,   \* the configure it has committed, and its geometry
          floating,    \* which layer it is in
          resizing,    \* whether that is FloatingSpace::interactive_resize's window
          dirty,       \* something happened since the last refresh
          owed,        \* history: a request that no configure has answered yet
          asked, told  \* history: the size the layout asked for last, and told the client

confVars == <<mapped, sent, committed, floating, resizing, dirty, owed, asked, told>>

-----------------------------------------------------------------------------
(***************************************************************************)
(* Mapped.                                                                 *)
(***************************************************************************)
NotResizing == [tag |-> "None", serial |-> 0]
NoOnce == [tag |-> "None", serial |-> 0]

\* Mapped::new(), of a window that was last told `last` and committed `first`.
MappedNew(first, last) ==
    [last |-> last,                                     \* current_server_state
     pending |-> last,                                  \* server_pending
     needs_configure |-> FALSE,
     wfs |-> FALSE, pending_wfs |-> FALSE, uncommitted_wfs |-> <<>>,
     max |-> first.mode = "Maximized", pending_max |-> last.mode = "Maximized",
     uncommitted_max |-> <<>>,
     once |-> NoOnce,                                   \* request_size_once
     resize |-> NotResizing]                            \* interactive_resize

sizing_mode(m, comm) == IF m.wfs THEN (IF m.max THEN "Maximized" ELSE "Normal") ELSE comm.mode

\* A layout fullscreen is told to the client as Maximized.
request_size(m, size, mode) ==
    LET wfs == m.pending_wfs /\ mode # "Fullscreen"
        max == mode = "Maximized"
    IN  [m EXCEPT !.pending_wfs = wfs, !.pending_max = max,
                  !.needs_configure = @ \/ (mode = "Fullscreen" /\ m.wfs) \/ m.max # max,
                  !.pending.size = size,
                  !.pending.mode = IF wfs THEN "Fullscreen"
                                   ELSE IF mode = "Normal" THEN "Normal" ELSE "Maximized",
                  !.once = NoOnce]

\* The last configure that the client has not committed asks for this already.
AlreadySent(m, size) ==
    /\ sent # <<>>
    /\ LET state == sent[Len(sent)].state
       IN  state.size = size /\ (state.mode = "Fullscreen") = m.pending_wfs /\ state.mode # "Maximized"

\* request_size_once(), which a floating window is asked. A pending size that has not
\* been sent is left as it is when the last one sent is already the right one.
request_size_once(m, size) ==
    LET now == [m EXCEPT !.pending_max = FALSE, !.needs_configure = @ \/ m.max]
    IN  IF AlreadySent(m, size)
        THEN [now EXCEPT !.once = [tag |-> "WaitingForCommit", serial |-> Len(sent)]]
        ELSE [now EXCEPT !.pending.size = size,
                         !.pending.mode = IF m.pending_wfs THEN "Fullscreen" ELSE "Normal",
                         !.once = [tag |-> "WaitingForConfigure", serial |-> 0]]

request_windowed_fullscreen(m, value) ==
    IF m.pending_wfs = value THEN m
    ELSE [m EXCEPT !.pending_wfs = value, !.needs_configure = TRUE,
                   !.pending.mode = IF value THEN "Fullscreen"
                                    ELSE IF m.pending_max THEN "Maximized" ELSE "Normal"]

set_interactive_resize(m, on) ==
    [m EXCEPT !.pending.resizing = on,
              !.resize = IF on THEN [tag |-> "Ongoing", serial |-> 0]
                         ELSE IF @.tag = "Ongoing" THEN [tag |-> "WaitingForLastConfigure", serial |-> 0]
                         ELSE @]

\* Mutant: a client that took a size of its own never gets another one.
IntentByGeometry(m) ==
    IF m.needs_configure THEN "ShouldSend"
    ELSE IF m.pending = m.last THEN "NotNeeded"
    ELSE IF [m.last EXCEPT !.size = m.pending.size] # m.pending THEN "ShouldSend"
    ELSE IF committed.geometry = m.last.size THEN "CanSend" ELSE "Throttled"

\* Mutant: an answer that is owed does not outweigh the throttle.
IntentBySizeOnly(m) ==
    IF m.pending = m.last THEN "NotNeeded"
    ELSE IF [m.last EXCEPT !.size = m.pending.size] # m.pending THEN "ShouldSend"
    ELSE IF committed.config.state.size = m.last.size THEN "CanSend" ELSE "Throttled"

configure_intent(m) ==
    IF m.needs_configure THEN "ShouldSend"
    ELSE IF m.pending = m.last THEN "NotNeeded"
    ELSE IF [m.last EXCEPT !.size = m.pending.size] # m.pending THEN "ShouldSend"
    ELSE IF committed.config.state.size = m.last.size THEN "CanSend" ELSE "Throttled"

\* The value that the client will have committed once it has committed everything sent.
LastSent(uncommitted, value) ==
    IF uncommitted = <<>> THEN value ELSE uncommitted[Len(uncommitted)].value

Noted(uncommitted, value, pending, serial) ==
    IF LastSent(uncommitted, value) = pending THEN uncommitted
    ELSE Append(uncommitted, [serial |-> serial, value |-> pending])

\* send_pending_configure(), the window and the configures it has sent: a window that uses
\* its own size is told that size, and not told at all for a size alone.
send_pending_configure(m, size) ==
    LET own == m.once.tag = "UseWindowSize"
        kept == IF own /\ ~m.needs_configure THEN [m EXCEPT !.pending.size = m.last.size] ELSE m
        state == IF own THEN [m.pending EXCEPT !.size = size] ELSE m.pending
        serial == Len(sent) + 1
    IN  IF m.needs_configure \/ kept.pending # m.last
        THEN <<[m EXCEPT
                  !.last = state, !.pending = state, !.needs_configure = FALSE,
                  !.resize = IF @.tag = "WaitingForLastConfigure"
                             THEN [tag |-> "WaitingForLastCommit", serial |-> serial] ELSE @,
                  !.once = IF @.tag = "WaitingForConfigure"
                           THEN [tag |-> "WaitingForCommit", serial |-> serial] ELSE @,
                  !.uncommitted_wfs = Noted(@, m.wfs, m.pending_wfs, serial),
                  !.uncommitted_max = Noted(@, m.max, m.pending_max, serial)],
               Append(sent, [state |-> state, wfs |-> m.pending_wfs, max |-> m.pending_max])>>
        ELSE <<[kept EXCEPT !.resize = IF @.tag = "WaitingForLastConfigure" THEN NotResizing ELSE @],
               sent>>

\* What is left of a serial when the client has committed the first n configures.
Renumbered(x, n) == [x EXCEPT !.serial = IF @ > n THEN @ - n ELSE 0]

\* on_commit(): every value sent with a configure up to the committed one takes effect,
\* the last of them in the end. They are noted in the order they are sent in, so what
\* retain_mut() removes is the front of the list.
Committed(uncommitted, value, n) ==
    LET done == CHOOSE k \in 0..Len(uncommitted) :
                    \A i \in DOMAIN uncommitted : n >= uncommitted[i].serial <=> i <= k
    IN  [value |-> IF done = 0 THEN value ELSE uncommitted[done].value,
         left |-> [i \in 1..Len(uncommitted) - done |-> Renumbered(uncommitted[done + i], n)]]

on_commit(m, n) ==
    LET wfs == Committed(m.uncommitted_wfs, m.wfs, n)
        max == Committed(m.uncommitted_max, m.max, n)
    IN  [m EXCEPT !.resize = IF @.tag = "WaitingForLastCommit" /\ n >= @.serial THEN NotResizing
                             ELSE Renumbered(@, n),
                  !.once = IF @.tag = "WaitingForCommit" /\ n >= @.serial
                           THEN [tag |-> "UseWindowSize", serial |-> 0] ELSE Renumbered(@, n),
                  !.wfs = wfs.value, !.uncommitted_wfs = wfs.left,
                  !.max = max.value, !.uncommitted_max = max.left]

-----------------------------------------------------------------------------
(***************************************************************************)
(* The specification.                                                      *)
(***************************************************************************)
\* A window is mapped by the commit of one configure, while a later one that it
\* was sent before may be under way.
ConfInit ==
    \E first, last \in SizingMode :
        LET State(mode) == [mode |-> mode, size |-> SizeFor(mode), resizing |-> FALSE]
            Carrying(mode) == [state |-> State(mode), wfs |-> FALSE, max |-> first = "Maximized"]
        IN  /\ committed = [config |-> Carrying(first), geometry |-> SizeFor(first)]
            /\ sent = IF first = last THEN <<>> ELSE <<Carrying(last)>>
            /\ mapped = request_size(MappedNew(State(first), State(last)), SizeFor(last), last)
            /\ floating = FALSE /\ resizing = FALSE /\ dirty = TRUE /\ owed = FALSE
            /\ asked = SizeFor(last) /\ told = asked

\* The calls of the layout.
Called(m) == mapped' = m /\ dirty' = TRUE /\ UNCHANGED <<sent, committed, owed, told>>

\* The tiling layer asks for a size; a floating window that comes to it is no longer resized.
AskTiled(mode) ==
    /\ Called(request_size(mapped, SizeFor(mode), mode))
    /\ floating' = FALSE /\ resizing' = FALSE /\ asked' = SizeFor(mode)

\* The floating layer asks for a size, when the window comes to it or is resized.
AskFloating(size) ==
    /\ AsksBack \/ ~AlreadySent(mapped, size) \/ mapped.pending = mapped.last
    /\ Called(request_size_once(mapped, size))
    /\ floating' = TRUE /\ asked' = size /\ UNCHANGED resizing

ToggleWindowedFullscreen ==
    /\ Called(request_windowed_fullscreen(mapped, ~mapped.pending_wfs))
    /\ UNCHANGED <<floating, resizing, asked>>

\* interactive_resize_begin() and _end() of the floating layer.
Resize ==
    /\ floating
    /\ resizing' = ~resizing /\ dirty' = TRUE
    /\ UNCHANGED <<mapped, sent, committed, floating, owed, asked, told>>

\* A request that is answered with a configure whatever it changes: the client's maximize
\* and fullscreen requests, which call the layout next, and those for a decoration mode.
Request ==
    /\ mapped' = [mapped EXCEPT !.needs_configure = TRUE]
    /\ owed' = TRUE /\ dirty' = TRUE
    /\ UNCHANGED <<sent, committed, floating, resizing, asked, told>>

\* refresh() of the tiling layer sends what is pending.
scrolling_refresh(m) == send_pending_configure(set_interactive_resize(m, FALSE), committed.geometry)

\* refresh() of the floating layer, unless it throttles a resize.
floating_refresh(m) ==
    LET now == set_interactive_resize(m, resizing)
    IN  IF configure_intent(now) \in {"CanSend", "ShouldSend"}
        THEN send_pending_configure(now, committed.geometry) ELSE <<now, sent>>

\* The end of a turn.
Refresh ==
    /\ dirty /\ Len(sent) < MaxInFlight
    /\ LET new == IF floating THEN floating_refresh(mapped) ELSE scrolling_refresh(mapped)
       IN  /\ mapped' = new[1] /\ sent' = new[2]
           /\ owed' = (owed /\ new[2] = sent)
           /\ told' = IF new[2] = sent \/ mapped.once.tag = "UseWindowSize" THEN told
                      ELSE new[1].last.size
    /\ dirty' = FALSE
    /\ UNCHANGED <<committed, floating, resizing, asked>>

\* The client commits the nth configure, skipping those before, at the size it was told or
\* at one of its own. (That it acks it some time before changes nothing by itself: what is
\* acked but not committed still counts as uncommitted.)
Commit(n) ==
    /\ \E size \in {sent[n].state.size, OwnSize} :
          committed' = [config |-> sent[n], geometry |-> size]
    /\ mapped' = on_commit(mapped, n)
    /\ sent' = SubSeq(sent, n + 1, Len(sent))
    /\ dirty' = TRUE
    /\ UNCHANGED <<floating, resizing, owed, asked, told>>

ConfNext ==
    \/ \E mode \in SizingMode : AskTiled(mode)
    \/ \E size \in FloatSize : AskFloating(size)
    \/ ToggleWindowedFullscreen
    \/ Resize
    \/ Request
    \/ Refresh
    \/ \E n \in DOMAIN sent : Commit(n)

ConfSpec == ConfInit /\ [][ConfNext]_confVars

-----------------------------------------------------------------------------
(***************************************************************************)
(* Properties.                                                             *)
(***************************************************************************)
\* "A configure is required in response to this event regardless if there are pending
\* changes" (maximize_request): once the turn is over every request has its answer, also
\* when nothing changed and when a resize is being throttled.
RequestsAnswered == ~dirty => ~owed

\* The layout's view of the window is that of the newest configure the client has
\* committed: not of one that is still under way, and never of an older one again
\* (uncommitted_windowed_fullscreen, uncommitted_maximized).
ViewFollowsCommits ==
    mapped.wfs = committed.config.wfs /\ mapped.max = committed.config.max

\* A client that asks is told, and the layout follows what it commits.
ExchangeIsAnswered == RequestsAnswered /\ ViewFollowsCommits

\* When the client has committed everything it was sent and the turn is over, nothing is
\* left to happen: what the layout asked for last is what holds, no pending state was
\* forgotten, the resize that ended has ended and a size is asked once.
Settled ==
    ~dirty /\ sent = <<>> =>
        /\ mapped.wfs = mapped.pending_wfs /\ mapped.max = mapped.pending_max
        /\ mapped.pending = mapped.last
        /\ mapped.resize.tag = IF floating /\ resizing THEN "Ongoing" ELSE "None"
        /\ mapped.once.tag \in IF floating THEN {"UseWindowSize", "WaitingForConfigure"} ELSE {"None"}
        /\ told = asked
=============================================================================
