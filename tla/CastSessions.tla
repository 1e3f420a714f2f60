---------------------------- MODULE CastSessions ----------------------------
(***************************************************************************)
(* Screencast sessions: D-Bus objects that live on the bus's own thread    *)
(* (dbus/mutter_screen_cast.rs) and the casts that the compositor makes of *)
(* them (screencasting/mod.rs), which talk over a channel. Either side can *)
(* end a session at any moment, and outputs and windows go away under it.  *)
(*                                                                         *)
(* The caller of a session waits for each of its calls to return, but the  *)
(* compositor's own call of stop() runs next to it. Session's Drop never   *)
(* runs, as ScreenCast keeps every session that it made.                   *)
(***************************************************************************)
EXTENDS Naturals, Sequences

CONSTANTS Session, CastOutput, CastWindow,
          NoTarget,        \* CastTarget::Nothing
          DynamicId,       \* the window id that stands for the dynamic target
          NoSession,
          MaxStreams,      \* bound on the streams of a session
          MaxChannel,      \* bound on the messages to the compositor under way
          StartInBetween   \* whether Start() may run between two statements of stop()

ASSUME SessionAssumption ==
    /\ NoSession \notin Session
    /\ {NoTarget, DynamicId} \intersect (CastOutput \cup CastWindow) = {}
    /\ MaxStreams \in Nat /\ MaxChannel \in Nat /\ StartInBetween \in BOOLEAN

VARIABLES sessions,   \* [session -> [registered, stopped, streams, call]]
          channel,    \* messages to the compositor, in order
          casts,      \* the compositor's casts: [session, target, dynamic]
          waiting,    \* sessions with pending_dynamic_casts
          live,       \* outputs and windows that exist
          idles,      \* whether an idle callback will clear the dynamic target
          todo,       \* sessions that the handler being run is yet to stop
          taking      \* the session in whose stop() the compositor is, or NoSession

sessionVars == <<sessions, channel, casts, waiting, live, idles, todo, taking>>

Target == CastOutput \cup CastWindow
StreamTargetId == Target \cup {DynamicId}

StartCast(s, t) == [tag |-> "StartCast", session |-> s, target |-> t]
StopCast(s) == [tag |-> "StopCast", session |-> s, target |-> NoTarget]

MainIsIdle == todo = {} /\ taking = NoSession

-----------------------------------------------------------------------------
(***************************************************************************)
(* The bus's thread.                                                       *)
(***************************************************************************)
create_session(s) ==
    /\ ~sessions[s].registered /\ ~sessions[s].stopped
    /\ sessions' = [sessions EXCEPT ![s].registered = TRUE]
    /\ UNCHANGED <<channel, casts, waiting, live, idles, todo, taking>>

\* A call finds its object, and may run after the object was removed.
CallArrives(s, call) ==
    /\ sessions[s].registered /\ sessions[s].call = "none"
    /\ sessions' = [sessions EXCEPT ![s].call = call]
    /\ UNCHANGED <<channel, casts, waiting, live, idles, todo, taking>>

\* record_monitor() of an output that is known, or record_window() of any id. It needs the
\* session for itself, so no stop() is being run.
Record(s, t) ==
    /\ sessions[s].call = "record" /\ taking # s
    /\ t \in CastOutput => t \in live
    /\ Len(sessions[s].streams) < MaxStreams
    /\ sessions' = [sessions EXCEPT ![s].call = "none", ![s].streams = Append(@, t)]
    /\ UNCHANGED <<channel, casts, waiting, live, idles, todo, taking>>

\* start(): a message for each stream. (was_started is never set: the casts of a session that
\* is started again are made twice, under the same ids.)
start(s) ==
    /\ sessions[s].call = "start" /\ (taking # s \/ StartInBetween)
    /\ Len(channel) + Len(sessions[s].streams) <= MaxChannel
    /\ channel' = channel \o [i \in DOMAIN sessions[s].streams |-> StartCast(s, sessions[s].streams[i])]
    /\ sessions' = [sessions EXCEPT ![s].call = "none"]
    /\ UNCHANGED <<casts, waiting, live, idles, todo, taking>>

\* stop() from the bus: the flag, then the Closed signal, which is waited for.
StopBegins(s) ==
    /\ sessions[s].call = "stop"
    /\ sessions' = [sessions EXCEPT ![s].call = IF sessions[s].stopped THEN "none" ELSE "stopping",
                                    ![s].stopped = TRUE]
    /\ UNCHANGED <<channel, casts, waiting, live, idles, todo, taking>>

\* ... and then the message to the compositor and the removal of the objects.
StopEnds(s) ==
    /\ sessions[s].call = "stopping" /\ Len(channel) < MaxChannel
    /\ channel' = Append(channel, StopCast(s))
    /\ sessions' = [sessions EXCEPT ![s].call = "none", ![s].streams = <<>>, ![s].registered = FALSE]
    /\ UNCHANGED <<casts, waiting, live, idles, todo, taking>>

-----------------------------------------------------------------------------
(***************************************************************************)
(* The compositor.                                                         *)
(***************************************************************************)
Drop(s) ==
    /\ casts' = {c \in casts : c.session # s}
    /\ waiting' = waiting \ {s}

\* Mutant: the compositor, which knows that it has dropped the casts, sends no message.
StopCastQuietly(s) ==
    /\ taking = NoSession /\ s \in todo
    /\ todo' = todo \ {s} /\ Drop(s)
    /\ IF sessions[s].registered /\ ~sessions[s].stopped
       THEN /\ sessions' = [sessions EXCEPT ![s].stopped = TRUE]
            /\ taking' = s
       ELSE UNCHANGED <<sessions, taking>>
    /\ UNCHANGED <<channel, live, idles>>

\* stop_cast(): the casts of the session, and then its stop(), run here: the message goes
\* to this very thread, for the StartCasts that are before it in the channel.
stop_cast_session(s) ==
    /\ taking = NoSession /\ s \in todo
    /\ todo' = todo \ {s} /\ Drop(s)
    /\ IF sessions[s].registered /\ ~sessions[s].stopped
       THEN /\ sessions' = [sessions EXCEPT ![s].stopped = TRUE]
            /\ channel' = Append(channel, StopCast(s))
            /\ taking' = s
       ELSE UNCHANGED <<sessions, channel, taking>>
    /\ UNCHANGED <<live, idles>>

\* The end of that stop().
StopTakesStreams ==
    /\ taking # NoSession
    /\ sessions' = [sessions EXCEPT ![taking].streams = <<>>, ![taking].registered = FALSE]
    /\ taking' = NoSession
    /\ UNCHANGED <<channel, casts, waiting, live, idles, todo>>

\* on_screen_cast_msg().
OnStartCast ==
    /\ MainIsIdle /\ channel # <<>> /\ Head(channel).tag = "StartCast"
    /\ channel' = Tail(channel)
    /\ LET m == Head(channel)
       IN  \/ /\ m.target = DynamicId
              /\ waiting' = waiting \cup {m.session}
              /\ UNCHANGED <<casts, todo>>
           \/ /\ m.target \in live
              /\ casts' = casts \cup {[session |-> m.session, target |-> m.target, dynamic |-> FALSE]}
              /\ UNCHANGED <<waiting, todo>>
           \* The target is missing, or PipeWire fails.
           \/ /\ m.target # DynamicId
              /\ todo' = {m.session}
              /\ UNCHANGED <<casts, waiting>>
    /\ UNCHANGED <<sessions, live, idles, taking>>

OnStopCast ==
    /\ MainIsIdle /\ channel # <<>> /\ Head(channel).tag = "StopCast"
    /\ channel' = Tail(channel) /\ todo' = {Head(channel).session}
    /\ UNCHANGED <<sessions, casts, waiting, live, idles, taking>>

\* on_pw_msg(): a stream fails (its message may come late), or PipeWire as a whole does; and
\* the StopCast action of a user.
OnPwStop(s) ==
    /\ MainIsIdle /\ todo' = {s}
    /\ UNCHANGED <<sessions, channel, casts, waiting, live, idles, taking>>

OnPwFatalError ==
    /\ MainIsIdle /\ todo' = waiting \cup {c.session : c \in casts}
    /\ UNCHANGED <<sessions, channel, casts, waiting, live, idles, taking>>

\* set_dynamic_cast_target(), with start_pending_dynamic_casts(). A cast whose frame rate
\* cannot be changed keeps its target; a pending cast that fails to start is stopped.
set_dynamic_cast_target(t) ==
    LET dynamic == {c \in casts : c.dynamic}
        New(ss) == {[session |-> s, target |-> t, dynamic |-> TRUE] : s \in ss}
    IN  \E moved \in SUBSET dynamic, started \in SUBSET waiting :
          /\ t = NoTarget => moved = dynamic
          /\ t \notin live => started = {}
          /\ casts' = (casts \ moved) \cup {[c EXCEPT !.target = t] : c \in moved} \cup New(started)
          /\ IF t \in live THEN waiting' = {} /\ todo' = waiting \ started
             ELSE UNCHANGED <<waiting, todo>>

SetDynamicTarget(t) ==
    /\ MainIsIdle /\ t \in live \cup {NoTarget}
    /\ set_dynamic_cast_target(t)
    /\ UNCHANGED <<sessions, channel, live, idles, taking>>

ClearDynamicTargetIdle ==
    /\ MainIsIdle /\ idles
    /\ idles' = FALSE
    /\ set_dynamic_cast_target(NoTarget)
    /\ UNCHANGED <<sessions, channel, live, taking>>

Appears(t) ==
    /\ MainIsIdle /\ t \notin live /\ live' = live \cup {t}
    /\ UNCHANGED <<sessions, channel, casts, waiting, idles, todo, taking>>

\* stop_casts_for_target()
stop_casts_for_target(t) ==
    /\ todo' = {c.session : c \in {d \in casts : d.target = t /\ ~d.dynamic}}
    /\ idles' = (idles \/ \E c \in casts : c.target = t /\ c.dynamic)

\* An output is disconnected, or a window is closed or unmapped.
Disappears(t) ==
    /\ MainIsIdle /\ t \in live /\ live' = live \ {t}
    /\ stop_casts_for_target(t)
    /\ UNCHANGED <<sessions, channel, casts, waiting, taking>>

-----------------------------------------------------------------------------
SessionInit ==
    /\ sessions = [s \in Session |-> [registered |-> FALSE, stopped |-> FALSE, streams |-> <<>>, call |-> "none"]]
    /\ channel = <<>> /\ casts = {} /\ waiting = {} /\ live = CastOutput
    /\ idles = FALSE /\ todo = {} /\ taking = NoSession

SessionNext ==
    \/ \E s \in Session :
         \/ create_session(s) \/ start(s) \/ StopBegins(s) \/ StopEnds(s)
         \/ \E call \in {"record", "start", "stop"} : CallArrives(s, call)
         \/ \E t \in StreamTargetId : Record(s, t)
         \/ stop_cast_session(s) \/ OnPwStop(s)
    \/ StopTakesStreams \/ OnStartCast \/ OnStopCast \/ OnPwFatalError \/ ClearDynamicTargetIdle
    \/ \E t \in Target \cup {NoTarget} : SetDynamicTarget(t)
    \/ \E t \in Target : Appears(t) \/ Disappears(t)

SessionSpec == SessionInit /\ [][SessionNext]_sessionVars

-----------------------------------------------------------------------------
(***************************************************************************)
(* Properties.                                                             *)
(***************************************************************************)
\* Something on its way will drop the casts of the session.
WillStop(s) ==
    \/ s \in todo \/ taking = s \/ sessions[s].call = "stopping"
    \/ \E i \in DOMAIN channel : channel[i] = StopCast(s)

\* No cast outlives its session: whichever thread ends it and however the StartCasts and
\* StopCasts cross, a cast (or a pending one, or one about to be made) without a session on
\* the bus is followed by a message that drops it. Nobody else could stop it any more.
CastsHaveSessions ==
    /\ \A c \in casts : sessions[c.session].registered \/ WillStop(c.session)
    /\ \A s \in waiting : sessions[s].registered \/ WillStop(s)

\* "We don't stop dynamic casts, instead we switch them to Nothing": no cast is left with an
\* output or a window that has gone, once what its disappearance set off has happened.
CastTargetsLive ==
    \A c \in casts :
        c.target \in live \cup {NoTarget} \/ WillStop(c.session) \/ (c.dynamic /\ idles)

\* Every cast has somebody to stop it and something to show.
CastsAreLive == CastsHaveSessions /\ CastTargetsLive
=============================================================================
