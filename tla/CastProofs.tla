----------------------------- MODULE CastProofs ------------------------------
(***************************************************************************)
(* Of the sessions: no cast outlives its session or its target, for any    *)
(* sessions, outputs and windows, provided that Start() does not run       *)
(* between two statements of stop(). The argument is about what is in the  *)
(* channel: the StartCasts of a session that has ended are followed by its *)
(* StopCast. Of a stream: frames fit their buffers, stay in their order    *)
(* and do not get stuck. Of screencopy: copies are answered, once.         *)
(***************************************************************************)
EXTENDS CastSessions, CastStream, Screencopy, SequenceTheorems, WellFoundedInduction, TLAPS

SessionRecord == [registered : BOOLEAN, stopped : BOOLEAN, streams : Seq(StreamTargetId),
                  call : {"none", "record", "start", "stop", "stopping"}]

Message == [tag : {"StartCast", "StopCast"}, session : Session, target : StreamTargetId \cup {NoTarget}]

Cast == [session : Session, target : Target \cup {NoTarget}, dynamic : BOOLEAN]

SessionTypeOK ==
    /\ sessions \in [Session -> SessionRecord]
    /\ channel \in Seq(Message)
    /\ casts \subseteq Cast
    /\ waiting \subseteq Session
    /\ live \subseteq Target
    /\ idles \in BOOLEAN
    /\ todo \subseteq Session
    /\ taking \in Session \cup {NoSession}

\* A session ends once, on one of the two threads, and leaves the bus at the end of it. A
\* call of Start() that comes too late finds no streams.
LifeCycle ==
    \A s \in Session :
         /\ sessions[s].call = "stopping" => sessions[s].registered /\ sessions[s].stopped /\ taking # s
         /\ ~sessions[s].registered /\ sessions[s].call # "none" => sessions[s].stopped
         /\ ~sessions[s].registered /\ sessions[s].call = "start" => sessions[s].streams = <<>>
         /\ taking = s => sessions[s].registered /\ sessions[s].stopped

StopAt(s, j) == channel[j] = StopCast(s)

\* A message that drops the casts of s is in the channel.
StopComing(s) == \E j \in 1 .. Len(channel) : StopAt(s, j)

\* A cast that the channel is going to make is dropped by it too, unless its session stands.
Standing(s) == sessions[s].registered /\ taking # s

StopAfter(s, i) == \E j \in 1 .. Len(channel) : i < j /\ StopAt(s, j)

StartAt(s, i) == channel[i].tag = "StartCast" /\ channel[i].session = s

StartsAreFollowed ==
    \A s \in Session : \A i \in 1 .. Len(channel) :
        StartAt(s, i) => Standing(s) \/ StopAfter(s, i)

\* The compositor reads no message while it runs stop().
TakingIsAnnounced == \A s \in Session : taking = s => StopComing(s)

Followed(s) == sessions[s].registered \/ s \in todo \/ StopComing(s)

CastsAreFollowed ==
    /\ \A c \in casts : Followed(c.session)
    /\ \A s \in waiting : Followed(s)

TargetsAreFollowed ==
    \A c \in casts : c.target \in live \cup {NoTarget} \/ c.session \in todo \/ (c.dynamic /\ idles)

SessionInv ==
    /\ SessionTypeOK
    /\ LifeCycle
    /\ StartsAreFollowed
    /\ TakingIsAnnounced
    /\ CastsAreFollowed
    /\ TargetsAreFollowed

-----------------------------------------------------------------------------
(***************************************************************************)
(* What becomes of the channel.                                            *)
(***************************************************************************)
LEMMA StopCastTyped ==
    ASSUME NEW s \in Session
    PROVE  StopCast(s) \in Message /\ StopCast(s).tag = "StopCast" /\ StopCast(s).session = s
BY DEF StopCast, Message

\* The messages of start().
Starts(s) == [i \in DOMAIN sessions[s].streams |-> StartCast(s, sessions[s].streams[i])]

LEMMA FunctionIsSeq ==
    ASSUME NEW S, NEW n \in Nat, NEW f \in [1 .. n -> S]
    PROVE  f \in Seq(S) /\ Len(f) = n
OBVIOUS

LEMMA StartsTyped ==
    ASSUME SessionTypeOK, NEW s \in Session
    PROVE  /\ Starts(s) \in Seq(Message)
           /\ Len(Starts(s)) = Len(sessions[s].streams)
           /\ \A i \in 1 .. Len(Starts(s)) : Starts(s)[i].tag = "StartCast" /\ Starts(s)[i].session = s
<1>1. sessions[s].streams \in Seq(StreamTargetId)
  BY DEF SessionTypeOK, SessionRecord
<1>2. /\ Len(sessions[s].streams) \in Nat
      /\ DOMAIN sessions[s].streams = 1 .. Len(sessions[s].streams)
      /\ \A i \in 1 .. Len(sessions[s].streams) : sessions[s].streams[i] \in StreamTargetId
  BY <1>1, LenProperties, ElementOfSeq
<1>3. \A i \in 1 .. Len(sessions[s].streams) :
         Starts(s)[i] = StartCast(s, sessions[s].streams[i]) /\ Starts(s)[i] \in Message
  BY <1>2 DEF Starts, StartCast, Message
<1>4. Starts(s) \in [1 .. Len(sessions[s].streams) -> Message]
  BY <1>2, <1>3 DEF Starts
<1>5. Starts(s) \in Seq(Message) /\ Len(Starts(s)) = Len(sessions[s].streams)
  <2>1. \A n \in Nat : Starts(s) \in [1 .. n -> Message] => Starts(s) \in Seq(Message) /\ Len(Starts(s)) = n
    BY FunctionIsSeq
  <2> QED
    BY <1>2, <1>4, <2>1, Zenon
<1>6. \A i \in 1 .. Len(sessions[s].streams) : Starts(s)[i].tag = "StartCast" /\ Starts(s)[i].session = s
  <2>1. \A t : StartCast(s, t).tag = "StartCast" /\ StartCast(s, t).session = s
    BY DEF StartCast
  <2> QED
    BY <1>3, <2>1
<1> QED
  BY <1>5, <1>6, Zenon

\* Messages stay where they are when others come after them.
LEMMA Appended ==
    ASSUME SessionTypeOK, NEW m \in Message, channel' = Append(channel, m)
    PROVE  /\ channel' \in Seq(Message)
           /\ Len(channel) \in Nat /\ Len(channel') = Len(channel) + 1
           /\ \A i \in 1 .. Len(channel) : channel'[i] = channel[i] /\ channel[i] \in Message
           /\ channel'[Len(channel) + 1] = m
BY AppendProperties, LenProperties, ElementOfSeq DEF SessionTypeOK

LEMMA Consumed ==
    ASSUME SessionTypeOK, channel # <<>>, channel' = Tail(channel)
    PROVE  /\ channel' \in Seq(Message)
           /\ Len(channel) \in Nat /\ Len(channel') = Len(channel) - 1
           /\ \A i \in 1 .. Len(channel') : channel'[i] = channel[i + 1]
           /\ Head(channel) = channel[1] /\ Head(channel) \in Message
           /\ 1 \in 1 .. Len(channel)
BY HeadTailProperties, LenProperties, EmptySeq DEF SessionTypeOK

\* What is to come still comes when the channel grows.
Grows ==
    /\ Len(channel) \in Nat /\ Len(channel') \in Nat /\ Len(channel) <= Len(channel')
    /\ \A i \in 1 .. Len(channel) : channel'[i] = channel[i]

LEMMA StopsStay ==
    ASSUME Grows, NEW s
    PROVE  /\ StopComing(s) => StopComing(s)'
           /\ \A i \in Nat : StopAfter(s, i) => StopAfter(s, i)'
BY DEF Grows, StopComing, StopAfter, StopAt

\* Of the messages that were there, those whose session no longer stands need a StopCast.
LEMMA StartsStayFollowed ==
    ASSUME SessionInv, Grows,
           \A s \in Session : \A i \in 1 .. Len(channel) :
               StartAt(s, i) /\ Standing(s) => Standing(s)' \/ StopAfter(s, i)',
           \A s \in Session : \A i \in 1 .. Len(channel') :
               i > Len(channel) /\ StartAt(s, i)' => Standing(s)'
    PROVE  StartsAreFollowed'
<1> SUFFICES ASSUME NEW s \in Session, NEW i \in 1 .. Len(channel'), StartAt(s, i)'
             PROVE  Standing(s)' \/ StopAfter(s, i)'
  BY DEF StartsAreFollowed
<1>1. CASE i > Len(channel)
  BY <1>1
<1>2. CASE i <= Len(channel)
  <2>1. i \in 1 .. Len(channel) /\ StartAt(s, i) /\ i \in Nat
    BY <1>2 DEF Grows, StartAt
  <2>2. Standing(s) \/ StopAfter(s, i)
    BY <2>1 DEF SessionInv, StartsAreFollowed
  <2>3. StopAfter(s, i) => StopAfter(s, i)'
    BY <2>1, StopsStay
  <2> QED
    BY <2>1, <2>2, <2>3
<1> QED
  BY <1>1, <1>2 DEF Grows

\* The channel without a change.
LEMMA SameChannel ==
    ASSUME SessionInv, UNCHANGED channel
    PROVE  /\ Grows
           /\ \A s : StopComing(s)' = StopComing(s)
           /\ (\A s \in Session : Standing(s) => Standing(s)') => StartsAreFollowed'
<1>1. Len(channel) \in Nat
  BY LenProperties DEF SessionInv, SessionTypeOK
<1>2. Grows
  BY <1>1 DEF Grows
<1>3. ASSUME \A s \in Session : Standing(s) => Standing(s)' PROVE StartsAreFollowed'
  <2>1. \A i \in 1 .. Len(channel') : ~(i > Len(channel))
    BY <1>1
  <2> QED
    BY <1>2, <1>3, <2>1, StartsStayFollowed
<1> QED
  BY <1>2, <1>3 DEF StopComing, StopAt

-----------------------------------------------------------------------------
(***************************************************************************)
(* The steps of the bus's thread.                                          *)
(***************************************************************************)
\* Steps that neither end a session nor make or drop a message or a cast.
LEMMA QuietStep ==
    ASSUME SessionInv, SessionTypeOK', LifeCycle', UNCHANGED <<channel, casts, waiting, live, idles, todo, taking>>,
           \A s \in Session : sessions[s].registered => sessions'[s].registered
    PROVE  SessionInv'
<1>1. StartsAreFollowed'
  BY SameChannel DEF Standing
<1>2. TakingIsAnnounced'
  BY SameChannel DEF SessionInv, TakingIsAnnounced
<1>3. CastsAreFollowed'
  BY SameChannel DEF SessionInv, SessionTypeOK, CastsAreFollowed, Followed, Cast
<1>4. TargetsAreFollowed'
  BY DEF SessionInv, TargetsAreFollowed
<1> QED
  BY <1>1, <1>2, <1>3, <1>4 DEF SessionInv

LEMMA CallStep ==
    ASSUME SessionInv, NEW s \in Session,
           \/ create_session(s)
           \/ \E call \in {"record", "start", "stop"} : CallArrives(s, call)
           \/ StopBegins(s)
    PROVE  SessionInv'
<1> USE DEF SessionInv, SessionTypeOK
<1> DEFINE old == sessions[s]
           new == sessions'[s]
<1>1. /\ sessions' \in [Session -> SessionRecord]
      /\ \A r \in Session \ {s} : sessions'[r] = sessions[r]
      /\ new.streams = old.streams
      /\ \/ new.registered = TRUE /\ ~old.registered /\ ~old.stopped /\ new.stopped = old.stopped /\ new.call = old.call
         \/ old.registered = TRUE /\ new.registered = TRUE /\ new.stopped = old.stopped /\ new.call \in {"record", "start", "stop"}
         \/ /\ old.call = "stop" /\ new.registered = old.registered /\ new.stopped = TRUE
            /\ new.call = IF old.stopped THEN "none" ELSE "stopping"
  <2>1. CASE create_session(s)
    BY <2>1 DEF create_session, SessionRecord
  <2>2. ASSUME NEW call \in {"record", "start", "stop"}, CallArrives(s, call) PROVE <1>1
    BY <2>2 DEF CallArrives, SessionRecord
  <2>3. CASE StopBegins(s)
    BY <2>3 DEF StopBegins, SessionRecord
  <2> QED
    BY <2>1, <2>2, <2>3
<1>2. UNCHANGED <<channel, casts, waiting, live, idles, todo, taking>>
  BY DEF create_session, CallArrives, StopBegins
<1>3. SessionTypeOK'
  BY <1>1, <1>2
<1>4. LifeCycle'
  BY <1>1, <1>2 DEF LifeCycle, SessionRecord
<1>5. \A r \in Session : sessions[r].registered => sessions'[r].registered
  BY <1>1
<1> QED
  BY <1>2, <1>3, <1>4, <1>5, QuietStep

LEMMA RecordStep ==
    ASSUME SessionInv, NEW s \in Session, NEW t \in StreamTargetId, Record(s, t)
    PROVE  SessionInv'
<1> USE DEF SessionInv, SessionTypeOK
<1> DEFINE old == sessions[s]
           new == sessions'[s]
<1>1. Append(old.streams, t) \in Seq(StreamTargetId)
  BY AppendProperties DEF SessionRecord
<1>2. /\ sessions' \in [Session -> SessionRecord]
      /\ \A r \in Session \ {s} : sessions'[r] = sessions[r]
      /\ new.registered = old.registered /\ new.stopped = old.stopped /\ new.call = "none"
  BY <1>1 DEF Record, SessionRecord
<1>3. SessionTypeOK'
  BY <1>2 DEF Record
<1>4. LifeCycle'
  BY <1>2 DEF Record, LifeCycle
<1>5. \A r \in Session : sessions[r].registered => sessions'[r].registered
  BY <1>2
<1> QED
  BY <1>3, <1>4, <1>5, QuietStep DEF Record

\* The casts and the targets when no session leaves the bus and nothing is dropped from todo.
LEMMA CastsStayFollowed ==
    ASSUME SessionInv, Grows, UNCHANGED <<casts, waiting, live, idles>>,
           todo \subseteq todo',
           \A s \in Session : sessions[s].registered => sessions'[s].registered \/ StopComing(s)'
    PROVE  CastsAreFollowed' /\ TargetsAreFollowed'
<1>1. \A s \in Session : Followed(s) => Followed(s)'
  BY StopsStay DEF Followed
<1>2. CastsAreFollowed'
  BY <1>1 DEF SessionInv, SessionTypeOK, CastsAreFollowed, Cast
<1> QED
  BY <1>2 DEF SessionInv, TargetsAreFollowed

\* start() of a session that has ended finds no streams, and it does not run during stop().
LEMMA StartStep ==
    ASSUME ~StartInBetween, SessionInv, NEW s \in Session, start(s)
    PROVE  SessionInv'
<1> DEFINE old == sessions[s]
           new == sessions'[s]
<1>1. /\ sessions' \in [Session -> SessionRecord]
      /\ \A r \in Session \ {s} : sessions'[r] = sessions[r]
      /\ new.registered = old.registered /\ new.stopped = old.stopped /\ new.call = "none"
  BY DEF start, SessionRecord, SessionInv, SessionTypeOK
<1>2. channel' = channel \o Starts(s) /\ channel \in Seq(Message)
  BY DEF start, Starts, SessionInv, SessionTypeOK
<1>3. /\ Starts(s) \in Seq(Message)
      /\ Len(Starts(s)) = Len(sessions[s].streams)
      /\ \A i \in 1 .. Len(Starts(s)) : Starts(s)[i].tag = "StartCast" /\ Starts(s)[i].session = s
  BY StartsTyped DEF SessionInv
<1>4. /\ channel' \in Seq(Message) /\ Len(channel') = Len(channel) + Len(Starts(s))
      /\ \A i \in 1 .. Len(channel) + Len(Starts(s)) :
            channel'[i] = IF i <= Len(channel) THEN channel[i] ELSE Starts(s)[i - Len(channel)]
  <2>1. \A t \in Seq(Message) :
           /\ channel \o t \in Seq(Message) /\ Len(channel \o t) = Len(channel) + Len(t)
           /\ \A i \in 1 .. Len(channel) + Len(t) :
                 (channel \o t)[i] = IF i <= Len(channel) THEN channel[i] ELSE t[i - Len(channel)]
    BY <1>2, ConcatProperties
  <2> QED
    BY <1>2, <1>3, <2>1, Zenon
<1>5. Len(channel) \in Nat /\ Len(Starts(s)) \in Nat /\ Len(channel') \in Nat
  BY <1>2, <1>3, <1>4, LenProperties
<1>6. Grows
  BY <1>4, <1>5 DEF Grows
<1>7. UNCHANGED <<casts, waiting, live, idles, todo, taking>>
  BY DEF start
<1>8. SessionTypeOK'
  BY <1>1, <1>4, <1>7 DEF SessionInv, SessionTypeOK
<1>9. LifeCycle'
  BY <1>1, <1>7 DEF LifeCycle, SessionInv
<1>10. ASSUME NEW r \in Session, NEW i \in 1 .. Len(channel'), i > Len(channel), StartAt(r, i)'
       PROVE  Standing(r)'
  <2>1. i - Len(channel) \in 1 .. Len(Starts(s)) /\ channel'[i] = Starts(s)[i - Len(channel)]
    BY <1>4, <1>5, <1>10
  <2>2. r = s
    BY <1>3, <1>10, <2>1 DEF StartAt
  <2>3. Len(old.streams) # 0
    BY <1>3, <2>1
  <2>4. old.streams # <<>>
    BY <2>3
  <2>5. old.registered
    BY <2>4 DEF start, SessionInv, LifeCycle
  <2> QED
    BY <1>1, <1>7, <2>2, <2>5 DEF start, Standing
<1>11. StartsAreFollowed'
  BY <1>1, <1>6, <1>7, <1>10, StartsStayFollowed DEF Standing
<1>12. TakingIsAnnounced'
  BY <1>6, <1>7, StopsStay DEF SessionInv, TakingIsAnnounced
<1>13. CastsAreFollowed' /\ TargetsAreFollowed'
  BY <1>1, <1>6, <1>7, CastsStayFollowed
<1> QED
  BY <1>8, <1>9, <1>11, <1>12, <1>13 DEF SessionInv

\* The message of a stop() comes after all StartCasts of its session.
LEMMA StopAnnounced ==
    ASSUME SessionInv, NEW s \in Session, channel' = Append(channel, StopCast(s))
    PROVE  /\ Grows /\ channel' \in Seq(Message)
           /\ StopComing(s)'
           /\ \A i \in 1 .. Len(channel) : StopAfter(s, i)'
           /\ \A r \in Session : \A i \in 1 .. Len(channel') : i > Len(channel) => ~StartAt(r, i)'
<1>1. /\ channel' \in Seq(Message)
      /\ Len(channel) \in Nat /\ Len(channel') = Len(channel) + 1
      /\ \A i \in 1 .. Len(channel) : channel'[i] = channel[i] /\ channel[i] \in Message
      /\ channel'[Len(channel) + 1] = StopCast(s)
  BY Appended, StopCastTyped DEF SessionInv
<1>2. StopCast(s).tag = "StopCast"
  BY DEF StopCast
<1>3. \A i \in 1 .. Len(channel') : i > Len(channel) => i = Len(channel) + 1
  BY <1>1
<1> QED
  BY <1>1, <1>2, <1>3 DEF Grows, StopComing, StopAfter, StopAt, StartAt

LEMMA StopEndsStep ==
    ASSUME SessionInv, NEW s \in Session, StopEnds(s)
    PROVE  SessionInv'
<1> DEFINE old == sessions[s]
           new == sessions'[s]
<1>1. /\ sessions' \in [Session -> SessionRecord]
      /\ \A r \in Session \ {s} : sessions'[r] = sessions[r]
      /\ new.registered = FALSE /\ new.stopped = old.stopped /\ new.call = "none" /\ old.call = "stopping"
  <2>1. <<>> \in Seq(StreamTargetId)
    BY EmptySeq
  <2> QED
    BY <2>1 DEF StopEnds, SessionRecord, SessionInv, SessionTypeOK
<1>2. channel' = Append(channel, StopCast(s)) /\ UNCHANGED <<casts, waiting, live, idles, todo, taking>>
  BY DEF StopEnds
<1>3. taking # s
  BY <1>1 DEF SessionInv, LifeCycle
<1>4. /\ Grows /\ channel' \in Seq(Message)
      /\ StopComing(s)'
      /\ \A i \in 1 .. Len(channel) : StopAfter(s, i)'
      /\ \A r \in Session : \A i \in 1 .. Len(channel') : i > Len(channel) => ~StartAt(r, i)'
  BY <1>2, StopAnnounced
<1>5. SessionTypeOK'
  BY <1>1, <1>2, <1>4 DEF SessionInv, SessionTypeOK
<1>6. LifeCycle'
  BY <1>1, <1>2, <1>3 DEF LifeCycle, SessionInv
<1>7. StartsAreFollowed'
  BY <1>1, <1>2, <1>4, StartsStayFollowed DEF Standing
<1>8. TakingIsAnnounced'
  BY <1>2, <1>4, StopsStay DEF SessionInv, TakingIsAnnounced
<1>9. CastsAreFollowed' /\ TargetsAreFollowed'
  BY <1>1, <1>2, <1>4, CastsStayFollowed
<1> QED
  BY <1>5, <1>6, <1>7, <1>8, <1>9 DEF SessionInv

-----------------------------------------------------------------------------
(***************************************************************************)
(* The compositor's steps.                                                 *)
(***************************************************************************)
LEMMA StopCastStep ==
    ASSUME SessionInv, NEW s \in Session, stop_cast_session(s)
    PROVE  SessionInv'
<1> DEFINE old == sessions[s]
           new == sessions'[s]
<1>1. /\ sessions' \in [Session -> SessionRecord]
      /\ \A r \in Session \ {s} : sessions'[r] = sessions[r]
      /\ new.registered = old.registered /\ new.call = old.call /\ new.streams = old.streams
      /\ old.stopped => new.stopped
      /\ \/ sessions' = sessions /\ UNCHANGED <<channel, taking>>
         \/ /\ old.registered /\ ~old.stopped /\ new.stopped = TRUE
            /\ channel' = Append(channel, StopCast(s)) /\ taking' = s
  BY ZenonT(60) DEF stop_cast_session, SessionRecord, SessionInv, SessionTypeOK
<1>2. /\ taking = NoSession /\ s \in todo /\ todo' = todo \ {s}
      /\ casts' = {c \in casts : c.session # s} /\ waiting' = waiting \ {s}
      /\ UNCHANGED <<live, idles>>
  BY DEF stop_cast_session, Drop
<1>3. /\ Grows /\ channel' \in Seq(Message)
      /\ taking' = s => StopComing(s)' /\ \A i \in 1 .. Len(channel) : StopAfter(s, i)'
      /\ \A r \in Session : \A i \in 1 .. Len(channel') : i > Len(channel) => ~StartAt(r, i)'
  <2>1. CASE UNCHANGED <<channel, taking>>
    <3>1. Grows /\ channel' \in Seq(Message) /\ taking' # s
      BY <1>2, <2>1, SameChannel, SessionAssumption DEF SessionInv, SessionTypeOK
    <3>2. \A i \in 1 .. Len(channel') : ~(i > Len(channel))
      BY <2>1, LenProperties DEF SessionInv, SessionTypeOK
    <3> QED
      BY <3>1, <3>2
  <2>2. CASE channel' = Append(channel, StopCast(s))
    BY <2>2, StopAnnounced
  <2> QED
    BY <1>1, <2>1, <2>2
<1>4. SessionTypeOK'
  BY <1>1, <1>2, <1>3 DEF SessionInv, SessionTypeOK
<1>5. LifeCycle'
  <2>1. old.call = "stopping" => old.stopped
    BY DEF SessionInv, LifeCycle
  <2>2. old.call = "stopping" => taking' = taking
    BY <1>1, <2>1
  <2> QED
    BY <1>1, <1>2, <2>1, <2>2, SessionAssumption DEF LifeCycle, SessionInv
<1>6. StartsAreFollowed'
  <2>1. ASSUME NEW r \in Session, NEW i \in 1 .. Len(channel), StartAt(r, i), Standing(r)
        PROVE  Standing(r)' \/ StopAfter(r, i)'
    <3>1. CASE r = s /\ taking' = s
      BY <1>3, <3>1
    <3>2. CASE ~(r = s /\ taking' = s)
      BY <1>1, <1>2, <2>1, <3>2, SessionAssumption DEF Standing
    <3> QED
      BY <3>1, <3>2
  <2> QED
    BY <1>3, <2>1, StartsStayFollowed
<1>7. TakingIsAnnounced'
  BY <1>1, <1>2, <1>3, SessionAssumption DEF TakingIsAnnounced
<1>8. \A r \in Session : r # s /\ Followed(r) => Followed(r)'
  BY <1>1, <1>2, <1>3, StopsStay DEF Followed
<1>9. CastsAreFollowed'
  BY <1>2, <1>8 DEF SessionInv, SessionTypeOK, CastsAreFollowed, Cast
<1>10. TargetsAreFollowed'
  BY <1>2 DEF SessionInv, TargetsAreFollowed
<1> QED
  BY <1>4, <1>5, <1>6, <1>7, <1>9, <1>10 DEF SessionInv

LEMMA StopTakesStep ==
    ASSUME SessionInv, StopTakesStreams
    PROVE  SessionInv'
<1>1. PICK s \in Session : taking = s
  BY DEF StopTakesStreams, SessionInv, SessionTypeOK
<1> DEFINE old == sessions[s]
           new == sessions'[s]
<1>2. /\ sessions' \in [Session -> SessionRecord]
      /\ \A r \in Session \ {s} : sessions'[r] = sessions[r]
      /\ new.registered = FALSE /\ new.stopped = old.stopped /\ new.call = old.call /\ new.streams = <<>>
  <2>1. <<>> \in Seq(StreamTargetId)
    BY EmptySeq
  <2> QED
    BY <1>1, <2>1 DEF StopTakesStreams, SessionRecord, SessionInv, SessionTypeOK
<1>3. UNCHANGED <<channel, casts, waiting, live, idles, todo>> /\ taking' = NoSession
  BY DEF StopTakesStreams
<1>4. Grows /\ \A r : StopComing(r)' = StopComing(r)
  BY <1>3, SameChannel
<1>5. StopComing(s)
  BY <1>1 DEF SessionInv, TakingIsAnnounced
<1>6. SessionTypeOK'
  BY <1>2, <1>3 DEF SessionInv, SessionTypeOK
<1>7. LifeCycle'
  BY <1>1, <1>2, <1>3, SessionAssumption DEF SessionInv, LifeCycle
<1>8. StartsAreFollowed'
  <2>1. \A r \in Session : Standing(r) => Standing(r)'
    BY <1>1, <1>2, <1>3, SessionAssumption DEF Standing
  <2> QED
    BY <1>3, <2>1, SameChannel
<1>9. TakingIsAnnounced'
  BY <1>3, SessionAssumption DEF TakingIsAnnounced
<1>10. CastsAreFollowed' /\ TargetsAreFollowed'
  BY <1>2, <1>3, <1>4, <1>5, CastsStayFollowed
<1> QED
  BY <1>6, <1>7, <1>8, <1>9, <1>10 DEF SessionInv

\* What is left when a message has been read.
LEMMA ReadChannel ==
    ASSUME SessionInv, MainIsIdle, channel # <<>>, channel' = Tail(channel), UNCHANGED <<sessions, taking>>
    PROVE  /\ channel' \in Seq(Message)
           /\ Head(channel) = channel[1] /\ Head(channel) \in Message
           /\ StartsAreFollowed' /\ TakingIsAnnounced' /\ LifeCycle'
           /\ \A s \in Session : StopComing(s) => StopComing(s)' \/ Head(channel) = StopCast(s)
           /\ \A s \in Session : Head(channel).tag = "StartCast" /\ Head(channel).session = s =>
                                    sessions[s].registered \/ StopComing(s)'
<1>1. /\ channel' \in Seq(Message)
      /\ Len(channel) \in Nat /\ Len(channel') = Len(channel) - 1
      /\ \A i \in 1 .. Len(channel') : channel'[i] = channel[i + 1]
      /\ Head(channel) = channel[1] /\ Head(channel) \in Message
      /\ 1 \in 1 .. Len(channel)
  BY Consumed DEF SessionInv
<1>2. \A j \in 1 .. Len(channel) : 1 < j => j - 1 \in 1 .. Len(channel') /\ channel'[j - 1] = channel[j]
  BY <1>1
<1>3. ASSUME NEW s \in Session, NEW i \in 1 .. Len(channel'), StartAt(s, i)'
      PROVE  Standing(s)' \/ StopAfter(s, i)'
  <2>1. i + 1 \in 1 .. Len(channel) /\ StartAt(s, i + 1)
    BY <1>1, <1>3 DEF StartAt
  <2>2. CASE Standing(s)
    BY <2>2 DEF Standing
  <2>3. CASE StopAfter(s, i + 1)
    <3>1. PICK j \in 1 .. Len(channel) : i + 1 < j /\ StopAt(s, j)
      BY <2>3 DEF StopAfter
    <3>2. j - 1 \in 1 .. Len(channel') /\ channel'[j - 1] = channel[j] /\ i < j - 1
      BY <1>1, <1>2, <3>1
    <3> QED
      BY <3>1, <3>2 DEF StopAfter, StopAt
  <2> QED
    BY <2>1, <2>2, <2>3 DEF SessionInv, StartsAreFollowed
<1>4. TakingIsAnnounced' /\ LifeCycle'
  BY SessionAssumption DEF MainIsIdle, TakingIsAnnounced, SessionInv, LifeCycle
<1>5. ASSUME NEW s \in Session, NEW j \in 1 .. Len(channel), 1 < j, StopAt(s, j)
      PROVE  StopComing(s)'
  BY <1>2, <1>5 DEF StopComing, StopAt
<1>6. ASSUME NEW s \in Session, StopComing(s)
      PROVE  StopComing(s)' \/ Head(channel) = StopCast(s)
  <2>1. PICK j \in 1 .. Len(channel) : StopAt(s, j)
    BY <1>6 DEF StopComing
  <2>2. j = 1 \/ 1 < j
    BY <1>1
  <2> QED
    BY <1>1, <1>5, <2>1, <2>2 DEF StopAt
<1>7. ASSUME NEW s \in Session, Head(channel).tag = "StartCast", Head(channel).session = s
      PROVE  sessions[s].registered \/ StopComing(s)'
  <2>1. StartAt(s, 1)
    BY <1>1, <1>7 DEF StartAt
  <2>2. Standing(s) \/ StopAfter(s, 1)
    BY <1>1, <2>1 DEF SessionInv, StartsAreFollowed
  <2> QED
    BY <1>5, <2>2 DEF Standing, StopAfter
<1> QED
  BY <1>1, <1>3, <1>4, <1>6, <1>7 DEF StartsAreFollowed

LEMMA OnStartCastStep ==
    ASSUME SessionInv, OnStartCast
    PROVE  SessionInv'
<1>1. /\ MainIsIdle /\ channel # <<>> /\ channel' = Tail(channel) /\ Head(channel).tag = "StartCast"
      /\ UNCHANGED <<sessions, live, idles, taking>>
      /\ todo = {}
  BY DEF OnStartCast, MainIsIdle
<1>2. PICK m \in Message : m = Head(channel)
  BY <1>1, ReadChannel
<1>3. PICK s \in Session : s = m.session
  BY DEF Message
<1>4. /\ channel' \in Seq(Message)
      /\ StartsAreFollowed' /\ TakingIsAnnounced' /\ LifeCycle'
      /\ \A r \in Session : StopComing(r) => StopComing(r)' \/ m = StopCast(r)
      /\ sessions[s].registered \/ StopComing(s)'
  BY <1>1, <1>2, <1>3, ReadChannel
<1>5. \A r \in Session : Followed(r) => Followed(r)'
  <2>1. \A r : m # StopCast(r)
    BY <1>1, <1>2 DEF StopCast
  <2> QED
    BY <1>1, <1>4, <2>1 DEF Followed
<1>6. Followed(s)'
  BY <1>1, <1>4 DEF Followed
<1>7. \/ waiting' = waiting \cup {s} /\ UNCHANGED <<casts, todo>>
      \/ /\ m.target \in live /\ UNCHANGED <<waiting, todo>>
         /\ casts' = casts \cup {[session |-> s, target |-> m.target, dynamic |-> FALSE]}
      \/ todo' = {s} /\ UNCHANGED <<casts, waiting>>
  BY <1>2, <1>3 DEF OnStartCast
<1>8. SessionTypeOK'
  <2>1. m.target \in live => [session |-> s, target |-> m.target, dynamic |-> FALSE] \in Cast
    BY DEF Cast, SessionInv, SessionTypeOK
  <2> QED
    BY <1>1, <1>4, <1>7, <2>1 DEF SessionInv, SessionTypeOK
<1>9. CastsAreFollowed'
  BY <1>5, <1>6, <1>7 DEF SessionInv, SessionTypeOK, CastsAreFollowed, Cast
<1>10. TargetsAreFollowed'
  BY <1>1, <1>7 DEF SessionInv, TargetsAreFollowed
<1> QED
  BY <1>4, <1>8, <1>9, <1>10 DEF SessionInv

LEMMA OnStopCastStep ==
    ASSUME SessionInv, OnStopCast
    PROVE  SessionInv'
<1> DEFINE m == Head(channel)
<1>1. /\ MainIsIdle /\ channel # <<>> /\ channel' = Tail(channel) /\ todo' = {m.session}
      /\ UNCHANGED <<sessions, casts, waiting, live, idles, taking>>
      /\ todo = {}
  BY DEF OnStopCast, MainIsIdle
<1>2. /\ channel' \in Seq(Message)
      /\ m \in Message
      /\ StartsAreFollowed' /\ TakingIsAnnounced' /\ LifeCycle'
      /\ \A r \in Session : StopComing(r) => StopComing(r)' \/ m = StopCast(r)
  BY <1>1, ReadChannel
<1>3. \A r : StopCast(r).session = r
  BY DEF StopCast
<1>4. \A r \in Session : Followed(r) => Followed(r)'
  BY <1>1, <1>2, <1>3 DEF Followed
<1>5. SessionTypeOK'
  BY <1>1, <1>2 DEF SessionInv, SessionTypeOK, Message
<1>6. CastsAreFollowed'
  BY <1>1, <1>4 DEF SessionInv, SessionTypeOK, CastsAreFollowed, Cast
<1>7. TargetsAreFollowed'
  BY <1>1 DEF SessionInv, TargetsAreFollowed
<1> QED
  BY <1>2, <1>5, <1>6, <1>7 DEF SessionInv

\* A turn of the compositor that leaves the bus and the channel alone and starts with nothing
\* left to stop.
LEMMA TurnStep ==
    ASSUME SessionInv, UNCHANGED <<sessions, channel, taking>>, todo = {},
           todo' \subseteq Session, live' \subseteq Target, idles' \in BOOLEAN,
           waiting' \subseteq waiting, casts' \subseteq Cast,
           \A c \in casts' : \/ c \in casts
                             \/ \E d \in casts : d.session = c.session
                             \/ c.session \in waiting,
           TargetsAreFollowed'
    PROVE  SessionInv'
<1>1. \A s \in Session : Followed(s) => Followed(s)'
  BY SameChannel DEF Followed
<1>2. CastsAreFollowed'
  BY <1>1 DEF SessionInv, SessionTypeOK, CastsAreFollowed, Cast
<1>3. StartsAreFollowed' /\ TakingIsAnnounced'
  BY SameChannel DEF Standing, SessionInv, TakingIsAnnounced
<1> QED
  BY <1>2, <1>3 DEF SessionInv, SessionTypeOK, LifeCycle

\* The casts after the dynamic target was set are those of before, those that moved, and new
\* ones of waiting sessions.
LEMMA SetTargetStep ==
    ASSUME SessionInv, MainIsIdle, NEW t \in live \cup {NoTarget}, set_dynamic_cast_target(t),
           UNCHANGED <<sessions, channel, live, taking>>,
           idles' \in BOOLEAN, t = NoTarget \/ idles' = idles
    PROVE  SessionInv'
<1>1. PICK moved \in SUBSET {c \in casts : c.dynamic}, started \in SUBSET waiting :
          /\ t = NoTarget => moved = {c \in casts : c.dynamic}
          /\ t \notin live => started = {}
          /\ casts' = (casts \ moved) \cup {[c EXCEPT !.target = t] : c \in moved}
                        \cup {[session |-> s, target |-> t, dynamic |-> TRUE] : s \in started}
          /\ IF t \in live THEN waiting' = {} /\ todo' = waiting \ started
             ELSE UNCHANGED <<waiting, todo>>
  BY DEF set_dynamic_cast_target
<1>2. todo = {}
  BY DEF MainIsIdle
<1>3. casts \subseteq Cast /\ waiting \subseteq Session /\ live \subseteq Target
  BY DEF SessionInv, SessionTypeOK
<1>4. ASSUME NEW c \in casts'
      PROVE  /\ c \in Cast
             /\ \/ c \in casts /\ c \notin moved
                \/ c.target = t /\ \E d \in casts : d.session = c.session
                \/ c.target = t /\ c.session \in waiting
  <2>1. CASE c \in casts /\ c \notin moved
    BY <1>3, <2>1
  <2>2. ASSUME NEW d \in moved, c = [d EXCEPT !.target = t]
        PROVE  c \in Cast /\ c.target = t /\ d \in casts /\ d.session = c.session
    BY <1>3, <2>2 DEF Cast
  <2>3. ASSUME NEW s \in started, c = [session |-> s, target |-> t, dynamic |-> TRUE]
        PROVE  c \in Cast /\ c.target = t /\ c.session \in waiting
    BY <1>3, <2>3 DEF Cast
  <2> QED
    BY <1>1, <2>1, <2>2, <2>3
<1>5. TargetsAreFollowed'
  <2>1. ASSUME NEW c \in casts, c \notin moved
        PROVE  c.target \in live \cup {NoTarget} \/ (c.dynamic /\ idles')
    <3>1. c.target \in live \cup {NoTarget} \/ (c.dynamic /\ idles)
      BY <1>2 DEF SessionInv, TargetsAreFollowed
    <3> QED
      BY <1>1, <2>1, <3>1
  <2> QED
    BY <1>4, <2>1 DEF TargetsAreFollowed
<1>6. waiting' \subseteq waiting /\ todo' \subseteq Session
  BY <1>1, <1>2, <1>3
<1> QED
  BY <1>2, <1>3, <1>4, <1>5, <1>6, TurnStep

\* An output or a window goes away, or appears.
LEMMA LiveStep ==
    ASSUME SessionInv, NEW t \in Target, Appears(t) \/ Disappears(t)
    PROVE  SessionInv'
<1>1. /\ todo = {} /\ UNCHANGED <<sessions, channel, casts, waiting, taking>>
      /\ casts \subseteq Cast /\ live' \subseteq Target /\ idles' \in BOOLEAN /\ todo' \subseteq Session
  BY DEF Appears, Disappears, MainIsIdle, stop_casts_for_target, SessionInv, SessionTypeOK, Cast
<1>2. TargetsAreFollowed'
  <2>1. \A c \in casts : c.target \in live \cup {NoTarget} \/ (c.dynamic /\ idles)
    BY <1>1 DEF SessionInv, TargetsAreFollowed
  <2>2. CASE Appears(t)
    BY <2>1, <2>2 DEF Appears, TargetsAreFollowed
  <2>3. CASE Disappears(t)
    BY <2>1, <2>3 DEF Disappears, stop_casts_for_target, TargetsAreFollowed
  <2> QED
    BY <2>2, <2>3
<1> QED
  BY <1>1, <1>2, TurnStep

\* What PipeWire says only sets sessions to be stopped.
LEMMA PipeWireStep ==
    ASSUME SessionInv, (\E s \in Session : OnPwStop(s)) \/ OnPwFatalError
    PROVE  SessionInv'
<1>1. /\ todo = {} /\ UNCHANGED <<sessions, channel, casts, waiting, live, idles, taking>>
      /\ casts \subseteq Cast /\ live \subseteq Target /\ idles \in BOOLEAN /\ todo' \subseteq Session
  BY DEF OnPwStop, OnPwFatalError, MainIsIdle, SessionInv, SessionTypeOK, Cast
<1>2. TargetsAreFollowed'
  BY <1>1 DEF SessionInv, TargetsAreFollowed
<1> QED
  BY <1>1, <1>2, TurnStep

\* Every step keeps the invariant.
LEMMA SessionStep == ASSUME ~StartInBetween, SessionInv, [SessionNext]_sessionVars PROVE SessionInv'
<1>1. ASSUME NEW s \in Session,
             create_session(s) \/ StopBegins(s) \/ \E call \in {"record", "start", "stop"} : CallArrives(s, call)
      PROVE  SessionInv'
  BY <1>1, CallStep
<1>2. ASSUME NEW s \in Session, start(s) PROVE SessionInv'
  BY <1>2, StartStep
<1>3. ASSUME NEW s \in Session, StopEnds(s) PROVE SessionInv'
  BY <1>3, StopEndsStep
<1>4. ASSUME NEW s \in Session, NEW t \in StreamTargetId, Record(s, t) PROVE SessionInv'
  BY <1>4, RecordStep
<1>5. ASSUME NEW s \in Session, stop_cast_session(s) PROVE SessionInv'
  BY <1>5, StopCastStep
<1>6. CASE StopTakesStreams
  BY <1>6, StopTakesStep
<1>7. CASE OnStartCast
  BY <1>7, OnStartCastStep
<1>8. CASE OnStopCast
  BY <1>8, OnStopCastStep
<1>9. CASE (\E s \in Session : OnPwStop(s)) \/ OnPwFatalError
  BY <1>9, PipeWireStep
<1>10. CASE ClearDynamicTargetIdle
  <2>1. /\ MainIsIdle /\ NoTarget \in live \cup {NoTarget} /\ set_dynamic_cast_target(NoTarget)
        /\ UNCHANGED <<sessions, channel, live, taking>> /\ idles' \in BOOLEAN
    BY <1>10 DEF ClearDynamicTargetIdle
  <2> QED
    BY <2>1, SetTargetStep
<1>11. ASSUME NEW t \in Target \cup {NoTarget}, SetDynamicTarget(t) PROVE SessionInv'
  <2>1. /\ MainIsIdle /\ t \in live \cup {NoTarget} /\ set_dynamic_cast_target(t)
        /\ UNCHANGED <<sessions, channel, live, taking>> /\ idles' = idles /\ idles' \in BOOLEAN
    BY <1>11 DEF SetDynamicTarget, SessionInv, SessionTypeOK
  <2> QED
    BY <2>1, SetTargetStep
<1>12. ASSUME NEW t \in Target, Appears(t) \/ Disappears(t) PROVE SessionInv'
  BY <1>12, LiveStep
<1>13. CASE UNCHANGED sessionVars
  <2>1. UNCHANGED <<sessions, channel, casts, waiting, live, idles, todo, taking>>
    BY <1>13 DEF sessionVars
  <2>2. SessionTypeOK' /\ LifeCycle' /\ \A s \in Session : sessions[s].registered => sessions'[s].registered
    BY <2>1 DEF SessionInv, SessionTypeOK, LifeCycle
  <2> QED
    BY <2>1, <2>2, QuietStep
<1> QED
  BY <1>1, <1>2, <1>3, <1>4, <1>5, <1>6, <1>7, <1>8, <1>9, <1>10, <1>11, <1>12, <1>13 DEF SessionNext

LEMMA SessionInitially == SessionInit => SessionInv
<1> SUFFICES ASSUME SessionInit PROVE SessionInv
  OBVIOUS
<1>1. sessions \in [Session -> SessionRecord]
  <2>1. <<>> \in Seq(StreamTargetId)
    BY EmptySeq
  <2> QED
    BY <2>1 DEF SessionInit, SessionRecord
<1>2. channel \in Seq(Message) /\ Len(channel) = 0
  BY EmptySeq DEF SessionInit
<1>3. SessionTypeOK
  BY <1>1, <1>2 DEF SessionInit, SessionTypeOK, Target
<1>4. LifeCycle
  BY SessionAssumption DEF SessionInit, LifeCycle
<1>5. StartsAreFollowed /\ TakingIsAnnounced
  BY <1>2, SessionAssumption DEF SessionInit, StartsAreFollowed, TakingIsAnnounced
<1>6. CastsAreFollowed /\ TargetsAreFollowed
  BY DEF SessionInit, CastsAreFollowed, TargetsAreFollowed
<1> QED
  BY <1>3, <1>4, <1>5, <1>6 DEF SessionInv

\* Every cast has somebody to stop it and something to show, when a call of Start() is not
\* served in the middle of the compositor's stop() of the same session (stop_cast, Session::stop,
\* on_screen_cast_msg, stop_casts_for_target).
THEOREM SessionSafety == ASSUME ~StartInBetween PROVE SessionSpec => []CastsAreLive
<1>1. SessionInv => CastsAreLive
  <2> SUFFICES ASSUME SessionInv PROVE CastsHaveSessions /\ CastTargetsLive
    BY DEF CastsAreLive
  <2>1. \A s \in Session : StopComing(s) => WillStop(s)
    <3>1. DOMAIN channel = 1 .. Len(channel)
      BY LenProperties DEF SessionInv, SessionTypeOK
    <3> QED
      BY <3>1 DEF StopComing, StopAt, WillStop
  <2>2. \A s \in Session : Followed(s) => sessions[s].registered \/ WillStop(s)
    BY <2>1 DEF Followed, WillStop
  <2>3. CastsHaveSessions
    BY <2>2 DEF SessionInv, SessionTypeOK, CastsAreFollowed, CastsHaveSessions, Cast
  <2>4. CastTargetsLive
    BY DEF SessionInv, TargetsAreFollowed, CastTargetsLive, WillStop
  <2> QED
    BY <2>3, <2>4
<1>2. SessionInv /\ [SessionNext]_sessionVars => SessionInv'
  BY SessionStep
<1> QED
  BY SessionInitially, <1>1, <1>2, PTL DEF SessionSpec

-----------------------------------------------------------------------------
(***************************************************************************)
(* The stream of a cast.                                                   *)
(***************************************************************************)
Rendered == [buffer : Buffer, seq : Nat, fence : {"running", "reached"}, size : Size]

CastType ==
    [state : [tag : {"ResizePending", "ConfirmationPending", "Ready"}, size : Size], is_active : BOOLEAN,
     stopped : BOOLEAN, damaged : BOOLEAN, timer : {"none", "armed", "fired"}, slower : BOOLEAN,
     rendering : Seq(Rendered), seq : Nat]

PwType ==
    [offers : Seq([size : Size, fixated : BOOLEAN]), size : Size \cup {"none"}, settled : BOOLEAN,
     streaming : BOOLEAN]

StreamTypeOK ==
    /\ cast \in CastType
    /\ output \in Size
    /\ redraw \in BOOLEAN
    /\ pw \in PwType
    /\ buffers \in [Buffer -> Size \cup {"none"}]
    /\ free \subseteq Buffer
    /\ last \in [seq : Nat, ordered : BOOLEAN]

\* Whatever memory there is was allocated for the format that PipeWire has settled on.
MemoryFits ==
    /\ \A b \in Buffer : buffers[b] # "none" => pw.settled /\ buffers[b] = pw.size
    /\ \A b \in free : buffers[b] # "none"
    /\ pw.settled /\ cast.state.tag = "Ready" => cast.state.size = pw.size

\* The frames r that are being rendered while the last one queued is l and the newest one n.
InOrder(r, l, n) ==
    /\ l <= n
    /\ \A i \in 1 .. Len(r) : l < r[i].seq /\ r[i].seq <= n
    /\ \A i, j \in 1 .. Len(r) : i < j => r[i].seq < r[j].seq

\* DamageGetsOut, also while the consumer has all the buffers.
DamageIsSeen ==
    cast.is_active /\ cast.state.tag = "Ready" /\ cast.damaged /\ (\E b \in Buffer : buffers[b] # "none") =>
        redraw \/ cast.timer = "armed" \/ (cast.timer = "fired" /\ cast.slower)

StreamInv ==
    /\ StreamTypeOK
    /\ cast.is_active = pw.streaming
    /\ MemoryFits /\ FramesFit
    /\ InOrder(cast.rendering, last.seq, cast.seq) /\ FramesFlow
    /\ DamageIsSeen

\* Naturals have a least element.
LEMMA LeastNumber ==
    ASSUME NEW T, T \subseteq Nat, T # {}
    PROVE  \E n \in T : \A m \in T : n <= m
<1>1. \E n \in T : \A m \in T : ~(<<m, n>> \in OpToRel(<, Nat))
  BY NatLessThanWellFounded, WFMin, Zenon
<1>2. PICK n \in T : \A m \in T : ~(<<m, n>> \in OpToRel(<, Nat))
  BY <1>1
<1>3. \A m \in T : ~(m < n)
  BY <1>2, Zenon DEF OpToRel
<1>. QED  BY <1>3

\* The list left of r: what follows its first k frames, which are all finished.
LeftAfter(r, left, k) ==
    /\ left \in Seq(Rendered) /\ Len(left) = Len(r) - k
    /\ \A i \in 1 .. Len(r) - k : left[i] = r[i + k]
    /\ k < Len(r) => r[k + 1].fence = "running"
    /\ k = Len(r) => left = <<>>
    /\ k = 0 => left = r
    /\ \A i \in 1 .. k : r[i].fence # "running"

LEMMA Uncompleted ==
    ASSUME NEW r \in Seq(Rendered)
    PROVE  \E k \in 0 .. Len(r) : LeftAfter(r, queue_completed_buffers(r), k)
<1>1. PICK running : running = {i \in DOMAIN r : r[i].fence = "running"}
  OBVIOUS
<1>2. DOMAIN r = 1 .. Len(r) /\ Len(r) \in Nat
  BY LenProperties
<1>3. CASE running = {}
  <2>1. queue_completed_buffers(r) = <<>>
    BY <1>1, <1>3 DEF queue_completed_buffers
  <2>2. \A i \in 1 .. Len(r) : r[i].fence # "running"
    BY <1>1, <1>2, <1>3
  <2>3. Len(r) = 0 => r = <<>>
    BY EmptySeq
  <2>4. LeftAfter(r, queue_completed_buffers(r), Len(r))
    BY <1>2, <2>1, <2>2, <2>3 DEF LeftAfter
  <2>. QED  BY <1>2, <2>4
<1>4. CASE running # {}
  <2>1. running \subseteq Nat
    BY <1>1, <1>2
  <2>2. PICK n : n = CHOOSE i \in running : \A j \in running : i <= j
    OBVIOUS
  <2>3. n \in running /\ \A j \in running : n <= j
    BY <1>4, <2>1, <2>2, LeastNumber
  <2>4. n \in 1 .. Len(r) /\ r[n].fence = "running" /\ \A i \in 1 .. Len(r) : i < n => r[i].fence # "running"
    BY <1>1, <1>2, <2>1, <2>3
  <2>5. PICK left : left = SubSeq(r, n, Len(r))
    OBVIOUS
  <2>6. queue_completed_buffers(r) = left
    BY <1>1, <1>4, <2>2, <2>5 DEF queue_completed_buffers
  <2>7. left \in Seq(Rendered) /\ Len(left) = Len(r) - n + 1 /\ \A i \in 1 .. Len(r) - n + 1 : left[i] = r[n + i - 1]
    BY <1>2, <2>4, <2>5, SubSeqProperties
  <2>8. n = 1 => left = r
    BY <1>2, <2>7, SeqEqual
  <2>9. PICK k : k = n - 1
    OBVIOUS
  <2>10. k \in 0 .. Len(r) /\ k < Len(r) /\ n = k + 1
    BY <1>2, <2>4, <2>9
  <2>11. \A i \in 1 .. Len(r) - k : left[i] = r[i + k]
    BY <1>2, <2>7, <2>10
  <2>12. \A i \in 1 .. k : r[i].fence # "running"
    BY <1>2, <2>4, <2>10
  <2>13a. Len(left) = Len(r) - k
    BY <1>2, <2>7, <2>10
  <2>13b. k = 0 => left = r
    BY <2>8, <2>10
  <2>13c. k = Len(r) => FALSE
    BY <1>2, <2>10
  <2>14. LeftAfter(r, left, k)
    BY <2>4, <2>7, <2>10, <2>11, <2>12, <2>13a, <2>13b, <2>13c DEF LeftAfter
  <2>. QED  BY <2>6, <2>10, <2>14
<1>. QED  BY <1>3, <1>4

\* The sequence numbers of the frames that were queued.
Gone(r, left) == {r[i].seq : i \in DOMAIN r} \ {left[i].seq : i \in DOMAIN left}

\* Queueing what is finished at the head of the list keeps the order.
LEMMA QueuedInOrder ==
    ASSUME NEW r \in Seq(Rendered), NEW l \in Nat, NEW n \in Nat, InOrder(r, l, n),
           NEW left, left = queue_completed_buffers(r), NEW gone, gone = Gone(r, left)
    PROVE  /\ left \in Seq(Rendered)
           /\ \A i \in 1 .. Len(left) : \E j \in 1 .. Len(r) : left[i] = r[j]
           /\ left = <<>> \/ left[1].fence = "running"
           /\ \A s \in gone : s > l
           /\ gone = {} => InOrder(left, l, n)
           /\ gone # {} => \E m \in Nat : /\ m = CHOOSE s \in gone : \A t \in gone : s >= t
                                          /\ InOrder(left, m, n)
<1>0. DOMAIN r = 1 .. Len(r) /\ Len(r) \in Nat /\ \A i \in 1 .. Len(r) : r[i] \in Rendered
  BY LenProperties, ElementOfSeq
<1>1. PICK k \in 0 .. Len(r) : LeftAfter(r, left, k)
  BY Uncompleted
<1>2. /\ left \in Seq(Rendered) /\ Len(left) = Len(r) - k /\ DOMAIN left = 1 .. Len(r) - k
      /\ \A i \in 1 .. Len(r) - k : left[i] = r[i + k]
  BY <1>0, <1>1, LenProperties DEF LeftAfter
<1>3. \A i \in 1 .. Len(r) : r[i].seq \in Nat /\ l < r[i].seq /\ r[i].seq <= n
  BY <1>0 DEF InOrder, Rendered
<1>4. \A i, j \in 1 .. Len(r) : i < j => r[i].seq < r[j].seq
  BY DEF InOrder
<1>5. gone = {r[i].seq : i \in 1 .. k}
  <2>1. ASSUME NEW i \in 1 .. k PROVE r[i].seq \in gone
    <3>1. i \in 1 .. Len(r) /\ r[i].seq \in {r[j].seq : j \in DOMAIN r}
      BY <1>0
    <3>2. ASSUME NEW j \in 1 .. Len(r) - k PROVE left[j].seq # r[i].seq
      BY <3>1, <1>0, <1>2, <1>3, <1>4
    <3>. QED  BY <3>1, <3>2, <1>2 DEF Gone
  <2>2. ASSUME NEW s \in gone PROVE s \in {r[i].seq : i \in 1 .. k}
    <3>1. PICK i \in 1 .. Len(r) : s = r[i].seq
      BY <1>0 DEF Gone
    <3>2. CASE i > k
      <4>1. i - k \in 1 .. Len(r) - k /\ left[i - k] = r[i]
        BY <3>1, <3>2, <1>0, <1>2
      <4>. QED  BY <4>1, <3>1, <1>2 DEF Gone
    <3>. QED  BY <3>1, <3>2, <1>0
  <2>. QED  BY <2>1, <2>2
<1>6. \A i \in 1 .. Len(left) : i + k \in 1 .. Len(r) /\ left[i] = r[i + k]
  BY <1>0, <1>2
<1>7. left = <<>> \/ left[1].fence = "running"
  <2>1. CASE k = Len(r)
    BY <2>1, <1>1 DEF LeftAfter
  <2>2. CASE k < Len(r)
    <3>1. PICK frame : frame = r[k + 1]
      OBVIOUS
    <3>2. frame.fence = "running"
      BY <2>2, <3>1, <1>1 DEF LeftAfter
    <3>3. frame = left[1]
      BY <2>2, <3>1, <1>0, <1>2
    <3>. QED  BY <3>2, <3>3
  <2>3. k = Len(r) \/ k < Len(r)
    BY LenProperties
  <2>. QED  BY <2>1, <2>2, <2>3, Zenon
<1>8. \A s \in gone : s > l
  BY <1>0, <1>3, <1>5
<1>9. ASSUME gone = {} PROVE InOrder(left, l, n)
  BY <1>0, <1>2, <1>3, <1>4, <1>6 DEF InOrder
<1>10. ASSUME gone # {} PROVE \E m \in Nat : /\ m = CHOOSE s \in gone : \A t \in gone : s >= t
                                             /\ InOrder(left, m, n)
  <2>1. k \in 1 .. Len(r)
    BY <1>5, <1>10, <1>0
  <2>2. PICK m : m = r[k].seq
    OBVIOUS
  <2>3. m \in Nat /\ m \in gone /\ \A t \in gone : m >= t
    BY <2>1, <2>2, <1>0, <1>3, <1>4, <1>5
  <2>4. gone \subseteq Nat
    BY <1>0, <1>3, <1>5
  <2>5. m = CHOOSE s \in gone : \A t \in gone : s >= t
    BY <2>3, <2>4
  <2>6. InOrder(left, m, n)
    <3>1. m <= n
      BY <2>1, <2>2, <1>3
    <3>2. ASSUME NEW i \in 1 .. Len(left) PROVE m < left[i].seq /\ left[i].seq <= n
      <4>1. i + k \in 1 .. Len(r) /\ left[i] = r[i + k] /\ k < i + k
        BY <2>1, <1>0, <1>6
      <4>. QED  BY <4>1, <2>1, <2>2, <1>3, <1>4
    <3>3. ASSUME NEW i \in 1 .. Len(left), NEW j \in 1 .. Len(left), i < j PROVE left[i].seq < left[j].seq
      <4>1. i + k < j + k
        BY <3>3, <1>2, <1>0
      <4>. QED  BY <4>1, <1>4, <1>6
    <3>. QED  BY <3>1, <3>2, <3>3 DEF InOrder
  <2>. QED  BY <2>3, <2>5, <2>6
<1>11. \A i \in 1 .. Len(left) : \E j \in 1 .. Len(r) : left[i] = r[j]
  BY <1>6
<1>. QED  BY <1>2, <1>7, <1>8, <1>9, <1>10, <1>11


-----------------------------------------------------------------------------
(***************************************************************************)
(* The steps.                                                              *)
(***************************************************************************)
\* The buffers are gone, and with them the frames that were being rendered.
LEMMA EmptiedStep ==
    ASSUME StreamInv, cast' \in CastType, pw' \in PwType, UNCHANGED <<output, redraw, last>>,
           cast'.rendering = <<>>, cast'.seq = cast.seq,
           cast'.is_active = cast.is_active, pw'.streaming = pw.streaming,
           pw'.settled /\ cast'.state.tag = "Ready" => cast'.state.size = pw'.size,
           buffers' = [b \in Buffer |-> "none"], free' = {}
    PROVE  StreamInv'
<1>1. StreamTypeOK' /\ cast'.is_active = pw'.streaming
  BY DEF StreamInv, StreamTypeOK
<1>2. MemoryFits'
  BY DEF MemoryFits
<1>3. FramesFit' /\ FramesFlow'
  BY DEF FramesFit, StreamInv, FramesFlow
<1>4. InOrder(cast'.rendering, last'.seq, cast'.seq)
  BY DEF InOrder, StreamInv
<1>5. DamageIsSeen'
  BY DEF DamageIsSeen
<1>. QED  BY <1>1, <1>2, <1>3, <1>4, <1>5 DEF StreamInv

\* The memory and the frames that are being rendered stay what they are.
LEMMA SameFramesStep ==
    ASSUME StreamInv, cast' \in CastType, pw' \in PwType, output' \in Size, redraw' \in BOOLEAN,
           UNCHANGED <<buffers, last>>, cast'.rendering = cast.rendering, cast'.seq = cast.seq,
           pw'.size = pw.size, pw'.settled = pw.settled, cast'.is_active = pw'.streaming,
           cast'.state.tag = "Ready" => cast'.state = cast.state,
           \A b \in free' : b \in Buffer /\ buffers[b] # "none",
           DamageIsSeen'
    PROVE  StreamInv'
<1>1. StreamTypeOK'
  BY DEF StreamInv, StreamTypeOK
<1>2. MemoryFits'
  BY DEF StreamInv, MemoryFits
<1>3. FramesFit' /\ FramesFlow'
  BY DEF FramesFit, StreamInv, FramesFlow
<1>4. InOrder(cast'.rendering, last'.seq, cast'.seq)
  BY DEF StreamInv
<1>. QED  BY <1>1, <1>2, <1>3, <1>4 DEF StreamInv

\* An offer is a size, and answering it leaves a list of offers.
LEMMA OffersLeft ==
    ASSUME StreamTypeOK, NEW n \in DOMAIN pw.offers
    PROVE  /\ pw.offers[n].size \in Size /\ pw.offers[n].fixated \in BOOLEAN
           /\ SubSeq(pw.offers, n + 1, Len(pw.offers)) \in Seq([size : Size, fixated : BOOLEAN])
<1>. PICK offers : offers = pw.offers
  OBVIOUS
<1>1. offers \in Seq([size : Size, fixated : BOOLEAN]) /\ n \in DOMAIN offers
  BY DEF StreamTypeOK, PwType
<1>2. n \in 1 .. Len(offers) /\ Len(offers) \in Nat
  BY <1>1, LenProperties
<1>3. offers[n] \in [size : Size, fixated : BOOLEAN]
  BY <1>1, <1>2, ElementOfSeq
<1>4. SubSeq(offers, n + 1, Len(offers)) \in Seq([size : Size, fixated : BOOLEAN])
  <2>1. \A i \in n + 1 .. Len(offers) : i \in 1 .. Len(offers)
    BY <1>2
  <2>2. \A i \in n + 1 .. Len(offers) : offers[i] \in [size : Size, fixated : BOOLEAN]
    BY <1>1, <2>1, ElementOfSeq
  <2>. QED  BY <1>1, <1>2, <2>1, <2>2, SubSeqProperties
<1>. QED  BY <1>3, <1>4

LEMMA NoFrames == <<>> \in Seq(Rendered)
  BY EmptySeq

LEMMA TheFrames ==
    ASSUME StreamTypeOK
    PROVE  /\ cast.rendering \in Seq(Rendered)
           /\ \A i \in DOMAIN cast.rendering : cast.rendering[i] \in Rendered
<1>1. cast.rendering \in Seq(Rendered)
  BY DEF StreamTypeOK, CastType
<1>2. PICK r : r = cast.rendering
  OBVIOUS
<1>3. \A i \in DOMAIN r : r[i] \in Rendered
  BY <1>1, <1>2, ElementOfSeq, LenProperties
<1>. QED  BY <1>1, <1>2, <1>3

LEMMA SlowerOrNot ==
    ASSUME StreamTypeOK
    PROVE  Slower \subseteq BOOLEAN
  BY DEF StreamTypeOK, CastType, Slower

LEMMA FixateStep ==
    ASSUME StreamInv, NEW n \in DOMAIN pw.offers, FixateModifier(n)
    PROVE  StreamInv'
<1>1. PICK size, offers : size = pw.offers[n].size /\ offers = SubSeq(pw.offers, n + 1, Len(pw.offers))
  OBVIOUS
<1>2. size \in Size /\ offers \in Seq([size : Size, fixated : BOOLEAN])
  BY <1>1, OffersLeft DEF StreamInv
<1>3. PICK more : more = Append(offers, Offer(size, TRUE))
  OBVIOUS
<1>4. more \in Seq([size : Size, fixated : BOOLEAN])
  BY <1>2, <1>3, AppendProperties DEF Offer
<1>5. pw' = [pw EXCEPT !.offers = more, !.size = size, !.settled = FALSE]
  BY <1>1, <1>3 DEF FixateModifier
<1>6. PICK slower \in BOOLEAN :
          cast' = [cast EXCEPT !.state = State("ConfirmationPending", size), !.rendering = <<>>, !.slower = slower]
  BY <1>1, SlowerOrNot DEF FixateModifier, StreamInv
<1>7. cast' \in CastType /\ pw' \in PwType
  BY <1>2, <1>4, <1>5, <1>6, NoFrames DEF StreamInv, StreamTypeOK, CastType, PwType, State
<1>8. /\ cast'.rendering = <<>> /\ cast'.seq = cast.seq /\ cast'.is_active = cast.is_active
      /\ pw'.streaming = pw.streaming /\ pw'.settled = FALSE
  BY <1>5, <1>6 DEF StreamInv, StreamTypeOK, CastType, PwType
<1>. QED  BY <1>7, <1>8, EmptiedStep DEF FixateModifier

LEMMA ReadyStep ==
    ASSUME StreamInv, NEW n \in DOMAIN pw.offers, FormatReady(n)
    PROVE  StreamInv'
<1>1. PICK size, offers : size = pw.offers[n].size /\ offers = SubSeq(pw.offers, n + 1, Len(pw.offers))
  OBVIOUS
<1>2. size \in Size /\ offers \in Seq([size : Size, fixated : BOOLEAN])
  BY <1>1, OffersLeft DEF StreamInv
<1>3. size = cast.state.size
  BY <1>1 DEF FormatReady, expected_format_size
<1>4. pw' = [pw EXCEPT !.offers = offers, !.size = size, !.settled = TRUE]
  BY <1>1 DEF FormatReady
<1>5. PICK seen : seen = (cast.damaged \/ cast.state.tag # "Ready")
  OBVIOUS
<1>6. PICK slower \in BOOLEAN :
          cast' = [cast EXCEPT !.state = State("Ready", size), !.damaged = seen, !.rendering = <<>>, !.slower = slower]
  BY <1>1, <1>3, <1>5, SlowerOrNot DEF FormatReady, StreamInv
<1>7. seen \in BOOLEAN
  BY <1>5 DEF StreamInv, StreamTypeOK, CastType
<1>8. cast' \in CastType /\ pw' \in PwType
  BY <1>2, <1>4, <1>6, <1>7, NoFrames DEF StreamInv, StreamTypeOK, CastType, PwType, State
<1>9. /\ cast'.rendering = <<>> /\ cast'.seq = cast.seq /\ cast'.is_active = cast.is_active
      /\ cast'.state.size = size /\ pw'.streaming = pw.streaming /\ pw'.size = size
  BY <1>4, <1>6 DEF StreamInv, StreamTypeOK, CastType, PwType, State
<1>. QED  BY <1>8, <1>9, EmptiedStep DEF FormatReady

LEMMA WrongSizeStep ==
    ASSUME StreamInv, NEW n \in DOMAIN pw.offers, WrongSize(n)
    PROVE  StreamInv'
<1>1. PICK size, offers : size = pw.offers[n].size /\ offers = SubSeq(pw.offers, n + 1, Len(pw.offers))
  OBVIOUS
<1>2. size \in Size /\ offers \in Seq([size : Size, fixated : BOOLEAN])
  BY <1>1, OffersLeft DEF StreamInv
<1>3. pw' = [pw EXCEPT !.offers = offers, !.size = size, !.settled = FALSE]
  BY <1>1 DEF WrongSize, Negotiated
<1>4. \/ cast' = [cast EXCEPT !.rendering = <<>>]
      \/ cast' = [cast EXCEPT !.stopped = TRUE, !.rendering = <<>>]
  BY DEF WrongSize
<1>5. cast' \in CastType /\ pw' \in PwType
  BY <1>2, <1>3, <1>4, NoFrames DEF StreamInv, StreamTypeOK, CastType, PwType
<1>6. cast'.rendering = <<>> /\ cast'.seq = cast.seq /\ cast'.is_active = cast.is_active
  BY <1>4, ZenonT(60) DEF StreamInv, StreamTypeOK, CastType
<1>7. pw'.streaming = pw.streaming /\ pw'.settled = FALSE
  BY <1>3 DEF StreamInv, StreamTypeOK, PwType
<1>. QED  BY <1>5, <1>6, <1>7, EmptiedStep DEF WrongSize, Negotiated

LEMMA RemoveBufferStep ==
    ASSUME StreamInv, remove_buffer
    PROVE  StreamInv'
<1>1. cast' = [cast EXCEPT !.rendering = <<>>] /\ pw' = pw
  BY DEF remove_buffer
<1>2. cast' \in CastType /\ pw' \in PwType
  BY <1>1, NoFrames DEF StreamInv, StreamTypeOK, CastType
<1>3. /\ cast'.rendering = <<>> /\ cast'.seq = cast.seq /\ cast'.is_active = cast.is_active
      /\ cast'.state = cast.state
  BY <1>1 DEF StreamInv, StreamTypeOK, CastType
<1>. QED  BY <1>1, <1>2, <1>3, EmptiedStep DEF remove_buffer, StreamInv, MemoryFits


LEMMA NegotiationStep ==
    ASSUME StreamInv, AllocationFails \/ set_refresh
    PROVE  StreamInv'
<1>1. CASE AllocationFails
  <2>1. cast' = [cast EXCEPT !.stopped = TRUE] /\ UNCHANGED <<output, redraw, pw, buffers, free, last>>
    BY <1>1 DEF AllocationFails, stop_cast
  <2>2. /\ cast' \in CastType /\ cast'.rendering = cast.rendering /\ cast'.seq = cast.seq
        /\ cast'.is_active = cast.is_active /\ cast'.state = cast.state /\ cast'.damaged = cast.damaged
        /\ cast'.timer = cast.timer /\ cast'.slower = cast.slower
    BY <2>1 DEF StreamInv, StreamTypeOK, CastType
  <2>. QED  BY <2>1, <2>2, SameFramesStep DEF StreamInv, StreamTypeOK, MemoryFits, DamageIsSeen
<1>2. CASE set_refresh
  <2>1. PICK more : more = Append(pw.offers, Offer(expected_format_size, FALSE))
    OBVIOUS
  <2>2. pw' = [pw EXCEPT !.offers = more] /\ UNCHANGED <<cast, output, redraw, buffers, free, last>>
    BY <1>2, <2>1 DEF set_refresh
  <2>3. Offer(expected_format_size, FALSE) \in [size : Size, fixated : BOOLEAN]
    BY DEF StreamInv, StreamTypeOK, CastType, expected_format_size, Offer
  <2>4. more \in Seq([size : Size, fixated : BOOLEAN])
    BY <2>1, <2>3, AppendProperties DEF StreamInv, StreamTypeOK, PwType
  <2>5. pw' \in PwType /\ pw'.size = pw.size /\ pw'.settled = pw.settled /\ pw'.streaming = pw.streaming
    BY <2>2, <2>4 DEF StreamInv, StreamTypeOK, PwType
  <2>. QED  BY <2>2, <2>5, SameFramesStep DEF StreamInv, StreamTypeOK, MemoryFits, DamageIsSeen
<1>. QED  BY <1>1, <1>2

LEMMA StateStep ==
    ASSUME StreamInv, Streaming \/ Paused \/ StreamError
    PROVE  StreamInv'
<1>1. CASE Streaming
  <2>1. /\ cast' = [cast EXCEPT !.is_active = TRUE] /\ pw' = [pw EXCEPT !.streaming = TRUE] /\ redraw' = TRUE
        /\ UNCHANGED <<output, buffers, free, last>>
    BY <1>1 DEF Streaming
  <2>2. /\ cast' \in CastType /\ cast'.rendering = cast.rendering /\ cast'.seq = cast.seq
        /\ cast'.is_active = TRUE /\ cast'.state = cast.state
    BY <2>1 DEF StreamInv, StreamTypeOK, CastType
  <2>3. pw' \in PwType /\ pw'.size = pw.size /\ pw'.settled = pw.settled /\ pw'.streaming = TRUE
    BY <2>1 DEF StreamInv, StreamTypeOK, PwType
  <2>. QED  BY <2>1, <2>2, <2>3, SameFramesStep DEF StreamInv, StreamTypeOK, MemoryFits, DamageIsSeen
<1>2. ASSUME Paused \/ StreamError PROVE StreamInv'
  <2>1. /\ \/ cast' = [cast EXCEPT !.is_active = FALSE]
           \/ cast' = [cast EXCEPT !.is_active = FALSE, !.stopped = TRUE]
           \/ cast' = cast /\ ~cast.is_active
        /\ pw' = [pw EXCEPT !.streaming = FALSE]
        /\ UNCHANGED <<output, redraw, buffers, free, last>>
    BY <1>2 DEF Paused, StreamError
  <2>2. /\ cast' \in CastType /\ cast'.rendering = cast.rendering /\ cast'.seq = cast.seq
        /\ cast'.is_active = FALSE /\ cast'.state = cast.state
    BY <2>1, ZenonT(60) DEF StreamInv, StreamTypeOK, CastType
  <2>3. pw' \in PwType /\ pw'.size = pw.size /\ pw'.settled = pw.settled /\ pw'.streaming = FALSE
    BY <2>1 DEF StreamInv, StreamTypeOK, PwType
  <2>. QED  BY <2>1, <2>2, <2>3, SameFramesStep DEF StreamInv, StreamTypeOK, MemoryFits, DamageIsSeen
<1>. QED  BY <1>1, <1>2

\* The first buffer that a running stream gets comes with a redraw.
LEMMA AddBufferStep ==
    ASSUME StreamInv, NEW b \in Buffer, add_buffer(b)
    PROVE  StreamInv'
<1>1. /\ pw.settled /\ cast.state.tag = "Ready" /\ buffers[b] = "none"
      /\ buffers' = [buffers EXCEPT ![b] = cast.state.size] /\ free' = free \cup {b}
      /\ redraw' = (redraw \/ (pw.streaming /\ \A c \in Buffer : buffers[c] = "none"))
      /\ UNCHANGED <<cast, output, pw, last>>
  BY DEF add_buffer
<1>2. cast.state.size = pw.size /\ pw.size \in Size /\ pw.size # "none"
  BY <1>1, StreamAssumption DEF StreamInv, MemoryFits, StreamTypeOK, CastType
<1>3. buffers' \in [Buffer -> Size \cup {"none"}] /\ \A c \in Buffer : buffers'[c] = IF c = b THEN pw.size ELSE buffers[c]
  BY <1>1, <1>2 DEF StreamInv, StreamTypeOK
<1>4. StreamTypeOK'
  BY <1>1, <1>3 DEF StreamInv, StreamTypeOK, PwType
<1>5. MemoryFits'
  BY <1>1, <1>2, <1>3 DEF StreamInv, StreamTypeOK, MemoryFits
<1>6. FramesFit' /\ FramesFlow'
  <2>1. \A i \in DOMAIN cast.rendering : cast.rendering[i].buffer \in Buffer
    BY TheFrames DEF StreamInv, Rendered
  <2>. QED  BY <1>1, <1>2, <1>3, <2>1 DEF StreamInv, FramesFit, FramesFlow
<1>7. DamageIsSeen'
  BY <1>1, <1>3 DEF StreamInv, DamageIsSeen
<1>. QED  BY <1>1, <1>4, <1>5, <1>6, <1>7 DEF StreamInv

LEMMA RecycleStep ==
    ASSUME StreamInv, NEW b \in Buffer, Recycle(b)
    PROVE  StreamInv'
<1>1. free' = free \cup {b} /\ buffers[b] # "none" /\ UNCHANGED <<cast, output, redraw, pw, buffers, last>>
  BY DEF Recycle
<1>. QED  BY <1>1, SameFramesStep DEF StreamInv, StreamTypeOK, MemoryFits, DamageIsSeen

LEMMA DamageStep ==
    ASSUME StreamInv, Damage
    PROVE  StreamInv'
<1>1. /\ cast' = cast \/ cast' = [cast EXCEPT !.damaged = TRUE]
      /\ redraw' = TRUE /\ output' \in Size /\ UNCHANGED <<pw, buffers, free, last>>
  BY DEF Damage
<1>2. /\ cast' \in CastType /\ cast'.rendering = cast.rendering /\ cast'.seq = cast.seq
      /\ cast'.is_active = cast.is_active /\ cast'.state = cast.state
  BY <1>1, ZenonT(60) DEF StreamInv, StreamTypeOK, CastType
<1>. QED  BY <1>1, <1>2, SameFramesStep DEF StreamInv, StreamTypeOK, MemoryFits, DamageIsSeen

LEMMA TimerStep ==
    ASSUME StreamInv, TimerFires
    PROVE  StreamInv'
<1>1. cast' = [cast EXCEPT !.timer = "fired"] /\ redraw' = TRUE /\ UNCHANGED <<output, pw, buffers, free, last>>
  BY DEF TimerFires
<1>2. /\ cast' \in CastType /\ cast'.rendering = cast.rendering /\ cast'.seq = cast.seq
      /\ cast'.is_active = cast.is_active /\ cast'.state = cast.state
  BY <1>1 DEF StreamInv, StreamTypeOK, CastType
<1>. QED  BY <1>1, <1>2, SameFramesStep DEF StreamInv, StreamTypeOK, MemoryFits, DamageIsSeen


\* A frame that fits is added to the list, or frames leave it.
LEMMA FramesStep ==
    ASSUME StreamInv, UNCHANGED <<output, pw, buffers>>, redraw' \in BOOLEAN, DamageIsSeen',
           free' \subseteq free, cast' \in CastType, last' \in [seq : Nat, ordered : BOOLEAN], last'.ordered,
           cast'.is_active = cast.is_active, cast'.state = cast.state,
           InOrder(cast'.rendering, last'.seq, cast'.seq),
           cast'.rendering = <<>> \/ cast'.rendering[1].fence = "running",
           \A i \in DOMAIN cast'.rendering :
               cast'.rendering[i].size = pw.size /\ buffers[cast'.rendering[i].buffer] = pw.size
    PROVE  StreamInv'
<1>1. StreamTypeOK'
  BY DEF StreamInv, StreamTypeOK
<1>2. MemoryFits'
  BY DEF StreamInv, MemoryFits
<1>3. FramesFit' /\ FramesFlow'
  BY DEF FramesFit, FramesFlow
<1>. QED  BY <1>1, <1>2, <1>3 DEF StreamInv

LEMMA FenceStep ==
    ASSUME StreamInv, NEW i \in DOMAIN cast.rendering, FenceReached(i)
    PROVE  StreamInv'
<1>1. PICK r, was : r = cast.rendering /\ was = r[i]
  OBVIOUS
<1>2. /\ r \in Seq(Rendered) /\ Len(r) \in Nat /\ DOMAIN r = 1 .. Len(r) /\ i \in 1 .. Len(r) /\ was \in Rendered
      /\ \A j \in 1 .. Len(r) : r[j] \in Rendered
  BY <1>1, TheFrames, LenProperties DEF StreamInv
<1>3. PICK now : now = [was EXCEPT !.fence = "reached"]
  OBVIOUS
<1>4. now \in Rendered /\ now.seq = was.seq /\ now.size = was.size /\ now.buffer = was.buffer
  BY <1>2, <1>3 DEF Rendered
<1>5. PICK done : done = [r EXCEPT ![i] = now]
  OBVIOUS
<1>6. done \in Seq(Rendered) /\ Len(done) = Len(r) /\ \A j \in 1 .. Len(r) : done[j] = IF j = i THEN now ELSE r[j]
  BY <1>2, <1>4, <1>5, ExceptSeq
<1>7. \A j \in 1 .. Len(r) : done[j].seq = r[j].seq /\ done[j].size = r[j].size /\ done[j].buffer = r[j].buffer
  BY <1>1, <1>4, <1>6
<1>8. last.seq \in Nat /\ cast.seq \in Nat /\ InOrder(r, last.seq, cast.seq)
  BY <1>1 DEF StreamInv, StreamTypeOK, CastType
<1>9. InOrder(done, last.seq, cast.seq)
  BY <1>6, <1>7, <1>8, <1>2 DEF InOrder
<1>10. PICK left : left = queue_completed_buffers(done)
  OBVIOUS
<1>11. PICK gone : gone = Gone(done, left)
  OBVIOUS
<1>12. Queued(done) /\ UNCHANGED <<output, redraw, pw, buffers, free>>
  BY <1>1, <1>3, <1>5 DEF FenceReached
<1>13. /\ cast' = [cast EXCEPT !.rendering = left]
       /\ last' = [seq |-> IF gone = {} THEN last.seq ELSE CHOOSE s \in gone : \A t \in gone : s >= t,
                   ordered |-> last.ordered /\ \A s \in gone : s > last.seq]
  BY <1>10, <1>11, <1>12 DEF Queued, Gone
<1>14. /\ left \in Seq(Rendered)
       /\ \A j \in 1 .. Len(left) : \E k \in 1 .. Len(done) : left[j] = done[k]
       /\ left = <<>> \/ left[1].fence = "running"
       /\ \A s \in gone : s > last.seq
       /\ gone = {} => InOrder(left, last.seq, cast.seq)
       /\ gone # {} => \E m \in Nat : /\ m = CHOOSE s \in gone : \A t \in gone : s >= t
                                      /\ InOrder(left, m, cast.seq)
  BY <1>6, <1>8, <1>9, <1>10, <1>11, QueuedInOrder
<1>15. /\ cast' \in CastType /\ cast'.rendering = left /\ cast'.is_active = cast.is_active
       /\ cast'.state = cast.state /\ cast'.seq = cast.seq /\ cast'.damaged = cast.damaged
       /\ cast'.timer = cast.timer /\ cast'.slower = cast.slower
  BY <1>13, <1>14 DEF StreamInv, StreamTypeOK, CastType
<1>16. PICK m \in Nat : m = last'.seq /\ InOrder(left, m, cast.seq)
  BY <1>8, <1>13, <1>14
<1>17. last' = [seq |-> m, ordered |-> TRUE]
  BY <1>13, <1>14, <1>16 DEF StreamInv, FramesFlow, StreamTypeOK
<1>18. \A j \in DOMAIN left : left[j].size = pw.size /\ buffers[left[j].buffer] = pw.size
  <2>1. \A j \in 1 .. Len(r) : r[j].size = pw.size /\ buffers[r[j].buffer] = pw.size
    BY <1>1, <1>2 DEF StreamInv, FramesFit
  <2>2. \A j \in 1 .. Len(r) : done[j].size = pw.size /\ buffers[done[j].buffer] = pw.size
    BY <2>1, <1>7
  <2>3. DOMAIN left = 1 .. Len(left)
    BY <1>14, LenProperties
  <2>4. \A j \in DOMAIN left : \E k \in 1 .. Len(r) : left[j] = done[k]
    BY <2>3, <1>6, <1>14
  <2>. QED  BY <2>2, <2>4
<1>19. DamageIsSeen' /\ redraw' \in BOOLEAN
  BY <1>12, <1>15 DEF StreamInv, DamageIsSeen, StreamTypeOK
<1>. QED  BY <1>12, <1>14, <1>15, <1>16, <1>17, <1>18, <1>19, FramesStep

\* A new frame waits for those that are being rendered.
ListWith(r, frame) ==
    IF frame.fence = "running" THEN Append(r, frame) ELSE queue_completed_buffers(Append(r, frame))

LEMMA NewFrameInOrder ==
    ASSUME NEW r \in Seq(Rendered), NEW l \in Nat, NEW n \in Nat, InOrder(r, l, n),
           r = <<>> \/ r[1].fence = "running",
           NEW frame \in Rendered, frame.seq = n + 1
    PROVE  \/ /\ ListWith(r, frame) = Append(r, frame)
              /\ InOrder(ListWith(r, frame), l, n + 1) /\ ListWith(r, frame)[1].fence = "running"
           \/ ListWith(r, frame) = <<>>
<1>1. PICK list, left : list = Append(r, frame) /\ left = ListWith(r, frame)
  OBVIOUS
<1>2. /\ list \in Seq(Rendered) /\ Len(list) = Len(r) + 1 /\ list[Len(r) + 1] = frame
      /\ \A i \in 1 .. Len(r) : list[i] = r[i]
  BY <1>1, AppendProperties
<1>3. Len(r) \in Nat /\ (Len(r) = 0 => r = <<>>)
  BY EmptySeq, LenProperties
<1>4. InOrder(list, l, n + 1)
  <2>1. \A i \in 1 .. Len(r) : list[i].seq \in Nat /\ l < list[i].seq /\ list[i].seq <= n
    <3>1. \A i \in 1 .. Len(r) : r[i] \in Rendered
      BY ElementOfSeq
    <3>. QED  BY <3>1, <1>2 DEF InOrder, Rendered
  <2>2. list[Len(r) + 1].seq = n + 1 /\ l <= n
    BY <1>2 DEF InOrder
  <2>3. \A i \in 1 .. Len(list) : i \in 1 .. Len(r) \/ i = Len(r) + 1
    BY <1>2, <1>3
  <2>4. \A i \in 1 .. Len(list) : l < list[i].seq /\ list[i].seq <= n + 1
    BY <2>1, <2>2, <2>3
  <2>5. ASSUME NEW i \in 1 .. Len(list), NEW j \in 1 .. Len(list), i < j PROVE list[i].seq < list[j].seq
    <3>1. i \in 1 .. Len(r)
      BY <2>5, <1>2, <1>3
    <3>2. CASE j \in 1 .. Len(r)
      BY <2>5, <3>1, <3>2, <1>2 DEF InOrder
    <3>3. CASE j = Len(r) + 1
      BY <3>1, <3>3, <2>1, <2>2
    <3>. QED  BY <3>2, <3>3, <2>3
  <2>. QED  BY <2>2, <2>4, <2>5 DEF InOrder
<1>5. CASE list[1].fence = "running"
  <2>1. CASE frame.fence = "running"
    BY <2>1, <1>1, <1>4, <1>5 DEF ListWith
  <2>2. CASE frame.fence # "running"
    <3>1. PICK k \in 0 .. Len(list) : LeftAfter(list, left, k)
      BY <2>2, <1>1, <1>2, Uncompleted DEF ListWith
    <3>2. k >= 1 => FALSE
      BY <3>1, <1>5 DEF LeftAfter
    <3>3. k = 0
      BY <3>2, <1>2, <1>3
    <3>. QED  BY <3>1, <3>3, <1>1, <1>4, <1>5 DEF LeftAfter
  <2>. QED  BY <2>1, <2>2
<1>6. CASE list[1].fence # "running"
  <2>1. Len(r) = 0
    <3>1. CASE Len(r) > 0
      <4>1. list[1] = r[1] /\ r # <<>>
        BY <3>1, <1>2, <1>3, EmptySeq
      <4>. QED  BY <4>1, <1>6
    <3>. QED  BY <3>1, <1>3
  <2>2. Len(list) = 1 /\ list[1] = frame
    BY <2>1, <1>2
  <2>3. PICK k \in 0 .. Len(list) : LeftAfter(list, left, k)
    BY <2>2, <1>1, <1>2, <1>6, Uncompleted DEF ListWith
  <2>4. k < Len(list) => FALSE
    BY <2>2, <2>3, <1>6 DEF LeftAfter
  <2>5. k = Len(list)
    BY <2>2, <2>4
  <2>. QED  BY <2>3, <2>5, <1>1 DEF LeftAfter
<1>. QED  BY <1>5, <1>6


\* What render_for_screen_cast() does with the answer of ensure_size().
RenderActive(size) ==
    \/ size[1] # "Ready" /\ cast' = size[2] /\ pw' = size[3] /\ UNCHANGED <<free, last>>
    \/ /\ size[1] = "Changed"
       /\ \E timer \in {schedule_redraw.timer, "none"} :
              cast' = [size[2] EXCEPT !.timer = timer, !.stopped = TRUE]
       /\ UNCHANGED <<pw, free, last>>
    \/ size[1] = "Ready" /\ TooSoon /\ cast' = schedule_redraw /\ UNCHANGED <<pw, free, last>>
    \/ size[1] = "Ready" /\ (SkipFrame \/ return_unused_buffer \/ RenderFrame) /\ UNCHANGED pw

\* A running cast is rendered by one of these cases.
LEMMA ActiveRender ==
    ASSUME RenderForCast, cast.is_active
    PROVE  RenderActive(ensure_size(output))
BY Zenon DEF RenderForCast, RenderActive

\* RenderForCast keeps the invariant.
LEMMA RenderStep ==
    ASSUME StreamInv, RenderForCast
    PROVE  StreamInv'
<1>1. redraw /\ redraw' = FALSE /\ UNCHANGED <<output, buffers>>
  BY DEF RenderForCast
<1>2. CASE ~cast.is_active /\ UNCHANGED <<cast, pw, free, last>>
  BY <1>1, <1>2, SameFramesStep DEF StreamInv, StreamTypeOK, MemoryFits, DamageIsSeen
<1>3. CASE cast.is_active /\ cast.state # State("Ready", output)
  <2>1. CASE pending_size = output
    <3>1. ensure_size(output) = <<"Pending", cast, pw>>
      BY <1>3, <2>1 DEF ensure_size
    <3>2. UNCHANGED <<cast, pw, free, last>>
      BY <1>3, <3>1 DEF RenderForCast
    <3>3. cast.state.tag # "Ready"
      BY <2>1, StreamAssumption DEF pending_size, StreamInv, StreamTypeOK
    <3>. QED  BY <1>1, <3>2, <3>3, SameFramesStep DEF StreamInv, StreamTypeOK, MemoryFits, DamageIsSeen
  <2>2. CASE pending_size # output
    <3>1. PICK more : more = Append(pw.offers, Offer(output, FALSE))
      OBVIOUS
    <3>2. PICK resized : resized = [cast EXCEPT !.state = State("ResizePending", output), !.damaged = FALSE]
      OBVIOUS
    <3>3. PICK offered : offered = [pw EXCEPT !.offers = more]
      OBVIOUS
    <3>4. ensure_size(output) = <<"Changed", resized, offered>>
      BY <1>3, <2>2, <3>1, <3>2, <3>3 DEF ensure_size
    <3>5. Offer(output, FALSE) \in [size : Size, fixated : BOOLEAN]
      BY DEF StreamInv, StreamTypeOK, Offer
    <3>6. more \in Seq([size : Size, fixated : BOOLEAN])
      BY <3>1, <3>5, AppendProperties DEF StreamInv, StreamTypeOK, PwType
    <3>7. offered \in PwType /\ offered.size = pw.size /\ offered.settled = pw.settled /\ offered.streaming = pw.streaming
      BY <3>3, <3>6 DEF StreamInv, StreamTypeOK, PwType
    <3>8. /\ resized \in CastType /\ resized.rendering = cast.rendering /\ resized.seq = cast.seq
          /\ resized.is_active = cast.is_active /\ resized.state.tag # "Ready"
      BY <3>2 DEF StreamInv, StreamTypeOK, CastType, State
    <3>9. \/ cast' = resized /\ pw' = offered /\ UNCHANGED <<free, last>>
          \/ /\ \E timer \in {schedule_redraw.timer, "none"} :
                     cast' = [resized EXCEPT !.timer = timer, !.stopped = TRUE]
             /\ UNCHANGED <<pw, free, last>>
      <4>1. PICK size : size = ensure_size(output)
        OBVIOUS
      <4>2. RenderActive(size)
        BY <1>3, <4>1, ActiveRender
      <4>3. size[1] = "Changed" /\ size[2] = resized /\ size[3] = offered
        BY <3>4, <4>1
      <4>. QED  BY <4>2, <4>3, Zenon DEF RenderActive
    <3>10. CASE cast' = resized /\ pw' = offered /\ UNCHANGED <<free, last>>
      BY <1>1, <3>7, <3>8, <3>10, SameFramesStep DEF StreamInv, StreamTypeOK, MemoryFits, DamageIsSeen
    <3>11. ASSUME NEW timer \in {schedule_redraw.timer, "none"}, UNCHANGED <<pw, free, last>>,
                  cast' = [resized EXCEPT !.timer = timer, !.stopped = TRUE]
           PROVE  StreamInv'
      <4>1. timer \in {"none", "armed", "fired"}
        BY DEF schedule_redraw, StreamInv, StreamTypeOK, CastType
      <4>2. /\ cast' \in CastType /\ cast'.rendering = cast.rendering /\ cast'.seq = cast.seq
            /\ cast'.is_active = cast.is_active /\ cast'.state.tag # "Ready"
        BY <3>8, <3>11, <4>1 DEF CastType
      <4>. QED  BY <1>1, <3>11, <4>2, SameFramesStep DEF StreamInv, StreamTypeOK, MemoryFits, DamageIsSeen
    <3>. QED  BY <3>9, <3>10, <3>11
  <2>. QED  BY <2>1, <2>2
<1>4. CASE cast.is_active /\ cast.state = State("Ready", output)
  <2>1. ensure_size(output) = <<"Ready", cast, pw>>
    BY <1>4 DEF ensure_size
  <2>2. \/ TooSoon /\ cast' = schedule_redraw /\ UNCHANGED <<pw, free, last>>
        \/ (SkipFrame \/ return_unused_buffer) /\ UNCHANGED pw
        \/ RenderFrame /\ UNCHANGED pw
    <3>1. PICK size : size = ensure_size(output)
      OBVIOUS
    <3>2. RenderActive(size)
      BY <1>4, <3>1, ActiveRender
    <3>3. size[1] = "Ready"
      BY <2>1, <3>1
    <3>. QED  BY <3>2, <3>3, Zenon DEF RenderActive
  <2>3. CASE TooSoon /\ cast' = schedule_redraw /\ UNCHANGED <<pw, free, last>>
    <3>1. /\ cast' \in CastType /\ cast'.rendering = cast.rendering /\ cast'.seq = cast.seq
          /\ cast'.is_active = cast.is_active /\ cast'.state = cast.state
          /\ cast'.timer = "armed" \/ (cast'.timer = "fired" /\ cast'.slower)
      BY <2>3 DEF StreamInv, StreamTypeOK, CastType, TooSoon, schedule_redraw
    <3>. QED  BY <1>1, <2>3, <3>1, SameFramesStep DEF StreamInv, StreamTypeOK, MemoryFits, DamageIsSeen
  <2>4. CASE (SkipFrame \/ return_unused_buffer) /\ UNCHANGED pw
    <3>1. cast' = Passed /\ free' \subseteq free /\ UNCHANGED <<pw, last>>
      BY <2>4 DEF SkipFrame, return_unused_buffer
    <3>2. /\ cast' \in CastType /\ cast'.rendering = cast.rendering /\ cast'.seq = cast.seq
          /\ cast'.is_active = cast.is_active /\ cast'.state = cast.state /\ cast'.damaged = FALSE
      BY <3>1 DEF StreamInv, StreamTypeOK, CastType, Passed
    <3>. QED  BY <1>1, <3>1, <3>2, SameFramesStep DEF StreamInv, StreamTypeOK, MemoryFits, DamageIsSeen
  <2>5. ASSUME NEW b \in free, NEW fence \in {"running", "reached"}, free' = free \ {b}, UNCHANGED pw,
               NEW frame, frame = [buffer |-> b, seq |-> cast.seq + 1, fence |-> fence, size |-> output],
               NEW list, list = Append(cast.rendering, frame),
               NEW left, left = IF fence = "running" THEN list ELSE queue_completed_buffers(list),
               cast' = [Passed EXCEPT !.seq = @ + 1, !.rendering = left],
               last' = IF left = list THEN last
                       ELSE [seq |-> cast.seq + 1, ordered |-> last.ordered /\ left = <<>>]
        PROVE  StreamInv'
    <3>1. b \in Buffer /\ output \in Size /\ cast.seq \in Nat /\ last.seq \in Nat
      BY DEF StreamInv, StreamTypeOK, CastType
    <3>2. frame \in Rendered /\ frame.seq = cast.seq + 1 /\ frame.fence = fence /\ frame.size = output /\ frame.buffer = b
      BY <2>5, <3>1 DEF Rendered
    <3>3. /\ cast.rendering \in Seq(Rendered) /\ InOrder(cast.rendering, last.seq, cast.seq)
          /\ cast.rendering = <<>> \/ cast.rendering[1].fence = "running"
      BY TheFrames DEF StreamInv, FramesFlow
    <3>4. /\ list \in Seq(Rendered) /\ Len(list) = Len(cast.rendering) + 1 /\ list[Len(cast.rendering) + 1] = frame
          /\ \A i \in 1 .. Len(cast.rendering) : list[i] = cast.rendering[i]
      BY <2>5, <3>2, <3>3, AppendProperties
    <3>5. \/ left = list /\ InOrder(list, last.seq, cast.seq + 1) /\ list[1].fence = "running"
          \/ left = <<>>
      <4>1. PICK r, l, n : r = cast.rendering /\ l = last.seq /\ n = cast.seq
        OBVIOUS
      <4>2. r \in Seq(Rendered) /\ l \in Nat /\ n \in Nat /\ InOrder(r, l, n) /\ (r = <<>> \/ r[1].fence = "running")
        BY <3>1, <3>3, <4>1
      <4>3. left = ListWith(r, frame) /\ list = Append(r, frame)
        BY <2>5, <3>2, <4>1 DEF ListWith
      <4>4. \/ /\ ListWith(r, frame) = Append(r, frame)
               /\ InOrder(ListWith(r, frame), l, n + 1) /\ ListWith(r, frame)[1].fence = "running"
            \/ ListWith(r, frame) = <<>>
        BY <3>2, <4>1, <4>2, NewFrameInOrder
      <4>. QED  BY <4>1, <4>3, <4>4
    <3>6. left \in Seq(Rendered)
      BY <3>4, <3>5, NoFrames
    <3>7. /\ cast' \in CastType /\ cast'.rendering = left /\ cast'.seq = cast.seq + 1 /\ cast'.damaged = FALSE
          /\ cast'.is_active = cast.is_active /\ cast'.state = cast.state
      <4>1. PICK n : n = cast.seq + 1
        OBVIOUS
      <4>2. cast' = [cast EXCEPT !.damaged = FALSE, !.timer = "none", !.slower = FALSE, !.seq = n, !.rendering = left]
        BY <2>5, <4>1 DEF Passed, StreamInv, StreamTypeOK, CastType
      <4>3. n \in Nat
        BY <3>1, <4>1
      <4>. QED  BY <3>6, <4>1, <4>2, <4>3 DEF StreamInv, StreamTypeOK, CastType
    <3>8. DamageIsSeen' /\ redraw' \in BOOLEAN /\ free' \subseteq free /\ UNCHANGED <<output, pw, buffers>>
      BY <1>1, <2>5, <3>7 DEF DamageIsSeen
    <3>9. output = pw.size /\ buffers[b] = pw.size
      BY <1>4, <3>1 DEF StreamInv, MemoryFits, State
    <3>10. \A i \in DOMAIN list : list[i].size = pw.size /\ buffers[list[i].buffer] = pw.size
      <4>1. Len(cast.rendering) \in Nat /\ DOMAIN cast.rendering = 1 .. Len(cast.rendering) /\ DOMAIN list = 1 .. Len(list)
        BY <3>3, <3>4, LenProperties
      <4>2. \A i \in DOMAIN list : i \in 1 .. Len(cast.rendering) \/ i = Len(cast.rendering) + 1
        BY <3>4, <4>1
      <4>. QED  BY <3>2, <3>4, <3>9, <4>1, <4>2 DEF StreamInv, FramesFit
    <3>11. CASE left = list /\ InOrder(list, last.seq, cast.seq + 1) /\ list[1].fence = "running"
      <4>1. last' = last /\ last.ordered /\ last \in [seq : Nat, ordered : BOOLEAN]
        BY <2>5, <3>11 DEF StreamInv, FramesFlow, StreamTypeOK
      <4>. QED  BY <3>7, <3>8, <3>10, <3>11, <4>1, FramesStep
    <3>12. CASE left = <<>>
      <4>1. left # list
        BY <3>3, <3>4, <3>12, LenProperties, EmptySeq
      <4>2. last' = [seq |-> cast.seq + 1, ordered |-> TRUE]
        BY <2>5, <3>12, <4>1 DEF StreamInv, FramesFlow, StreamTypeOK
      <4>3. InOrder(left, cast.seq + 1, cast.seq + 1)
        BY <3>1, <3>12 DEF InOrder
      <4>4. \A i \in DOMAIN left : left[i].size = pw.size /\ buffers[left[i].buffer] = pw.size
        BY <3>12
      <4>. QED  BY <3>1, <3>7, <3>8, <3>12, <4>2, <4>3, <4>4, FramesStep
    <3>. QED  BY <3>5, <3>11, <3>12
  <2>6. CASE RenderFrame /\ UNCHANGED pw
    BY <2>5, <2>6, ZenonT(60) DEF RenderFrame
  <2>. QED  BY <2>2, <2>3, <2>4, <2>6
<1>. QED
  <2>1. \/ ~cast.is_active /\ UNCHANGED <<cast, pw, free, last>>
        \/ cast.is_active
    BY DEF RenderForCast
  <2>. QED  BY <2>1, <1>2, <1>3, <1>4

LEMMA StreamStep ==
    ASSUME StreamInv, StreamNext
    PROVE  StreamInv'
<1>1. ASSUME NEW n \in DOMAIN pw.offers, FixateModifier(n) \/ FormatReady(n) \/ WrongSize(n) PROVE StreamInv'
  BY <1>1, FixateStep, ReadyStep, WrongSizeStep
<1>2. ASSUME NEW b \in Buffer, add_buffer(b) \/ Recycle(b) PROVE StreamInv'
  BY <1>2, AddBufferStep, RecycleStep
<1>3. ASSUME NEW i \in DOMAIN cast.rendering, FenceReached(i) PROVE StreamInv'
  BY <1>3, FenceStep
<1>. QED
  BY <1>1, <1>2, <1>3, NegotiationStep, StateStep, RemoveBufferStep, DamageStep, RenderStep, TimerStep, Zenon
     DEF StreamNext

LEMMA StreamStarts ==
    ASSUME StreamInit
    PROVE  StreamInv
<1>1. output \in Size /\ Offer(output, FALSE) \in [size : Size, fixated : BOOLEAN]
  BY DEF StreamInit, Offer
<1>2. PICK offer, offers : offer = Offer(output, FALSE) /\ offers = <<offer>>
  OBVIOUS
<1>3. offers \in Seq([size : Size, fixated : BOOLEAN])
  <2>1. offer \in [size : Size, fixated : BOOLEAN]
    BY <1>1, <1>2
  <2>2. offers = Append(<<>>, offer)
    BY <1>2
  <2>. QED  BY <2>1, <2>2, EmptySeq, AppendProperties
<1>4. /\ cast = [state |-> State("ResizePending", output), is_active |-> FALSE, stopped |-> FALSE,
                 damaged |-> FALSE, timer |-> "none", slower |-> FALSE, rendering |-> <<>>, seq |-> 0]
      /\ redraw = FALSE
      /\ pw = [offers |-> offers, size |-> "none", settled |-> FALSE, streaming |-> FALSE]
      /\ buffers = [b \in Buffer |-> "none"] /\ free = {} /\ last = [seq |-> 0, ordered |-> TRUE]
  BY <1>2 DEF StreamInit
<1>5. cast \in CastType
  BY <1>1, <1>4, NoFrames DEF CastType, State
<1>6. pw \in PwType
  BY <1>3, <1>4 DEF PwType
<1>7. StreamTypeOK
  BY <1>1, <1>4, <1>5, <1>6 DEF StreamTypeOK
<1>8. MemoryFits /\ FramesFit /\ FramesFlow /\ DamageIsSeen
  BY <1>4 DEF MemoryFits, FramesFit, FramesFlow, DamageIsSeen
<1>9. InOrder(cast.rendering, last.seq, cast.seq)
  BY <1>4 DEF InOrder
<1>. QED  BY <1>4, <1>7, <1>8, <1>9 DEF StreamInv

\* However the stream is negotiated, resized, paused and given buffers, and in whatever order
\* the GPU finishes its frames, a frame is rendered at the size of the format that the consumer
\* has, into a buffer of that size, the frames are queued in the order they were rendered in,
\* and damage does not wait without a redraw or a timer under way, unless a format with a lower
\* rate came while a timer was set.
THEOREM StreamSafety == StreamSpec => []StreamFlows
<1>1. StreamInv => StreamFlows
  BY DEF StreamInv, StreamFlows, MemoryFits, DamageIsSeen, DamageGetsOut, StreamTypeOK
<1>2. StreamInv /\ UNCHANGED streamVars => StreamInv'
  BY DEF streamVars, StreamInv, StreamTypeOK, MemoryFits, FramesFit, FramesFlow, DamageIsSeen
<1>3. StreamInv /\ [StreamNext]_streamVars => StreamInv'
  BY <1>2, StreamStep
<1>. QED  BY <1>1, <1>3, StreamStarts, PTL DEF StreamSpec

-----------------------------------------------------------------------------
(***************************************************************************)
(* What retain() leaves.                                                   *)
(***************************************************************************)
Members(s) == {s[i] : i \in 1 .. Len(s)}
Distinct(s) == \A i, j \in 1 .. Len(s) : s[i] = s[j] => i = j

AreKept(kept, n, s, keep) ==
    kept = [i \in 0 .. n |-> IF i = 0 THEN <<>>
                             ELSE IF s[i] \in keep THEN Append(kept[i - 1], s[i])
                             ELSE kept[i - 1]]

\* The list t is what there is to keep of the first n elements of s.
KeptOf(t, n, s, keep, S) ==
    /\ t \in Seq(S)
    /\ Members(t) = {s[i] : i \in 1 .. n} \cap keep
    /\ Distinct(s) => Distinct(t)

\* The recursive definition of retain() has a solution.
LEMMA KeptExists ==
    ASSUME NEW s, NEW keep, NEW m \in Nat
    PROVE  \E kept : AreKept(kept, m, s, keep)
<1>1. PICK bad : bad = {i \in Nat : ~\E kept : AreKept(kept, i, s, keep)}
  OBVIOUS
<1>2. CASE bad = {}
  BY <1>1, <1>2
<1>3. CASE bad # {}
  <2>1. PICK n \in bad : \A i \in bad : n <= i
    BY <1>1, <1>3, LeastNumber
  <2>2. n \in Nat /\ ~\E kept : AreKept(kept, n, s, keep)
    BY <1>1, <2>1
  <2>3. CASE n = 0
    <3>1. PICK kept : kept = [i \in 0 .. 0 |-> <<>>]
      OBVIOUS
    <3>2. AreKept(kept, n, s, keep)
      BY <2>3, <3>1 DEF AreKept
    <3>. QED  BY <2>2, <3>2
  <2>4. CASE n # 0
    <3>1. n - 1 \in Nat /\ n - 1 \notin bad
      BY <2>1, <2>2, <2>4
    <3>2. PICK kept : AreKept(kept, n - 1, s, keep)
      BY <1>1, <3>1
    <3>3. PICK more : more = [i \in 0 .. n |-> IF i < n THEN kept[i]
                                               ELSE IF s[n] \in keep THEN Append(kept[n - 1], s[n])
                                               ELSE kept[n - 1]]
      OBVIOUS
    <3>4. \A i \in 0 .. n - 1 : more[i] = kept[i]
      BY <2>2, <3>3
    <3>5. ASSUME NEW i \in 0 .. n
          PROVE  more[i] = IF i = 0 THEN <<>>
                           ELSE IF s[i] \in keep THEN Append(more[i - 1], s[i])
                           ELSE more[i - 1]
      <4>1. CASE i = n
        <5>1. more[n] = IF s[n] \in keep THEN Append(kept[n - 1], s[n]) ELSE kept[n - 1]
          BY <2>2, <3>3
        <5>2. more[n - 1] = kept[n - 1]
          BY <3>1, <3>4
        <5>. QED  BY <4>1, <5>1, <5>2, <2>4
      <4>2. CASE i # n
        <5>1. i \in 0 .. n - 1 /\ (i # 0 => i - 1 \in 0 .. n - 1)
          BY <4>2, <2>2
        <5>2. kept[i] = IF i = 0 THEN <<>>
                        ELSE IF s[i] \in keep THEN Append(kept[i - 1], s[i])
                        ELSE kept[i - 1]
          BY <3>2, <5>1 DEF AreKept
        <5>. QED  BY <5>1, <5>2, <3>4
      <4>. QED  BY <4>1, <4>2
    <3>6. more = [i \in 0 .. n |-> more[i]]
      BY <3>3
    <3>7. AreKept(more, n, s, keep)
      BY <3>5, <3>6 DEF AreKept
    <3>. QED  BY <2>2, <3>7
  <2>. QED  BY <2>3, <2>4
<1>. QED  BY <1>2, <1>3

\* One more element.
LEMMA KeptMore ==
    ASSUME NEW S, NEW s \in Seq(S), NEW keep, NEW n \in 1 .. Len(s), NEW t, KeptOf(t, n - 1, s, keep, S)
    PROVE  KeptOf(IF s[n] \in keep THEN Append(t, s[n]) ELSE t, n, s, keep, S)
<1>1. s[n] \in S /\ Len(s) \in Nat /\ n - 1 \in Nat
  BY ElementOfSeq, LenProperties
<1>2. {s[i] : i \in 1 .. n} = {s[i] : i \in 1 .. n - 1} \cup {s[n]}
  BY <1>1
<1>3. CASE s[n] \notin keep
  BY <1>2, <1>3 DEF KeptOf
<1>4. CASE s[n] \in keep
  <2>1. PICK more : more = Append(t, s[n])
    OBVIOUS
  <2>2. t \in Seq(S) /\ Len(t) \in Nat /\ Members(t) = {s[i] : i \in 1 .. n - 1} \cap keep
    BY LenProperties DEF KeptOf
  <2>3. more \in Seq(S) /\ Len(more) = Len(t) + 1
    BY <1>1, <2>1, <2>2, AppendProperties
  <2>4. \A i \in 1 .. Len(t) : more[i] = t[i]
    BY <1>1, <2>1, <2>2, AppendProperties
  <2>5. more[Len(t) + 1] = s[n]
    BY <1>1, <2>1, <2>2, AppendProperties
  <2>6. 1 .. Len(more) = (1 .. Len(t)) \cup {Len(t) + 1}
    BY <2>2, <2>3
  <2>7. Members(more) = Members(t) \cup {s[n]}
    BY <2>4, <2>5, <2>6 DEF Members
  <2>8. ASSUME Distinct(s) PROVE Distinct(more)
    <3>1. Distinct(t)
      BY <2>8 DEF KeptOf
    <3>2. s[n] \notin Members(t)
      <4>1. ASSUME NEW i \in 1 .. n - 1, s[i] = s[n] PROVE FALSE
        BY <4>1, <2>8, <1>1 DEF Distinct
      <4>. QED  BY <4>1, <2>2
    <3>3. \A i \in 1 .. Len(t) : t[i] # s[n]
      BY <3>2 DEF Members
    <3>. QED  BY <2>4, <2>5, <2>6, <3>1, <3>3 DEF Distinct
  <2>9. Members(more) = {s[i] : i \in 1 .. n} \cap keep
    BY <1>2, <1>4, <2>2, <2>7
  <2>. QED  BY <1>4, <2>1, <2>3, <2>8, <2>9 DEF KeptOf
<1>. QED  BY <1>3, <1>4

\* retain() leaves what is to be kept, and nothing twice.
LEMMA RetainKeeps ==
    ASSUME NEW S, NEW s \in Seq(S), NEW keep
    PROVE  /\ retain(s, keep) \in Seq(S)
           /\ Members(retain(s, keep)) = Members(s) \cap keep
           /\ Distinct(s) => Distinct(retain(s, keep))
<1>1. PICK kept : kept = CHOOSE f : f = [n \in 0 .. Len(s) |-> IF n = 0 THEN <<>>
                                                ELSE IF s[n] \in keep THEN Append(f[n - 1], s[n])
                                                ELSE f[n - 1]]
  OBVIOUS
<1>2. retain(s, keep) = kept[Len(s)]
  BY <1>1, Zenon DEF retain
<1>3. Len(s) \in Nat
  BY LenProperties
<1>4. \E f : f = [n \in 0 .. Len(s) |-> IF n = 0 THEN <<>>
                                         ELSE IF s[n] \in keep THEN Append(f[n - 1], s[n])
                                         ELSE f[n - 1]]
  <2>1. PICK f : AreKept(f, Len(s), s, keep)
    BY <1>3, KeptExists
  <2>2. f = [n \in 0 .. Len(s) |-> IF n = 0 THEN <<>>
                                    ELSE IF s[n] \in keep THEN Append(f[n - 1], s[n])
                                    ELSE f[n - 1]]
    BY <2>1 DEF AreKept
  <2>. QED  BY <2>2
<1>5. kept = [n \in 0 .. Len(s) |-> IF n = 0 THEN <<>>
                                    ELSE IF s[n] \in keep THEN Append(kept[n - 1], s[n])
                                    ELSE kept[n - 1]]
  BY <1>1, <1>4, Zenon
<1>6. PICK bad : bad = {n \in 0 .. Len(s) : ~KeptOf(kept[n], n, s, keep, S)}
  OBVIOUS
<1>7. CASE bad # {}
  <2>0. bad \subseteq Nat
    BY <1>3, <1>6
  <2>1. PICK n \in bad : \A i \in bad : n <= i
    BY <2>0, <1>7, LeastNumber
  <2>2. n \in 0 .. Len(s) /\ ~KeptOf(kept[n], n, s, keep, S)
    BY <1>6, <2>1
  <2>3. CASE n = 0
    <3>1. kept[0] = <<>>
      BY <1>3, <1>5
    <3>2. <<>> \in Seq(S) /\ Len(<<>>) = 0
      BY EmptySeq
    <3>3. KeptOf(<<>>, 0, s, keep, S)
      BY <3>2 DEF KeptOf, Members, Distinct
    <3>. QED  BY <2>2, <2>3, <3>1, <3>3
  <2>4. CASE n # 0
    <3>1. n \in 1 .. Len(s) /\ n - 1 \in 0 .. Len(s) /\ n - 1 \notin bad
      BY <1>3, <2>1, <2>2, <2>4
    <3>2. KeptOf(kept[n - 1], n - 1, s, keep, S)
      BY <1>6, <3>1
    <3>3. kept[n] = IF s[n] \in keep THEN Append(kept[n - 1], s[n]) ELSE kept[n - 1]
      BY <1>5, <2>2, <2>4
    <3>. QED  BY <2>2, <3>1, <3>2, <3>3, KeptMore
  <2>. QED  BY <2>3, <2>4
<1>8. CASE bad = {}
  <2>1. Len(s) \in 0 .. Len(s)
    BY <1>3
  <2>2. KeptOf(kept[Len(s)], Len(s), s, keep, S)
    BY <1>6, <1>8, <2>1
  <2>. QED  BY <1>2, <2>2 DEF KeptOf, Members
<1>. QED  BY <1>7, <1>8


-----------------------------------------------------------------------------
(***************************************************************************)
(* What holds of the queues qs, the managers ms, the frames fs and the     *)
(* outputs os.                                                             *)
(***************************************************************************)
Queue == [pending : SUBSET Frame, copies : Seq(Frame), cast : BOOLEAN]

FrameInfo ==
    [life : {"new", "alive", "dead", "destroyed"}, manager : Manager \cup {NoManager},
     output : CopyOutput \cup {"none"}, copied : BOOLEAN, answers : 0 .. 1, syncing : BOOLEAN]

\* A manager that can be asked for a frame has a queue.
ManagerFine(q, life) == (life = "alive" => q # NoQueue) /\ (life = "new" => q = NoQueue)

\* The frame x waits in the queue of m for the damage of its output.
Waits(m, x, os) == x.manager = m /\ x.copied /\ x.answers = 0 /\ ~x.syncing /\ x.output \in os

\* A queue counts as a screencast while there are copies in it, each once.
QueueFine(m, q, fs, os) ==
    /\ Distinct(q.copies)
    /\ q.copies # <<>> => q.cast
    /\ \A f \in Members(q.copies) : Waits(m, fs[f], os)

\* A frame that can be copied keeps the queue of its manager, and one that was copied waits
\* in the queue or for the GPU until it is answered.
FrameFine(f, x, qs) ==
    /\ x.life = "new" => x.manager = NoManager
    /\ x.manager = NoManager => ~x.copied
    /\ ~x.copied => x.answers = 0 /\ ~x.syncing
    /\ x.syncing => x.answers = 0
    /\ x.life \in {"alive", "dead"} /\ x.manager # NoManager /\ ~x.copied =>
          qs[x.manager] # NoQueue /\ f \in qs[x.manager].pending
    /\ x.life = "alive" /\ x.copied /\ x.answers = 0 /\ ~x.syncing =>
          qs[x.manager] # NoQueue /\ f \in Members(qs[x.manager].copies)

CopyState(qs, ms, fs, os) ==
    /\ qs \in [Manager -> Queue \cup {NoQueue}]
    /\ ms \in [Manager -> {"new", "alive", "dead", "destroyed"}]
    /\ fs \in [Frame -> FrameInfo]
    /\ os \subseteq CopyOutput
    /\ \A m \in Manager : ManagerFine(qs[m], ms[m])
    /\ \A m \in Manager : qs[m] # NoQueue => QueueFine(m, qs[m], fs, os)
    /\ \A f \in Frame : FrameFine(f, fs[f], qs)

CopyInv == CopyState(queues, managers, frames, outputs) /\ unwrapped = FALSE

\* A manager without a queue is told from one with.
LEMMA NoQueueIsNone == NoQueue \notin Queue
BY CopyAssumption DEF Queue

\* Nothing is in the empty queue.
LEMMA EmptyHasNone == Members(<<>>) = {} /\ Distinct(<<>>) /\ <<>> \in Seq(Frame)
BY EmptySeq DEF Members, Distinct

\* Something is in every other queue.
LEMMA SomeHasMembers ==
    ASSUME NEW S, NEW s \in Seq(S)
    PROVE  Members(s) \subseteq S /\ (Members(s) = {} <=> s = <<>>)
<1>1. Len(s) \in Nat /\ (Len(s) = 0 <=> s = <<>>)
  BY EmptySeq, LenProperties
<1>2. \A i \in 1 .. Len(s) : s[i] \in S
  BY ElementOfSeq, <1>1
<1>3. s # <<>> => s[1] \in Members(s)
  BY <1>1 DEF Members
<1>4. s = <<>> => Members(s) = {}
  BY <1>1 DEF Members
<1>. QED  BY <1>2, <1>3, <1>4 DEF Members

\* A queue that is removed because it is empty and its manager gone is missed by nobody.
LEMMA CleanedUp ==
    ASSUME NEW qs, NEW ms, NEW fs, NEW os, CopyState(qs, ms, fs, os), NEW new,
           new \in [Manager -> Queue \cup {NoQueue}],
           \A m \in Manager : \/ new[m] = qs[m]
                              \/ new[m] = NoQueue /\ qs[m] # NoQueue /\ is_empty(qs[m]) /\ ms[m] # "alive"
    PROVE  CopyState(new, ms, fs, os)
<1>1. \A m \in Manager : ManagerFine(new[m], ms[m])
  BY DEF CopyState, ManagerFine
<1>2. \A m \in Manager : new[m] # NoQueue => QueueFine(m, new[m], fs, os)
  BY DEF CopyState
<1>3. ASSUME NEW f \in Frame PROVE FrameFine(f, fs[f], new)
  <2>1. PICK x : x = fs[f] /\ x \in FrameInfo /\ FrameFine(f, x, qs)
    BY DEF CopyState
  <2>2. ASSUME x.manager # NoManager, qs[x.manager] # NoQueue,
               f \in qs[x.manager].pending \/ f \in Members(qs[x.manager].copies)
        PROVE  new[x.manager] = qs[x.manager]
    <3>1. x.manager \in Manager
      BY <2>1, <2>2 DEF FrameInfo
    <3>. QED  BY <2>2, <3>1, EmptyHasNone DEF is_empty
  <2>. QED  BY <2>1, <2>2 DEF FrameFine
<1>. QED  BY <1>1, <1>2, <1>3 DEF CopyState

\* Tidying one queue is such a removal.
LEMMA Tidied ==
    ASSUME NEW qs, NEW fs, NEW os, NEW m \in Manager, CopyState(qs, managers, fs, os)
    PROVE  CopyState(Tidy(qs, m), managers, fs, os)
<1>1. PICK new : new = Tidy(qs, m)
  OBVIOUS
<1>2. qs \in [Manager -> Queue \cup {NoQueue}]
  BY DEF CopyState
<1>3. new \in [Manager -> Queue \cup {NoQueue}]
  BY <1>1, <1>2 DEF Tidy
<1>4. \A k \in Manager : \/ new[k] = qs[k]
                         \/ new[k] = NoQueue /\ qs[k] # NoQueue /\ is_empty(qs[k]) /\ managers[k] # "alive"
  BY <1>1, <1>2 DEF Tidy, IsAlive
<1>5. CopyState(new, managers, fs, os)
  BY <1>3, <1>4, CleanedUp
<1>. QED  BY <1>1, <1>5

\* So is tidying all of them.
LEMMA Cleaned ==
    ASSUME NEW qs, NEW fs, NEW os, CopyState(qs, managers, fs, os)
    PROVE  CopyState(cleanup_queues(qs), managers, fs, os)
<1>1. PICK new : new = cleanup_queues(qs)
  OBVIOUS
<1>2. qs \in [Manager -> Queue \cup {NoQueue}]
  BY DEF CopyState
<1>3. new \in [Manager -> Queue \cup {NoQueue}]
  BY <1>1, <1>2 DEF cleanup_queues
<1>4. \A k \in Manager : \/ new[k] = qs[k]
                         \/ new[k] = NoQueue /\ qs[k] # NoQueue /\ is_empty(qs[k]) /\ managers[k] # "alive"
  BY <1>1, <1>2 DEF cleanup_queues, IsAlive
<1>5. CopyState(new, managers, fs, os)
  BY <1>3, <1>4, CleanedUp
<1>. QED  BY <1>1, <1>5


-----------------------------------------------------------------------------
\* What one frame, and the queue of its manager, become.
LEMMA OneFrame ==
    ASSUME NEW qs, NEW ms, NEW fs, NEW os, CopyState(qs, ms, fs, os),
           NEW f \in Frame, NEW x \in FrameInfo,
           NEW m \in Manager, fs[f].manager \in {m, NoManager}, NEW q \in Queue, qs[m] # NoQueue,
           NEW new, new = [qs EXCEPT ![m] = q], FrameFine(f, x, new),
           Distinct(q.copies), q.copies # <<>> => q.cast,
           Members(q.copies) \ {f} = Members(qs[m].copies) \ {f},
           f \in Members(q.copies) => Waits(m, x, os),
           qs[m].pending \subseteq q.pending \cup {f}
    PROVE  CopyState(new, ms, [fs EXCEPT ![f] = x], os)
<1>1. PICK now : now = [fs EXCEPT ![f] = x]
  OBVIOUS
<1>2. PICK old : old = qs[m] /\ old \in Queue
  BY DEF CopyState
<1>3. /\ now \in [Frame -> FrameInfo] /\ now[f] = x /\ \A g \in Frame \ {f} : now[g] = fs[g]
      /\ new \in [Manager -> Queue \cup {NoQueue}] /\ new[m] = q /\ \A k \in Manager \ {m} : new[k] = qs[k]
  BY <1>1 DEF CopyState
<1>4. q # NoQueue
  BY NoQueueIsNone
<1>5. \A k \in Manager : ManagerFine(new[k], ms[k])
  BY <1>3, <1>4 DEF CopyState, ManagerFine
<1>6. ASSUME NEW k \in Manager, new[k] # NoQueue PROVE QueueFine(k, new[k], now, os)
  <2>1. CASE k = m
    <3>1. QueueFine(m, old, fs, os)
      BY <1>2 DEF CopyState
    <3>2. \A g \in Members(q.copies) : Waits(m, now[g], os)
      <4>1. ASSUME NEW g \in Members(q.copies), g # f PROVE Waits(m, now[g], os)
        <5>1. g \in Members(old.copies) /\ Members(old.copies) \subseteq Frame
          BY <4>1, <1>2, SomeHasMembers DEF Queue
        <5>. QED  BY <5>1, <4>1, <3>1, <1>3 DEF QueueFine
      <4>. QED  BY <4>1, <1>3
    <3>. QED  BY <2>1, <3>2, <1>3 DEF QueueFine
  <2>2. CASE k # m
    <3>1. PICK p : p = qs[k] /\ new[k] = p /\ p \in Queue /\ QueueFine(k, p, fs, os)
      BY <2>2, <1>6, <1>3 DEF CopyState
    <3>2. \A g \in Members(p.copies) : g \in Frame /\ Waits(k, fs[g], os)
      BY <3>1, SomeHasMembers DEF Queue, QueueFine
    <3>3. f \notin Members(p.copies)
      BY <3>2, <2>2, CopyAssumption DEF Waits
    <3>4. \A g \in Members(p.copies) : Waits(k, now[g], os)
      BY <3>2, <3>3, <1>3
    <3>. QED  BY <3>1, <3>4 DEF QueueFine
  <2>. QED  BY <2>1, <2>2
<1>7. ASSUME NEW g \in Frame PROVE FrameFine(g, now[g], new)
  <2>1. CASE g = f
    BY <2>1, <1>3
  <2>2. CASE g # f
    <3>1. PICK y : y = fs[g] /\ now[g] = y /\ y \in FrameInfo /\ FrameFine(g, y, qs)
      BY <2>2, <1>3 DEF CopyState
    <3>2. CASE y.manager = m
      <4>1. g \in old.pending => g \in q.pending
        BY <2>2, <1>2
      <4>2. g \in Members(old.copies) => g \in Members(q.copies)
        BY <2>2, <1>2
      <4>. QED  BY <3>1, <3>2, <4>1, <4>2, <1>2, <1>3, <1>4 DEF FrameFine
    <3>3. CASE y.manager # m /\ y.manager # NoManager
      <4>1. y.manager \in Manager /\ new[y.manager] = qs[y.manager]
        BY <3>1, <3>3, <1>3 DEF FrameInfo
      <4>. QED  BY <3>1, <4>1 DEF FrameFine
    <3>4. CASE y.manager = NoManager
      BY <3>1, <3>4 DEF FrameFine
    <3>. QED  BY <3>2, <3>3, <3>4
  <2>. QED  BY <2>1, <2>2
<1>8. CopyState(new, ms, now, os)
  BY <1>3, <1>5, <1>6, <1>7 DEF CopyState
<1>. QED  BY <1>1, <1>8

\* Frames alone change, and those in the queues keep waiting.
LEMMA FramesAlone ==
    ASSUME NEW qs, NEW ms, NEW fs, NEW os, CopyState(qs, ms, fs, os), NEW now \in [Frame -> FrameInfo],
           \A f \in Frame : FrameFine(f, now[f], qs),
           \A f \in Frame, m \in Manager : Waits(m, fs[f], os) => Waits(m, now[f], os)
    PROVE  CopyState(qs, ms, now, os)
<1>1. ASSUME NEW m \in Manager, qs[m] # NoQueue PROVE QueueFine(m, qs[m], now, os)
  <2>1. PICK q : q = qs[m] /\ q \in Queue /\ QueueFine(m, q, fs, os)
    BY <1>1 DEF CopyState
  <2>2. Members(q.copies) \subseteq Frame
    BY <2>1, SomeHasMembers DEF Queue
  <2>. QED  BY <2>1, <2>2 DEF QueueFine
<1>. QED  BY <1>1 DEF CopyState

\* Managers alone change: they die or are destroyed.
LEMMA ManagersAlone ==
    ASSUME NEW qs, NEW ms, NEW fs, NEW os, CopyState(qs, ms, fs, os),
           NEW now \in [Manager -> {"new", "alive", "dead", "destroyed"}],
           \A m \in Manager : \/ now[m] = ms[m]
                              \/ ms[m] \in {"alive", "dead"} /\ now[m] \in {"dead", "destroyed"}
    PROVE  CopyState(qs, now, fs, os)
<1>1. \A m \in Manager : ManagerFine(qs[m], now[m])
  BY DEF CopyState, ManagerFine
<1>. QED  BY <1>1 DEF CopyState


-----------------------------------------------------------------------------
(***************************************************************************)
(* Each action keeps the invariant.                                        *)
(***************************************************************************)
\* A new manager has nothing to do with the frames there are.
LEMMA BindStep == ASSUME CopyInv, NEW m \in Manager, bind(m) PROVE CopyInv'
<1>1. /\ managers[m] = "new" /\ managers' = [managers EXCEPT ![m] = "alive"]
      /\ queues' = [queues EXCEPT ![m] = NewQueue] /\ UNCHANGED <<frames, outputs, unwrapped>>
  BY DEF bind
<1>2. PICK qs, new, q : qs = queues /\ new = [qs EXCEPT ![m] = NewQueue] /\ q = NewQueue
  OBVIOUS
<1>3. q \in Queue /\ q # NoQueue /\ q.copies = <<>>
  <2>1. <<>> \in Seq(Frame)
    BY EmptyHasNone
  <2>2. [pending |-> {}, copies |-> <<>>, cast |-> FALSE] \in Queue
    BY <2>1 DEF Queue
  <2>3. q = [pending |-> {}, copies |-> <<>>, cast |-> FALSE]
    BY <1>2, Zenon DEF NewQueue
  <2>. QED  BY <2>2, <2>3, NoQueueIsNone
<1>4. CopyState(qs, managers, frames, outputs)
  BY <1>2 DEF CopyInv
<1>5. /\ new \in [Manager -> Queue \cup {NoQueue}] /\ new[m] = q /\ \A k \in Manager \ {m} : new[k] = qs[k]
      /\ managers' \in [Manager -> {"new", "alive", "dead", "destroyed"}]
      /\ managers'[m] = "alive" /\ \A k \in Manager \ {m} : managers'[k] = managers[k]
      /\ qs[m] = NoQueue
  BY <1>1, <1>2, <1>3, <1>4 DEF CopyState, ManagerFine
<1>6. \A k \in Manager : ManagerFine(new[k], managers'[k])
  BY <1>3, <1>4, <1>5 DEF CopyState, ManagerFine
<1>7. QueueFine(m, q, frames, outputs)
  BY <1>3, EmptyHasNone DEF QueueFine
<1>8. \A k \in Manager : new[k] # NoQueue => QueueFine(k, new[k], frames, outputs)
  BY <1>4, <1>5, <1>7 DEF CopyState
<1>9. ASSUME NEW f \in Frame PROVE FrameFine(f, frames[f], new)
  <2>1. PICK x : x = frames[f] /\ x \in FrameInfo /\ FrameFine(f, x, qs)
    BY <1>4 DEF CopyState
  <2>2. x.manager \in Manager \cup {NoManager}
    BY <2>1 DEF FrameInfo
  <2>. QED  BY <2>1, <2>2, <1>5 DEF FrameFine
<1>10. CopyState(new, managers', frames, outputs)
  BY <1>4, <1>5, <1>6, <1>8, <1>9 DEF CopyState
<1>. QED  BY <1>1, <1>2, <1>10 DEF CopyInv

\* A frame is pending in the queue of the manager that is alive to be asked for it.
LEMMA CaptureStep ==
    ASSUME CopyInv, NEW m \in Manager, NEW f \in Frame, NEW o \in CopyOutput, CaptureOutput(m, f, o)
    PROVE  CopyInv'
<1>1. /\ IsAlive(m) /\ frames[f].life = "new" /\ unwrapped' \in {unwrapped, unwrapped \/ ~HasQueue(m)}
      /\ UNCHANGED <<managers, outputs>>
  BY DEF CaptureOutput
<1>2. PICK was, old : was = frames[f] /\ old = queues[m]
  OBVIOUS
<1>3. was \in FrameInfo /\ FrameFine(f, was, queues) /\ was.life = "new" /\ was.manager = NoManager
  BY <1>1, <1>2 DEF CopyInv, CopyState, FrameFine
<1>4. old \in Queue /\ queues[m] # NoQueue /\ QueueFine(m, old, frames, outputs)
  BY <1>1, <1>2 DEF CopyInv, CopyState, ManagerFine, IsAlive
<1>5. unwrapped' = FALSE
  BY <1>1, <1>2, <1>4 DEF CopyInv, HasQueue
<1>6. CASE /\ frames' = [frames EXCEPT ![f] = [@ EXCEPT !.life = "alive", !.manager = m, !.output = o]]
           /\ queues' = [queues EXCEPT ![m].pending = @ \cup {f}]
  <2>1. PICK x, q, new : /\ x = [was EXCEPT !.life = "alive", !.manager = m, !.output = o]
                         /\ q = [old EXCEPT !.pending = old.pending \cup {f}]
                         /\ new = [queues EXCEPT ![m] = q]
    OBVIOUS
  <2>2. frames' = [frames EXCEPT ![f] = x] /\ queues' = new
    BY <1>2, <1>6, <2>1
  <2>3. x \in FrameInfo /\ x.life = "alive" /\ x.manager = m /\ ~x.copied /\ x.answers = 0 /\ ~x.syncing
    BY <1>3, <2>1 DEF FrameInfo, FrameFine
  <2>4. q \in Queue /\ q.copies = old.copies /\ q.cast = old.cast /\ q.pending = old.pending \cup {f}
    BY <1>4, <2>1 DEF Queue
  <2>5. new[m] = q /\ q # NoQueue
    BY <2>1, <2>4, NoQueueIsNone DEF CopyInv, CopyState
  <2>6. FrameFine(f, x, new)
    BY <2>3, <2>4, <2>5, CopyAssumption DEF FrameFine
  <2>7. f \notin Members(old.copies)
    BY <1>2, <1>3, <1>4, CopyAssumption DEF QueueFine, Waits
  <2>8. CopyState(queues, managers, frames, outputs)
    BY DEF CopyInv
  <2>9. CopyState(new, managers, [frames EXCEPT ![f] = x], outputs)
    <3>1. /\ frames[f].manager \in {m, NoManager} /\ Distinct(q.copies) /\ (q.copies # <<>> => q.cast)
          /\ Members(q.copies) \ {f} = Members(queues[m].copies) \ {f} /\ f \notin Members(q.copies)
          /\ queues[m].pending \subseteq q.pending \cup {f}
      BY <1>2, <1>3, <1>4, <2>4, <2>7 DEF QueueFine
    <3>. QED  BY <1>4, <2>1, <2>3, <2>4, <2>6, <2>8, <3>1, OneFrame
  <2>. QED  BY <1>1, <1>5, <2>2, <2>9 DEF CopyInv
<1>7. CASE frames' = [frames EXCEPT ![f] = [@ EXCEPT !.life = "alive"]] /\ queues' = queues
  <2>1. PICK x, now : x = [was EXCEPT !.life = "alive"] /\ now = [frames EXCEPT ![f] = x]
    OBVIOUS
  <2>2. frames' = now /\ queues' = queues
    BY <1>2, <1>7, <2>1
  <2>3. x \in FrameInfo /\ x.manager = NoManager /\ ~x.copied /\ x.life = "alive" /\ x.answers = 0 /\ ~x.syncing
    BY <1>3, <2>1 DEF FrameInfo, FrameFine
  <2>4. now \in [Frame -> FrameInfo] /\ now[f] = x /\ \A g \in Frame \ {f} : now[g] = frames[g]
    BY <2>1, <2>3 DEF CopyInv, CopyState
  <2>5. \A g \in Frame : FrameFine(g, now[g], queues)
    BY <2>3, <2>4 DEF CopyInv, CopyState, FrameFine
  <2>6. \A g \in Frame, k \in Manager : Waits(k, frames[g], outputs) => Waits(k, now[g], outputs)
    BY <1>2, <1>3, <2>4, CopyAssumption DEF Waits
  <2>7. CopyState(queues, managers, frames, outputs)
    BY DEF CopyInv
  <2>8. CopyState(queues, managers, now, outputs)
    BY <2>4, <2>5, <2>6, <2>7, FramesAlone
  <2>. QED  BY <1>1, <1>5, <2>2, <2>8 DEF CopyInv
<1>8. \/ /\ frames' = [frames EXCEPT ![f] = [@ EXCEPT !.life = "alive", !.manager = m, !.output = o]]
         /\ queues' = [queues EXCEPT ![m].pending = @ \cup {f}]
      \/ frames' = [frames EXCEPT ![f] = [@ EXCEPT !.life = "alive"]] /\ queues' = queues
  BY Zenon DEF CaptureOutput
<1>. QED  BY <1>6, <1>7, <1>8

\* A copy leaves the pending frames, to be answered, rendered, or queued as the last.
LEMMA CopyStep ==
    ASSUME CopyInv, NEW f \in Frame, NEW with_damage \in BOOLEAN, Copy(f, with_damage)
    PROVE  CopyInv'
<1>1. PICK was, m, old : was = frames[f] /\ m = was.manager /\ old = queues[m]
  OBVIOUS
<1>2. was.life = "alive" /\ m # NoManager /\ ~was.copied /\ UNCHANGED <<managers, outputs>>
  BY <1>1 DEF Copy
<1>3. was \in FrameInfo /\ FrameFine(f, was, queues)
  BY <1>1 DEF CopyInv, CopyState
<1>4. m \in Manager /\ queues[m] # NoQueue /\ f \in queues[m].pending /\ was.answers = 0 /\ ~was.syncing
  BY <1>1, <1>2, <1>3 DEF FrameInfo, FrameFine
<1>5. old \in Queue /\ QueueFine(m, old, frames, outputs)
  BY <1>1, <1>4 DEF CopyInv, CopyState
<1>6. f \notin Members(old.copies) /\ Members(old.copies) \subseteq Frame
  BY <1>1, <1>2, <1>5, SomeHasMembers DEF QueueFine, Waits, Queue
<1>7. CopyState(queues, managers, frames, outputs) /\ queues \in [Manager -> Queue \cup {NoQueue}]
  BY DEF CopyInv, CopyState
<1>8. ASSUME NEW x \in FrameInfo, x.manager = m, x.life = "alive", x.copied, x.output = was.output,
             (x.answers = 1 /\ ~x.syncing) \/ (x.answers = 0 /\ x.syncing),
             frames' = [frames EXCEPT ![f] = x],
             queues' = (IF queues[m] = NoQueue THEN queues ELSE Tidy([queues EXCEPT ![m].pending = @ \ {f}], m)),
             unwrapped' = (unwrapped \/ queues[m] = NoQueue)
      PROVE  CopyInv'
  <2>1. PICK q, new : q = [old EXCEPT !.pending = old.pending \ {f}] /\ new = [queues EXCEPT ![m] = q]
    OBVIOUS
  <2>2. queues' = Tidy(new, m) /\ unwrapped' = FALSE
    BY <1>1, <1>4, <1>8, <2>1 DEF CopyInv
  <2>3. q \in Queue /\ q.copies = old.copies /\ q.cast = old.cast /\ q.pending = old.pending \ {f}
    BY <1>5, <2>1 DEF Queue
  <2>4. FrameFine(f, x, new)
    BY <1>8, <1>2, <1>3 DEF FrameFine
  <2>5. CopyState(new, managers, [frames EXCEPT ![f] = x], outputs)
    BY <1>1, <1>4, <1>5, <1>6, <1>7, <2>1, <2>3, <2>4, OneFrame DEF QueueFine
  <2>6. CopyState(Tidy(new, m), managers, [frames EXCEPT ![f] = x], outputs)
    BY <1>4, <2>5, Tidied
  <2>. QED  BY <1>2, <1>8, <2>2, <2>6 DEF CopyInv
<1>9. PICK copied : copied = [was EXCEPT !.copied = TRUE]
  OBVIOUS
<1>10. /\ copied \in FrameInfo /\ copied.manager = m /\ copied.life = "alive" /\ copied.copied
       /\ copied.output = was.output /\ copied.answers = 0 /\ ~copied.syncing
  BY <1>1, <1>2, <1>3, <1>4, <1>9 DEF FrameInfo
<1>11. CASE /\ frames' = [frames EXCEPT ![f] = [copied EXCEPT !.answers = @ + 1]]
            /\ queues' = (IF queues[m] = NoQueue THEN queues ELSE Tidy([queues EXCEPT ![m].pending = @ \ {f}], m))
            /\ unwrapped' = (unwrapped \/ queues[m] = NoQueue)
  <2>1. PICK x : x = [copied EXCEPT !.answers = copied.answers + 1]
    OBVIOUS
  <2>2. x \in FrameInfo /\ x.manager = m /\ x.life = "alive" /\ x.copied /\ x.output = was.output
        /\ x.answers = 1 /\ ~x.syncing
    BY <1>10, <2>1 DEF FrameInfo
  <2>3. frames' = [frames EXCEPT ![f] = x]
    BY <1>11, <2>1
  <2>4. /\ queues' = (IF queues[m] = NoQueue THEN queues ELSE Tidy([queues EXCEPT ![m].pending = @ \ {f}], m))
        /\ unwrapped' = (unwrapped \/ queues[m] = NoQueue)
    BY <1>11, Zenon
  <2>. QED  BY <1>8, <2>2, <2>3, <2>4
<1>12. CASE /\ frames' = [frames EXCEPT ![f] = [copied EXCEPT !.syncing = TRUE]]
            /\ queues' = (IF queues[m] = NoQueue THEN queues ELSE Tidy([queues EXCEPT ![m].pending = @ \ {f}], m))
            /\ unwrapped' = (unwrapped \/ queues[m] = NoQueue)
  <2>1. PICK x : x = [copied EXCEPT !.syncing = TRUE]
    OBVIOUS
  <2>2. x \in FrameInfo /\ x.manager = m /\ x.life = "alive" /\ x.copied /\ x.output = was.output
        /\ x.answers = 0 /\ x.syncing
    BY <1>10, <2>1 DEF FrameInfo
  <2>. QED  BY <1>8, <1>12, <2>1, <2>2
<1>13. PICK pushed : pushed = push(f)
  OBVIOUS
<1>14. CASE /\ was.output \in outputs
            /\ frames' = [frames EXCEPT ![f] = copied]
            /\ queues' = (IF pushed[m] = NoQueue THEN pushed ELSE Tidy([pushed EXCEPT ![m].pending = @ \ {f}], m))
            /\ unwrapped' = (unwrapped \/ pushed[m] = NoQueue)
  <2>1. PICK more, q, new : /\ more = Append(old.copies, f)
                            /\ q = [old EXCEPT !.copies = more, !.cast = TRUE, !.pending = old.pending \ {f}]
                            /\ new = [queues EXCEPT ![m] = q]
    OBVIOUS
  <2>2. old.copies \in Seq(Frame) /\ Len(old.copies) \in Nat
    BY <1>5, LenProperties DEF Queue
  <2>3. /\ more \in Seq(Frame) /\ Len(more) = Len(old.copies) + 1 /\ more[Len(old.copies) + 1] = f
        /\ \A i \in 1 .. Len(old.copies) : more[i] = old.copies[i]
    BY <2>1, <2>2, AppendProperties
  <2>4. 1 .. Len(more) = (1 .. Len(old.copies)) \cup {Len(old.copies) + 1}
    BY <2>2, <2>3
  <2>5. Members(more) = Members(old.copies) \cup {f}
    BY <2>3, <2>4 DEF Members
  <2>6. Distinct(more)
    <3>1. \A i \in 1 .. Len(old.copies) : old.copies[i] # f
      BY <1>6 DEF Members
    <3>2. Distinct(old.copies)
      BY <1>5 DEF QueueFine
    <3>. QED  BY <2>3, <2>4, <3>1, <3>2 DEF Distinct
  <2>7. q \in Queue /\ q.copies = more /\ q.cast /\ q.pending = old.pending \ {f}
    BY <1>5, <2>1, <2>3 DEF Queue
  <2>8. PICK pq : pq = [old EXCEPT !.copies = more, !.cast = TRUE]
    OBVIOUS
  <2>9. pushed = [queues EXCEPT ![m] = pq] /\ pq \in Queue
    <3>1. pushed = [queues EXCEPT ![m] = [queues[m] EXCEPT !.copies = Append(queues[m].copies, f), !.cast = TRUE]]
      <4>1. pushed = [queues EXCEPT ![m].copies = Append(@, f), ![m].cast = TRUE]
        BY <1>1, <1>13, Zenon DEF push
      <4>. QED  BY <1>4, <1>7, <4>1
    <3>2. pq \in Queue
      BY <1>5, <2>3, <2>8 DEF Queue
    <3>. QED  BY <1>1, <2>1, <2>8, <3>1, <3>2
  <2>10. pushed[m] = pq /\ pq # NoQueue
    BY <1>4, <1>7, <2>9, NoQueueIsNone
  <2>11. [pushed EXCEPT ![m].pending = @ \ {f}] = new
    <3>1. [pushed EXCEPT ![m].pending = @ \ {f}] = [pushed EXCEPT ![m] = [pq EXCEPT !.pending = pq.pending \ {f}]]
      BY <2>10
    <3>2. [pq EXCEPT !.pending = pq.pending \ {f}] = q
      BY <1>5, <2>1, <2>8 DEF Queue
    <3>3. [pushed EXCEPT ![m] = q] = new
      BY <1>7, <2>1, <2>9
    <3>. QED  BY <3>1, <3>2, <3>3
  <2>12. queues' = Tidy(new, m) /\ unwrapped' = FALSE
    BY <1>14, <2>10, <2>11 DEF CopyInv
  <2>13. new[m] = q /\ q # NoQueue
    BY <1>4, <1>7, <2>1, <2>7, NoQueueIsNone
  <2>14. FrameFine(f, copied, new)
    BY <1>2, <1>10, <2>5, <2>7, <2>13 DEF FrameFine
  <2>15. Waits(m, copied, outputs)
    BY <1>10, <1>14 DEF Waits
  <2>16. CopyState(new, managers, [frames EXCEPT ![f] = copied], outputs)
    <3>1. frames[f].manager \in {m, NoManager} /\ queues[m] # NoQueue /\ new = [queues EXCEPT ![m] = q]
      BY <1>1, <1>4, <2>1
    <3>2. /\ Distinct(q.copies) /\ (q.copies # <<>> => q.cast)
          /\ Members(q.copies) \ {f} = Members(queues[m].copies) \ {f}
          /\ (f \in Members(q.copies) => Waits(m, copied, outputs))
          /\ queues[m].pending \subseteq q.pending \cup {f}
      BY <1>1, <2>5, <2>6, <2>7, <2>15
    <3>. QED  BY <1>4, <1>7, <1>10, <2>7, <2>14, <3>1, <3>2, OneFrame
  <2>17. CopyState(Tidy(new, m), managers, [frames EXCEPT ![f] = copied], outputs)
    BY <1>4, <2>16, Tidied
  <2>. QED  BY <1>2, <1>14, <2>12, <2>17 DEF CopyInv
<1>. QED  BY <1>1, <1>9, <1>11, <1>12, <1>13, <1>14, Zenon DEF Copy


\* A frame that dies stays where it is until its destruction is handled.
LEMMA DestroyStep == ASSUME CopyInv, NEW f \in Frame, DestroyFrame(f) PROVE CopyInv'
<1>1. PICK was, x, now : /\ was = frames[f] /\ x = [was EXCEPT !.life = "dead"]
                         /\ now = [frames EXCEPT ![f] = x]
  OBVIOUS
<1>2. was.life = "alive" /\ frames' = now /\ UNCHANGED <<queues, managers, outputs, unwrapped>>
  BY <1>1 DEF DestroyFrame
<1>3. was \in FrameInfo /\ FrameFine(f, was, queues) /\ CopyState(queues, managers, frames, outputs)
  BY <1>1 DEF CopyInv, CopyState
<1>4. /\ x \in FrameInfo /\ x.life = "dead" /\ x.manager = was.manager /\ x.output = was.output
      /\ x.copied = was.copied /\ x.answers = was.answers /\ x.syncing = was.syncing
  BY <1>1, <1>3 DEF FrameInfo
<1>5. now \in [Frame -> FrameInfo] /\ now[f] = x /\ \A g \in Frame \ {f} : now[g] = frames[g]
  BY <1>1, <1>3, <1>4 DEF CopyState
<1>6. FrameFine(f, x, queues)
  BY <1>2, <1>3, <1>4 DEF FrameFine
<1>7. \A g \in Frame : FrameFine(g, now[g], queues)
  BY <1>3, <1>5, <1>6 DEF CopyState
<1>8. \A g \in Frame, m \in Manager : Waits(m, frames[g], outputs) => Waits(m, now[g], outputs)
  BY <1>1, <1>4, <1>5 DEF Waits
<1>9. CopyState(queues, managers, now, outputs)
  BY <1>3, <1>5, <1>7, <1>8, FramesAlone
<1>. QED  BY <1>2, <1>9 DEF CopyInv

\* The GPU answers a frame that was rendered.
LEMMA SyncStep == ASSUME CopyInv, NEW f \in Frame, SyncReached(f) PROVE CopyInv'
<1>1. PICK was, x, now : /\ was = frames[f] /\ x = [was EXCEPT !.syncing = FALSE, !.answers = 1]
                         /\ now = [frames EXCEPT ![f] = x]
  OBVIOUS
<1>2. was.syncing /\ UNCHANGED <<queues, managers, outputs, unwrapped>>
  BY <1>1 DEF SyncReached
<1>3. was \in FrameInfo /\ FrameFine(f, was, queues) /\ CopyState(queues, managers, frames, outputs)
  BY <1>1 DEF CopyInv, CopyState
<1>4. was.answers = 0 /\ was.copied
  BY <1>2, <1>3 DEF FrameFine, FrameInfo
<1>5. /\ x \in FrameInfo /\ x.life = was.life /\ x.manager = was.manager /\ x.output = was.output
      /\ x.copied = was.copied /\ x.answers = 1 /\ x.syncing = FALSE
  <2>1. was \in FrameInfo /\ x = [was EXCEPT !.syncing = FALSE, !.answers = 1] /\ 1 \in 0 .. 1
    BY <1>1, <1>3
  <2>. QED  BY <2>1 DEF FrameInfo
<1>6. now \in [Frame -> FrameInfo] /\ now[f] = x /\ \A g \in Frame \ {f} : now[g] = frames[g]
  BY <1>1, <1>3, <1>5 DEF CopyState
<1>7. FrameFine(f, x, queues)
  BY <1>3, <1>4, <1>5 DEF FrameFine
<1>8. \A g \in Frame : FrameFine(g, now[g], queues)
  BY <1>3, <1>6, <1>7 DEF CopyState
<1>9. \A g \in Frame, m \in Manager : Waits(m, frames[g], outputs) => Waits(m, now[g], outputs)
  BY <1>1, <1>2, <1>6 DEF Waits
<1>10. frames' = now
  <2>1. frames' = [frames EXCEPT ![f].syncing = FALSE, ![f].answers = @ + 1]
    BY Zenon DEF SyncReached
  <2>. QED  BY <1>1, <1>3, <1>4, <2>1 DEF CopyState, FrameInfo
<1>11. CopyState(queues, managers, now, outputs)
  BY <1>3, <1>6, <1>8, <1>9, FramesAlone
<1>. QED  BY <1>2, <1>10, <1>11 DEF CopyInv

\* A manager that goes takes its queue along only if it is empty.
LEMMA ManagerStep ==
    ASSUME CopyInv, NEW m \in Manager, DestroyManager(m) \/ ManagerDestroyed(m)
    PROVE  CopyInv'
<1>1. CopyState(queues, managers, frames, outputs) /\ CopyState(Tidy(queues, m), managers, frames, outputs)
  BY Tidied DEF CopyInv
<1>2. managers \in [Manager -> {"new", "alive", "dead", "destroyed"}]
  BY <1>1 DEF CopyState
<1>3. CASE DestroyManager(m)
  <2>1. /\ managers[m] = "alive" /\ managers' = [managers EXCEPT ![m] = "dead"]
        /\ UNCHANGED <<queues, frames, outputs, unwrapped>>
    BY <1>3 DEF DestroyManager, IsAlive
  <2>2. CopyState(queues, managers', frames, outputs)
    BY <1>1, <1>2, <2>1, ManagersAlone
  <2>. QED  BY <2>1, <2>2 DEF CopyInv
<1>4. CASE ManagerDestroyed(m)
  <2>1. /\ managers[m] = "dead" /\ managers' = [managers EXCEPT ![m] = "destroyed"]
        /\ queues' = Tidy(queues, m) /\ UNCHANGED <<frames, outputs, unwrapped>>
    BY <1>4 DEF ManagerDestroyed
  <2>2. CopyState(Tidy(queues, m), managers', frames, outputs)
    BY <1>1, <1>2, <2>1, ManagersAlone
  <2>. QED  BY <2>1, <2>2 DEF CopyInv
<1>. QED  BY <1>3, <1>4

\* A client that goes takes all its objects along.
LEMMA DisconnectStep == ASSUME CopyInv, Disconnect PROVE CopyInv'
<1>1. PICK ms, now : /\ ms = [m \in Manager |-> IF IsAlive(m) THEN "dead" ELSE managers[m]]
                     /\ now = [f \in Frame |-> IF frames[f].life = "alive" THEN [frames[f] EXCEPT !.life = "dead"]
                                               ELSE frames[f]]
  OBVIOUS
<1>2. managers' = ms /\ frames' = now /\ UNCHANGED <<queues, outputs, unwrapped>>
  BY <1>1 DEF Disconnect
<1>3. CopyState(queues, managers, frames, outputs)
  BY DEF CopyInv
<1>4. ASSUME NEW f \in Frame
      PROVE  /\ now[f] \in FrameInfo /\ FrameFine(f, now[f], queues)
             /\ \A m \in Manager : Waits(m, frames[f], outputs) => Waits(m, now[f], outputs)
  <2>1. PICK was : was = frames[f] /\ was \in FrameInfo /\ FrameFine(f, was, queues)
    BY <1>3 DEF CopyState
  <2>2. PICK x : x = [was EXCEPT !.life = "dead"]
    OBVIOUS
  <2>3. /\ x \in FrameInfo /\ x.life = "dead" /\ x.manager = was.manager /\ x.output = was.output
        /\ x.copied = was.copied /\ x.answers = was.answers /\ x.syncing = was.syncing
    BY <2>1, <2>2 DEF FrameInfo
  <2>4. now[f] = IF was.life = "alive" THEN x ELSE was
    BY <1>1, <2>1, <2>2
  <2>5. was.life = "alive" => FrameFine(f, x, queues)
    BY <2>1, <2>3 DEF FrameFine
  <2>6. \A m \in Manager : Waits(m, was, outputs) => Waits(m, x, outputs)
    BY <2>3 DEF Waits
  <2>. QED  BY <2>1, <2>3, <2>4, <2>5, <2>6
<1>5. now \in [Frame -> FrameInfo]
  BY <1>1, <1>4
<1>6. CopyState(queues, managers, now, outputs)
  BY <1>3, <1>4, <1>5, FramesAlone
<1>7. /\ ms \in [Manager -> {"new", "alive", "dead", "destroyed"}]
      /\ \A m \in Manager : \/ ms[m] = managers[m]
                            \/ managers[m] \in {"alive", "dead"} /\ ms[m] \in {"dead", "destroyed"}
  BY <1>1, <1>3 DEF CopyState, IsAlive
<1>8. CopyState(queues, ms, now, outputs)
  BY <1>6, <1>7, ManagersAlone
<1>. QED  BY <1>2, <1>8 DEF CopyInv

\* A frame that is destroyed leaves its queue.
LEMMA FrameGoneStep == ASSUME CopyInv, NEW f \in Frame, FrameDestroyed(f) PROVE CopyInv'
<1>1. PICK was, m, x, now : /\ was = frames[f] /\ m = was.manager
                            /\ x = [was EXCEPT !.life = "destroyed"] /\ now = [frames EXCEPT ![f] = x]
  OBVIOUS
<1>2. was.life = "dead" /\ frames' = now /\ UNCHANGED <<managers, outputs, unwrapped>>
  BY <1>1 DEF FrameDestroyed
<1>3. was \in FrameInfo /\ FrameFine(f, was, queues) /\ CopyState(queues, managers, frames, outputs)
  BY <1>1 DEF CopyInv, CopyState
<1>4. /\ x \in FrameInfo /\ x.life = "destroyed" /\ x.manager = was.manager /\ x.output = was.output
      /\ x.copied = was.copied /\ x.answers = was.answers /\ x.syncing = was.syncing
  BY <1>1, <1>3 DEF FrameInfo
<1>5. \A qs : FrameFine(f, x, qs)
  BY <1>2, <1>3, <1>4 DEF FrameFine
<1>6. CASE m = NoManager \/ queues[m] = NoQueue
  <2>1. queues' = queues
    BY <1>1, <1>6 DEF FrameDestroyed
  <2>2. now \in [Frame -> FrameInfo] /\ now[f] = x /\ \A g \in Frame \ {f} : now[g] = frames[g]
    BY <1>1, <1>3, <1>4 DEF CopyState
  <2>3. \A g \in Frame : FrameFine(g, now[g], queues)
    BY <1>3, <1>5, <2>2 DEF CopyState
  <2>4. \A g \in Frame, k \in Manager : Waits(k, frames[g], outputs) => Waits(k, now[g], outputs)
    BY <1>1, <1>4, <2>2 DEF Waits
  <2>5. CopyState(queues, managers, now, outputs)
    BY <1>3, <2>2, <2>3, <2>4, FramesAlone
  <2>. QED  BY <1>2, <2>1, <2>5 DEF CopyInv
<1>7. CASE m # NoManager /\ queues[m] # NoQueue
  <2>1. PICK old, left, q, new : /\ old = queues[m] /\ left = retain(old.copies, Frame \ {f})
                                 /\ q = [old EXCEPT !.pending = old.pending \ {f}, !.copies = left]
                                 /\ new = [queues EXCEPT ![m] = q]
    OBVIOUS
  <2>2. m \in Manager /\ old \in Queue /\ QueueFine(m, old, frames, outputs)
    BY <1>1, <1>3, <1>7, <2>1 DEF FrameInfo, CopyState
  <2>3. /\ left \in Seq(Frame) /\ Members(left) = Members(old.copies) \cap (Frame \ {f}) /\ Distinct(left)
        /\ Members(old.copies) \subseteq Frame /\ (left # <<>> => old.copies # <<>>)
    <3>1. old.copies \in Seq(Frame) /\ Distinct(old.copies)
      BY <2>2 DEF Queue, QueueFine
    <3>2. left \in Seq(Frame) /\ Members(left) = Members(old.copies) \cap (Frame \ {f}) /\ Distinct(left)
      BY <2>1, <3>1, RetainKeeps
    <3>. QED  BY <3>1, <3>2, SomeHasMembers
  <2>4. queues' = Tidy(new, m)
    <3>1. queues' = Tidy([queues EXCEPT ![m].pending = @ \ {f}, ![m].copies = retain(@, Frame \ {f})], m)
      BY <1>1, <1>7, Zenon DEF FrameDestroyed
    <3>2. [queues EXCEPT ![m].pending = @ \ {f}, ![m].copies = retain(@, Frame \ {f})] = new
      BY <1>3, <2>1, <2>2 DEF CopyState, Queue
    <3>. QED  BY <3>1, <3>2
  <2>5. q \in Queue /\ q.copies = left /\ q.cast = old.cast /\ q.pending = old.pending \ {f}
    BY <2>1, <2>2, <2>3 DEF Queue
  <2>6. CopyState(new, managers, now, outputs)
    <3>1. f \notin Members(q.copies) /\ Members(q.copies) \ {f} = Members(queues[m].copies) \ {f}
      BY <2>1, <2>3, <2>5
    <3>2. Distinct(q.copies) /\ (q.copies # <<>> => q.cast) /\ queues[m].pending \subseteq q.pending \cup {f}
      BY <2>1, <2>2, <2>3, <2>5 DEF QueueFine
    <3>3. /\ frames[f].manager \in {m, NoManager} /\ queues[m] # NoQueue /\ new = [queues EXCEPT ![m] = q]
          /\ FrameFine(f, x, new) /\ now = [frames EXCEPT ![f] = x]
      BY <1>1, <1>5, <1>7, <2>1
    <3>. QED  BY <1>3, <1>4, <2>2, <2>5, <3>1, <3>2, <3>3, OneFrame
  <2>7. CopyState(Tidy(new, m), managers, now, outputs)
    BY <2>2, <2>6, Tidied
  <2>. QED  BY <1>2, <2>4, <2>7 DEF CopyInv
<1>. QED  BY <1>6, <1>7


\* Copies of an output that goes fail, each once, and no other.
LEMMA RemoveStep == ASSUME CopyInv, NEW o \in CopyOutput, remove_output(o) PROVE CopyInv'
<1>1. PICK stay, gone, qs, now, os :
         /\ stay = {f \in Frame : frames[f].output # o}
         /\ gone = {f \in Frame \ stay : \E m \in Manager : HasQueue(m)
                                           /\ \E i \in DOMAIN queues[m].copies : queues[m].copies[i] = f}
         /\ qs = [m \in Manager |-> IF HasQueue(m) THEN [queues[m] EXCEPT !.copies = retain(@, stay)] ELSE NoQueue]
         /\ now = Failed(gone) /\ os = outputs \ {o}
  OBVIOUS
<1>2. outputs' = os /\ queues' = cleanup_queues(qs) /\ frames' = now /\ UNCHANGED <<managers, unwrapped>>
  BY <1>1, Zenon DEF remove_output
<1>3. CopyState(queues, managers, frames, outputs)
  BY DEF CopyInv
<1>4. ASSUME NEW m \in Manager, queues[m] # NoQueue
      PROVE  /\ queues[m] \in Queue /\ QueueFine(m, queues[m], frames, outputs)
             /\ qs[m] \in Queue /\ qs[m].pending = queues[m].pending /\ qs[m].cast = queues[m].cast
             /\ Members(qs[m].copies) = Members(queues[m].copies) \cap stay
             /\ Distinct(qs[m].copies) /\ (qs[m].copies # <<>> => queues[m].copies # <<>>)
  <2>1. PICK old, left, q : old = queues[m] /\ left = retain(old.copies, stay) /\ q = [old EXCEPT !.copies = left]
    OBVIOUS
  <2>2. old \in Queue /\ QueueFine(m, old, frames, outputs) /\ qs[m] = q
    BY <1>1, <1>3, <1>4, <2>1 DEF CopyState, HasQueue
  <2>3. old.copies \in Seq(Frame) /\ Distinct(old.copies)
    BY <2>2 DEF Queue, QueueFine
  <2>4. left \in Seq(Frame) /\ Members(left) = Members(old.copies) \cap stay /\ Distinct(left)
    BY <2>1, <2>3, RetainKeeps
  <2>5. left # <<>> => old.copies # <<>>
    BY <2>3, <2>4, SomeHasMembers
  <2>6. q \in Queue /\ q.copies = left /\ q.pending = old.pending /\ q.cast = old.cast
    BY <2>1, <2>2, <2>4 DEF Queue
  <2>. QED  BY <2>1, <2>2, <2>4, <2>5, <2>6
<1>5. \A m \in Manager : queues[m] = NoQueue => qs[m] = NoQueue
  BY <1>1 DEF HasQueue
<1>6. ASSUME NEW f \in Frame
      PROVE  f \in gone <=> f \notin stay /\ \E m \in Manager : queues[m] # NoQueue /\ f \in Members(queues[m].copies)
  <2>1. \A m \in Manager : queues[m] # NoQueue => queues[m].copies \in Seq(Frame)
    BY <1>4 DEF Queue
  <2>2. \A m \in Manager : queues[m] # NoQueue => DOMAIN queues[m].copies = 1 .. Len(queues[m].copies)
    BY <2>1, LenProperties
  <2>. QED  BY <1>1, <2>2 DEF HasQueue, Members
<1>7. ASSUME NEW f \in Frame
      PROVE  /\ now[f] \in FrameInfo
             /\ f \notin gone => now[f] = frames[f]
             /\ f \in gone => /\ now[f].life = frames[f].life /\ now[f].manager = frames[f].manager
                              /\ now[f].copied = TRUE /\ now[f].answers = 1 /\ now[f].syncing = FALSE
                              /\ frames[f].manager # NoManager /\ frames[f].copied = TRUE
  <2>1. PICK was : was = frames[f] /\ was \in FrameInfo
    BY <1>3 DEF CopyState
  <2>2. CASE f \notin gone
    BY <1>1, <2>1, <2>2 DEF Failed
  <2>3. CASE f \in gone
    <3>1. PICK m \in Manager : Waits(m, was, outputs)
      BY <1>4, <1>6, <2>1, <2>3 DEF QueueFine
    <3>2. PICK x : x = [was EXCEPT !.answers = 1]
      OBVIOUS
    <3>3. was.answers = 0 /\ was.copied = TRUE /\ was.syncing = FALSE /\ was.manager = m
      BY <2>1, <3>1 DEF Waits, FrameInfo
    <3>4. 1 \in 0 .. 1
      OBVIOUS
    <3>5. /\ x \in FrameInfo /\ x.life = was.life /\ x.manager = m /\ x.copied = was.copied /\ x.answers = 1
          /\ x.syncing = was.syncing
      BY <2>1, <3>2, <3>3, <3>4 DEF FrameInfo
    <3>6. now[f] = x
      BY <1>1, <2>1, <2>3, <3>2, <3>3 DEF Failed
    <3>. QED  BY <2>1, <2>3, <3>3, <3>5, <3>6, CopyAssumption
  <2>. QED  BY <2>2, <2>3
<1>8. qs \in [Manager -> Queue \cup {NoQueue}] /\ now \in [Frame -> FrameInfo]
  <2>1. \A m \in Manager : qs[m] \in Queue \cup {NoQueue}
    BY <1>4, <1>5
  <2>2. DOMAIN qs = Manager /\ qs = [m \in Manager |-> qs[m]] /\ DOMAIN now = Frame /\ now = [f \in Frame |-> now[f]]
    BY <1>1 DEF Failed
  <2>. QED  BY <1>7, <2>1, <2>2
<1>9. \A m \in Manager : ManagerFine(qs[m], managers[m])
  BY <1>3, <1>4, <1>5, NoQueueIsNone DEF CopyState, ManagerFine
<1>10. ASSUME NEW m \in Manager, qs[m] # NoQueue PROVE QueueFine(m, qs[m], now, os)
  <2>1. queues[m] # NoQueue
    BY <1>5, <1>10
  <2>2. ASSUME NEW f \in Members(qs[m].copies) PROVE Waits(m, now[f], os)
    <3>1. f \in Members(queues[m].copies) /\ f \in stay /\ f \in Frame
      BY <1>1, <1>4, <2>1, <2>2
    <3>2. Waits(m, frames[f], outputs) /\ frames[f].output # o
      BY <1>1, <1>4, <2>1, <3>1 DEF QueueFine
    <3>3. now[f] = frames[f]
      BY <1>6, <1>7, <3>1
    <3>. QED  BY <1>1, <3>2, <3>3 DEF Waits
  <2>. QED  BY <1>4, <2>1, <2>2 DEF QueueFine
<1>11. ASSUME NEW f \in Frame PROVE FrameFine(f, now[f], qs)
  <2>1. PICK was, x : was = frames[f] /\ x = now[f] /\ was \in FrameInfo /\ FrameFine(f, was, queues)
    BY <1>3 DEF CopyState
  <2>2. CASE f \in gone
    <3>1. /\ x.life = was.life /\ x.manager = was.manager /\ x.copied = TRUE /\ x.answers = 1 /\ x.syncing = FALSE
          /\ was.manager # NoManager
      BY <1>7, <2>1, <2>2
    <3>2. FrameFine(f, x, qs)
      BY <2>1, <3>1 DEF FrameFine
    <3>. QED  BY <2>1, <3>2
  <2>3. CASE f \notin gone
    <3>1. x = was
      BY <1>7, <2>1, <2>3
    <3>2. ASSUME was.manager # NoManager
          PROVE  /\ queues[was.manager] # NoQueue => qs[was.manager] # NoQueue
                 /\ queues[was.manager] # NoQueue /\ f \in queues[was.manager].pending =>
                       f \in qs[was.manager].pending
                 /\ queues[was.manager] # NoQueue /\ f \in Members(queues[was.manager].copies) =>
                       f \in Members(qs[was.manager].copies)
      <4>1. was.manager \in Manager
        BY <2>1, <3>2 DEF FrameInfo
      <4>. QED  BY <1>4, <1>6, <2>3, <4>1, NoQueueIsNone
    <3>3. was.manager = NoManager => FrameFine(f, was, qs)
      BY <2>1 DEF FrameFine
    <3>4. was.manager # NoManager => FrameFine(f, was, qs)
      BY <2>1, <3>2 DEF FrameFine
    <3>5. FrameFine(f, was, qs)
      BY <3>3, <3>4
    <3>. QED  BY <2>1, <3>1, <3>5
  <2>. QED  BY <2>2, <2>3
<1>12. CopyState(qs, managers, now, os)
  BY <1>1, <1>3, <1>8, <1>9, <1>10, <1>11 DEF CopyState
<1>13. CopyState(cleanup_queues(qs), managers, now, os)
  BY <1>12, Cleaned
<1>. QED  BY <1>2, <1>13 DEF CopyInv

\* An output that comes is waited for by nobody.
LEMMA AddStep == ASSUME CopyInv, NEW o \in CopyOutput, add_output(o) PROVE CopyInv'
<1>1. outputs' = outputs \cup {o} /\ UNCHANGED <<queues, managers, frames, unwrapped>>
  BY DEF add_output
<1>2. CopyState(queues, managers, frames, outputs)
  BY DEF CopyInv
<1>3. \A m \in Manager : queues[m] # NoQueue => QueueFine(m, queues[m], frames, outputs \cup {o})
  BY <1>2 DEF CopyState, QueueFine, Waits
<1>4. CopyState(queues, managers, frames, outputs \cup {o})
  BY <1>2, <1>3 DEF CopyState
<1>. QED  BY <1>1, <1>4 DEF CopyInv

\* A cast that expires has no copies.
LEMMA ExpireStep == ASSUME CopyInv, clear_expired_casts PROVE CopyInv'
<1>1. PICK m \in Manager : /\ queues[m] # NoQueue /\ queues[m].copies = <<>>
                           /\ queues' = [queues EXCEPT ![m].cast = FALSE]
                           /\ UNCHANGED <<managers, frames, outputs, unwrapped>>
  BY DEF clear_expired_casts, HasQueue
<1>2. PICK old, q, new : old = queues[m] /\ q = [old EXCEPT !.cast = FALSE] /\ new = [queues EXCEPT ![m] = q]
  OBVIOUS
<1>3. CopyState(queues, managers, frames, outputs) /\ old \in Queue /\ QueueFine(m, old, frames, outputs)
  BY <1>1, <1>2 DEF CopyInv, CopyState
<1>4. q \in Queue /\ q.copies = <<>> /\ q.copies = old.copies /\ q.pending = old.pending /\ q # NoQueue
  BY <1>1, <1>2, <1>3, NoQueueIsNone DEF Queue
<1>5. queues' = new
  BY <1>1, <1>2
<1>6. new \in [Manager -> Queue \cup {NoQueue}] /\ new[m] = q /\ \A k \in Manager \ {m} : new[k] = queues[k]
  BY <1>2, <1>3, <1>4 DEF CopyState
<1>7. \A k \in Manager : ManagerFine(new[k], managers[k])
  BY <1>1, <1>3, <1>4, <1>6 DEF CopyState, ManagerFine
<1>8. QueueFine(m, q, frames, outputs)
  BY <1>3, <1>4 DEF QueueFine
<1>9. \A k \in Manager : new[k] # NoQueue => QueueFine(k, new[k], frames, outputs)
  BY <1>3, <1>6, <1>8 DEF CopyState
<1>10. ASSUME NEW f \in Frame PROVE FrameFine(f, frames[f], new)
  <2>1. PICK x : x = frames[f] /\ x \in FrameInfo /\ FrameFine(f, x, queues)
    BY <1>3 DEF CopyState
  <2>2. x.manager \in Manager \cup {NoManager}
    BY <2>1 DEF FrameInfo
  <2>. QED  BY <1>2, <1>4, <1>6, <2>1, <2>2 DEF FrameFine
<1>11. CopyState(new, managers, frames, outputs)
  BY <1>3, <1>6, <1>7, <1>9, <1>10 DEF CopyState
<1>. QED  BY <1>1, <1>5, <1>11 DEF CopyInv


\* Without its first element a list of different ones lacks just that.
LEMMA TailLeaves ==
    ASSUME NEW S, NEW s \in Seq(S), s # <<>>, Distinct(s)
    PROVE  /\ Tail(s) \in Seq(S) /\ Members(Tail(s)) = Members(s) \ {s[1]} /\ Distinct(Tail(s))
           /\ s[1] \in Members(s)
<1>1. PICK t : t = Tail(s)
  OBVIOUS
<1>2. Len(s) \in Nat \ {0}
  BY EmptySeq, LenProperties
<1>3. t \in Seq(S) /\ Len(t) = Len(s) - 1 /\ \A i \in 1 .. Len(t) : t[i] = s[i + 1]
  BY <1>1, HeadTailProperties
<1>4. \A i \in 1 .. Len(t) : i + 1 \in 1 .. Len(s) /\ i + 1 # 1
  BY <1>2, <1>3
<1>5. \A i \in 1 .. Len(s) : i = 1 \/ (i - 1 \in 1 .. Len(t) /\ (i - 1) + 1 = i)
  BY <1>2, <1>3
<1>6. Members(t) = Members(s) \ {s[1]}
  <2>1. ASSUME NEW x \in Members(t) PROVE x \in Members(s) \ {s[1]}
    BY <2>1, <1>2, <1>3, <1>4 DEF Members, Distinct
  <2>2. ASSUME NEW x \in Members(s) \ {s[1]} PROVE x \in Members(t)
    <3>1. PICK i \in 1 .. Len(s) : x = s[i]
      BY <2>2 DEF Members
    <3>2. i - 1 \in 1 .. Len(t) /\ t[i - 1] = x
      BY <1>3, <1>5, <2>2, <3>1
    <3>. QED  BY <3>2 DEF Members
  <2>. QED  BY <2>1, <2>2
<1>7. Distinct(t)
  BY <1>3, <1>4 DEF Distinct
<1>8. s[1] \in Members(s)
  BY <1>2 DEF Members
<1>. QED  BY <1>1, <1>3, <1>6, <1>7, <1>8

\* The managers whose first copy waits for the output o.
Waiting(o) == {m \in Manager : HasQueue(m) /\ queues[m].copies # <<>> /\ frames[queues[m].copies[1]].output = o}

\* A redraw takes the first copy of each queue it does not leave, so none twice.
LEMMA RedrawStep == ASSUME CopyInv, NEW o \in CopyOutput, RedrawWithDamage(o) PROVE CopyInv'
<1>1. PICK outcome \in [Waiting(o) -> Outcome] :
         LET popped == {m \in Waiting(o) : outcome[m] # "no damage"}
             Of(f) == {m \in popped : queues[m].copies[1] = f}
         IN  /\ popped # {}
             /\ queues' = cleanup_queues([m \in Manager |->
                     IF m \in popped THEN [queues[m] EXCEPT !.copies = Tail(@)] ELSE queues[m]])
             /\ frames' = [f \in Frame |->
                     IF Of(f) = {} THEN frames[f]
                     ELSE IF \E m \in Of(f) : outcome[m] = "syncing" THEN [frames[f] EXCEPT !.syncing = TRUE]
                     ELSE [frames[f] EXCEPT !.answers = @ + 1]]
             /\ unwrapped' = (unwrapped \/ \E m \in popped : ~queues[m].cast)
             /\ UNCHANGED <<managers, outputs>>
  BY Zenon DEF RedrawWithDamage, Waiting
<1>2. PICK popped : popped = {m \in Waiting(o) : outcome[m] # "no damage"}
  OBVIOUS
<1>3. PICK qs, now :
         /\ qs = [m \in Manager |-> IF m \in popped THEN [queues[m] EXCEPT !.copies = Tail(@)] ELSE queues[m]]
         /\ now = [f \in Frame |->
                     IF {m \in popped : queues[m].copies[1] = f} = {} THEN frames[f]
                     ELSE IF \E m \in {m \in popped : queues[m].copies[1] = f} : outcome[m] = "syncing"
                          THEN [frames[f] EXCEPT !.syncing = TRUE]
                     ELSE [frames[f] EXCEPT !.answers = @ + 1]]
  OBVIOUS
<1>4. /\ queues' = cleanup_queues(qs) /\ frames' = now /\ UNCHANGED <<managers, outputs>>
      /\ unwrapped' = (unwrapped \/ \E m \in popped : ~queues[m].cast)
  BY <1>1, <1>2, <1>3, Zenon
<1>5. CopyState(queues, managers, frames, outputs)
  BY DEF CopyInv
<1>6. \A m \in popped : m \in Manager /\ queues[m] # NoQueue /\ queues[m].copies # <<>>
  BY <1>2 DEF Waiting, HasQueue
<1>7. ASSUME NEW m \in popped
      PROVE  /\ queues[m] \in Queue /\ QueueFine(m, queues[m], frames, outputs)
             /\ qs[m] \in Queue /\ qs[m].pending = queues[m].pending /\ qs[m].cast = queues[m].cast
             /\ Members(qs[m].copies) = Members(queues[m].copies) \ {queues[m].copies[1]}
             /\ Distinct(qs[m].copies) /\ queues[m].cast = TRUE
             /\ queues[m].copies[1] \in Members(queues[m].copies)
             /\ queues[m].copies[1] \in Frame
  <2>1. PICK old, left, q : old = queues[m] /\ left = Tail(old.copies) /\ q = [old EXCEPT !.copies = left]
    OBVIOUS
  <2>2. old \in Queue /\ QueueFine(m, old, frames, outputs) /\ old.copies # <<>>
    BY <1>5, <1>6, <2>1 DEF CopyState
  <2>3. qs[m] = q
    BY <1>3, <1>6, <2>1
  <2>4. old.copies \in Seq(Frame) /\ Distinct(old.copies) /\ old.cast = TRUE
    BY <2>2 DEF Queue, QueueFine
  <2>5. /\ left \in Seq(Frame) /\ Members(left) = Members(old.copies) \ {old.copies[1]} /\ Distinct(left)
        /\ old.copies[1] \in Members(old.copies)
    BY <2>1, <2>2, <2>4, TailLeaves
  <2>6. old.copies[1] \in Frame
    BY <2>4, <2>5, SomeHasMembers
  <2>7. q \in Queue /\ q.copies = left /\ q.pending = old.pending /\ q.cast = old.cast
    BY <2>1, <2>2, <2>5 DEF Queue
  <2>. QED  BY <2>1, <2>2, <2>3, <2>4, <2>5, <2>6, <2>7
<1>8. \A m \in Manager \ popped : qs[m] = queues[m]
  BY <1>3
<1>9. ASSUME NEW f \in Frame
      PROVE  /\ now[f] \in FrameInfo
             /\ (\A m \in popped : queues[m].copies[1] # f) => now[f] = frames[f]
             /\ (\E m \in popped : queues[m].copies[1] = f) =>
                   /\ now[f].life = frames[f].life /\ now[f].manager = frames[f].manager
                   /\ now[f].copied = TRUE
                   /\ \/ now[f].answers = 1 /\ now[f].syncing = FALSE
                      \/ now[f].answers = 0 /\ now[f].syncing = TRUE
                   /\ frames[f].manager # NoManager
  <2>1. PICK was : was = frames[f] /\ was \in FrameInfo
    BY <1>5 DEF CopyState
  <2>2. CASE \A m \in popped : queues[m].copies[1] # f
    BY <1>3, <2>1, <2>2
  <2>3. CASE \E m \in popped : queues[m].copies[1] = f
    <3>1. PICK m \in popped : queues[m].copies[1] = f
      BY <2>3
    <3>2. Waits(m, was, outputs) /\ m # NoManager
      BY <1>6, <1>7, <2>1, <3>1, CopyAssumption DEF QueueFine
    <3>3. was.answers = 0 /\ was.copied = TRUE /\ was.syncing = FALSE /\ was.manager = m
      BY <2>1, <3>2 DEF Waits, FrameInfo
    <3>4. PICK x, y : x = [was EXCEPT !.answers = 1] /\ y = [was EXCEPT !.syncing = TRUE]
      OBVIOUS
    <3>. 1 \in 0 .. 1
      OBVIOUS
    <3>5. /\ x \in FrameInfo /\ x.life = was.life /\ x.manager = m /\ x.copied = was.copied /\ x.answers = 1
          /\ x.syncing = was.syncing
      BY <2>1, <3>3, <3>4 DEF FrameInfo
    <3>6. /\ y \in FrameInfo /\ y.life = was.life /\ y.manager = m /\ y.copied = was.copied
          /\ y.answers = was.answers /\ y.syncing = TRUE
      BY <2>1, <3>3, <3>4 DEF FrameInfo
    <3>7. now[f] = x \/ now[f] = y
      <4>1. {k \in popped : queues[k].copies[1] = f} # {}
        BY <3>1
      <4>2. now[f] = y \/ now[f] = [was EXCEPT !.answers = was.answers + 1]
        BY <1>3, <2>1, <3>4, <4>1
      <4>. QED  BY <3>3, <3>4, <4>2
    <3>8. was.manager # NoManager
      BY <3>2, <3>3
    <3>. QED  BY <2>1, <2>3, <3>3, <3>5, <3>6, <3>7, <3>8
  <2>. QED  BY <2>2, <2>3
<1>10. qs \in [Manager -> Queue \cup {NoQueue}] /\ now \in [Frame -> FrameInfo]
  <2>1. \A m \in Manager : qs[m] \in Queue \cup {NoQueue}
    BY <1>5, <1>7, <1>8 DEF CopyState
  <2>2. DOMAIN qs = Manager /\ qs = [m \in Manager |-> qs[m]] /\ DOMAIN now = Frame /\ now = [f \in Frame |-> now[f]]
    BY <1>3
  <2>. QED  BY <1>9, <2>1, <2>2
<1>11. \A m \in Manager : (qs[m] = NoQueue <=> queues[m] = NoQueue) /\ ManagerFine(qs[m], managers[m])
  BY <1>5, <1>6, <1>7, <1>8, NoQueueIsNone DEF CopyState, ManagerFine
<1>12. ASSUME NEW m \in Manager, queues[m] # NoQueue, NEW f \in Members(queues[m].copies), f \in Frame
       PROVE  f \in Members(qs[m].copies) <=> \A k \in popped : queues[k].copies[1] # f
  <2>1. frames[f].manager = m
    BY <1>5, <1>12 DEF CopyState, QueueFine, Waits
  <2>2. ASSUME NEW k \in popped, queues[k].copies[1] = f PROVE k = m
    <3>1. f \in Members(queues[k].copies) /\ QueueFine(k, queues[k], frames, outputs)
      BY <1>7, <2>2
    <3>. QED  BY <2>1, <3>1 DEF QueueFine, Waits
  <2>. QED  BY <1>7, <1>8, <1>12, <2>2
<1>13. ASSUME NEW m \in Manager, qs[m] # NoQueue PROVE QueueFine(m, qs[m], now, outputs)
  <2>1. PICK old : old = queues[m] /\ old \in Queue /\ queues[m] # NoQueue /\ QueueFine(m, old, frames, outputs)
    BY <1>5, <1>11, <1>13 DEF CopyState
  <2>2. Members(qs[m].copies) \subseteq Members(old.copies) /\ Members(old.copies) \subseteq Frame
    <3>1. Members(qs[m].copies) \subseteq Members(old.copies)
      BY <1>7, <1>8, <2>1
    <3>2. old.copies \in Seq(Frame)
      BY <2>1 DEF Queue
    <3>. QED  BY <3>1, <3>2, SomeHasMembers
  <2>3. ASSUME NEW f \in Members(qs[m].copies) PROVE Waits(m, now[f], outputs)
    <3>1. f \in Frame /\ f \in Members(old.copies) /\ Waits(m, frames[f], outputs)
      BY <2>1, <2>2, <2>3 DEF QueueFine
    <3>2. \A k \in popped : queues[k].copies[1] # f
      BY <1>12, <2>1, <2>3, <3>1
    <3>3. now[f] = frames[f]
      BY <1>9, <3>1, <3>2
    <3>. QED  BY <3>1, <3>3
  <2>4. Distinct(qs[m].copies) /\ (qs[m].copies # <<>> => qs[m].cast)
    BY <1>7, <1>8, <2>1 DEF QueueFine
  <2>. QED  BY <2>3, <2>4 DEF QueueFine
<1>14. ASSUME NEW f \in Frame PROVE FrameFine(f, now[f], qs)
  <2>1. PICK was, x : was = frames[f] /\ x = now[f] /\ was \in FrameInfo /\ FrameFine(f, was, queues)
    BY <1>5 DEF CopyState
  <2>2. CASE \E m \in popped : queues[m].copies[1] = f
    <3>1. /\ x.life = was.life /\ x.manager = was.manager /\ x.copied = TRUE /\ was.manager # NoManager
          /\ (x.answers = 1 /\ x.syncing = FALSE) \/ (x.answers = 0 /\ x.syncing = TRUE)
      BY <1>9, <2>1, <2>2
    <3>2. FrameFine(f, x, qs)
      BY <2>1, <3>1 DEF FrameFine
    <3>. QED  BY <2>1, <3>2
  <2>3. CASE \A m \in popped : queues[m].copies[1] # f
    <3>1. x = was
      BY <1>9, <2>1, <2>3
    <3>2. ASSUME was.manager # NoManager
          PROVE  /\ queues[was.manager] # NoQueue => qs[was.manager] # NoQueue
                 /\ queues[was.manager] # NoQueue /\ f \in queues[was.manager].pending =>
                       f \in qs[was.manager].pending
                 /\ queues[was.manager] # NoQueue /\ f \in Members(queues[was.manager].copies) =>
                       f \in Members(qs[was.manager].copies)
      <4>1. was.manager \in Manager
        BY <2>1, <3>2 DEF FrameInfo
      <4>. QED  BY <1>7, <1>8, <1>11, <1>12, <2>3, <4>1
    <3>3. was.manager = NoManager => FrameFine(f, was, qs)
      BY <2>1 DEF FrameFine
    <3>4. was.manager # NoManager => FrameFine(f, was, qs)
      BY <2>1, <3>2 DEF FrameFine
    <3>. QED  BY <2>1, <3>1, <3>3, <3>4
  <2>. QED  BY <2>2, <2>3
<1>15. CopyState(qs, managers, now, outputs)
  BY <1>5, <1>10, <1>11, <1>13, <1>14 DEF CopyState
<1>16. CopyState(cleanup_queues(qs), managers, now, outputs)
  BY <1>15, Cleaned
<1>17. unwrapped' = FALSE
  BY <1>4, <1>7 DEF CopyInv
<1>. QED  BY <1>4, <1>16, <1>17 DEF CopyInv


\* Every action keeps the invariant.
LEMMA CopyNextStep == ASSUME CopyInv, CopyNext PROVE CopyInv'
<1>1. CASE \E m \in Manager : bind(m) \/ DestroyManager(m) \/ ManagerDestroyed(m)
  BY <1>1, BindStep, ManagerStep
<1>2. CASE \E m \in Manager, f \in Frame, o \in CopyOutput : CaptureOutput(m, f, o)
  BY <1>2, CaptureStep
<1>3. CASE \E f \in Frame : DestroyFrame(f) \/ FrameDestroyed(f) \/ SyncReached(f)
                            \/ \E with_damage \in BOOLEAN : Copy(f, with_damage)
  BY <1>3, DestroyStep, FrameGoneStep, SyncStep, CopyStep
<1>4. CASE \E o \in CopyOutput : RedrawWithDamage(o) \/ remove_output(o) \/ add_output(o)
  BY <1>4, RedrawStep, RemoveStep, AddStep
<1>5. CASE Disconnect \/ clear_expired_casts
  BY <1>5, DisconnectStep, ExpireStep
<1>. QED  BY <1>1, <1>2, <1>3, <1>4, <1>5, Zenon DEF CopyNext

\* At the start nobody waits.
LEMMA CopyInitially == CopyInit => CopyInv
<1>. SUFFICES ASSUME CopyInit PROVE CopyInv
  OBVIOUS
<1>1. /\ managers = [m \in Manager |-> "new"] /\ queues = [m \in Manager |-> NoQueue]
      /\ frames = [f \in Frame |-> NewFrame] /\ outputs = CopyOutput /\ unwrapped = FALSE
  BY DEF CopyInit
<1>2. PICK new : new = NewFrame
  OBVIOUS
<1>3. /\ new \in FrameInfo /\ new.life = "new" /\ new.manager = NoManager /\ new.copied = FALSE
      /\ new.answers = 0 /\ new.syncing = FALSE
  <2>1. 0 \in 0 .. 1
    OBVIOUS
  <2>. QED  BY <1>2, <2>1 DEF NewFrame, FrameInfo
<1>4. \A f \in Frame : FrameFine(f, frames[f], queues)
  BY <1>1, <1>2, <1>3 DEF FrameFine
<1>5. \A m \in Manager : ManagerFine(queues[m], managers[m]) /\ queues[m] = NoQueue
  BY <1>1 DEF ManagerFine
<1>6. /\ queues \in [Manager -> Queue \cup {NoQueue}] /\ frames \in [Frame -> FrameInfo]
      /\ managers \in [Manager -> {"new", "alive", "dead", "destroyed"}]
  BY <1>1, <1>2, <1>3
<1>. QED  BY <1>1, <1>4, <1>5, <1>6 DEF CopyInv, CopyState

\* Whatever goes away first of managers, frames and outputs, a frame that can be copied finds its
\* queue (push, pop, with_queues_mut), and a copy that was asked for is answered once.
THEOREM CopySafety == CopySpec => []CopiesServed
<1>1. CopyInv /\ [CopyNext]_copyVars => CopyInv'
  <2>1. ASSUME CopyInv, UNCHANGED copyVars PROVE CopyInv'
    BY <2>1 DEF copyVars, CopyInv
  <2>. QED  BY <2>1, CopyNextStep
<1>2. ASSUME CopyInv PROVE CopiesServed
  <2>1. QueuesOutliveFrames
    BY <1>2 DEF CopyInv, QueuesOutliveFrames
  <2>2. ASSUME NEW f \in Frame
        PROVE  LET m == frames[f].manager
                   queued == m # NoManager /\ HasQueue(m) /\ \E i \in DOMAIN queues[m].copies : queues[m].copies[i] = f
               IN  /\ frames[f].answers <= 1
                   /\ frames[f].copied /\ frames[f].life = "alive" =>
                         \/ frames[f].answers = 1
                         \/ frames[f].syncing
                         \/ queued /\ frames[f].output \in outputs
    <3>1. PICK x : x = frames[f] /\ x \in FrameInfo /\ FrameFine(f, x, queues)
      BY <1>2 DEF CopyInv, CopyState
    <3>2. x.answers \in {0, 1} /\ x.manager \in Manager \cup {NoManager}
      BY <3>1 DEF FrameInfo
    <3>3. ASSUME x.copied, x.life = "alive", x.answers = 0, ~x.syncing
          PROVE  /\ x.manager # NoManager /\ HasQueue(x.manager) /\ x.output \in outputs
                 /\ \E i \in DOMAIN queues[x.manager].copies : queues[x.manager].copies[i] = f
      <4>1. x.manager \in Manager /\ x.manager # NoManager /\ queues[x.manager] # NoQueue
            /\ f \in Members(queues[x.manager].copies)
        BY <3>1, <3>2, <3>3 DEF FrameFine
      <4>2. PICK q : q = queues[x.manager] /\ q \in Queue /\ QueueFine(x.manager, q, frames, outputs)
        BY <1>2, <4>1 DEF CopyInv, CopyState
      <4>3. DOMAIN q.copies = 1 .. Len(q.copies)
        BY <4>2, LenProperties DEF Queue
      <4>4. Waits(x.manager, x, outputs)
        BY <3>1, <4>1, <4>2 DEF QueueFine
      <4>. QED  BY <4>1, <4>2, <4>3, <4>4 DEF Members, Waits, HasQueue
    <3>. QED  BY <3>1, <3>2, <3>3
  <2>3. CopiesAnswered
    BY <2>2, Zenon DEF CopiesAnswered
  <2>. QED  BY <2>1, <2>3 DEF CopiesServed
<1>. QED  BY <1>1, <1>2, CopyInitially, PTL DEF CopySpec
=============================================================================
