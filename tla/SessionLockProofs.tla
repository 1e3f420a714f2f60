------------------------- MODULE SessionLockProofs -------------------------
(***************************************************************************)
(* The redraw cycle is safe for any number of outputs: the types, and, when*)
(* the kernel sends no vblank that nobody waits for, that timers and       *)
(* vblanks match the redraw states, that no unreachable!() is reached and  *)
(* that no redraw is lost.                                                 *)
(*                                                                         *)
(* A locked session is off the screens and stays so, for any outputs. The  *)
(* argument does not need the redraw cycle to be well-behaved: it holds    *)
(* with rogue vblanks too. What it needs is that the last frame given to   *)
(* KMS is not a session frame wherever nothing was rendered: on an output  *)
(* that is not there and while the monitors are off.                       *)
(***************************************************************************)
EXTENDS SessionLock, FiniteSetTheorems, TLAPS

(***************************************************************************)
(* The redraw states.                                                      *)
(***************************************************************************)

\* queue_redraw() keeps what the state waits for and adds the redraw to it.
LEMMA QueueRedrawKeepsWait ==
    ASSUME NEW s \in RedrawState
    PROVE  /\ queue_redraw(s) \in RedrawState
           /\ IsScheduled(queue_redraw(s))
           /\ HasToken(queue_redraw(s)) <=> HasToken(s)
           /\ HasToken(s) => queue_redraw(s).token = s.token
           /\ queue_redraw(s).tag = "WaitingForVBlank" <=> s.tag = "WaitingForVBlank"
<1>1. CASE s \in [tag : {"Idle", "Queued"}]
  BY <1>1 DEF queue_redraw, RedrawState, IsScheduled, IsQueued, HasToken, Queued
<1>2. CASE s \in [tag : {"WaitingForVBlank"}, redraw_needed : BOOLEAN]
  BY <1>2 DEF queue_redraw, RedrawState, IsScheduled, IsQueued, HasToken, WaitingForVBlank
<1>3. CASE s \in [tag : {"WaitingForEstimatedVBlank", "WaitingForEstimatedVBlankAndQueued"},
                  token : Nat]
  BY <1>3 DEF queue_redraw, RedrawState, IsScheduled, IsQueued, HasToken,
              WaitingForEstimatedVBlankAndQueued
<1> QED
  BY <1>1, <1>2, <1>3 DEF RedrawState

\* The values the code writes are redraw states, and what they wait for.
LEMMA StatesWritten ==
    /\ Idle \in RedrawState /\ ~HasToken(Idle) /\ Idle.tag = "Idle"
    /\ Queued \in RedrawState /\ ~HasToken(Queued) /\ Queued.tag = "Queued"
    /\ IsScheduled(Queued)
    /\ queue_redraw(Idle) = Queued
    /\ WaitingForVBlank(FALSE) \in RedrawState /\ ~HasToken(WaitingForVBlank(FALSE))
    /\ WaitingForVBlank(FALSE).tag = "WaitingForVBlank"
    /\ \A t \in Nat : /\ WaitingForEstimatedVBlank(t) \in RedrawState
                      /\ HasToken(WaitingForEstimatedVBlank(t))
                      /\ WaitingForEstimatedVBlank(t).token = t
                      /\ WaitingForEstimatedVBlank(t).tag = "WaitingForEstimatedVBlank"
BY DEF Idle, Queued, WaitingForVBlank, WaitingForEstimatedVBlank, RedrawState, HasToken,
       IsScheduled, IsQueued, queue_redraw

\* A state with a token has one, and is not waiting for a vblank.
LEMMA TokenStates ==
    ASSUME NEW s \in RedrawState
    PROVE  /\ HasToken(s) => s.token \in Nat /\ s.tag # "WaitingForVBlank"
           /\ IsQueued(s) => s.tag # "WaitingForVBlank"
           /\ s.tag = "WaitingForVBlank" => s.redraw_needed \in BOOLEAN
BY DEF RedrawState, HasToken, IsQueued

-----------------------------------------------------------------------------
(***************************************************************************)
(* Types. A fresh token exists because an output has finitely many timers. *)
(***************************************************************************)
TypeInv == TypeOK /\ \A o \in Output : IsFiniteSet(timers[o])

\* There is always a token that no timer of the output has.
LEMMA FreshTokenExists ==
    ASSUME NEW o \in Output, IsFiniteSet(timers[o])
    PROVE  FreshToken(o) \in Nat /\ FreshToken(o) \notin timers[o]
<1> DEFINE n == Cardinality(timers[o])
<1>1. n \in Nat
  BY FS_CardinalityType
<1>2. ~(1 .. n + 1 \subseteq timers[o])
  <2>1. Cardinality(1 .. n + 1) = n + 1
    BY <1>1, FS_Interval
  <2>2. 1 .. n + 1 \subseteq timers[o] => Cardinality(1 .. n + 1) <= n
    BY FS_Subset
  <2> QED
    BY <1>1, <2>1, <2>2
<1>3. \E t \in 1 .. n + 1 : t \notin timers[o]
  BY <1>2
<1> QED
  BY <1>1, <1>3 DEF FreshToken

\* What redraw() writes is a redraw state, and the timers stay finitely many.
LEMMA RedrawnTypes ==
    ASSUME TypeInv, NEW o \in Output, NEW res
    PROVE  /\ RedrawnState(o, res) \in RedrawState
           /\ RedrawnTimers(o, res) \in SUBSET Nat
           /\ IsFiniteSet(RedrawnTimers(o, res))
<1>1. redraw_state[o] \in RedrawState /\ timers[o] \in SUBSET Nat /\ IsFiniteSet(timers[o])
  BY DEF TypeInv, TypeOK
<1>2. FreshToken(o) \in Nat
  BY <1>1, FreshTokenExists
<1> DEFINE t == IF HasToken(redraw_state[o]) THEN redraw_state[o].token ELSE FreshToken(o)
<1>3. t \in Nat
  BY <1>1, <1>2, TokenStates
<1>4. EstimatedVBlankState(o) = WaitingForEstimatedVBlank(t)
  BY DEF EstimatedVBlankState
<1>5. EstimatedVBlankState(o) \in RedrawState /\ EstimatedVBlankState(o).token = t
  BY <1>3, <1>4, StatesWritten
<1>6. RedrawnState(o, res) \in RedrawState
  BY <1>1, <1>5, StatesWritten, TokenStates DEF RedrawnState
<1>7. /\ IsFiniteSet(timers[o] \union {t})
      /\ IsFiniteSet(timers[o] \ {redraw_state[o].token})
  BY <1>1, FS_AddElement, FS_RemoveElement
<1>8. RedrawnTimers(o, res) \in {timers[o], timers[o] \union {t},
                                 timers[o] \ {redraw_state[o].token}}
  BY <1>5 DEF RedrawnTimers
<1> QED
  BY <1>1, <1>3, <1>6, <1>7, <1>8

\* Every step keeps the types.
LEMMA TypeStep == TypeInv /\ [Next]_vars => TypeInv'
<1> SUFFICES ASSUME TypeInv, [Next]_vars PROVE TypeInv'
  OBVIOUS
<1> USE DEF TypeInv, TypeOK
<1>q. \A o \in Output : queue_redraw(redraw_state[o]) \in RedrawState
  BY QueueRedrawKeepsWait
<1>a. queue_redraw_all(redraw_state) \in [Output -> RedrawState]
  BY <1>q DEF queue_redraw_all
<1>w. /\ Idle \in RedrawState /\ Queued \in RedrawState
      /\ queue_redraw(Idle) \in RedrawState
  BY StatesWritten
<1>c. \A o \in Output : (o \in Connected) \in BOOLEAN
  OBVIOUS
<1>1. CASE EndDispatch
  BY <1>1, <1>q DEF EndDispatch
<1>2. CASE EndRedraw
  BY <1>2 DEF EndRedraw
<1>3. CASE QueueRedrawAll
  <2>1. stale' \in [Output -> BOOLEAN]
    BY <1>3, <1>c, Zenon DEF QueueRedrawAll
  <2> QED
    BY <1>3, <1>a, <2>1 DEF QueueRedrawAll
<1>4. CASE DeactivateMonitors
  <2>1. stale' \in [Output -> BOOLEAN]
    BY <1>4, <1>c, Zenon DEF DeactivateMonitors
  <2> QED
    BY <1>4, <2>1 DEF DeactivateMonitors
<1>5. CASE ActivateMonitors
  BY <1>5, <1>a DEF ActivateMonitors
<1>6. CASE PauseSession
  <2>1. stale' \in [Output -> BOOLEAN]
    BY <1>6, <1>c, Zenon DEF PauseSession
  <2> QED
    BY <1>6, <2>1 DEF PauseSession
<1>7. CASE ActivateSession
  BY <1>7, <1>a DEF ActivateSession
<1>8. ASSUME NEW o \in Output, Redraw(o) PROVE TypeInv'
  <2>1. PICK res \in Results : RedrawOutput(o, res, FALSE)
    BY <1>8 DEF Redraw
  <2>2. /\ RedrawnState(o, res) \in RedrawState
        /\ RedrawnTimers(o, res) \in SUBSET Nat
        /\ IsFiniteSet(RedrawnTimers(o, res))
    BY RedrawnTypes
  <2> QED
    BY <2>1, <2>2 DEF RedrawOutput
<1>9. ASSUME NEW o \in Output, QueueRedraw(o) PROVE TypeInv'
  BY <1>9, <1>q DEF QueueRedraw
<1>10. ASSUME NEW o \in Output, OnVBlank(o) PROVE TypeInv'
  <2>1. HandleVBlank(o) => redraw_state' \in [Output -> RedrawState]
    BY <1>w DEF HandleVBlank
  <2>2. redraw_state' \in [Output -> RedrawState]
    BY <1>10, <2>1 DEF OnVBlank
  <2>3. flip' \in [Output -> BOOLEAN] /\ throttle' \in [Output -> BOOLEAN]
    BY <1>10 DEF OnVBlank
  <2> QED
    BY <1>10, <2>2, <2>3 DEF OnVBlank
<1>11. ASSUME NEW o \in Output, OnThrottleTimer(o) PROVE TypeInv'
  BY <1>11, <1>w DEF OnThrottleTimer, HandleVBlank
<1>12. ASSUME NEW o \in Output, OnEstimatedVBlankTimer(o) PROVE TypeInv'
  <2>1. \A t : IsFiniteSet(timers[o] \ {t})
    BY FS_RemoveElement
  <2>2. timers' \in [Output -> SUBSET Nat] /\ \A p \in Output : IsFiniteSet(timers'[p])
    BY <1>12, <2>1 DEF OnEstimatedVBlankTimer
  <2>3. panicked' \in BOOLEAN
    BY <1>12, Zenon DEF OnEstimatedVBlankTimer, HasToken
  <2>4. redraw_state' \in [Output -> RedrawState]
    BY <1>12, <1>w DEF OnEstimatedVBlankTimer
  <2> QED
    BY <1>12, <2>2, <2>3, <2>4 DEF OnEstimatedVBlankTimer
<1>13. ASSUME NEW o \in Output, AddOutput(o) PROVE TypeInv'
  BY <1>13, <1>w DEF AddOutput
<1>14. ASSUME NEW o \in Output, RemoveOutput(o) PROVE TypeInv'
  <2>1. \A t : IsFiniteSet(timers[o] \ {t})
    BY FS_RemoveElement
  <2>2. PICK queued \in SUBSET (Connected \ {o}) : RemoveOutputQueuing(o, queued)
    BY <1>14 DEF RemoveOutput
  <2>3. timers' \in [Output -> SUBSET Nat] /\ \A p \in Output : IsFiniteSet(timers'[p])
    BY <2>1, <2>2 DEF RemoveOutputQueuing
  <2>4. stale' \in [Output -> BOOLEAN]
    BY <2>2, Zenon DEF RemoveOutputQueuing
  <2>5. redraw_state' \in [Output -> RedrawState]
    BY <1>q, <1>w, <2>2 DEF RemoveOutputQueuing
  <2> QED
    BY <2>2, <2>3, <2>4, <2>5 DEF RemoveOutputQueuing
<1>15. CASE UNCHANGED vars
  BY <1>15 DEF vars
<1> QED
  BY <1>1, <1>2, <1>3, <1>4, <1>5, <1>6, <1>7, <1>8, <1>9, <1>10, <1>11, <1>12, <1>13,
     <1>14, <1>15 DEF Next

\* The first state has the types.
LEMMA InitTypes == Init => TypeInv
<1> SUFFICES ASSUME Init PROVE TypeInv
  OBVIOUS
<1>1. redraw_state \in [Output -> RedrawState] /\ timers \in [Output -> SUBSET Nat]
  BY StatesWritten DEF Init
<1>2. /\ flip \in [Output -> BOOLEAN] /\ throttle \in [Output -> BOOLEAN]
      /\ animating \in [Output -> BOOLEAN] /\ idle \in [Output -> BOOLEAN]
      /\ stale \in [Output -> BOOLEAN]
  BY DEF Init
<1>3. TypeOK
  BY <1>1, <1>2 DEF Init, TypeOK
<1>4. \A o \in Output : timers[o] = {}
  BY DEF Init
<1> QED
  BY <1>3, <1>4, FS_EmptySet DEF TypeInv

\* The variables of the redraw cycle keep their types, with and without rogue
\* vblanks, for any set of outputs.
THEOREM TypeCorrect == Spec => []TypeOK
<1>1. TypeInv => TypeOK
  BY DEF TypeInv
<1> QED
  BY <1>1, InitTypes, TypeStep, PTL DEF Spec

-----------------------------------------------------------------------------
(***************************************************************************)
(* Safety without rogue vblanks. The four invariants hold together: a      *)
(* vblank never meets a state with a token because an owed vblank means    *)
(* the state WaitingForVBlank, and a timer never meets a state without one *)
(* because the timers are exactly the tokens. A connection that is not     *)
(* made yet owes nothing.                                                  *)
(***************************************************************************)
AbsentOwesNothing ==
    \A o \in Output : status[o] = "absent" => ~flip[o] /\ ~throttle[o]

SafeInv ==
    /\ TypeInv
    /\ TimerMatchesState
    /\ VBlankIsOwed
    /\ AbsentOwesNothing
    /\ NoPanic
    /\ NoLostRedraw

\* The same for one output.
Safe(o) ==
    /\ timers[o] = IF o \in Connected /\ HasToken(redraw_state[o])
                   THEN {redraw_state[o].token} ELSE {}
    /\ o \in Connected =>
         /\ redraw_state[o].tag = "WaitingForVBlank" <=> flip[o] \/ throttle[o]
         /\ ~(flip[o] /\ throttle[o])
         /\ stale[o] /\ monitors_active /\ session_active => IsScheduled(redraw_state[o])
    /\ status[o] = "absent" => ~flip[o] /\ ~throttle[o]

\* The invariant is the conjunction over the outputs.
LEMMA SafePointwise ==
    SafeInv <=> TypeInv /\ NoPanic /\ \A o \in Output : Safe(o)
BY DEF SafeInv, Safe, TimerMatchesState, VBlankIsOwed, AbsentOwesNothing, NoLostRedraw, Connected

\* And so in the next state.
LEMMA SafePointwiseNext ==
    SafeInv' <=> TypeInv' /\ NoPanic' /\ \A o \in Output : Safe(o)'
BY DEF SafeInv, Safe, TimerMatchesState, VBlankIsOwed, AbsentOwesNothing, NoLostRedraw, Connected

\* queue_redraw() on a connected output keeps it safe, whatever becomes stale
\* or is switched on.
LEMMA QueueKeepsSafe ==
    ASSUME TypeInv, NEW p \in Output, Safe(p),
           redraw_state'[p] = queue_redraw(redraw_state[p]),
           timers'[p] = timers[p], flip'[p] = flip[p], throttle'[p] = throttle[p],
           status'[p] = status[p], p \in Connected
    PROVE  Safe(p)'
<1>1. redraw_state[p] \in RedrawState
  BY DEF TypeInv, TypeOK
<1>2. /\ IsScheduled(queue_redraw(redraw_state[p]))
      /\ HasToken(queue_redraw(redraw_state[p])) <=> HasToken(redraw_state[p])
      /\ HasToken(redraw_state[p]) => queue_redraw(redraw_state[p]).token = redraw_state[p].token
      /\ queue_redraw(redraw_state[p]).tag = "WaitingForVBlank"
           <=> redraw_state[p].tag = "WaitingForVBlank"
  BY <1>1, QueueRedrawKeepsWait
<1>3. p \in Connected' /\ status[p] = "connected" /\ status'[p] = "connected"
  BY DEF Connected
<1>4. HasToken(redraw_state[p])' <=> HasToken(redraw_state[p])
  BY <1>2 DEF HasToken
<1>5. IsScheduled(redraw_state[p])'
  BY <1>2 DEF IsScheduled, IsQueued
<1> QED
  BY <1>2, <1>3, <1>4, <1>5 DEF Safe

\* An output that a step does not touch stays safe, when nothing is switched
\* on by the step.
LEMMA UntouchedStaysSafe ==
    ASSUME NEW p \in Output, Safe(p),
           redraw_state'[p] = redraw_state[p], timers'[p] = timers[p],
           flip'[p] = flip[p], throttle'[p] = throttle[p], status'[p] = status[p],
           stale'[p] /\ monitors_active' /\ session_active'
             => stale[p] /\ monitors_active /\ session_active
    PROVE  Safe(p)'
BY DEF Safe, Connected, HasToken, IsScheduled, IsQueued

\* redraw() of one output, whose state was queued.
LEMMA RedrawSafe ==
    ASSUME SafeInv, NEW o \in Output, Redraw(o)
    PROVE  SafeInv'
<1> USE DEF TypeInv, TypeOK
<1>1. PICK res \in Results : RedrawOutput(o, res, FALSE)
  BY DEF Redraw
<1>2. TypeInv /\ NoPanic /\ \A p \in Output : Safe(p)
  BY SafePointwise
<1>3. TypeInv'
  BY TypeStep DEF SafeInv, Next
<1>4. NoPanic'
  BY <1>1, <1>2 DEF RedrawOutput, NoPanic
<1>5. ASSUME NEW p \in Output, p # o PROVE Safe(p)'
  <2>1. /\ redraw_state'[p] = redraw_state[p] /\ timers'[p] = timers[p]
        /\ flip'[p] = flip[p] /\ throttle'[p] = throttle[p] /\ status'[p] = status[p]
        /\ stale'[p] = stale[p] /\ monitors_active' = monitors_active
        /\ session_active' = session_active
    BY <1>1, <1>2, <1>5 DEF RedrawOutput
  <2> QED
    BY <1>2, <2>1, UntouchedStaysSafe
<1>6. Safe(o)'
  <2> DEFINE s == redraw_state[o]
  <2>1. /\ s \in RedrawState /\ IsQueued(s) /\ o \in Connected /\ o \in Connected'
        /\ status'[o] = "connected"
    BY <1>1, <1>2 DEF RedrawOutput, Connected
  <2>2. ~flip[o] /\ ~throttle[o] /\ s.tag # "WaitingForVBlank"
    BY <1>2, <2>1, TokenStates DEF Safe
  <2>3. timers[o] = IF HasToken(s) THEN {s.token} ELSE {}
    BY <1>2, <2>1 DEF Safe
  <2>4. /\ redraw_state'[o] = RedrawnState(o, res)
        /\ timers'[o] = RedrawnTimers(o, res)
        /\ throttle'[o] = throttle[o]
        /\ monitors_active' = monitors_active /\ session_active' = session_active
    BY <1>1, <1>2 DEF RedrawOutput
  <2>5. flip'[o] <=> res = "Submitted"
    BY <1>1, <1>2, <2>2 DEF RedrawOutput
  <2>6. ~(stale'[o] /\ monitors_active' /\ session_active')
    BY <1>1, <1>2, <2>4 DEF RedrawOutput
  <2>7. CASE res = "Submitted"
    <3>1. redraw_state'[o] = WaitingForVBlank(FALSE) /\ timers'[o] = {}
      BY <2>3, <2>4, <2>7 DEF RedrawnState, RedrawnTimers
    <3>2. redraw_state'[o].tag = "WaitingForVBlank" /\ ~HasToken(redraw_state[o])'
      BY <3>1, StatesWritten DEF HasToken
    <3> QED
      BY <2>1, <2>2, <2>4, <2>5, <2>6, <2>7, <3>1, <3>2 DEF Safe
  <2>8. CASE res \in {"NoDamage", "Failed"}
    <3> DEFINE t == IF HasToken(s) THEN s.token ELSE FreshToken(o)
    <3>1. t \in Nat
      BY <1>2, <2>1, TokenStates, FreshTokenExists
    <3>2. /\ redraw_state'[o] = WaitingForEstimatedVBlank(t)
          /\ EstimatedVBlankState(o).token = t
      BY <2>4, <2>8, <3>1, StatesWritten DEF RedrawnState, EstimatedVBlankState
    <3>3. timers'[o] = {t}
      BY <2>3, <2>4, <2>8, <3>2 DEF RedrawnTimers
    <3>4. /\ HasToken(redraw_state[o])' /\ redraw_state'[o].token = t
          /\ redraw_state'[o].tag # "WaitingForVBlank"
      BY <3>1, <3>2, StatesWritten DEF HasToken
    <3> QED
      BY <2>1, <2>2, <2>4, <2>5, <2>6, <2>8, <3>3, <3>4 DEF Safe
  <2>9. CASE res \notin {"Submitted", "NoDamage", "Failed"}
    <3>1. timers'[o] = timers[o]
      BY <2>4, <2>9 DEF RedrawnTimers
    <3>2. redraw_state'[o] = IF HasToken(s) THEN WaitingForEstimatedVBlank(s.token) ELSE Idle
      BY <2>4, <2>9 DEF RedrawnState
    <3>3. /\ HasToken(redraw_state[o])' <=> HasToken(s)
          /\ HasToken(s) => redraw_state'[o].token = s.token
          /\ redraw_state'[o].tag # "WaitingForVBlank"
      BY <2>1, <3>2, StatesWritten, TokenStates DEF HasToken
    <3> QED
      BY <2>1, <2>2, <2>3, <2>4, <2>5, <2>6, <2>9, <3>1, <3>3 DEF Safe
  <2> QED
    BY <2>7, <2>8, <2>9
<1> QED
  BY <1>3, <1>4, <1>5, <1>6, SafePointwiseNext

\* A vblank is handled only where one is owed, so in WaitingForVBlank: the
\* state has no token to lose, and a redraw asked for meanwhile is queued.
LEMMA HandleVBlankSafe ==
    ASSUME TypeInv, NEW o \in Output, Safe(o), o \in Connected, o \in Connected',
           redraw_state[o].tag = "WaitingForVBlank", HandleVBlank(o),
           status'[o] = status[o], timers'[o] = timers[o], ~flip'[o], ~throttle'[o],
           stale'[o] = stale[o], monitors_active' = monitors_active,
           session_active' = session_active
    PROVE  Safe(o)'
<1> USE DEF TypeInv, TypeOK
<1> DEFINE s == redraw_state[o]
<1>1. s \in RedrawState /\ ~HasToken(s) /\ ~IsQueued(s)
  BY TokenStates
<1>2. redraw_state'[o] = IF s.redraw_needed \/ animating[o] THEN Queued ELSE Idle
  BY StatesWritten DEF HandleVBlank
<1>3. /\ ~HasToken(redraw_state[o])'
      /\ redraw_state'[o].tag # "WaitingForVBlank"
      /\ s.redraw_needed => IsScheduled(redraw_state[o])'
  BY <1>2, StatesWritten DEF HasToken, IsScheduled, IsQueued
<1>4. stale[o] /\ monitors_active /\ session_active => s.redraw_needed
  BY <1>1 DEF Safe, IsScheduled
<1> QED
  BY <1>1, <1>3, <1>4 DEF Safe, Connected

\* Every step keeps the invariant.
LEMMA SafeStep ==
    ASSUME ~RogueVBlanks
    PROVE  SafeInv /\ [Next]_vars => SafeInv'
<1> SUFFICES ASSUME SafeInv, [Next]_vars PROVE SafeInv'
  OBVIOUS
<1> USE DEF TypeInv, TypeOK
<1>i. TypeInv /\ NoPanic /\ \A p \in Output : Safe(p)
  BY SafePointwise
<1>t. TypeInv'
  BY TypeStep DEF SafeInv
<1>s. SUFFICES NoPanic' /\ \A p \in Output : Safe(p)'
  BY <1>t, SafePointwiseNext
<1>a. \A p \in Output : queue_redraw_all(redraw_state)[p]
                         = IF p \in Connected THEN queue_redraw(redraw_state[p])
                           ELSE redraw_state[p]
  BY DEF queue_redraw_all
<1>n. ASSUME NEW p \in Output, p \notin Connected, status'[p] = status[p],
             timers'[p] = timers[p], flip'[p] = flip[p], throttle'[p] = throttle[p]
      PROVE  Safe(p)'
  BY <1>i, <1>n DEF Safe, Connected
<1>1. CASE EndDispatch
  <2>1. NoPanic'
    BY <1>i, <1>1 DEF EndDispatch, NoPanic
  <2>2. ASSUME NEW p \in Output PROVE Safe(p)'
    BY <1>i, <1>1, <2>2, QueueKeepsSafe, UntouchedStaysSafe DEF EndDispatch
  <2> QED
    BY <2>1, <2>2
<1>2. CASE EndRedraw
  BY <1>i, <1>2, UntouchedStaysSafe DEF EndRedraw, NoPanic
<1>3. CASE QueueRedrawAll
  BY <1>i, <1>a, <1>n, <1>3, QueueKeepsSafe DEF QueueRedrawAll, NoPanic
<1>4. CASE DeactivateMonitors
  BY <1>i, <1>4, UntouchedStaysSafe DEF DeactivateMonitors, NoPanic
<1>5. CASE ActivateMonitors
  BY <1>i, <1>a, <1>n, <1>5, QueueKeepsSafe DEF ActivateMonitors, NoPanic
<1>6. CASE PauseSession
  BY <1>i, <1>6, UntouchedStaysSafe DEF PauseSession, NoPanic
<1>7. CASE ActivateSession
  BY <1>i, <1>a, <1>n, <1>7, QueueKeepsSafe DEF ActivateSession, NoPanic
<1>8. ASSUME NEW o \in Output, Redraw(o) PROVE NoPanic' /\ \A p \in Output : Safe(p)'
  BY <1>8, RedrawSafe, SafePointwiseNext
<1>9. ASSUME NEW o \in Output, QueueRedraw(o) PROVE NoPanic' /\ \A p \in Output : Safe(p)'
  <2>1. NoPanic'
    BY <1>i, <1>9 DEF QueueRedraw, NoPanic
  <2>2. ASSUME NEW p \in Output PROVE Safe(p)'
    BY <1>i, <1>9, QueueKeepsSafe, UntouchedStaysSafe DEF QueueRedraw
  <2> QED
    BY <2>1, <2>2
<1>10. ASSUME NEW o \in Output, OnVBlank(o) PROVE NoPanic' /\ \A p \in Output : Safe(p)'
  <2>1. NoPanic' /\ flip[o]
    BY <1>i, <1>10 DEF OnVBlank, NoPanic
  <2>2. ASSUME NEW p \in Output, p # o PROVE Safe(p)'
    BY <1>i, <1>10, <2>2, UntouchedStaysSafe DEF OnVBlank, HandleVBlank
  <2>3. ASSUME o \in Connected PROVE Safe(o)'
    <3>1. redraw_state[o].tag = "WaitingForVBlank" /\ ~throttle[o] /\ o \in Connected'
      BY <1>i, <1>10, <2>1, <2>3 DEF Safe, OnVBlank, Connected
    <3>u. /\ status'[o] = status[o] /\ timers'[o] = timers[o] /\ ~flip'[o]
          /\ stale'[o] = stale[o] /\ monitors_active' = monitors_active
          /\ session_active' = session_active
      BY <1>i, <1>10 DEF OnVBlank
    <3>2. CASE HandleVBlank(o) /\ throttle' = [throttle EXCEPT ![o] = FALSE]
      <4>1. ~throttle'[o]
        BY <1>i, <3>2
      <4>2. TypeInv /\ Safe(o)
        BY <1>i
      <4> HIDE DEF TypeInv, TypeOK
      <4> QED
        BY <2>3, <3>1, <3>2, <3>u, <4>1, <4>2, HandleVBlankSafe
    <3>3. CASE throttle' = [throttle EXCEPT ![o] = TRUE] /\ UNCHANGED redraw_state
      <4>1. throttle'[o] /\ redraw_state'[o] = redraw_state[o]
        BY <1>i, <3>3
      <4>2. timers'[o] = IF HasToken(redraw_state[o]) THEN {redraw_state[o].token} ELSE {}
        BY <1>i, <2>3, <3>u DEF Safe
      <4>3. HasToken(redraw_state[o])' = HasToken(redraw_state[o])
        BY <4>1 DEF HasToken
      <4>4. stale[o] /\ monitors_active /\ session_active => IsScheduled(redraw_state[o])
        BY <1>i, <2>3 DEF Safe
      <4>5. IsScheduled(redraw_state[o]) => IsScheduled(redraw_state[o])'
        BY <4>1 DEF IsScheduled, IsQueued
      <4>6. status'[o] = "connected"
        BY <2>3, <3>u DEF Connected
      <4> HIDE DEF TypeInv, TypeOK
      <4> QED
        BY <3>1, <3>u, <4>1, <4>2, <4>3, <4>4, <4>5, <4>6 DEF Safe
    <3> QED
      BY <1>10, <2>3, <3>2, <3>3 DEF OnVBlank
  <2>4. ASSUME o \notin Connected PROVE Safe(o)'
    BY <1>i, <1>10, <2>1, <2>4 DEF OnVBlank, Safe, Connected
  <2> QED
    BY <2>1, <2>2, <2>3, <2>4
<1>11. ASSUME NEW o \in Output, OnThrottleTimer(o)
       PROVE  NoPanic' /\ \A p \in Output : Safe(p)'
  <2>1. NoPanic' /\ throttle[o]
    BY <1>i, <1>11 DEF OnThrottleTimer, NoPanic
  <2>2. ASSUME NEW p \in Output, p # o PROVE Safe(p)'
    BY <1>i, <1>11, <2>2, UntouchedStaysSafe DEF OnThrottleTimer, HandleVBlank
  <2>3. ASSUME o \in Connected PROVE Safe(o)'
    <3>1. redraw_state[o].tag = "WaitingForVBlank" /\ ~flip[o] /\ o \in Connected'
      BY <1>i, <1>11, <2>1, <2>3 DEF Safe, OnThrottleTimer, Connected
    <3>2. /\ HandleVBlank(o) /\ status'[o] = status[o] /\ timers'[o] = timers[o]
          /\ ~flip'[o] /\ ~throttle'[o] /\ stale'[o] = stale[o]
          /\ monitors_active' = monitors_active /\ session_active' = session_active
      BY <1>i, <1>11, <2>3, <3>1 DEF OnThrottleTimer
    <3>3. TypeInv /\ Safe(o)
      BY <1>i
    <3> HIDE DEF TypeInv, TypeOK
    <3> QED
      BY <2>3, <3>1, <3>2, <3>3, HandleVBlankSafe
  <2>4. ASSUME o \notin Connected PROVE Safe(o)'
    BY <1>i, <1>11, <2>1, <2>4 DEF OnThrottleTimer, Safe, Connected
  <2> QED
    BY <2>1, <2>2, <2>3, <2>4
<1>12. ASSUME NEW o \in Output, OnEstimatedVBlankTimer(o)
       PROVE  NoPanic' /\ \A p \in Output : Safe(p)'
  <2>1. PICK t \in timers[o] : timers' = [timers EXCEPT ![o] = @ \ {t}]
    BY <1>12 DEF OnEstimatedVBlankTimer
  <2>2. o \in Connected /\ HasToken(redraw_state[o]) /\ timers[o] = {redraw_state[o].token}
    BY <1>i, <2>1 DEF Safe
  <2>3. NoPanic'
    BY <1>12, <2>2 DEF OnEstimatedVBlankTimer, NoPanic
  <2>4. ASSUME NEW p \in Output, p # o PROVE Safe(p)'
    BY <1>i, <1>12, <2>4, UntouchedStaysSafe DEF OnEstimatedVBlankTimer
  <2>5. Safe(o)'
    <3>1. timers'[o] = {} /\ o \in Connected'
      BY <1>i, <1>12, <2>1, <2>2 DEF OnEstimatedVBlankTimer, Connected
    <3>2. /\ redraw_state'[o] = IF IsQueued(redraw_state[o]) \/ animating[o] THEN Queued ELSE Idle
          /\ redraw_state[o].tag # "WaitingForVBlank"
      BY <1>i, <1>12, <2>2, TokenStates DEF OnEstimatedVBlankTimer
    <3>3. /\ ~HasToken(redraw_state[o])' /\ redraw_state'[o].tag # "WaitingForVBlank"
          /\ IsScheduled(redraw_state[o]) => IsScheduled(redraw_state[o])'
      BY <3>2, StatesWritten DEF HasToken, IsScheduled, IsQueued
    <3> QED
      BY <1>i, <1>12, <2>2, <3>1, <3>2, <3>3 DEF OnEstimatedVBlankTimer, Safe, Connected
  <2> QED
    BY <2>3, <2>4, <2>5
<1>13. ASSUME NEW o \in Output, AddOutput(o) PROVE NoPanic' /\ \A p \in Output : Safe(p)'
  <2>1. NoPanic'
    BY <1>i, <1>13 DEF AddOutput, NoPanic
  <2>2. ASSUME NEW p \in Output, p # o PROVE Safe(p)'
    BY <1>i, <1>13, <2>2, UntouchedStaysSafe DEF AddOutput
  <2>3. Safe(o)'
    <3>1. o \notin Connected /\ ~flip[o] /\ ~throttle[o] /\ timers[o] = {}
      BY <1>i, <1>13 DEF AddOutput, Safe, Connected
    <3>2. redraw_state'[o] = Queued /\ o \in Connected'
      BY <1>i, <1>13, StatesWritten DEF AddOutput, Connected
    <3>3. /\ ~HasToken(redraw_state[o])' /\ redraw_state'[o].tag # "WaitingForVBlank"
          /\ IsScheduled(redraw_state[o])'
      BY <3>2, StatesWritten DEF HasToken, IsScheduled, IsQueued
    <3> QED
      BY <1>13, <3>1, <3>2, <3>3 DEF AddOutput, Safe, Connected
  <2> QED
    BY <2>1, <2>2, <2>3
<1>14. ASSUME NEW o \in Output, RemoveOutput(o) PROVE NoPanic' /\ \A p \in Output : Safe(p)'
  <2>1. PICK queued \in SUBSET (Connected \ {o}) : RemoveOutputQueuing(o, queued)
    BY <1>14 DEF RemoveOutput
  <2>2. NoPanic'
    BY <1>i, <2>1 DEF RemoveOutputQueuing, NoPanic
  <2>3. ASSUME NEW p \in Output, p # o PROVE Safe(p)'
    <3>1. CASE p \in queued
      BY <1>i, <2>1, <2>3, <3>1, QueueKeepsSafe DEF RemoveOutputQueuing
    <3>2. CASE p \notin queued
      BY <1>i, <2>1, <2>3, <3>2, UntouchedStaysSafe DEF RemoveOutputQueuing
    <3> QED
      BY <3>1, <3>2
  <2>4. Safe(o)'
    BY <1>i, <2>1 DEF RemoveOutputQueuing, Safe, Connected
  <2> QED
    BY <2>2, <2>3, <2>4
<1>15. CASE UNCHANGED vars
  BY <1>i, <1>15, UntouchedStaysSafe DEF vars, NoPanic
<1> QED
  BY <1>1, <1>2, <1>3, <1>4, <1>5, <1>6, <1>7, <1>8, <1>9, <1>10, <1>11, <1>12, <1>13,
     <1>14, <1>15 DEF Next

\* As long as the kernel sends no vblank that nobody waits for, for any set of
\* outputs: no unreachable!() is reached, the estimated-vblank timers are the
\* ones the redraw states wait for, vblanks are owed exactly to the outputs
\* that wait for one, and no redraw is lost.
THEOREM RedrawSafety ==
    ASSUME ~RogueVBlanks
    PROVE  Spec => [](NoPanic /\ TimerMatchesState /\ VBlankIsOwed /\ NoLostRedraw)
<1>1. Init => SafeInv
  <2> SUFFICES ASSUME Init PROVE SafeInv
    OBVIOUS
  <2>1. TypeInv
    BY InitTypes
  <2>2. NoPanic
    BY DEF Init, NoPanic
  <2>3. \A o \in Output : Safe(o)
    BY DEF Init, Safe, Connected
  <2> QED
    BY <2>1, <2>2, <2>3, SafePointwise
<1>2. SafeInv => NoPanic /\ TimerMatchesState /\ VBlankIsOwed /\ NoLostRedraw
  BY DEF SafeInv
<1> QED
  BY <1>1, <1>2, SafeStep, PTL DEF Spec

----------------------------------------------------------------------------
(***************************************************************************)
(* The lock.                                                               *)
(***************************************************************************)

DarkFrames ==
    \A o \in Output : o \notin Connected \/ ~monitors_active => frame[o] = "none"

\* The types this argument uses.
LockTypes ==
    /\ LockTypeOK
    /\ status \in [Output -> {"absent", "connected", "removed"}]

LockInv ==
    /\ LockTypes
    /\ DarkFrames
    /\ LockRenderTruthful
    /\ LockedMeansBlanked
    /\ DeadlineMatchesState

\* A step that leaves the frames, the outputs and the power alone keeps the
\* invariant when the lock goes where all outputs have rendered it.
LEMMA LockOnlyStep ==
    ASSUME LockInv, LockTypes', DeadlineMatchesState',
           UNCHANGED <<status, lock_render, frame>>,
           ~monitors_active' => ~monitors_active,
           lock_state' = "Locked" => lock_state = "Locked" \/ Connected = {}
    PROVE  LockInv'
BY DEF LockInv, DarkFrames, LockRenderTruthful, LockedMeansBlanked, Connected

\* redraw() of an output renders a locked frame before it says so.
LEMMA LockRedrawStep ==
    ASSUME LockInv, NEW o \in Output, NEW res \in Results, LockRedraw(o, res)
    PROVE  LockInv'
<1> USE DEF LockInv, LockTypes, LockTypeOK
<1> DEFINE rendered == res \in {"Submitted", "NoDamage"} \/ ~monitors_active
           render == IF ~rendered THEN lock_render
                     ELSE [lock_render EXCEPT ![o] = IF is_locked THEN "Locked" ELSE "Unlocked"]
<1>1. /\ res = "NoDamage" => frame[o] = Contents(o)
      /\ frame' = [frame EXCEPT ![o] = IF res = "Submitted" THEN Contents(o) ELSE @]
      /\ lock_render' = render
      /\ lock_state' = LockStateAfterRedraw(render, o)
      /\ UNCHANGED <<lock_alive, lock_deadline, transition, scanout, status, monitors_active>>
      /\ o \in Connected
  BY DEF LockRedraw, RedrawOutput
<1>2. Connected' = Connected
  BY <1>1 DEF Connected
<1>3. res = "Submitted" => monitors_active
  BY DEF Results
<1>4. lock_surface' \in [Output -> {"none", "created", "mapped"}]
  <2>1. \/ lock_surface' = [p \in Output |-> IF p \in Connected THEN "none" ELSE lock_surface[p]]
        \/ lock_surface' = lock_surface
    BY DEF LockRedraw
  <2> QED
    BY <2>1
<1>5. /\ Contents(o) \in {"session", "snapshot", "locked"}
      /\ is_locked => Contents(o) # "session"
  BY DEF Contents
<1>6. LockTypes'
  <2>1. frame' \in [Output -> {"none", "session", "snapshot", "locked"}]
    BY <1>1, <1>5
  <2>2. lock_render' \in [Output -> {"Unlocked", "Locked"}]
    BY <1>1
  <2>3. lock_state' \in {"Unlocked", "WaitingForSurfaces", "Locking", "Locked"}
    BY <1>1 DEF LockStateAfterRedraw
  <2> QED
    BY <1>1, <1>4, <2>1, <2>2, <2>3
<1>7. DarkFrames'
  BY <1>1, <1>2, <1>3 DEF DarkFrames
<1>8. LockRenderTruthful'
  <2>1. ASSUME NEW p \in Connected, p # o, lock_render'[p] = "Locked" PROVE frame'[p] # "session"
    BY <1>1, <2>1 DEF LockRenderTruthful, Connected
  <2>2. ASSUME lock_render'[o] = "Locked" PROVE frame'[o] # "session"
    <3>1. CASE ~rendered
      BY <1>1, <2>2, <3>1 DEF LockRenderTruthful
    <3>2. CASE rendered
      <4>1. is_locked
        BY <1>1, <2>2, <3>2
      <4> QED
        BY <1>1, <1>5, <3>2, <4>1 DEF DarkFrames
    <3> QED
      BY <3>1, <3>2
  <2> QED
    BY <1>2, <2>1, <2>2 DEF LockRenderTruthful
<1>9. LockedMeansBlanked'
  <2>1. lock_state' = "Locked" => \A p \in Connected : lock_render'[p] = "Locked"
    <3>1. CASE lock_state = "Locked"
      <4>1. is_locked
        BY <3>1 DEF is_locked
      <4> QED
        BY <1>1, <3>1, <4>1 DEF LockedMeansBlanked, Connected
    <3>2. CASE lock_state # "Locked"
      BY <1>1, <3>2 DEF LockStateAfterRedraw, AllLocked
    <3> QED
      BY <3>1, <3>2
  <2> QED
    BY <1>2, <1>8, <2>1 DEF LockedMeansBlanked, LockRenderTruthful
<1>10. DeadlineMatchesState'
  BY <1>1 DEF DeadlineMatchesState, LockStateAfterRedraw
<1> QED
  BY <1>6, <1>7, <1>8, <1>9, <1>10

\* Every step keeps the invariant.
LEMMA LockStep == LockInv /\ [LockNext]_allVars => LockInv'
<1> SUFFICES ASSUME LockInv, [LockNext]_allVars PROVE LockInv'
  OBVIOUS
<1> USE DEF LockInv, LockTypes, LockTypeOK
<1>1. CASE CycleOnly
  <2>1. UNCHANGED lockVars /\ UNCHANGED status /\ (~monitors_active' => ~monitors_active)
    BY <1>1 DEF CycleOnly, EndRedraw, ActivateMonitors, QueueRedraw,
                OnThrottleTimer, OnEstimatedVBlankTimer
  <2>2. LockTypes' /\ DeadlineMatchesState'
    BY <2>1 DEF lockVars, DeadlineMatchesState
  <2> QED
    BY <2>1, <2>2, LockOnlyStep DEF lockVars
<1>2. CASE Lock
  <2>1. UNCHANGED <<status, monitors_active, lock_surface, lock_render, transition, frame, scanout>>
    BY <1>2 DEF Lock, vars
  <2>2. lock_state' = "Locked" => lock_state = "Locked" \/ Connected = {}
    BY <1>2 DEF Lock
  <2>3. LockTypes' /\ DeadlineMatchesState'
    BY <1>2, <2>1 DEF Lock, DeadlineMatchesState
  <2> QED
    BY <2>1, <2>2, <2>3, LockOnlyStep
<1>3. CASE LockDeadline
  <2>1. UNCHANGED <<status, monitors_active, lock_alive, lock_surface, lock_render, transition, frame, scanout>>
    BY <1>3 DEF LockDeadline, QueueRedrawAll, vars
  <2>2. lock_state' = "Locked" => lock_state = "Locked" \/ Connected = {}
    BY <1>3 DEF LockDeadline, ContinueToLocking
  <2>3. LockTypes' /\ DeadlineMatchesState'
    BY <1>3, <2>1 DEF LockDeadline, ContinueToLocking, DeadlineMatchesState
  <2> QED
    BY <2>1, <2>2, <2>3, LockOnlyStep
<1>4. CASE Unlock
  <2>1. UNCHANGED <<status, lock_deadline, lock_render, transition, frame, scanout>>
    BY <1>4 DEF Unlock, QueueRedrawAll, ActivateMonitors
  <2>2. ~monitors_active' => ~monitors_active
    BY <1>4 DEF Unlock, QueueRedrawAll, ActivateMonitors
  <2>3. LockTypes' /\ lock_state' = "Unlocked"
    BY <1>4, <2>1 DEF Unlock
  <2>4. DeadlineMatchesState'
    BY <1>4, <2>1 DEF Unlock, DeadlineMatchesState
  <2> QED
    BY <2>1, <2>2, <2>3, <2>4, LockOnlyStep
<1>5. CASE LockClientDies
  <2>1. UNCHANGED <<status, monitors_active, lock_state, lock_deadline, lock_render, transition, frame, scanout>>
    BY <1>5 DEF LockClientDies, vars
  <2>2. LockTypes'
    BY <1>5, <2>1 DEF LockClientDies
  <2>3. DeadlineMatchesState'
    BY <2>1 DEF DeadlineMatchesState
  <2> QED
    BY <2>1, <2>2, <2>3, LockOnlyStep
<1>6. CASE LockDeactivateMonitors
  <2>1. /\ UNCHANGED <<status, lock_state, lock_alive, lock_deadline, lock_surface, lock_render,
                       transition>>
        /\ frame' = [o \in Output |-> "none"] /\ scanout' = [o \in Output |-> "none"]
    BY <1>6 DEF LockDeactivateMonitors, DeactivateMonitors
  <2>2. LockTypes'
    BY <2>1
  <2> QED
    BY <2>1, <2>2 DEF DarkFrames, LockRenderTruthful, LockedMeansBlanked, DeadlineMatchesState,
                      Connected
<1>7. CASE LockPauseSession
  <2>1. UNCHANGED <<status, monitors_active, lock_state, lock_alive, lock_deadline, lock_surface,
                    lock_render, transition, frame>>
    BY <1>7 DEF LockPauseSession, PauseSession
  <2>2. LockTypes' /\ DeadlineMatchesState'
    BY <1>7, <2>1 DEF LockPauseSession, DeadlineMatchesState
  <2> QED
    BY <2>1, <2>2, LockOnlyStep
<1>8. CASE LockActivateSession
  <2>1. /\ UNCHANGED <<status, lock_state, lock_alive, lock_deadline, lock_surface, lock_render,
                       transition, scanout>>
        /\ frame' = [o \in Output |-> "none"]
    BY <1>8 DEF LockActivateSession, ActivateSession
  <2>2. LockTypes'
    BY <2>1
  <2> QED
    BY <2>1, <2>2 DEF DarkFrames, LockRenderTruthful, LockedMeansBlanked, DeadlineMatchesState,
                      Connected
<1>9. ASSUME NEW o \in Output, NEW res \in Results, LockRedraw(o, res) PROVE LockInv'
  BY <1>9, LockRedrawStep
<1>10. ASSUME NEW o \in Output, LockOnVBlank(o) PROVE LockInv'
  <2>1. UNCHANGED <<status, monitors_active, lock_state, lock_alive, lock_deadline, lock_surface,
                    lock_render, transition, frame>>
    BY <1>10 DEF LockOnVBlank, OnVBlank
  <2>2. LockTypes' /\ DeadlineMatchesState'
    BY <1>10, <2>1 DEF LockOnVBlank, DeadlineMatchesState
  <2> QED
    BY <2>1, <2>2, LockOnlyStep
<1>11. ASSUME NEW o \in Output, NewLockSurface(o) PROVE LockInv'
  <2>1. UNCHANGED <<status, monitors_active, lock_state, lock_alive, lock_deadline, lock_render,
                    transition, frame, scanout>>
    BY <1>11 DEF NewLockSurface, vars
  <2>2. LockTypes' /\ DeadlineMatchesState'
    BY <1>11, <2>1 DEF NewLockSurface, DeadlineMatchesState
  <2> QED
    BY <2>1, <2>2, LockOnlyStep
<1>12. ASSUME NEW o \in Output, CommitLockSurface(o) PROVE LockInv'
  <2>1. UNCHANGED <<status, monitors_active, lock_alive, lock_render, transition, frame, scanout>>
    BY <1>12 DEF CommitLockSurface, QueueRedrawAll, QueueRedraw, vars
  <2>2. lock_state' = "Locked" => lock_state = "Locked" \/ Connected = {}
    BY <1>12 DEF CommitLockSurface, ContinueToLocking
  <2>3. LockTypes' /\ DeadlineMatchesState'
    BY <1>12, <2>1 DEF CommitLockSurface, ContinueToLocking, DeadlineMatchesState
  <2> QED
    BY <2>1, <2>2, <2>3, LockOnlyStep
<1>13. ASSUME NEW o \in Output, LockAddOutput(o) PROVE LockInv'
  <2>1. /\ status[o] = "absent" /\ status' = [status EXCEPT ![o] = "connected"]
        /\ lock_render' = [lock_render EXCEPT ![o] = IF is_locked THEN "Locked" ELSE "Unlocked"]
        /\ UNCHANGED <<monitors_active, lock_state, lock_alive, lock_deadline, lock_surface,
                       transition, frame, scanout>>
    BY <1>13 DEF LockAddOutput, AddOutput
  <2>2. o \notin Connected /\ Connected' = Connected \union {o} /\ frame'[o] = "none"
    BY <2>1 DEF Connected, DarkFrames
  <2>3. LockTypes'
    BY <2>1
  <2>4. DarkFrames'
    BY <2>1, <2>2 DEF DarkFrames
  <2>5. LockRenderTruthful'
    BY <2>1, <2>2 DEF LockRenderTruthful, Connected
  <2>6. LockedMeansBlanked'
    BY <2>1, <2>2 DEF LockedMeansBlanked, Connected, is_locked
  <2> QED
    BY <2>1, <2>3, <2>4, <2>5, <2>6 DEF DeadlineMatchesState
<1>14. ASSUME NEW o \in Output, LockRemoveOutput(o) PROVE LockInv'
  <2>1. /\ status' = [status EXCEPT ![o] = "removed"]
        /\ frame' = [frame EXCEPT ![o] = "none"] /\ scanout' = [scanout EXCEPT ![o] = "none"]
        /\ lock_surface' = [lock_surface EXCEPT ![o] = "none"]
        /\ lock_render' = [lock_render EXCEPT ![o] = "Unlocked"]
        /\ UNCHANGED <<monitors_active, lock_alive>>
    BY <1>14 DEF LockRemoveOutput, RemoveOutput, RemoveOutputQueuing
  <2>2. Connected' = Connected \ {o}
    BY <2>1 DEF Connected
  <2>3. LockTypes'
    <3>1. status' \in [Output -> {"absent", "connected", "removed"}]
      BY <2>1
    <3>2. /\ lock_state' \in {"Unlocked", "WaitingForSurfaces", "Locking", "Locked"}
          /\ lock_deadline' \in BOOLEAN
      BY <1>14 DEF LockRemoveOutput, ContinueToLocking
    <3>3. /\ transition' \in [Output -> BOOLEAN]
          /\ frame' \in [Output -> {"none", "session", "snapshot", "locked"}]
          /\ scanout' \in [Output -> {"none", "session", "snapshot", "locked"}]
          /\ lock_surface' \in [Output -> {"none", "created", "mapped"}]
          /\ lock_render' \in [Output -> {"Unlocked", "Locked"}]
      BY <1>14, <2>1 DEF LockRemoveOutput
    <3> QED
      BY <2>1, <3>1, <3>2, <3>3
  <2>7. DeadlineMatchesState'
    BY <1>14 DEF LockRemoveOutput, ContinueToLocking, DeadlineMatchesState
  <2>4. DarkFrames'
    BY <2>1, <2>2 DEF DarkFrames
  <2>5. LockRenderTruthful'
    BY <2>1, <2>2 DEF LockRenderTruthful, Connected
  <2>6. lock_state' = "Locked" => \A p \in Connected \ {o} : lock_render[p] = "Locked"
    BY <1>14 DEF LockRemoveOutput, ContinueToLocking, AllLocked, LockedMeansBlanked
  <2> QED
    BY <2>1, <2>2, <2>3, <2>4, <2>5, <2>6, <2>7 DEF LockedMeansBlanked, LockRenderTruthful
<1>15. CASE UNCHANGED allVars
  <2>1. UNCHANGED <<status, monitors_active>> /\ UNCHANGED lockVars
    BY <1>15 DEF allVars, vars
  <2>2. LockTypes' /\ DeadlineMatchesState'
    BY <2>1 DEF lockVars, DeadlineMatchesState
  <2> QED
    BY <2>1, <2>2, LockOnlyStep DEF lockVars
<1>16. CASE LockEndDispatch \/ DoScreenTransition
  <2>1. UNCHANGED <<status, monitors_active, lock_state, lock_alive, lock_deadline, lock_surface,
                    lock_render, frame, scanout>>
    BY <1>16 DEF LockEndDispatch, EndDispatch, DoScreenTransition, vars
  <2>2. transition' \in [Output -> BOOLEAN]
    <3>1. CASE LockEndDispatch
      <4>1. PICK done : transition' = [o \in Output |-> transition[o] /\ o \notin done]
        BY <3>1 DEF LockEndDispatch
      <4> QED
        BY <4>1, Zenon
    <3>2. CASE DoScreenTransition
      <4>1. PICK outputs : transition' = [o \in Output |-> o \in outputs \/ transition[o]]
        BY <3>2 DEF DoScreenTransition
      <4> QED
        BY <4>1, Zenon
    <3> QED
      BY <1>16, <3>1, <3>2
  <2>3. LockTypes' /\ DeadlineMatchesState'
    BY <2>1, <2>2 DEF DeadlineMatchesState
  <2> QED
    BY <2>1, <2>3, LockOnlyStep
<1> QED
  BY <1>1, <1>2, <1>3, <1>4, <1>5, <1>6, <1>7, <1>8, <1>9, <1>10, <1>11, <1>12, <1>13,
     <1>14, <1>15, <1>16 DEF LockNext

\* The first state satisfies it.
LEMMA LockInitInv == LockInit => LockInv
<1> SUFFICES ASSUME LockInit PROVE LockInv
  OBVIOUS
<1>1. LockTypes
  BY DEF LockInit, Init, LockTypes, LockTypeOK
<1>2. DarkFrames /\ LockRenderTruthful
  BY DEF LockInit, DarkFrames, LockRenderTruthful, Connected
<1>3. LockedMeansBlanked /\ DeadlineMatchesState
  BY DEF LockInit, LockedMeansBlanked, DeadlineMatchesState
<1> QED
  BY <1>1, <1>2, <1>3 DEF LockInv

\* For any set of outputs: a locked session has no live contents in the last
\* frame of any output, the render state of an output tells as much, and the
\* deadline of the lock lives exactly as long as the wait for surfaces.
THEOREM LockSafety ==
    LockSpec => [](LockTypeOK /\ LockedMeansBlanked /\ LockRenderTruthful /\ DeadlineMatchesState)
<1>1. LockInv => LockTypeOK /\ LockedMeansBlanked /\ LockRenderTruthful /\ DeadlineMatchesState
  BY DEF LockInv, LockTypes
<1> QED
  BY <1>1, LockInitInv, LockStep, PTL DEF LockSpec

\* For any set of outputs: nothing but a page flip changes what a screen shows
\* to a frame of ours, and in a locked session that frame is never a session
\* frame, whichever output is plugged in, removed or redrawn in between.
THEOREM LockNeverReveals == LockSpec => LockedNeverReveals
<1> DEFINE Step == lock_state = "Locked" /\ lock_state' = "Locked" =>
                     \A o \in Output : scanout'[o] = "session" => scanout[o] = "session"
<1>1. LockInv /\ [LockNext]_allVars => [Step]_allVars
  <2> SUFFICES ASSUME LockInv, LockNext, lock_state = "Locked",
                      NEW p \in Output, scanout'[p] = "session"
               PROVE  scanout[p] = "session"
    BY DEF allVars
  <2> USE DEF LockInv, LockTypes, LockTypeOK
  <2>1. \A o \in Output : frame[o] # "session"
    BY DEF LockedMeansBlanked, DarkFrames
  <2>2. CASE \E o \in Output : LockOnVBlank(o)
    BY <2>1, <2>2 DEF LockOnVBlank
  <2>3. CASE LockDeactivateMonitors \/ LockPauseSession
    BY <2>3 DEF LockDeactivateMonitors, LockPauseSession
  <2>4. CASE \E o \in Output : LockRemoveOutput(o)
    BY <2>4 DEF LockRemoveOutput
  <2>5. CASE UNCHANGED scanout
    BY <2>5
  <2>6. \/ \E o \in Output : LockOnVBlank(o)
        \/ LockDeactivateMonitors \/ LockPauseSession
        \/ \E o \in Output : LockRemoveOutput(o)
        \/ UNCHANGED scanout
    BY DEF LockNext, CycleOnly, LockEndDispatch, DoScreenTransition, lockVars, Lock,
           LockDeadline, Unlock, LockClientDies, LockActivateSession, LockRedraw, NewLockSurface, CommitLockSurface, LockAddOutput
  <2> QED
    BY <2>2, <2>3, <2>4, <2>5, <2>6
<1> QED
  BY <1>1, LockInitInv, LockStep, PTL DEF LockSpec, LockedNeverReveals

\* The steps that neither a request nor the death of the client takes: the lock
\* stays, is on its way, is confirmed or is called off.
Quiet ==
    /\ lock_alive' = lock_alive
    /\ \/ lock_state' = lock_state
       \/ lock_state = "WaitingForSurfaces" /\ lock_state' \in {"Locking", "Locked"}
       \/ lock_state = "Locking" /\ lock_state' \in {"Locked", "Unlocked"}

LEMMA StepKinds ==
    ASSUME LockTypeOK, [LockNext]_allVars
    PROVE  Quiet \/ Lock \/ Unlock \/ LockClientDies
<1>1. CASE UNCHANGED allVars
  BY <1>1 DEF Quiet, allVars, lockVars
<1>2. CASE CycleOnly \/ LockEndDispatch \/ DoScreenTransition \/ LockDeactivateMonitors
           \/ LockPauseSession \/ LockActivateSession
  BY <1>2 DEF Quiet, CycleOnly, LockEndDispatch, DoScreenTransition, LockDeactivateMonitors,
              LockPauseSession, LockActivateSession, lockVars
<1>3. CASE LockDeadline
  BY <1>3 DEF Quiet, LockDeadline, ContinueToLocking
<1>4. ASSUME NEW o \in Output, NEW res \in Results, LockRedraw(o, res) PROVE Quiet
  BY <1>4 DEF Quiet, LockRedraw, LockStateAfterRedraw, LockTypeOK
<1>5. ASSUME NEW o \in Output, LockOnVBlank(o) \/ NewLockSurface(o) \/ LockAddOutput(o) PROVE Quiet
  BY <1>5 DEF Quiet, LockOnVBlank, NewLockSurface, LockAddOutput
<1>6. ASSUME NEW o \in Output, CommitLockSurface(o) PROVE Quiet
  BY <1>6 DEF Quiet, CommitLockSurface, ContinueToLocking
<1>7. ASSUME NEW o \in Output, LockRemoveOutput(o) PROVE Quiet
  BY <1>7 DEF Quiet, LockRemoveOutput, ContinueToLocking
<1> QED
  BY <1>1, <1>2, <1>3, <1>4, <1>5, <1>6, <1>7 DEF LockNext

\* The frames that show the session, before and after a step.
Exposed == {o \in Connected : frame[o] = "session"}

\* A step of the lock is a step of its contract, or none.
LEMMA ContractStep ==
    ASSUME LockInv, LockInv', [LockNext]_allVars
    PROVE  [Contract!Next]_(Contract!contractVars)
<1> USE DEF LockInv, LockTypes
<1>1. /\ Exposed \subseteq Output /\ Exposed' \subseteq Output
      /\ lock_state = "Locked" => Exposed = {}
      /\ lock_state' = "Locked" => Exposed' = {}
  BY DEF Exposed, Connected, LockedMeansBlanked
<1>2. /\ lock_state \in {"Unlocked", "WaitingForSurfaces", "Locking", "Locked"}
      /\ lock_state' \in {"Unlocked", "WaitingForSurfaces", "Locking", "Locked"}
      /\ lock_alive \in BOOLEAN /\ lock_alive' \in BOOLEAN
  BY DEF LockTypeOK
<1>3. CASE Quiet
  <2>1. CASE lock_state' = "Locked" /\ lock_state # "Locked"
    <3>1. Contract!Grant
      BY <1>1, <1>2, <1>3, <2>1 DEF Quiet, Contract!Grant, Exposed
    <3> QED
      BY <3>1 DEF Contract!Next
  <2>2. CASE lock_state' = "Unlocked" /\ lock_state # "Unlocked"
    <3>1. Contract!Refuse
      BY <1>1, <1>2, <1>3, <2>2 DEF Quiet, Contract!Refuse, Exposed
    <3> QED
      BY <3>1 DEF Contract!Next
  <2>3. CASE /\ lock_state' = "Locked" => lock_state = "Locked"
             /\ lock_state' = "Unlocked" => lock_state = "Unlocked"
    <3>1. Contract!Show
      BY <1>1, <1>2, <1>3, <2>3 DEF Quiet, Contract!Show, Exposed
    <3> QED
      BY <3>1 DEF Contract!Next
  <2> QED
    BY <2>1, <2>2, <2>3
<1>4. CASE Lock
  <2>1. UNCHANGED <<status, frame>> /\ lock_alive' = TRUE
    BY <1>4 DEF Lock, vars
  <2>2. Exposed' = Exposed
    BY <2>1 DEF Exposed, Connected
  <2>3. CASE lock_state = "Locked"
    <3>1. Contract!Replace
      BY <1>2, <1>4, <2>1, <2>2, <2>3 DEF Lock, Contract!Replace, Exposed
    <3> QED
      BY <3>1 DEF Contract!Next
  <2>4. CASE lock_state = "Unlocked" /\ Connected = {}
    <3>1. Contract!Grant
      BY <1>1, <1>2, <1>4, <2>1, <2>4 DEF Lock, Contract!Grant, Exposed
    <3> QED
      BY <3>1 DEF Contract!Next
  <2>5. CASE lock_state = "Unlocked" /\ Connected # {}
    <3>1. Contract!Ask
      BY <1>2, <1>4, <2>1, <2>2, <2>5 DEF Lock, Contract!Ask, Exposed
    <3> QED
      BY <3>1 DEF Contract!Next
  <2> QED
    BY <1>4, <2>3, <2>4, <2>5 DEF Lock
<1>5. CASE Unlock
  <2>1. UNCHANGED <<status, frame>>
    BY <1>5 DEF Unlock, QueueRedrawAll, ActivateMonitors
  <2>2. Exposed' = Exposed
    BY <2>1 DEF Exposed, Connected
  <2>3. Contract!Release
    BY <1>5, <2>2 DEF Unlock, Contract!Release, Exposed
  <2> QED
    BY <2>3 DEF Contract!Next
<1>6. CASE LockClientDies
  <2>1. UNCHANGED <<status, frame>>
    BY <1>6 DEF LockClientDies, vars
  <2>2. Exposed' = Exposed
    BY <2>1 DEF Exposed, Connected
  <2>3. Contract!Die
    BY <1>6, <2>2 DEF LockClientDies, Contract!Die, Exposed
  <2> QED
    BY <2>3 DEF Contract!Next
<1> QED
  BY <1>3, <1>4, <1>5, <1>6, StepKinds

\* For any set of outputs: the detailed lock, its redraws and its outputs
\* implement the contract (its safety part).
THEOREM LockKeepsContract == LockSpec => KeepsContract
<1>1. LockInit => Contract!Init
  BY DEF LockInit, Init, Contract!Init, Connected
<1> QED
  BY <1>1, LockInitInv, LockStep, ContractStep, PTL DEF LockSpec, KeepsContract, Contract!Spec
=============================================================================
