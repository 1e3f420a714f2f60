--------------------------- MODULE KeyboardProofs ---------------------------
(***************************************************************************)
(* Keys stay balanced and the lock closes the interfaces, for any keys and *)
(* any number of keys that lose their pairing.                             *)
(***************************************************************************)
EXTENDS Keyboard, TLAPS

\* What is known of a key that has not lost its pairing: the seat is right about it, and
\* while it is down one side, and only one, is waiting for its release.
Paired(k) ==
    /\ (k \in held) <=> (k \in pressed)
    /\ (k \in pressed) <=> (k \in client_keys \/ k \in suppressed_keys)
    /\ ~(k \in client_keys /\ k \in suppressed_keys)

AllPaired == \A k \in Key \ unpaired : Paired(k)

\* The switcher is on an output, so the last one takes it along.
SwitcherHasOutput == ~has_output => "mru" \notin ui

KeyInv ==
    /\ KeyTypeOK
    /\ AllPaired
    /\ LockedClosesUis
    /\ SwitcherHasOutput

-----------------------------------------------------------------------------
(***************************************************************************)
(* What actions do.                                                        *)
(***************************************************************************)
\* Under the lock an action opens nothing that the lock has closed.
LEMMA ActionKeepsUis ==
    ASSUME KeyInv, NEW a \in Action, NEW suppressed \in SUBSET Key, NEW hidden \in SUBSET Interface,
           handle_bind(a, suppressed, hidden), UNCHANGED <<lock, has_output>>
    PROVE  /\ ui' \subseteq Interface
           /\ LockedClosesUis'
           /\ SwitcherHasOutput'
<1> USE DEF KeyInv, KeyTypeOK, Interface
<1>1. ASSUME NEW open \in UiResults(a) PROVE
          /\ open \subseteq Interface
          /\ ~has_output => "mru" \notin open
          /\ allowed_when_locked(a) => open \intersect {"screenshot", "mru"} \subseteq ui
  BY <1>1 DEF UiResults, cancel_mru, open_screenshot_ui, ToggleOverview, MruAdvance,
              SwitcherHasOutput, allowed_when_locked
<1>2. \/ ui' = ui \ hidden
      \/ /\ \E open \in UiResults(a) : ui' = open \ hidden
         /\ ~is_locked \/ allowed_when_locked(a)
  BY DEF handle_bind, do_action
<1> QED
  BY <1>1, <1>2 DEF LockedClosesUis, SwitcherHasOutput, is_locked

\* An action forgets no suppressed key but those it counts as unpaired.
LEMMA ActionKeepsKeys ==
    ASSUME KeyInv, NEW a \in Action, NEW suppressed \in SUBSET Key, NEW hidden,
           handle_bind(a, suppressed, hidden)
    PROVE  /\ suppressed_keys' \subseteq Key /\ unpaired' \subseteq Key /\ unpaired \subseteq unpaired'
           /\ \A k \in Key \ unpaired' : k \in suppressed_keys' <=> k \in suppressed
           /\ stopped' \in BOOLEAN
BY DEF handle_bind, do_action, KeyInv, KeyTypeOK

LEMMA BoundAreActions == \A k \in Key : Bound(k) \cup hardcoded_overview_bind(k) \subseteq Action
BY DEF Bound, Bindings, hardcoded_overview_bind, screenshot_action, Action, GeneralAction, MruAction

-----------------------------------------------------------------------------
(***************************************************************************)
(* The steps.                                                              *)
(***************************************************************************)
\* Where a press goes: to the client, or to the compositor, which may forget it again when
\* an action makes its release uncertain.
GoesToClient(k) ==
    client_keys' = client_keys \union {k} /\ UNCHANGED <<suppressed_keys, unpaired>>

GoesToCompositor(k) ==
    /\ client_keys' = client_keys
    /\ unpaired \subseteq unpaired'
    /\ \A j \in Key \ unpaired' : j \in suppressed_keys' <=> j \in suppressed_keys \union {k}

\* A press that goes to one side alone keeps all keys paired: neither side was waiting for
\* a release of that key.
LEMMA PressStep ==
    ASSUME KeyInv, NEW k \in Key, PressDown(k), GoesToClient(k) \/ GoesToCompositor(k)
    PROVE  AllPaired'
<1> SUFFICES ASSUME NEW j \in Key, j \notin unpaired' PROVE Paired(j)'
  BY DEF AllPaired
<1>1. j \notin unpaired
  BY DEF GoesToClient, GoesToCompositor
<1>2. Paired(j)
  BY <1>1 DEF KeyInv, AllPaired
<1>3. CASE j = k
  <2>1. /\ j \in held' /\ j \in pressed'
        /\ j \notin client_keys /\ j \notin suppressed_keys
    BY <1>2, <1>3 DEF PressDown, Paired
  <2>2. CASE GoesToClient(k)
    <3>1. j \in client_keys' /\ j \notin suppressed_keys'
      BY <1>3, <2>1, <2>2 DEF GoesToClient
    <3> QED
      BY <2>1, <3>1 DEF Paired
  <2>3. CASE GoesToCompositor(k)
    <3>1. j \notin client_keys' /\ j \in suppressed_keys'
      BY <1>3, <2>1, <2>3 DEF GoesToCompositor
    <3> QED
      BY <2>1, <3>1 DEF Paired
  <2> QED
    BY <2>2, <2>3
<1>4. CASE j # k
  <2>1. (j \in held' <=> j \in held) /\ (j \in pressed' <=> j \in pressed)
    BY <1>4 DEF PressDown
  <2>2. (j \in client_keys' <=> j \in client_keys) /\ (j \in suppressed_keys' <=> j \in suppressed_keys)
    BY <1>4 DEF GoesToClient, GoesToCompositor
  <2> QED
    BY <1>2, <2>1, <2>2 DEF Paired
<1> QED
  BY <1>3, <1>4

\* A release goes to the one side that had the press.
LEMMA ReleaseStep ==
    ASSUME KeyInv, NEW k \in Key, Release(k)
    PROVE  AllPaired'
<1> SUFFICES ASSUME NEW j \in Key, j \notin unpaired' PROVE Paired(j)'
  BY DEF AllPaired
<1>1. Paired(j)
  BY DEF KeyInv, AllPaired, Release
<1>2. CASE j = k
  <2>1. j \notin held' /\ j \notin pressed'
    BY <1>2 DEF Release
  <2>2. j \notin client_keys' /\ j \notin suppressed_keys'
    BY <1>1, <1>2 DEF Release, should_intercept_key, Paired
  <2> QED
    BY <2>1, <2>2 DEF Paired
<1>3. CASE j # k
  <2>1. /\ (j \in held' <=> j \in held) /\ (j \in pressed' <=> j \in pressed)
        /\ (j \in client_keys' <=> j \in client_keys)
        /\ (j \in suppressed_keys' <=> j \in suppressed_keys)
    BY <1>3 DEF Release, should_intercept_key
  <2> QED
    BY <1>1, <2>1 DEF Paired
<1> QED
  BY <1>2, <1>3

\* A step that moves no key and makes none paired again.
LEMMA NoKeyStep ==
    ASSUME KeyInv, UNCHANGED <<held, pressed, client_keys>>, unpaired \subseteq unpaired',
           \A k \in Key \ unpaired' : k \in suppressed_keys' <=> k \in suppressed_keys
    PROVE  AllPaired'
<1> SUFFICES ASSUME NEW j \in Key, j \notin unpaired' PROVE Paired(j)'
  BY DEF AllPaired
<1>1. Paired(j)
  BY DEF KeyInv, AllPaired
<1> QED
  BY <1>1 DEF Paired

\* A press that is bound, in the overview or by the configuration.
LEMMA BindStep ==
    ASSUME KeyInv, NEW k \in Key, PressDown(k), NEW a \in Action,
           handle_bind(a, suppressed_keys \union {k}, Hidden),
           UNCHANGED client_keys, bind_repeat_timer' \in BOOLEAN
    PROVE  KeyInv'
<1>1. /\ Hidden \in SUBSET Interface
      /\ suppressed_keys \union {k} \in SUBSET Key
  BY DEF Hidden, Interface, KeyInv, KeyTypeOK
<1>2. ui' \subseteq Interface /\ LockedClosesUis' /\ SwitcherHasOutput'
  BY <1>1, ActionKeepsUis DEF PressDown
<1>3. /\ suppressed_keys' \subseteq Key /\ unpaired' \subseteq Key /\ unpaired \subseteq unpaired'
      /\ \A j \in Key \ unpaired' : j \in suppressed_keys' <=> j \in suppressed_keys \union {k}
      /\ stopped' \in BOOLEAN
  BY <1>1, ActionKeepsKeys
<1>4. AllPaired'
  BY <1>3, PressStep DEF GoesToCompositor
<1>5. KeyTypeOK'
  BY <1>2, <1>3 DEF KeyInv, KeyTypeOK, PressDown
<1> QED
  BY <1>2, <1>4, <1>5 DEF KeyInv

\* A press that only closes interfaces.
LEMMA PlainPressStep ==
    ASSUME KeyInv, NEW k \in Key, PressDown(k), GoesToClient(k) \/ GoesToCompositor(k),
           suppressed_keys' \subseteq Key, UNCHANGED <<unpaired, bind_repeat_timer>>,
           ui' \subseteq ui, stopped' \in BOOLEAN
    PROVE  KeyInv'
<1>1. AllPaired'
  BY PressStep
<1>2. KeyTypeOK'
  BY DEF KeyInv, KeyTypeOK, PressDown, GoesToClient, GoesToCompositor
<1>3. LockedClosesUis' /\ SwitcherHasOutput'
  BY DEF KeyInv, LockedClosesUis, SwitcherHasOutput, is_locked, PressDown
<1> QED
  BY <1>1, <1>2, <1>3 DEF KeyInv

\* Every step keeps the invariant.
LEMMA KeyStep == KeyInv /\ [KeyNext]_keyVars => KeyInv'
<1> SUFFICES ASSUME KeyInv, [KeyNext]_keyVars PROVE KeyInv'
  OBVIOUS
<1> USE DEF KeyInv, KeyTypeOK
<1>1. ASSUME NEW k \in Key, PressInExitDialog(k) PROVE KeyInv'
  <2>1. GoesToCompositor(k)
    BY <1>1 DEF PressInExitDialog, GoesToCompositor
  <2> QED
    BY <1>1, <2>1, PlainPressStep DEF PressInExitDialog
<1>2. ASSUME NEW k \in Key, PressInResizeMode(k) PROVE KeyInv'
  <2>1. GoesToCompositor(k)
    BY <1>2 DEF PressInResizeMode, GoesToCompositor
  <2> QED
    BY <1>2, <2>1, PlainPressStep DEF PressInResizeMode
<1>3. ASSUME NEW k \in Key, PressCancelsGrab(k) PROVE KeyInv'
  <2>1. GoesToCompositor(k)
    BY <1>3 DEF PressCancelsGrab, GoesToCompositor
  <2> QED
    BY <1>3, <2>1, PlainPressStep DEF PressCancelsGrab
<1>4. ASSUME NEW k \in Key, PressBound(k) PROVE KeyInv'
  <2>1. PICK a \in Bound(k) : handle_bind(a, suppressed_keys \union {k}, Hidden)
    BY <1>4 DEF PressBound
  <2>2. a \in Action
    BY BoundAreActions
  <2> QED
    BY <1>4, <2>1, <2>2, BindStep DEF PressBound, start_key_repeat
<1>5. ASSUME NEW k \in Key, PressInOverview(k) PROVE KeyInv'
  <2>1. PICK a \in hardcoded_overview_bind(k) : handle_bind(a, suppressed_keys \union {k}, Hidden)
    BY <1>5 DEF PressInOverview
  <2>2. a \in Action
    BY BoundAreActions
  <2>3. bind_repeat_timer' \in BOOLEAN
    BY <1>5 DEF PressInOverview, start_key_repeat
  <2> QED
    BY <1>5, <2>1, <2>2, <2>3, BindStep DEF PressInOverview
<1>6. ASSUME NEW k \in Key, PressForwarded(k) PROVE KeyInv'
  <2>1. GoesToClient(k)
    BY <1>6 DEF PressForwarded, GoesToClient
  <2> QED
    BY <1>6, <2>1, PlainPressStep DEF PressForwarded
<1>7. ASSUME NEW k \in Key, Release(k) PROVE KeyInv'
  <2>1. AllPaired'
    BY <1>7, ReleaseStep
  <2>2. KeyTypeOK' /\ LockedClosesUis' /\ SwitcherHasOutput'
    BY <1>7 DEF Release, should_intercept_key, cancel_mru, LockedClosesUis, is_locked, SwitcherHasOutput
  <2> QED
    BY <2>1, <2>2
<1>8. ASSUME NEW k \in Key, LoseRelease(k) PROVE KeyInv'
  <2>1. AllPaired'
    BY <1>8 DEF LoseRelease, AllPaired, Paired
  <2> QED
    BY <1>8, <2>1 DEF LoseRelease, LockedClosesUis, is_locked, SwitcherHasOutput
<1>9. ASSUME RepeatFires \/ IpcAction PROVE KeyInv'
  <2>1. PICK a \in Action : handle_bind(a, suppressed_keys, {})
    BY <1>9 DEF RepeatFires, IpcAction, handle_bind
  <2>2. UNCHANGED <<held, pressed, client_keys, bind_repeat_timer, lock, keyboard_focus, has_output>>
    BY <1>9 DEF RepeatFires, IpcAction, Keys
  <2>3. {} \in SUBSET Interface /\ suppressed_keys \in SUBSET Key
    OBVIOUS
  <2>4. ui' \subseteq Interface /\ LockedClosesUis' /\ SwitcherHasOutput'
    BY <2>1, <2>2, <2>3, ActionKeepsUis
  <2>5. /\ suppressed_keys' \subseteq Key /\ unpaired' \subseteq Key /\ unpaired \subseteq unpaired'
        /\ \A k \in Key \ unpaired' : k \in suppressed_keys' <=> k \in suppressed_keys
        /\ stopped' \in BOOLEAN
    BY <2>1, <2>3, ActionKeepsKeys
  <2>6. AllPaired'
    BY <2>2, <2>5, NoKeyStep
  <2> QED
    BY <2>2, <2>4, <2>5, <2>6
<1>10. ASSUME \/ PointerInput \/ LockRequest \/ continue_to_locking \/ unlock
              \/ OutputRemoved \/ OutputAdded \/ update_keyboard_focus \/ UNCHANGED keyVars
       PROVE  KeyInv'
  <2>1. UNCHANGED <<held, pressed, client_keys, suppressed_keys, bind_repeat_timer, stopped, unpaired>>
    BY <1>10 DEF PointerInput, LockRequest, continue_to_locking, unlock, OutputRemoved, OutputAdded,
                 update_keyboard_focus, Keys, keyVars
  <2>2. AllPaired'
    BY <2>1, NoKeyStep
  <2>3. CASE PointerInput \/ LockRequest \/ continue_to_locking \/ unlock
    BY <2>1, <2>2, <2>3 DEF PointerInput, LockRequest, continue_to_locking, unlock, cancel_mru,
                            LockedClosesUis, SwitcherHasOutput, is_locked
  <2>4. CASE OutputRemoved
    BY <2>1, <2>2, <2>4 DEF OutputRemoved, cancel_mru, LockedClosesUis, SwitcherHasOutput, is_locked
  <2>5. CASE OutputAdded \/ update_keyboard_focus \/ UNCHANGED keyVars
    BY <2>1, <2>2, <2>5 DEF OutputAdded, update_keyboard_focus, FocusResults, keyVars,
                            LockedClosesUis, SwitcherHasOutput, is_locked
  <2> QED
    BY <1>10, <2>3, <2>4, <2>5
<1> QED
  BY <1>1, <1>2, <1>3, <1>4, <1>5, <1>6, <1>7, <1>8, <1>9, <1>10 DEF KeyNext

\* To be in one of two sets is to be in one and not in the other.
LEMMA OneOfTwo ==
    ASSUME NEW x, NEW S, NEW T
    PROVE  ((x \in S) # (x \in T)) <=> ~(x \in S <=> x \in T)
OBVIOUS

LEMMA KeyInitially == KeyInit => KeyInv
BY DEF KeyInit, KeyInv, KeyTypeOK, AllPaired, Paired, LockedClosesUis, SwitcherHasOutput, is_locked

\* Every key that is down belongs to exactly one side (on_keyboard, should_intercept_key).
THEOREM KeysSafety == KeySpec => []KeysBalanced
<1>1. KeyInv => KeysBalanced
  <2> SUFFICES ASSUME KeyInv, NEW k \in Key \ unpaired
               PROVE  (k \in pressed) <=> ((k \in client_keys) # (k \in suppressed_keys))
    BY DEF KeysBalanced
  <2>1. Paired(k)
    BY DEF KeyInv, AllPaired
  <2>2. (k \in client_keys) # (k \in suppressed_keys) <=> ~(k \in client_keys <=> k \in suppressed_keys)
    BY OneOfTwo
  <2>3. k \in pressed <=> ~(k \in client_keys <=> k \in suppressed_keys)
    BY <2>1 DEF Paired
  <2> QED
    BY <2>2, <2>3
<1> QED
  BY KeyInitially, KeyStep, <1>1, PTL DEF KeySpec

\* The screenshot UI and the switcher are closed while the session is locked
\* (continue_to_locking, lock, remove_output, do_action).
THEOREM LockCloses == KeySpec => []LockedClosesUis
<1>1. KeyInv => LockedClosesUis
  BY DEF KeyInv
<1> QED
  BY KeyInitially, KeyStep, <1>1, PTL DEF KeySpec
=============================================================================
