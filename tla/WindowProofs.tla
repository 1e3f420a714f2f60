---------------------------- MODULE WindowProofs -----------------------------
(***************************************************************************)
(* The two halves of a window's life: where and how it opens, for any      *)
(* outputs, workspaces and parents, and the exchange of configures and     *)
(* commits once it is mapped, for any sizes and any number of configures.  *)
(***************************************************************************)
EXTENDS Opening, Configures, SequenceTheorems, TLAPS

-----------------------------------------------------------------------------
(***************************************************************************)
(* Opening. As long as nothing moves, every decision about the window      *)
(* picks the monitor that the first one picked, the one that maps it       *)
(* included.                                                               *)
(***************************************************************************)
Monitor == Output \cup {None}

Mode == {"Normal", "Maximized", "Fullscreen"}

Win == [state : {"NotConfigured", "Configured", "Mapped", "Destroyed"},
        wants_fullscreen : BOOLEAN, wants_output : Monitor, wants_maximized : BOOLEAN,
        mode : Mode, output : Monitor, workspace_name : Name \cup {None},
        is_pending_maximized : BOOLEAN, idles : Nat, late : BOOLEAN]

Env == [outs : SUBSET Output, active : Monitor, home : [Name -> Output \cup {None, Nowhere}],
        shown : SUBSET Name, parent : {None} \cup [at : Output \cup {Nowhere}, moving : BOOLEAN]]

\* What is in the layout is on an output that is there, or nowhere if there is none.
EnvOK(e) ==
    /\ IF e.outs = {} THEN e.active = None ELSE e.active \in e.outs
    /\ \A n \in Name : e.home[n] \in Places(e.outs) \cup {None}
    /\ e.parent \in Parents(e.outs)

OpenTypeOK ==
    /\ env \in Env /\ EnvOK(env)
    /\ win \in Win
    /\ opened.mode \in Mode /\ opened.configured \in BOOLEAN
    /\ hist \in [fs : BOOLEAN, max : BOOLEAN, lost : BOOLEAN, on : Monitor]

\* The pending mode is what was asked for, unless there was nowhere to ask it of.
ModeAsAsked ==
    /\ win.state = "NotConfigured" => win.mode = "Normal"
    /\ win.state = "Configured" /\ ~hist.lost =>
          win.mode = ModeOf(hist.fs, hist.max) /\ win.is_pending_maximized = hist.max

\* What was decided still leads to the monitor it was decided for.
Leads(o, name, mon) ==
    /\ mon \in env.outs
    /\ IF o = None THEN env.parent # None /\ env.parent.at = mon ELSE o = mon
    /\ name # None => env.home[name] = mon

PlaceAsConfigured ==
    ~Redirects /\ win.state = "Configured" /\ hist.on # None => Leads(win.output, win.workspace_name, hist.on)

OpenInv ==
    /\ OpenTypeOK
    /\ ModeAsAsked
    /\ PlaceAsConfigured
    /\ OpensSomewhere /\ OpensInMode
    /\ ~Redirects => OpensWhereConfigured

-----------------------------------------------------------------------------
(***************************************************************************)
(* Picking a monitor.                                                      *)
(***************************************************************************)
\* The choice when none of those preferred is there.
Fallback == IF ParentMonitor # None THEN [mon |-> ParentMonitor, parent |-> TRUE]
            ELSE [mon |-> env.active, parent |-> FALSE]

LEMMA PickPreferred ==
    ASSUME NEW n \in Nat, NEW preferred, DOMAIN preferred = 1 .. n,
           NEW i \in 1 .. n, preferred[i] # None, \A j \in 1 .. n : j < i => preferred[j] = None
    PROVE  PickMonitor(preferred) = [mon |-> preferred[i], parent |-> FALSE]
<1> DEFINE some == {k \in DOMAIN preferred : preferred[k] # None}
           P(k) == k \in some /\ \A j \in some : k <= j
           first == CHOOSE k \in some : \A j \in some : k <= j
<1>1. P(i)
  OBVIOUS
<1>2. P(first)
  <2>1. \E k \in some : \A j \in some : k <= j
    BY <1>1
  <2> QED
    BY <2>1, Zenon
<1>3. first = i
  BY <1>1, <1>2
<1> QED
  BY <1>1, <1>3 DEF PickMonitor

LEMMA PickFallback ==
    ASSUME NEW n \in Nat, NEW preferred, DOMAIN preferred = 1 .. n,
           \A j \in 1 .. n : preferred[j] = None
    PROVE  PickMonitor(preferred) = Fallback
BY DEF PickMonitor, Fallback

LEMMA PickOne ==
    ASSUME NEW a
    PROVE  PickMonitor(<<a>>) = IF a # None THEN [mon |-> a, parent |-> FALSE] ELSE Fallback
<1> DEFINE p == <<a>>
<1>1. DOMAIN p = 1 .. 1 /\ p[1] = a
  OBVIOUS
<1> HIDE DEF p
<1>2. CASE a # None
  <2>1. 1 \in 1 .. 1 /\ p[1] # None /\ \A j \in 1 .. 1 : j < 1 => p[j] = None
    BY <1>1, <1>2
  <2>2. PickMonitor(p) = [mon |-> p[1], parent |-> FALSE]
    BY <1>1, <2>1, PickPreferred
  <2> QED
    BY <1>1, <1>2, <2>2 DEF p
<1>3. CASE a = None
  <2>1. \A j \in 1 .. 1 : p[j] = None
    BY <1>1, <1>3
  <2>2. PickMonitor(p) = Fallback
    BY <1>1, <2>1, PickFallback
  <2> QED
    BY <1>3, <2>2 DEF p
<1> QED
  BY <1>2, <1>3

LEMMA PickTwo ==
    ASSUME NEW a, NEW b
    PROVE  PickMonitor(<<a, b>>) = IF a # None THEN [mon |-> a, parent |-> FALSE]
                                   ELSE IF b # None THEN [mon |-> b, parent |-> FALSE] ELSE Fallback
<1> DEFINE p == <<a, b>>
<1>1. DOMAIN p = 1 .. 2 /\ p[1] = a /\ p[2] = b
  OBVIOUS
<1> HIDE DEF p
<1>2. CASE a # None
  <2>1. 1 \in 1 .. 2 /\ p[1] # None /\ \A j \in 1 .. 2 : j < 1 => p[j] = None
    BY <1>1, <1>2
  <2>2. PickMonitor(p) = [mon |-> p[1], parent |-> FALSE]
    BY <1>1, <2>1, PickPreferred
  <2> QED
    BY <1>1, <1>2, <2>2 DEF p
<1>3. CASE a = None /\ b # None
  <2>1. 2 \in 1 .. 2 /\ p[2] # None /\ \A j \in 1 .. 2 : j < 2 => p[j] = None
    BY <1>1, <1>3
  <2>2. PickMonitor(p) = [mon |-> p[2], parent |-> FALSE]
    BY <1>1, <2>1, PickPreferred
  <2> QED
    BY <1>1, <1>3, <2>2 DEF p
<1>4. CASE a = None /\ b = None
  <2>1. \A j \in 1 .. 2 : p[j] = None
    BY <1>1, <1>4
  <2>2. PickMonitor(p) = Fallback
    BY <1>1, <2>1, PickFallback
  <2> QED
    BY <1>4, <2>2 DEF p
<1> QED
  BY <1>2, <1>3, <1>4

LEMMA PickThree ==
    ASSUME NEW a, NEW b, NEW c
    PROVE  PickMonitor(<<a, b, c>>) = IF a # None THEN [mon |-> a, parent |-> FALSE]
                                      ELSE IF b # None THEN [mon |-> b, parent |-> FALSE]
                                      ELSE IF c # None THEN [mon |-> c, parent |-> FALSE] ELSE Fallback
<1> DEFINE p == <<a, b, c>>
<1>1. DOMAIN p = 1 .. 3 /\ p[1] = a /\ p[2] = b /\ p[3] = c
  OBVIOUS
<1> HIDE DEF p
<1>2. CASE a # None
  <2>1. 1 \in 1 .. 3 /\ p[1] # None /\ \A j \in 1 .. 3 : j < 1 => p[j] = None
    BY <1>1, <1>2
  <2>2. PickMonitor(p) = [mon |-> p[1], parent |-> FALSE]
    BY <1>1, <2>1, PickPreferred
  <2> QED
    BY <1>1, <1>2, <2>2 DEF p
<1>3. CASE a = None /\ b # None
  <2>1. 2 \in 1 .. 3 /\ p[2] # None /\ \A j \in 1 .. 3 : j < 2 => p[j] = None
    BY <1>1, <1>3
  <2>2. PickMonitor(p) = [mon |-> p[2], parent |-> FALSE]
    BY <1>1, <2>1, PickPreferred
  <2> QED
    BY <1>1, <1>3, <2>2 DEF p
<1>4. CASE a = None /\ b = None /\ c # None
  <2>1. 3 \in 1 .. 3 /\ p[3] # None /\ \A j \in 1 .. 3 : j < 3 => p[j] = None
    BY <1>1, <1>4
  <2>2. PickMonitor(p) = [mon |-> p[3], parent |-> FALSE]
    BY <1>1, <2>1, PickPreferred
  <2> QED
    BY <1>1, <1>4, <2>2 DEF p
<1>5. CASE a = None /\ b = None /\ c = None
  <2>1. \A j \in 1 .. 3 : p[j] = None
    BY <1>1, <1>5
  <2>2. PickMonitor(p) = Fallback
    BY <1>1, <2>1, PickFallback
  <2> QED
    BY <1>5, <2>2 DEF p
<1> QED
  BY <1>2, <1>3, <1>4, <1>5

\* A preferred monitor is one that is there.
LEMMA Preferred ==
    ASSUME OpenTypeOK
    PROVE  /\ \A o : monitor_for_output(o) # None => monitor_for_output(o) = o /\ o \in env.outs
           /\ \A o \in env.outs : monitor_for_output(o) = o /\ o # None
           /\ monitor_for_output(None) = None
           /\ \A name : monitor_for_workspace(name) # None =>
                 monitor_for_workspace(name) = env.home[name] /\ env.home[name] \in env.outs /\ name # None
           /\ monitor_for_workspace(None) = None
           /\ \A name \in Name : env.home[name] \in env.outs => monitor_for_workspace(name) = env.home[name]
           /\ ParentMonitor # None => env.parent # None /\ ParentMonitor = env.parent.at /\ ParentMonitor \in env.outs
           /\ env.outs # {} => env.active \in env.outs
           /\ env.outs = {} => env.active = None
BY OpeningAssumption DEF OpenTypeOK, Env, EnvOK, Places, Parents, monitor_for_output, monitor_for_workspace, ParentMonitor

\* A monitor that was picked is there, and it is the parent's if it was picked for that.
Good(pick) ==
    /\ pick \in [mon : Monitor, parent : BOOLEAN]
    /\ pick.mon # None => pick.mon \in env.outs
    /\ pick.parent => env.parent # None /\ env.parent.at = pick.mon

LEMMA PicksAreGood ==
    ASSUME OpenTypeOK
    PROVE  \A a, b, c \in env.outs \cup {None} :
               /\ Good(PickMonitor(<<a>>))
               /\ Good(PickMonitor(<<a, b>>))
               /\ Good(PickMonitor(<<a, b, c>>))
<1>1. Good(Fallback)
  BY Preferred DEF Good, Fallback, OpenTypeOK, Env, Monitor
<1>2. \A o \in env.outs : Good([mon |-> o, parent |-> FALSE])
  BY DEF Good, OpenTypeOK, Env, Monitor
<1>3. \A a \in env.outs \cup {None} : a # None => a \in env.outs
  OBVIOUS
<1> SUFFICES ASSUME NEW a \in env.outs \cup {None}, NEW b \in env.outs \cup {None}, NEW c \in env.outs \cup {None}
             PROVE  Good(PickMonitor(<<a>>)) /\ Good(PickMonitor(<<a, b>>)) /\ Good(PickMonitor(<<a, b, c>>))
  OBVIOUS
<1>4. Good(PickMonitor(<<a>>))
  BY <1>1, <1>2, <1>3, PickOne
<1>5. Good(PickMonitor(<<a, b>>))
  BY <1>1, <1>2, <1>3, PickTwo
<1>6. Good(PickMonitor(<<a, b, c>>))
  BY <1>1, <1>2, <1>3, PickThree
<1> QED
  BY <1>4, <1>5, <1>6

LEMMA PicksFromOutput ==
    ASSUME OpenTypeOK
    PROVE  /\ \A o : Good(PickMonitor(<<monitor_for_output(o)>>))
           /\ Good(PickAgain)
<1>1. \A o : monitor_for_output(o) \in env.outs \cup {None}
  BY Preferred
<1>2. monitor_for_workspace(win.workspace_name) \in env.outs \cup {None}
  BY Preferred
<1>3. \A o : Good(PickMonitor(<<monitor_for_output(o)>>))
  <2> TAKE o
  <2>1. PICK a : a = monitor_for_output(o)
    OBVIOUS
  <2>2. a \in env.outs \cup {None}
    BY <1>1, <2>1
  <2>3. Good(PickMonitor(<<a>>))
    BY <2>2, PicksAreGood, Zenon
  <2> QED
    BY <2>1, <2>3
<1>4. Good(PickAgain)
  <2> DEFINE a == monitor_for_workspace(win.workspace_name)
             b == monitor_for_output(win.output)
  <2>1. a \in env.outs \cup {None} /\ b \in env.outs \cup {None}
    BY <1>1, <1>2
  <2>2. Good(PickMonitor(<<a, b>>))
    BY <2>1, PicksAreGood, Zenon
  <2> QED
    BY <2>2 DEF PickAgain
<1> QED
  BY <1>3, <1>4

LEMMA PicksFromRules ==
    ASSUME OpenTypeOK, NEW name, NEW o, NEW p
    PROVE  Good(PickMonitor(<<monitor_for_workspace(name), monitor_for_output(o), monitor_for_output(p)>>))
<1>1. PICK a, b, c : a = monitor_for_workspace(name) /\ b = monitor_for_output(o) /\ c = monitor_for_output(p)
  OBVIOUS
<1>2. a \in env.outs \cup {None} /\ b \in env.outs \cup {None} /\ c \in env.outs \cup {None}
  BY <1>1, Preferred
<1>3. Good(PickMonitor(<<a, b, c>>))
  BY <1>2, PicksAreGood
<1> QED
  BY <1>1, <1>3

\* The workspace that a window is configured for is on the monitor that was picked.
LEMMA TargetIsThere ==
    ASSUME OpenTypeOK, NEW name \in Name \cup {None}, NEW mon
    PROVE  \A t \in TargetWorkspace(name, mon) :
               t.name \in Name \cup {None} /\ (t.name # None => env.home[t.name] = mon)
<1>1. ShownName(mon) \in Name \cup {None} /\ (ShownName(mon) # None => env.home[ShownName(mon)] = mon)
  BY DEF ShownName, OpenTypeOK, Env
<1> QED
  BY <1>1 DEF TargetWorkspace

\* The output that a pick is remembered by.
Remembered(pick) == IF pick.parent THEN None ELSE pick.mon

LEMMA GoodPickLeads ==
    ASSUME NEW pick, Good(pick), pick.mon # None
    PROVE  Leads(Remembered(pick), None, pick.mon)
BY DEF Good, Remembered, Leads

\* As long as nothing moves the next pick is the one of before.
LEMMA PickedAgain ==
    ASSUME OpenTypeOK, NEW mon, Leads(win.output, win.workspace_name, mon)
    PROVE  /\ PickMonitor(<<monitor_for_output(win.output)>>).mon = mon
           /\ PickAgain.mon = mon
<1>1. win.output \in Monitor /\ win.workspace_name \in Name \cup {None}
  BY DEF OpenTypeOK, Win
<1>2. mon \in env.outs /\ mon # None
  BY Preferred DEF Leads
<1>3. win.output # None => monitor_for_output(win.output) = mon
  BY Preferred DEF Leads
<1>4. win.output = None => monitor_for_output(win.output) = None /\ Fallback.mon = mon
  <2>1. win.output = None => ParentMonitor = mon
    BY Preferred DEF Leads, ParentMonitor
  <2> QED
    BY <1>2, <2>1, Preferred DEF Fallback
<1>5. monitor_for_workspace(win.workspace_name) \in {None, mon}
  BY <1>1, <1>2, Preferred DEF Leads
<1>6. ASSUME NEW a, a \in {None, mon}, a = None => Fallback.mon = mon
      PROVE  PickMonitor(<<a>>).mon = mon
  <2>1. CASE a = None
    <3>1. PickMonitor(<<a>>) = Fallback
      BY <2>1, PickOne
    <3> QED
      BY <1>6, <2>1, <3>1
  <2>2. CASE a # None
    <3>1. PickMonitor(<<a>>) = [mon |-> a, parent |-> FALSE]
      BY <2>2, PickOne
    <3> QED
      BY <1>6, <2>2, <3>1
  <2> QED
    BY <2>1, <2>2
<1>7. ASSUME NEW a, NEW b, a \in {None, mon}, b \in {None, mon}, b = None => Fallback.mon = mon
      PROVE  PickMonitor(<<a, b>>).mon = mon
  <2>1. CASE a # None
    <3>1. PickMonitor(<<a, b>>) = [mon |-> a, parent |-> FALSE]
      BY <2>1, PickTwo
    <3> QED
      BY <1>7, <2>1, <3>1
  <2>2. CASE a = None /\ b # None
    <3>1. PickMonitor(<<a, b>>) = [mon |-> b, parent |-> FALSE]
      BY <2>2, PickTwo
    <3> QED
      BY <1>7, <2>2, <3>1
  <2>3. CASE a = None /\ b = None
    <3>1. PickMonitor(<<a, b>>) = Fallback
      BY <2>3, PickTwo
    <3> QED
      BY <1>7, <2>3, <3>1
  <2> QED
    BY <2>1, <2>2, <2>3
<1>8. monitor_for_output(win.output) \in {None, mon}
      /\ (monitor_for_output(win.output) = None => Fallback.mon = mon)
  BY <1>2, <1>3, <1>4
<1> QED
  BY <1>5, <1>6, <1>7, <1>8 DEF PickAgain

-----------------------------------------------------------------------------
(***************************************************************************)
(* The steps of the window.                                                *)
(***************************************************************************)
LEMMA ModeOfIs == \A fs, max \in BOOLEAN : ModeOf(fs, max) \in Mode /\ (ModeOf(fs, max) = "Fullscreen" <=> fs)
BY DEF ModeOf, Mode

\* A step that leaves the window unmapped, as it says nothing of how it opened.
LEMMA StillUnmapped ==
    ASSUME OpenInv, UNCHANGED <<env, opened>>, win' \in Win, win'.state # "Mapped",
           hist' \in [fs : BOOLEAN, max : BOOLEAN, lost : BOOLEAN, on : Monitor],
           ModeAsAsked', PlaceAsConfigured'
    PROVE  OpenInv'
BY DEF OpenInv, OpenTypeOK, OpensSomewhere, OpensWhereConfigured, OpensInMode

\* Before the initial configure, and when there is nothing to do, the window only takes notes.
LEMMA NoteStep ==
    ASSUME OpenInv, UNCHANGED <<env, opened, hist>>, win' \in Win,
           \/ win'.state \in {"NotConfigured", "Mapped", "Destroyed"} /\ win'.mode = win.mode /\ win'.state = win.state
           \/ win'.state = "NotConfigured" /\ win'.mode = "Normal"
           \/ /\ win'.state = "Configured" /\ win.state = "Configured"
              /\ win'.mode = win.mode /\ win'.output = win.output
              /\ win'.workspace_name = win.workspace_name
              /\ win'.is_pending_maximized = win.is_pending_maximized
    PROVE  OpenInv'
<1>1. ModeAsAsked'
  BY DEF OpenInv, ModeAsAsked
<1>2. PlaceAsConfigured'
  BY DEF OpenInv, PlaceAsConfigured, Leads
<1>3. (OpensSomewhere /\ OpensInMode /\ (~Redirects => OpensWhereConfigured))'
  BY DEF OpenInv, OpensSomewhere, OpensWhereConfigured, OpensInMode
<1> QED
  BY <1>1, <1>2, <1>3 DEF OpenInv, OpenTypeOK

\* A request of a window that was configured: it is configured again for what was picked.
LEMMA ReconfigureStep ==
    ASSUME OpenInv, win.state = "Configured", UNCHANGED <<env, opened>>,
           NEW pick, Good(pick), NEW ws, NEW mode \in Mode, NEW fs \in BOOLEAN, NEW max \in BOOLEAN,
           NEW pending \in BOOLEAN,
           win' = Reconfigured(pick, ws, mode, pending), Asked(pick, ws, fs, max),
           ~hist.lost => mode = ModeOf(fs, max) /\ pending = max,
           ~Redirects /\ hist.on # None /\ pick.mon # None =>
               (win.workspace_name # None => env.home[win.workspace_name] = pick.mon)
    PROVE  OpenInv'
<1>0. OpenTypeOK
  BY DEF OpenInv
<1>1. /\ win \in Win /\ win.mode \in Mode /\ win.workspace_name \in Name \cup {None}
      /\ win.is_pending_maximized \in BOOLEAN
  BY DEF OpenInv, OpenTypeOK, Win
<1>2. /\ win' \in Win /\ win'.state = "Configured" /\ win'.output = Remembered(pick)
      /\ win'.workspace_name = win.workspace_name
      /\ win'.mode = IF ws = {} THEN win.mode ELSE mode
      /\ win'.is_pending_maximized = IF ws = {} THEN win.is_pending_maximized ELSE pending
  <2>1. CASE ws = {}
    <3>1. PICK new : new = Configured(win, win.mode, pick, win.workspace_name, win.is_pending_maximized) /\ win' = new
      BY <2>1 DEF Reconfigured
    <3>2. /\ new \in Win /\ new.state = "Configured" /\ new.mode = win.mode
          /\ new.output = Remembered(pick) /\ new.workspace_name = win.workspace_name
          /\ new.is_pending_maximized = win.is_pending_maximized
      BY <1>1, <3>1 DEF Configured, Good, Remembered, Win, Monitor
    <3> QED
      BY <2>1, <3>1, <3>2
  <2>2. CASE ws # {}
    <3>1. PICK new : new = Configured(win, mode, pick, win.workspace_name, pending) /\ win' = new
      BY <2>2 DEF Reconfigured
    <3>2. /\ new \in Win /\ new.state = "Configured" /\ new.mode = mode
          /\ new.output = Remembered(pick) /\ new.workspace_name = win.workspace_name
          /\ new.is_pending_maximized = pending
      BY <1>1, <3>1, ZenonT(60) DEF Configured, Good, Remembered, Win, Monitor
    <3> QED
      BY <2>2, <3>1, <3>2
  <2> QED
    BY <2>1, <2>2
<1>3. /\ hist' \in [fs : BOOLEAN, max : BOOLEAN, lost : BOOLEAN, on : Monitor]
      /\ hist'.fs = fs /\ hist'.max = max /\ (hist'.lost <=> hist.lost \/ ws = {})
      /\ hist'.on = IF hist.on = None THEN None ELSE pick.mon
  BY DEF Asked, OpenInv, OpenTypeOK, Good, Monitor
<1>4. ModeAsAsked'
  BY <1>2, <1>3 DEF ModeAsAsked
<1>5. PlaceAsConfigured'
  <2> SUFFICES ASSUME ~Redirects, hist'.on # None PROVE Leads(Remembered(pick), win.workspace_name, pick.mon)
    BY <1>2, <1>3 DEF PlaceAsConfigured, Leads
  <2> QED
    BY <1>3, GoodPickLeads DEF Leads
<1> QED
  BY <1>2, <1>3, <1>4, <1>5, StillUnmapped

LEMMA MaximizeStep ==
    ASSUME OpenInv, maximize_request
    PROVE  OpenInv'
<1>1. CASE win.state = "NotConfigured"
  <2>1. win' = [win EXCEPT !.wants_maximized = TRUE] /\ UNCHANGED <<env, opened, hist>>
    BY <1>1 DEF maximize_request
  <2> QED
    BY <1>1, <2>1, NoteStep DEF OpenInv, OpenTypeOK, Win
<1>2. CASE win.state = "Configured"
  <2>1. PICK pick, ws :
          /\ pick = PickMonitor(<<monitor_for_output(win.output)>>)
          /\ win' = Reconfigured(pick, ws, ModeOf(win.mode = "Fullscreen", TRUE), TRUE)
          /\ Asked(pick, ws, hist.fs, TRUE) /\ UNCHANGED <<env, opened>>
    BY <1>2 DEF maximize_request
  <2>2. Good(pick)
    BY <2>1, PicksFromOutput DEF OpenInv
  <2>3. hist.fs \in BOOLEAN /\ ModeOf(win.mode = "Fullscreen", TRUE) \in Mode
    BY ModeOfIs DEF OpenInv, OpenTypeOK
  <2>4. ~hist.lost => ModeOf(win.mode = "Fullscreen", TRUE) = ModeOf(hist.fs, TRUE)
    BY <1>2, <2>3, ModeOfIs DEF OpenInv, OpenTypeOK, ModeAsAsked, ModeOf
  <2>5. ~Redirects /\ hist.on # None /\ pick.mon # None =>
           (win.workspace_name # None => env.home[win.workspace_name] = pick.mon)
    BY <1>2, <2>1, PickedAgain DEF OpenInv, PlaceAsConfigured, Leads
  <2> QED
    BY <1>2, <2>1, <2>2, <2>3, <2>4, <2>5, ReconfigureStep, ZenonT(60)
<1> QED
  BY <1>1, <1>2 DEF maximize_request

LEMMA UnmaximizeStep ==
    ASSUME OpenInv, unmaximize_request
    PROVE  OpenInv'
<1>1. CASE win.state = "NotConfigured"
  <2>1. win' = [win EXCEPT !.wants_maximized = FALSE] /\ UNCHANGED <<env, opened, hist>>
    BY <1>1 DEF unmaximize_request
  <2> QED
    BY <1>1, <2>1, NoteStep DEF OpenInv, OpenTypeOK, Win
<1>2. CASE win.state = "Configured"
  <2>1. PICK pick, ws :
          /\ pick = PickAgain
          /\ win' = Reconfigured(pick, ws, ModeOf(win.mode = "Fullscreen", FALSE), FALSE)
          /\ Asked(pick, ws, hist.fs, FALSE) /\ UNCHANGED <<env, opened>>
    BY <1>2 DEF unmaximize_request
  <2>2. Good(pick)
    BY <2>1, PicksFromOutput DEF OpenInv
  <2>3. hist.fs \in BOOLEAN /\ ModeOf(win.mode = "Fullscreen", FALSE) \in Mode
    BY ModeOfIs DEF OpenInv, OpenTypeOK
  <2>4. ~hist.lost => ModeOf(win.mode = "Fullscreen", FALSE) = ModeOf(hist.fs, FALSE)
    BY <1>2, <2>3, ModeOfIs DEF OpenInv, OpenTypeOK, ModeAsAsked, ModeOf
  <2>5. ~Redirects /\ hist.on # None /\ pick.mon # None =>
           (win.workspace_name # None => env.home[win.workspace_name] = pick.mon)
    BY <1>2, <2>1, PickedAgain DEF OpenInv, PlaceAsConfigured, Leads
  <2> QED
    BY <1>2, <2>1, <2>2, <2>3, <2>4, <2>5, ReconfigureStep, ZenonT(60)
<1> QED
  BY <1>1, <1>2 DEF unmaximize_request

LEMMA FullscreenStep ==
    ASSUME OpenInv, NEW requested \in Monitor, fullscreen_request(requested)
    PROVE  OpenInv'
<1>1. CASE win.state = "NotConfigured"
  <2>1. /\ win' = [win EXCEPT !.wants_fullscreen = TRUE, !.wants_output = requested]
        /\ UNCHANGED <<env, opened, hist>>
    BY <1>1 DEF fullscreen_request
  <2> QED
    BY <1>1, <2>1, NoteStep DEF OpenInv, OpenTypeOK, Win
<1>2. CASE win.state = "Configured"
  <2>1. requested = None \/ win.workspace_name = None \/ Redirects
    BY <1>2 DEF fullscreen_request
  <2>2. PICK o, pick, ws :
          /\ o = IF requested # None THEN requested ELSE win.output
          /\ pick = PickMonitor(<<monitor_for_output(o)>>)
          /\ win' = Reconfigured(pick, ws, "Fullscreen", win.is_pending_maximized)
          /\ Asked(pick, ws, TRUE, hist.max) /\ UNCHANGED <<env, opened>>
    BY <1>2 DEF fullscreen_request
  <2>3. Good(pick)
    BY <2>2, PicksFromOutput DEF OpenInv
  <2>4. hist.max \in BOOLEAN /\ win.is_pending_maximized \in BOOLEAN /\ "Fullscreen" \in Mode
    BY DEF OpenInv, OpenTypeOK, Win, Mode
  <2>5. ~hist.lost => "Fullscreen" = ModeOf(TRUE, hist.max) /\ win.is_pending_maximized = hist.max
    BY <1>2 DEF OpenInv, ModeAsAsked, ModeOf
  <2>6. ~Redirects /\ hist.on # None /\ pick.mon # None =>
           (win.workspace_name # None => env.home[win.workspace_name] = pick.mon)
    <3>1. CASE win.workspace_name = None
      BY <3>1
    <3>2. CASE requested = None
      <4>1. pick = PickMonitor(<<monitor_for_output(win.output)>>)
        BY <2>2, <3>2
      <4> QED
        BY <1>2, <4>1, PickedAgain DEF OpenInv, PlaceAsConfigured, Leads
    <3>3. CASE Redirects
      BY <3>3
    <3> QED
      BY <2>1, <3>1, <3>2, <3>3
  <2> QED
    BY <1>2, <2>2, <2>3, <2>4, <2>5, <2>6, ReconfigureStep
<1> QED
  BY <1>1, <1>2 DEF fullscreen_request

LEMMA UnfullscreenStep ==
    ASSUME OpenInv, unfullscreen_request
    PROVE  OpenInv'
<1>1. CASE win.state = "NotConfigured"
  <2>1. /\ win' = [win EXCEPT !.wants_fullscreen = FALSE, !.wants_output = None]
        /\ UNCHANGED <<env, opened, hist>>
    BY <1>1 DEF unfullscreen_request
  <2> QED
    BY <1>1, <2>1, NoteStep DEF OpenInv, OpenTypeOK, Win, Monitor
<1>2. CASE win.state = "Configured"
  <2>1. PICK pick, ws :
          /\ pick = PickAgain
          /\ win' = Reconfigured(pick, ws, ModeOf(FALSE, win.is_pending_maximized), win.is_pending_maximized)
          /\ Asked(pick, ws, FALSE, hist.max) /\ UNCHANGED <<env, opened>>
    BY <1>2 DEF unfullscreen_request
  <2>2. Good(pick)
    BY <2>1, PicksFromOutput DEF OpenInv
  <2>3. /\ hist.max \in BOOLEAN /\ win.is_pending_maximized \in BOOLEAN
        /\ ModeOf(FALSE, win.is_pending_maximized) \in Mode
    BY ModeOfIs DEF OpenInv, OpenTypeOK, Win
  <2>4. ~hist.lost => /\ ModeOf(FALSE, win.is_pending_maximized) = ModeOf(FALSE, hist.max)
                      /\ win.is_pending_maximized = hist.max
    BY <1>2 DEF OpenInv, ModeAsAsked
  <2>5. ~Redirects /\ hist.on # None /\ pick.mon # None =>
           (win.workspace_name # None => env.home[win.workspace_name] = pick.mon)
    BY <1>2, <2>1, PickedAgain DEF OpenInv, PlaceAsConfigured, Leads
  <2> QED
    BY <1>2, <2>1, <2>2, <2>3, <2>4, <2>5, ReconfigureStep
<1> QED
  BY <1>1, <1>2 DEF unfullscreen_request

\* The first configure decides where the window goes and in which mode.
LEMMA InitialStep ==
    ASSUME OpenInv, NEW rules \in Rule, QueuedInitialConfigure(rules)
    PROVE  OpenInv'
<1>1. CASE win.state # "NotConfigured"
  <2>1. win' = [win EXCEPT !.idles = @ - 1] /\ UNCHANGED <<env, opened, hist>> /\ win.idles > 0
    BY <1>1 DEF QueuedInitialConfigure
  <2> QED
    BY <1>1, <2>1, NoteStep DEF OpenInv, OpenTypeOK, Win
<1>2. CASE win.state = "NotConfigured"
  <2> DEFINE picked == PickMonitor(<<monitor_for_workspace(rules.workspace), monitor_for_output(rules.output),
                                     monitor_for_output(win.wants_output)>>)
  <2>0. PICK pick, w : pick = picked /\ w = [win EXCEPT !.idles = @ - 1]
    OBVIOUS
  <2>1. PICK ws, fs, max :
          /\ ws = TargetWorkspace(rules.workspace, pick.mon)
          /\ fs = Ruled(rules.fs, win.wants_fullscreen)
          /\ max = Ruled(rules.max, win.wants_maximized)
    OBVIOUS
  <2>2. PICK name, mode, maxed :
          /\ name = IF ws = {} THEN None ELSE (CHOOSE t \in ws : TRUE).name
          /\ mode = IF ws # {} /\ (fs \/ max) THEN ModeOf(fs, max) ELSE win.mode
          /\ maxed = (ws # {} /\ max)
    OBVIOUS
  <2>3. /\ win' = Configured(w, mode, pick, name, maxed)
        /\ hist' = [fs |-> fs, max |-> max, lost |-> ws = {}, on |-> pick.mon]
        /\ UNCHANGED <<env, opened>> /\ win.idles > 0
    BY <1>2, <2>0, <2>1, <2>2 DEF QueuedInitialConfigure, send_initial_configure
  <2>4. Good(pick)
    BY <2>0, PicksFromRules DEF OpenInv
  <2>5. win.mode = "Normal" /\ win \in Win /\ w \in Win
    BY <1>2, <2>0, <2>3 DEF OpenInv, OpenTypeOK, ModeAsAsked, Win
  <2>6. fs \in BOOLEAN /\ max \in BOOLEAN /\ maxed \in BOOLEAN
    BY <2>1, <2>2, <2>5 DEF Ruled, Win
  <2>7. mode \in Mode /\ (ws # {} => mode = ModeOf(fs, max) /\ maxed = max)
    BY <2>2, <2>5, <2>6 DEF ModeOf, Mode
  <2>11. rules.workspace \in Name \cup {None}
    BY DEF Rule, Rules
  <2>12. name \in Name \cup {None} /\ (name # None => env.home[name] = pick.mon)
    <3>1. \A t \in ws : t.name \in Name \cup {None} /\ (t.name # None => env.home[t.name] = pick.mon)
      BY <2>1, <2>11, TargetIsThere DEF OpenInv
    <3>2. ws # {} => (CHOOSE t \in ws : TRUE) \in ws
      OBVIOUS
    <3> QED
      BY <2>2, <3>1, <3>2
  <2>13. /\ win' \in Win /\ win'.state = "Configured" /\ win'.output = Remembered(pick)
         /\ win'.workspace_name = name /\ win'.mode = mode /\ win'.is_pending_maximized = maxed
    <3>1. PICK at : at = Remembered(pick)
      OBVIOUS
    <3>2. at \in Monitor
      BY <2>4, <3>1 DEF Good, Remembered, Monitor
    <3>3. win' = [w EXCEPT !.state = "Configured", !.mode = mode, !.wants_fullscreen = FALSE,
                           !.wants_output = None, !.wants_maximized = FALSE, !.output = at,
                           !.workspace_name = name, !.is_pending_maximized = maxed]
      BY <2>3, <3>1 DEF Configured, Remembered
    <3>4. None \in Monitor
      BY DEF Monitor
    <3>. QED  BY <3>1, <3>2, <3>3, <3>4, <2>5, <2>6, <2>7, <2>12 DEF Win
  <2>8. hist' \in [fs : BOOLEAN, max : BOOLEAN, lost : BOOLEAN, on : Monitor]
    BY <2>3, <2>4, <2>6 DEF Good
  <2>9. ModeAsAsked'
    BY <2>3, <2>7, <2>13 DEF ModeAsAsked
  <2>10. PlaceAsConfigured'
    <3> SUFFICES ASSUME pick.mon # None PROVE Leads(Remembered(pick), name, pick.mon)
      BY <2>3, <2>13 DEF PlaceAsConfigured, Leads
    <3> QED
      BY <2>4, <2>12, GoodPickLeads DEF Leads
  <2> QED
    BY <2>3, <2>8, <2>9, <2>10, <2>13, StillUnmapped
<1> QED
  BY <1>1, <1>2

-----------------------------------------------------------------------------
(***************************************************************************)
(* The map.                                                                *)
(***************************************************************************)
\* The layout is given a place, and the monitor it was configured for if nothing moved.
LEMMA MapsSomewhere ==
    ASSUME OpenTypeOK, NEW o \in Monitor, NEW name \in Name \cup {None}
    PROVE  /\ add_window(Target(o, name)) # None
           /\ \A mon : Leads(o, name, mon) => add_window(Target(o, name)) = mon
<1> DEFINE at == monitor_for_output(o)
           auto == IF env.outs = {} THEN Nowhere ELSE env.active
<1>1. auto # None /\ Nowhere \notin env.outs /\ None \notin env.outs
  BY OpeningAssumption, Preferred DEF OpenTypeOK, Env
<1>2. /\ env.parent # None => env.parent.moving \in BOOLEAN /\ env.parent.at # None
      /\ env.parent # None /\ env.outs # {} /\ ~env.parent.moving => env.parent.at \in env.outs
      /\ env.parent # None /\ env.parent.moving => env.parent.at # Nowhere
  BY OpeningAssumption DEF OpenTypeOK, Env, EnvOK, Parents, Places
<1>3. CASE env.parent # None /\ (at = None \/ env.parent.at \in {Nowhere, at})
  <2>1. Target(o, name) = [tag |-> "NextTo"]
    BY <1>3 DEF Target
  <2>2. CASE env.parent.moving
    <3>1. add_window(Target(o, name)) = IF env.parent.at \in env.outs THEN env.parent.at ELSE auto
      BY <2>1, <2>2 DEF add_window
    <3> QED
      BY <1>1, <1>2, <1>3, <2>2, <3>1, Preferred DEF Leads
  <2>3. CASE ~env.parent.moving
    <3>1. add_window(Target(o, name)) = env.parent.at
      BY <2>1, <2>3 DEF add_window
    <3> QED
      BY <1>1, <1>2, <1>3, <2>3, <3>1, Preferred DEF Leads
  <2> QED
    BY <2>2, <2>3
<1>4. CASE ~(env.parent # None /\ (at = None \/ env.parent.at \in {Nowhere, at}))
           /\ name # None /\ env.home[name] # None
  <2>1. Target(o, name) = [tag |-> "Workspace", name |-> name]
    BY <1>4 DEF Target
  <2>2. add_window(Target(o, name)) = env.home[name]
    BY <2>1 DEF add_window
  <2> QED
    BY <1>4, <2>2 DEF Leads
<1>5. CASE ~(env.parent # None /\ (at = None \/ env.parent.at \in {Nowhere, at}))
           /\ ~(name # None /\ env.home[name] # None) /\ at # None
  <2>1. Target(o, name) = [tag |-> "Output", output |-> at]
    BY <1>5 DEF Target
  <2>2. add_window(Target(o, name)) = monitor_for_output(at)
    BY <2>1 DEF add_window
  <2> QED
    BY <1>1, <1>5, <2>2, Preferred DEF Leads
<1>6. CASE ~(env.parent # None /\ (at = None \/ env.parent.at \in {Nowhere, at}))
           /\ ~(name # None /\ env.home[name] # None) /\ at = None
  <2>1. Target(o, name) = [tag |-> "Auto"]
    BY <1>6 DEF Target
  <2>2. add_window(Target(o, name)) = auto
    BY <2>1 DEF add_window
  <2> QED
    BY <1>1, <1>6, <2>2, Preferred DEF Leads
<1> QED
  BY <1>3, <1>4, <1>5, <1>6

LEMMA MapStep ==
    ASSUME OpenInv, Map
    PROVE  OpenInv'
<1>1. /\ win \in Win /\ win.output \in Monitor /\ win.workspace_name \in Name \cup {None} /\ win.mode \in Mode
      /\ win.idles \in Nat
  BY DEF OpenInv, OpenTypeOK, Win
<1>2. win' \in Win /\ win'.state = "Mapped"
  BY <1>1 DEF Map, UnmappedNew, Win, Mode, Monitor
<1>3. /\ opened'.on = add_window(Target(win.output, win.workspace_name)) /\ opened'.mode = win.mode
      /\ opened'.configured = (win.state = "Configured")
      /\ UNCHANGED <<env, hist>>
  BY DEF Map
<1>4. OpensSomewhere'
  BY <1>1, <1>3, MapsSomewhere DEF OpenInv, OpensSomewhere
<1>5. ~Redirects => OpensWhereConfigured'
  BY <1>1, <1>3, MapsSomewhere DEF OpenInv, OpensWhereConfigured, PlaceAsConfigured
<1>6. OpensInMode'
  BY <1>3 DEF OpenInv, OpensInMode, ModeAsAsked
<1> QED
  BY <1>1, <1>2, <1>3, <1>4, <1>5, <1>6
  DEF OpenInv, OpenTypeOK, ModeAsAsked, PlaceAsConfigured

\* A window that is unmapped or destroyed starts over.
LEMMA StartOver ==
    ASSUME OpenInv, UNCHANGED env, win' \in Win, win'.state \in {"NotConfigured", "Destroyed"},
           win'.mode = "Normal", opened' = NotOpened, hist' = NoHistory
    PROVE  OpenInv'
BY OpeningAssumption
DEF OpenInv, OpenTypeOK, ModeAsAsked, PlaceAsConfigured, OpensSomewhere, OpensWhereConfigured,
    OpensInMode, NotOpened, NoHistory, Mode, Monitor

-----------------------------------------------------------------------------
(***************************************************************************)
(* The environment.                                                        *)
(***************************************************************************)
LEMMA HotplugOK ==
    ASSUME env \in Env, EnvOK(env), NEW o \in Output, Hotplug(o)
    PROVE  env' \in Env /\ EnvOK(env')
<1> DEFINE outs == IF o \in env.outs THEN env.outs \ {o} ELSE env.outs \cup {o}
<1>1. outs \in SUBSET Output /\ Places(outs) \subseteq Output \cup {Nowhere}
  BY DEF Env, Places
<1>2. PICK active \in IF env.active \in outs THEN {env.active} ELSE Places(outs),
           home \in [Name -> Places(outs) \cup {None}],
           at \in Places(outs) :
        /\ \A n \in Name : home[n] \in Evacuated(env.home[n], outs)
        /\ env' = [outs |-> outs, active |-> IF outs = {} THEN None ELSE active, home |-> home,
                   shown |-> {n \in env.shown : home[n] = env.home[n]},
                   parent |-> IF env.parent = None \/ env.parent.moving \/ env.parent.at \in outs
                              THEN env.parent ELSE [env.parent EXCEPT !.at = at]]
  BY Zenon DEF Hotplug
<1> HIDE DEF outs
<1>4. /\ env'.outs = outs /\ env'.home = home /\ env'.shown \subseteq Name
      /\ env'.active = IF outs = {} THEN None ELSE active
  BY <1>2 DEF Env
<1>5. env'.parent \in Parents(outs)
  BY <1>2, <1>1 DEF Env, EnvOK, Parents, Places
<1>6. Parents(outs) \subseteq {None} \cup [at : Output \cup {Nowhere}, moving : BOOLEAN]
  BY <1>1 DEF Parents
<1>7. env' \in Env
  BY <1>1, <1>2, <1>4, <1>5, <1>6 DEF Env, Monitor, Places
<1> QED
  BY <1>1, <1>2, <1>4, <1>5, <1>7 DEF EnvOK, Places

LEMMA RearrangeOK ==
    ASSUME env \in Env, EnvOK(env), Rearrange
    PROVE  env' \in Env /\ EnvOK(env')
<1>1. CASE \E o \in env.outs : env' = [env EXCEPT !.active = o]
  BY <1>1 DEF Env, EnvOK, Monitor
<1>2. CASE \E n \in Name, p \in Places(env.outs) \cup {None} :
              env' = [env EXCEPT !.home[n] = p, !.shown = @ \ {n}]
  <2>1. PICK n \in Name, p \in Places(env.outs) \cup {None} :
              env' = [env EXCEPT !.home[n] = p, !.shown = @ \ {n}]
    BY <1>2
  <2>2. /\ env'.outs = env.outs /\ env'.active = env.active /\ env'.parent = env.parent
        /\ env'.shown = env.shown \ {n} /\ env'.home = [env.home EXCEPT ![n] = p]
        /\ DOMAIN env' = DOMAIN env
    BY <2>1 DEF Env
  <2>3. Places(env.outs) \subseteq Output \cup {Nowhere}
    BY DEF Env, Places
  <2>4. env'.home \in [Name -> Output \cup {None, Nowhere}]
    BY <2>2, <2>3 DEF Env
  <2>5. env' \in Env
    BY <2>1, <2>3 DEF Env
  <2>6. \A m \in Name : env'.home[m] \in Places(env.outs) \cup {None}
    BY <2>2 DEF Env, EnvOK
  <2> QED
    BY <2>2, <2>5, <2>6 DEF EnvOK
<1>3. CASE \E n \in Name :
              /\ env.home[n] \in env.outs
              /\ env' = [env EXCEPT !.shown = {m \in @ : env.home[m] # env.home[n]} \cup ({n} \ @)]
  BY <1>3 DEF Env, EnvOK
<1> QED
  BY <1>1, <1>2, <1>3 DEF Rearrange

LEMMA ParentChangesOK ==
    ASSUME env \in Env, EnvOK(env), ParentChanges
    PROVE  env' \in Env /\ EnvOK(env')
<1>1. PICK p \in Parents(env.outs) : env' = [env EXCEPT !.parent = p]
  BY DEF ParentChanges
<1>2. Parents(env.outs) \subseteq {None} \cup [at : Output \cup {Nowhere}, moving : BOOLEAN]
  BY DEF Parents, Places, Env
<1> QED
  BY <1>1, <1>2 DEF Env, EnvOK

LEMMA EnvironmentStep ==
    ASSUME OpenInv, Environment
    PROVE  OpenInv'
<1>1. env' \in Env /\ EnvOK(env')
  BY HotplugOK, RearrangeOK, ParentChangesOK DEF Environment, OpenInv, OpenTypeOK
<1>2. /\ UNCHANGED <<win, opened>> /\ hist'.on = None
      /\ hist'.fs = hist.fs /\ hist'.max = hist.max /\ hist'.lost = hist.lost
      /\ hist' \in [fs : BOOLEAN, max : BOOLEAN, lost : BOOLEAN, on : Monitor]
  BY DEF Environment, OpenInv, OpenTypeOK, Monitor
<1>3. OpenTypeOK'
  BY <1>1, <1>2 DEF OpenInv, OpenTypeOK
<1>4. ModeAsAsked' /\ PlaceAsConfigured'
  BY <1>2 DEF OpenInv, ModeAsAsked, PlaceAsConfigured
<1>5. (OpensSomewhere /\ OpensInMode /\ (~Redirects => OpensWhereConfigured))'
  BY <1>2 DEF OpenInv, OpensSomewhere, OpensWhereConfigured, OpensInMode
<1> QED
  BY <1>3, <1>4, <1>5 DEF OpenInv

-----------------------------------------------------------------------------
(***************************************************************************)
(* The theorem.                                                            *)
(***************************************************************************)
LEMMA OpenInitInv == OpenInit => OpenInv
<1> SUFFICES ASSUME OpenInit PROVE OpenInv
  OBVIOUS
<1>1. PICK outs \in SUBSET Output : \E home \in [Name -> Places(outs) \cup {None}] :
          \E shown \in SUBSET {n \in Name : home[n] \in outs}, parent \in Parents(outs),
             active \in IF outs = {} THEN {None} ELSE outs :
             env = [outs |-> outs, active |-> active, home |-> home, shown |-> shown, parent |-> parent]
  BY DEF OpenInit
<1>2. Places(outs) \subseteq Output \cup {Nowhere}
  BY DEF Places
<1>3. Parents(outs) \subseteq {None} \cup [at : Output \cup {Nowhere}, moving : BOOLEAN]
  BY <1>2 DEF Parents
<1>4. env \in Env /\ EnvOK(env)
  BY <1>1, <1>2, <1>3 DEF Env, EnvOK, Monitor
<1>5. win = UnmappedNew /\ opened = NotOpened /\ hist = NoHistory
  BY DEF OpenInit
<1>6. win \in Win /\ win.state = "NotConfigured" /\ win.mode = "Normal"
  BY <1>5 DEF UnmappedNew, Win, Mode, Monitor
<1> QED
  BY OpeningAssumption, <1>4, <1>5, <1>6
  DEF OpenInv, OpenTypeOK, ModeAsAsked, PlaceAsConfigured, OpensSomewhere, OpensWhereConfigured,
      OpensInMode, NotOpened, NoHistory, Mode, Monitor

LEMMA OpenStep ==
    ASSUME OpenInv, [OpenNext]_openVars
    PROVE  OpenInv'
<1>0. win \in Win /\ OpenTypeOK
  BY DEF OpenInv, OpenTypeOK
<1>1. CASE new_toplevel
  <2>1. win' = UnmappedNew /\ UNCHANGED <<env, opened, hist>>
    BY <1>1 DEF new_toplevel
  <2>2. win' \in Win /\ win'.state = "NotConfigured" /\ win'.mode = "Normal"
    BY <2>1 DEF UnmappedNew, Win, Mode, Monitor
  <2> QED
    BY <2>1, <2>2, NoteStep
<1>2. CASE InitialCommit
  <2>1. win' = [win EXCEPT !.idles = @ + 1] /\ win.state = "NotConfigured" /\ UNCHANGED <<env, opened, hist>>
    BY <1>2 DEF InitialCommit
  <2>2. win' \in Win /\ win'.state = win.state /\ win'.mode = win.mode
    BY <1>0, <2>1 DEF Win
  <2> QED
    BY <2>1, <2>2, NoteStep
<1>3. CASE \E rules \in Rule : QueuedInitialConfigure(rules)
  BY <1>3, InitialStep
<1>4. CASE maximize_request
  BY <1>4, MaximizeStep
<1>5. CASE unmaximize_request
  BY <1>5, UnmaximizeStep
<1>6. CASE \E o \in Output \cup {None} : fullscreen_request(o)
  BY <1>6, FullscreenStep DEF Monitor
<1>7. CASE unfullscreen_request
  BY <1>7, UnfullscreenStep
<1>8. CASE Map
  BY <1>8, MapStep
<1>9. CASE Unmap
  <2>1. PICK late \in BOOLEAN : win' = [UnmappedNew EXCEPT !.idles = win.idles, !.late = late]
    BY <1>9 DEF Unmap
  <2>2. win' \in Win /\ win'.state = "NotConfigured" /\ win'.mode = "Normal"
    BY <1>0, <2>1 DEF UnmappedNew, Win, Mode, Monitor
  <2> QED
    BY <1>9, <2>2, StartOver DEF Unmap
<1>10. CASE toplevel_destroyed
  <2>1. win' = [UnmappedNew EXCEPT !.state = "Destroyed", !.idles = win.idles]
    BY <1>10 DEF toplevel_destroyed
  <2>2. win' \in Win /\ win'.state = "Destroyed" /\ win'.mode = "Normal"
    BY <1>0, <2>1 DEF UnmappedNew, Win, Mode, Monitor
  <2> QED
    BY <1>10, <2>2, StartOver DEF toplevel_destroyed
<1>11. CASE Environment
  BY <1>11, EnvironmentStep
<1>12. CASE UNCHANGED openVars
  BY <1>12
  DEF openVars, OpenInv, OpenTypeOK, ModeAsAsked, PlaceAsConfigured, Leads, OpensSomewhere,
      OpensWhereConfigured, OpensInMode
<1> QED
  BY <1>1, <1>2, <1>3, <1>4, <1>5, <1>6, <1>7, <1>8, <1>9, <1>10, <1>11, <1>12 DEF OpenNext

\* Whatever becomes of outputs, workspaces and the parent between the first commit and the
\* map, add_window() is given a target that exists (compositor.rs), and the window opens in
\* the mode that the rules and its last requests ask for, in whatever order it made them
\* (xdg_shell.rs).
THEOREM OpensSafely == OpenSpec => [](OpensSomewhere /\ OpensInMode)
<1>1. OpenInv /\ [OpenNext]_openVars => OpenInv'
  BY OpenStep
<1>2. OpenInv => OpensSomewhere /\ OpensInMode
  BY DEF OpenInv
<1> QED
  BY OpenInitInv, <1>1, <1>2, PTL DEF OpenSpec

\* And if no window that was configured for a named workspace asks for another output, every
\* window opens on the monitor that it was configured for last, unless something moved.
THEOREM OpeningSafety == ASSUME ~Redirects PROVE OpenSpec => []OpensAsAsked
<1>1. OpenInv /\ [OpenNext]_openVars => OpenInv'
  BY OpenStep
<1>2. OpenInv => OpensAsAsked
  BY DEF OpenInv, OpensAsAsked
<1> QED
  BY OpenInitInv, <1>1, <1>2, PTL DEF OpenSpec

-----------------------------------------------------------------------------
(***************************************************************************)
(* Configures. The heart of it is the list of values not yet committed: it *)
(* is shorter than the list of configures under way, and still says of     *)
(* each of them which value it had.                                        *)
(***************************************************************************)
Size == {SlotSize, WorkingSize, ViewSize, OwnSize} \cup FloatSize

ClientState == [mode : SizingMode, size : Size, resizing : BOOLEAN]

Config == [state : ClientState, wfs : BOOLEAN, max : BOOLEAN]

Queue == Seq([serial : Nat, value : BOOLEAN])

Resizing == [tag : {"None", "Ongoing", "WaitingForLastConfigure", "WaitingForLastCommit"}, serial : Nat]

Once == [tag : {"None", "WaitingForConfigure", "WaitingForCommit", "UseWindowSize"}, serial : Nat]

Mapped == [last : ClientState, pending : ClientState, needs_configure : BOOLEAN,
           wfs : BOOLEAN, pending_wfs : BOOLEAN, uncommitted_wfs : Queue,
           max : BOOLEAN, pending_max : BOOLEAN, uncommitted_max : Queue,
           once : Once, resize : Resizing]

ConfTypeOK ==
    /\ mapped \in Mapped
    /\ sent \in Seq(Config)
    /\ committed \in [config : Config, geometry : Size]
    /\ floating \in BOOLEAN /\ resizing \in BOOLEAN /\ dirty \in BOOLEAN /\ owed \in BOOLEAN
    /\ asked \in Size /\ told \in Size

\* The value in force when the client has committed the configures up to s is x.
AsOf(u, v, s, x) ==
    \/ (\A i \in 1 .. Len(u) : u[i].serial > s) /\ x = v
    \/ \E i \in 1 .. Len(u) :
           /\ u[i].serial <= s /\ x = u[i].value
           /\ \A j \in 1 .. Len(u) : j > i => u[j].serial > s

\* The list u, with the committed value v, says which value each configure had.
Tracks(u, v, values) ==
    /\ \A i \in 1 .. Len(u) : u[i].serial \in 1 .. Len(values)
    /\ \A i, j \in 1 .. Len(u) : i < j => u[i].serial < u[j].serial
    /\ \A s \in 1 .. Len(values) : AsOf(u, v, s, values[s])

WfsOf(configs) == [s \in 1 .. Len(configs) |-> configs[s].wfs]
MaxOf(configs) == [s \in 1 .. Len(configs) |-> configs[s].max]

\* A request waits for the end of the turn, which will not be throttled.
OwedIsNeeded == owed => dirty /\ mapped.needs_configure

ConfInv ==
    /\ ConfTypeOK
    /\ OwedIsNeeded
    /\ ViewFollowsCommits
    /\ Tracks(mapped.uncommitted_wfs, mapped.wfs, WfsOf(sent))
    /\ Tracks(mapped.uncommitted_max, mapped.max, MaxOf(sent))

-----------------------------------------------------------------------------
(***************************************************************************)
(* The list of values.                                                     *)
(***************************************************************************)
\* A function on 1 .. n is a sequence.
LEMMA FunctionIsSeq ==
    ASSUME NEW S, NEW n \in Nat, NEW f \in [1 .. n -> S]
    PROVE  f \in Seq(S) /\ Len(f) = n
BY IsASeq, LenProperties

\* Sending one more configure notes its value unless it is the one noted last.
LEMMA NotedTracks ==
    ASSUME NEW u \in Queue, NEW v \in BOOLEAN, NEW values \in Seq(BOOLEAN), NEW p \in BOOLEAN,
           Tracks(u, v, values)
    PROVE  /\ Noted(u, v, p, Len(values) + 1) \in Queue
           /\ Tracks(Noted(u, v, p, Len(values) + 1), v, Append(values, p))
<1>1. PICK n : n = Len(values)
  OBVIOUS
<1>2. n \in Nat /\ Len(u) \in Nat
  BY <1>1 DEF Queue
<1>3. PICK more : more = Append(values, p)
  OBVIOUS
<1>4. /\ Len(more) = n + 1 /\ more[n + 1] = p
      /\ \A s \in 1 .. n : more[s] = values[s]
  BY <1>1, <1>3
<1>5. /\ \A i \in 1 .. Len(u) : u[i].serial \in 1 .. n
      /\ \A i, j \in 1 .. Len(u) : i < j => u[i].serial < u[j].serial
      /\ \A s \in 1 .. n : AsOf(u, v, s, values[s])
  BY <1>1 DEF Tracks
<1>6. CASE LastSent(u, v) = p
  <2>1. Noted(u, v, p, Len(values) + 1) = u
    BY <1>6 DEF Noted
  <2>2. AsOf(u, v, n + 1, p)
    <3>1. CASE u = <<>>
      BY <3>1, <1>6 DEF AsOf, LastSent
    <3>2. CASE u # <<>>
      <4>1. Len(u) \in 1 .. Len(u) /\ u[Len(u)].value = p
        BY <3>2, <1>2, <1>6 DEF LastSent, Queue
      <4>2. u[Len(u)].serial <= n + 1
        BY <4>1, <1>2, <1>5
      <4>. QED  BY <4>1, <4>2, <1>2 DEF AsOf
    <3>. QED  BY <3>1, <3>2
  <2>3. Tracks(u, v, more)
    <3>1. \A i \in 1 .. Len(u) : u[i].serial \in 1 .. n + 1
      BY <1>2, <1>5
    <3>2. ASSUME NEW s \in 1 .. n + 1 PROVE AsOf(u, v, s, more[s])
      <4>1. CASE s = n + 1
        BY <4>1, <2>2, <1>4
      <4>2. CASE s # n + 1
        BY <4>2, <1>2, <1>4, <1>5
      <4>. QED  BY <4>1, <4>2
    <3>. QED  BY <3>1, <3>2, <1>4, <1>5 DEF Tracks
  <2>. QED  BY <2>1, <2>3, <1>3
<1>7. CASE LastSent(u, v) # p
  <2>1. PICK e : e = [serial |-> n + 1, value |-> p]
    OBVIOUS
  <2>2. PICK w : w = Append(u, e)
    OBVIOUS
  <2>3. Noted(u, v, p, Len(values) + 1) = w
    BY <1>1, <1>7, <2>1, <2>2 DEF Noted
  <2>4. e \in [serial : Nat, value : BOOLEAN] /\ e.serial = n + 1 /\ e.value = p
    BY <2>1, <1>2
  <2>5. w \in Queue
    BY <2>2, <2>4 DEF Queue
  <2>6. /\ Len(w) = Len(u) + 1 /\ w[Len(u) + 1] = e
        /\ \A i \in 1 .. Len(u) : w[i] = u[i]
    BY <2>2, <2>4 DEF Queue
  <2>7. \A i \in 1 .. Len(w) : w[i].serial \in 1 .. n + 1
    BY <2>4, <2>6, <1>2, <1>5
  <2>8. ASSUME NEW i \in 1 .. Len(w), NEW j \in 1 .. Len(w), i < j
        PROVE  w[i].serial < w[j].serial
    <3>1. i \in 1 .. Len(u) /\ w[i].serial \in 1 .. n
      BY <2>6, <2>8, <1>2, <1>5
    <3>2. CASE j = Len(u) + 1
      <4>1. w[j].serial = n + 1
        BY <3>2, <2>4, <2>6
      <4>. QED  BY <3>1, <4>1, <1>2
    <3>3. CASE j # Len(u) + 1
      BY <3>1, <3>3, <2>6, <2>8, <1>2, <1>5
    <3>. QED  BY <3>2, <3>3
  <2>9. ASSUME NEW s \in 1 .. n + 1 PROVE AsOf(w, v, s, more[s])
    <3>1. CASE s = n + 1
      <4>1. /\ Len(u) + 1 \in 1 .. Len(w) /\ w[Len(u) + 1].serial <= s
            /\ more[s] = w[Len(u) + 1].value
            /\ \A j \in 1 .. Len(w) : ~(j > Len(u) + 1)
        BY <3>1, <2>4, <2>6, <1>2, <1>4
      <4>. QED  BY <4>1 DEF AsOf
    <3>2. CASE s # n + 1
      <4>1. s \in 1 .. n /\ more[s] = values[s] /\ w[Len(u) + 1].serial > s
        BY <3>2, <2>4, <2>6, <1>2, <1>4
      <4>2. AsOf(u, v, s, values[s])
        BY <4>1, <1>5
      <4>. QED  BY <4>1, <4>2, <2>6, <1>2 DEF AsOf
    <3>. QED  BY <3>1, <3>2
  <2>10. Tracks(w, v, more)
    BY <2>7, <2>8, <2>9, <1>4 DEF Tracks
  <2>. QED  BY <2>3, <2>5, <2>10, <1>3
<1>. QED  BY <1>6, <1>7

\* Committing the nth configure puts its value in force, and the list says the same of the
\* configures that are left.
LEMMA CommittedTracks ==
    ASSUME NEW u \in Queue, NEW v \in BOOLEAN, NEW values \in Seq(BOOLEAN), NEW n \in 1 .. Len(values),
           Tracks(u, v, values)
    PROVE  /\ Committed(u, v, n).value = values[n]
           /\ Committed(u, v, n).left \in Queue
           /\ Tracks(Committed(u, v, n).left, values[n], SubSeq(values, n + 1, Len(values)))
<1>1. PICK l : l = Len(values)
  OBVIOUS
<1>2. l \in Nat /\ Len(u) \in Nat /\ n \in 1 .. l
  BY <1>1 DEF Queue
<1>3. /\ \A i \in 1 .. Len(u) : u[i].serial \in 1 .. l
      /\ \A i, j \in 1 .. Len(u) : i < j => u[i].serial < u[j].serial
      /\ \A s \in 1 .. l : AsOf(u, v, s, values[s])
  BY <1>1 DEF Tracks
<1>4. \A i \in 1 .. Len(u) : u[i] \in [serial : Nat, value : BOOLEAN]
  BY ElementOfSeq DEF Queue
<1>5. DOMAIN u = 1 .. Len(u)
  BY DEF Queue
<1>6. \E k \in 0 .. Len(u) : \A i \in DOMAIN u : n >= u[i].serial <=> i <= k
  <2>1. CASE \A i \in 1 .. Len(u) : u[i].serial > n
    <3>1. \A i \in 1 .. Len(u) : n >= u[i].serial <=> i <= 0
      BY <2>1, <1>2, <1>3
    <3>. QED  BY <3>1, <1>2, <1>5
  <2>2. CASE ~\A i \in 1 .. Len(u) : u[i].serial > n
    <3>. AsOf(u, v, n, values[n])
      BY <1>2, <1>3
    <3>1. PICK k \in 1 .. Len(u) : /\ u[k].serial <= n
                                   /\ \A j \in 1 .. Len(u) : j > k => u[j].serial > n
      BY <2>2 DEF AsOf
    <3>2. ASSUME NEW i \in 1 .. Len(u) PROVE n >= u[i].serial <=> i <= k
      <4>1. u[i].serial \in Nat /\ u[k].serial \in Nat /\ n \in Nat /\ i \in Nat /\ k \in Nat
        BY <1>2, <1>3
      <4>2. i < k => u[i].serial < u[k].serial
        BY <1>3
      <4>3. i > k => u[i].serial > n
        BY <3>1
      <4>. QED  BY <3>1, <4>1, <4>2, <4>3
    <3>. QED  BY <3>1, <3>2, <1>2, <1>5
  <2>. QED  BY <2>1, <2>2
<1>7. PICK done : done = CHOOSE k \in 0 .. Len(u) : \A i \in DOMAIN u : n >= u[i].serial <=> i <= k
  OBVIOUS
<1>8. /\ done \in 0 .. Len(u)
      /\ \A i \in 1 .. Len(u) : n >= u[i].serial <=> i <= done
  BY <1>5, <1>6, <1>7
<1>9. PICK left : left = [i \in 1 .. Len(u) - done |-> Renumbered(u[done + i], n)]
  OBVIOUS
<1>10. Committed(u, v, n) = [value |-> IF done = 0 THEN v ELSE u[done].value, left |-> left]
  BY <1>7, <1>9 DEF Committed
<1>11. Committed(u, v, n).value = values[n]
  <2>1. AsOf(u, v, n, values[n])
    BY <1>2, <1>3
  <2>2. CASE done = 0
    <3>1. \A i \in 1 .. Len(u) : u[i].serial > n
      BY <2>2, <1>2, <1>3, <1>8
    <3>2. values[n] = v
      BY <2>1, <3>1, <1>2, <1>3 DEF AsOf
    <3>. QED  BY <3>2, <2>2, <1>10
  <2>3. CASE done # 0
    <3>1. done \in 1 .. Len(u) /\ u[done].serial <= n
      BY <2>3, <1>2, <1>3, <1>8
    <3>2. PICK k \in 1 .. Len(u) : /\ u[k].serial <= n /\ values[n] = u[k].value
                                   /\ \A j \in 1 .. Len(u) : j > k => u[j].serial > n
      BY <2>1, <3>1, <1>2, <1>3 DEF AsOf
    <3>3. k = done
      BY <3>1, <3>2, <1>2, <1>3, <1>8
    <3>. QED  BY <3>2, <3>3, <2>3, <1>10
  <2>. QED  BY <2>2, <2>3
<1>12. \A i \in 1 .. Len(u) - done : /\ done + i \in 1 .. Len(u)
                                    /\ left[i].serial = u[done + i].serial - n
                                    /\ left[i].serial \in 1 .. l - n
                                    /\ left[i].value = u[done + i].value
                                    /\ left[i] \in [serial : Nat, value : BOOLEAN]
  <2>. SUFFICES ASSUME NEW i \in 1 .. Len(u) - done
                PROVE  /\ done + i \in 1 .. Len(u)
                       /\ left[i].serial = u[done + i].serial - n
                       /\ left[i].serial \in 1 .. l - n
                       /\ left[i].value = u[done + i].value
                       /\ left[i] \in [serial : Nat, value : BOOLEAN]
    OBVIOUS
  <2>1. done + i \in 1 .. Len(u) /\ ~(done + i <= done)
    BY <1>2, <1>8
  <2>2. u[done + i].serial > n /\ u[done + i].serial \in 1 .. l
    BY <2>1, <1>2, <1>3, <1>8
  <2>3. left[i] = Renumbered(u[done + i], n)
    BY <1>9
  <2>4. left[i] = [serial |-> u[done + i].serial - n, value |-> u[done + i].value]
    BY <2>1, <2>2, <2>3, <1>2, <1>4 DEF Renumbered
  <2>. QED  BY <2>1, <2>2, <2>4, <1>2, <1>4
<1>13. left \in Queue /\ Len(left) = Len(u) - done
  <2>1. Len(u) - done \in Nat
    BY <1>2, <1>8
  <2>2. left \in [1 .. Len(u) - done -> [serial : Nat, value : BOOLEAN]]
    BY <1>9, <1>12
  <2>. QED  BY <2>1, <2>2, FunctionIsSeq DEF Queue
<1>14. PICK rest : rest = SubSeq(values, n + 1, l)
  OBVIOUS
<1>15. Len(rest) = l - n /\ \A s \in 1 .. l - n : rest[s] = values[n + s]
  BY <1>1, <1>2, <1>14
<1>16. ASSUME NEW s \in 1 .. l - n PROVE AsOf(left, values[n], s, rest[s])
  <2>1. n + s \in 1 .. l /\ rest[s] = values[n + s]
    BY <1>2, <1>15
  <2>2. AsOf(u, v, n + s, values[n + s])
    BY <2>1, <1>3
  <2>3. CASE \A i \in 1 .. Len(left) : left[i].serial > s
    <3>1. values[n + s] = values[n]
      <4>1. \A i \in 1 .. Len(u) : u[i].serial <= n + s <=> i <= done
        <5>. SUFFICES ASSUME NEW i \in 1 .. Len(u) PROVE u[i].serial <= n + s <=> i <= done
          OBVIOUS
        <5>1. CASE i <= done
          BY <5>1, <1>2, <1>3, <1>8
        <5>2. CASE i > done
          <6>1. i - done \in 1 .. Len(u) - done /\ done + (i - done) = i
            BY <5>2, <1>2, <1>8
          <6>2. left[i - done].serial > s
            BY <6>1, <2>3, <1>13
          <6>3. left[i - done].serial = u[i].serial - n
            BY <6>1, <1>12
          <6>4. u[i].serial \in 1 .. l
            BY <1>3
          <6>. QED  BY <5>2, <6>2, <6>3, <6>4, <1>2, <1>8
        <5>. QED  BY <5>1, <5>2, <1>2, <1>8
      <4>2. CASE done = 0
        BY <4>1, <4>2, <2>2, <1>2, <1>3, <1>8, <1>10, <1>11 DEF AsOf
      <4>3. CASE done # 0
        <5>1. done \in 1 .. Len(u) /\ u[done].serial <= n + s
          BY <4>1, <4>3, <1>8, <1>2
        <5>2. PICK k \in 1 .. Len(u) : /\ u[k].serial <= n + s /\ values[n + s] = u[k].value
                                       /\ \A j \in 1 .. Len(u) : j > k => u[j].serial > n + s
          BY <2>1, <2>2, <5>1, <1>2, <1>3 DEF AsOf
        <5>3. k = done
          BY <5>1, <5>2, <4>1, <1>2, <1>3, <1>8
        <5>. QED  BY <5>2, <5>3, <4>3, <1>10, <1>11
      <4>. QED  BY <4>2, <4>3
    <3>. QED  BY <3>1, <2>1, <2>3 DEF AsOf
  <2>4. CASE ~\A i \in 1 .. Len(left) : left[i].serial > s
    <3>1. PICK i \in 1 .. Len(u) - done : left[i].serial <= s
      BY <2>4, <1>2, <1>12, <1>13
    <3>2. done + i \in 1 .. Len(u) /\ u[done + i].serial <= n + s
      BY <3>1, <1>2, <1>3, <1>12
    <3>3. PICK k \in 1 .. Len(u) : /\ u[k].serial <= n + s /\ values[n + s] = u[k].value
                                   /\ \A j \in 1 .. Len(u) : j > k => u[j].serial > n + s
      BY <2>1, <2>2, <3>2, <1>2, <1>3 DEF AsOf
    <3>4. k >= done + i
      BY <3>2, <3>3, <1>2, <1>3
    <3>5. PICK m : m = k - done
      OBVIOUS
    <3>6. m \in 1 .. Len(u) - done /\ done + m = k
      BY <3>1, <3>4, <3>5, <1>2, <1>8
    <3>7. left[m].serial <= s /\ left[m].value = rest[s]
      BY <3>3, <3>6, <2>1, <1>2, <1>3, <1>12, SMTT(30)
    <3>8. ASSUME NEW j \in 1 .. Len(left), j > m PROVE left[j].serial > s
      <4>1. done + j \in 1 .. Len(u) /\ done + j > k
        BY <3>6, <3>8, <1>2, <1>8, <1>13
      <4>2. u[done + j].serial > n + s
        BY <4>1, <3>3
      <4>. QED  BY <4>1, <4>2, <1>2, <1>3, <1>12, <1>13, SMTT(30)
    <3>. QED  BY <3>6, <3>7, <3>8, <1>13 DEF AsOf
  <2>. QED  BY <2>3, <2>4
<1>17. Tracks(left, values[n], rest)
  <2>1. \A i \in 1 .. Len(left) : left[i].serial \in 1 .. Len(rest)
    BY <1>12, <1>13, <1>15
  <2>2. ASSUME NEW i \in 1 .. Len(left), NEW j \in 1 .. Len(left), i < j
        PROVE  left[i].serial < left[j].serial
    <3>1. /\ done + i \in 1 .. Len(u) /\ done + j \in 1 .. Len(u) /\ done + i < done + j
          /\ left[i].serial = u[done + i].serial - n /\ left[j].serial = u[done + j].serial - n
      BY <2>2, <1>2, <1>8, <1>12, <1>13
    <3>. QED  BY <3>1, <1>2, <1>3
  <2>. QED  BY <2>1, <2>2, <1>15, <1>16 DEF Tracks
<1>. QED  BY <1>1, <1>10, <1>11, <1>13, <1>14, <1>17

-----------------------------------------------------------------------------
(***************************************************************************)
(* The operators on a window.                                              *)
(***************************************************************************)
\* What none of the layout's calls touches: the committed values and the lists.
SameView(m, now) ==
    /\ now.wfs = m.wfs /\ now.uncommitted_wfs = m.uncommitted_wfs
    /\ now.max = m.max /\ now.uncommitted_max = m.uncommitted_max

LEMMA SizeForIsSize == \A mode \in SizingMode : SizeFor(mode) \in Size
BY DEF SizingMode, SizeFor, Size

LEMMA MappedNewType ==
    ASSUME NEW first \in ClientState, NEW last \in ClientState
    PROVE  /\ MappedNew(first, last) \in Mapped
           /\ MappedNew(first, last).uncommitted_wfs = <<>> /\ MappedNew(first, last).uncommitted_max = <<>>
           /\ MappedNew(first, last).wfs = FALSE /\ MappedNew(first, last).max = (first.mode = "Maximized")
<1>1. <<>> \in Queue
  BY DEF Queue
<1>2. NoOnce \in Once /\ NotResizing \in Resizing
  BY DEF NoOnce, Once, NotResizing, Resizing
<1>. QED  BY <1>1, <1>2 DEF MappedNew, Mapped

LEMMA RequestSizeType ==
    ASSUME NEW m \in Mapped, NEW size \in Size, NEW mode \in SizingMode
    PROVE  /\ request_size(m, size, mode) \in Mapped /\ SameView(m, request_size(m, size, mode))
           /\ m.needs_configure => request_size(m, size, mode).needs_configure
<1>1. NoOnce \in Once
  BY DEF NoOnce, Once
<1>2. PICK p : p = [m.pending EXCEPT !.size = size,
                      !.mode = IF m.pending_wfs /\ mode # "Fullscreen" THEN "Fullscreen"
                               ELSE IF mode = "Normal" THEN "Normal" ELSE "Maximized"]
  OBVIOUS
<1>3. p \in ClientState
  BY <1>2 DEF Mapped, ClientState, SizingMode
<1>4. request_size(m, size, mode) =
        [m EXCEPT !.pending_wfs = m.pending_wfs /\ mode # "Fullscreen", !.pending_max = mode = "Maximized",
                  !.needs_configure = m.needs_configure \/ (mode = "Fullscreen" /\ m.wfs)
                                      \/ m.max # (mode = "Maximized"),
                  !.pending = p, !.once = NoOnce]
  BY <1>2, ZenonT(60) DEF request_size, Mapped, ClientState
<1>. QED  BY <1>1, <1>3, <1>4 DEF Mapped, SameView

LEMMA RequestSizeOnceType ==
    ASSUME ConfTypeOK, NEW m \in Mapped, NEW size \in Size
    PROVE  /\ request_size_once(m, size) \in Mapped /\ SameView(m, request_size_once(m, size))
           /\ m.needs_configure => request_size_once(m, size).needs_configure
<1>1. [tag |-> "WaitingForCommit", serial |-> Len(sent)] \in Once
      /\ [tag |-> "WaitingForConfigure", serial |-> 0] \in Once
  BY DEF Once, ConfTypeOK
<1>2. PICK p : p = [m.pending EXCEPT !.size = size, !.mode = IF m.pending_wfs THEN "Fullscreen" ELSE "Normal"]
  OBVIOUS
<1>3. p \in ClientState
  BY <1>2 DEF Mapped, ClientState, SizingMode
<1>4. CASE AlreadySent(m, size)
  BY <1>1, <1>4 DEF request_size_once, Mapped, SameView
<1>5. CASE ~AlreadySent(m, size)
  <2>1. request_size_once(m, size) =
          [m EXCEPT !.pending_max = FALSE, !.needs_configure = m.needs_configure \/ m.max,
                    !.pending = p, !.once = [tag |-> "WaitingForConfigure", serial |-> 0]]
    BY <1>2, <1>5 DEF request_size_once, Mapped, ClientState
  <2>. QED  BY <2>1, <1>1, <1>3 DEF Mapped, SameView
<1>. QED  BY <1>4, <1>5

LEMMA WindowedFullscreenType ==
    ASSUME NEW m \in Mapped, NEW value \in BOOLEAN
    PROVE  /\ request_windowed_fullscreen(m, value) \in Mapped
           /\ SameView(m, request_windowed_fullscreen(m, value))
           /\ m.needs_configure => request_windowed_fullscreen(m, value).needs_configure
<1>1. PICK p : p = [m.pending EXCEPT !.mode = IF value THEN "Fullscreen"
                                              ELSE IF m.pending_max THEN "Maximized" ELSE "Normal"]
  OBVIOUS
<1>2. p \in ClientState
  BY <1>1 DEF Mapped, ClientState, SizingMode
<1>3. CASE m.pending_wfs = value
  BY <1>3 DEF request_windowed_fullscreen, SameView
<1>4. CASE m.pending_wfs # value
  <2>1. request_windowed_fullscreen(m, value) =
          [m EXCEPT !.pending_wfs = value, !.needs_configure = TRUE, !.pending = p]
    BY <1>1, <1>4 DEF request_windowed_fullscreen, Mapped, ClientState
  <2>. QED  BY <2>1, <1>2 DEF Mapped, SameView
<1>. QED  BY <1>3, <1>4

LEMMA InteractiveResizeType ==
    ASSUME NEW m \in Mapped, NEW on \in BOOLEAN
    PROVE  /\ set_interactive_resize(m, on) \in Mapped /\ SameView(m, set_interactive_resize(m, on))
           /\ set_interactive_resize(m, on).needs_configure = m.needs_configure
<1>1. PICK p : p = [m.pending EXCEPT !.resizing = on]
  OBVIOUS
<1>2. p \in ClientState
  BY <1>1 DEF Mapped, ClientState
<1>3. PICK r : r = IF on THEN [tag |-> "Ongoing", serial |-> 0]
                   ELSE IF m.resize.tag = "Ongoing" THEN [tag |-> "WaitingForLastConfigure", serial |-> 0]
                   ELSE m.resize
  OBVIOUS
<1>4. r \in Resizing
  BY <1>3 DEF Mapped, Resizing
<1>5. set_interactive_resize(m, on) = [m EXCEPT !.pending = p, !.resize = r]
  BY <1>1, <1>3 DEF set_interactive_resize, Mapped, ClientState
<1>. QED  BY <1>2, <1>4, <1>5 DEF Mapped, SameView

\* A configure is sent, with the values that are pending noted, or the window and the client
\* agree and nothing is owed.
Sends(m, new) ==
    \E c \in Config :
        /\ new[2] = Append(sent, c) /\ c.wfs = m.pending_wfs /\ c.max = m.pending_max
        /\ new[1].wfs = m.wfs /\ new[1].max = m.max
        /\ new[1].uncommitted_wfs = Noted(m.uncommitted_wfs, m.wfs, m.pending_wfs, Len(sent) + 1)
        /\ new[1].uncommitted_max = Noted(m.uncommitted_max, m.max, m.pending_max, Len(sent) + 1)

SendsNothing(m, new) == new[2] = sent /\ SameView(m, new[1]) /\ ~m.needs_configure

LEMMA SendPendingType ==
    ASSUME ConfTypeOK, NEW m \in Mapped, NEW size \in Size,
           Noted(m.uncommitted_wfs, m.wfs, m.pending_wfs, Len(sent) + 1) \in Queue,
           Noted(m.uncommitted_max, m.max, m.pending_max, Len(sent) + 1) \in Queue
    PROVE  /\ send_pending_configure(m, size)[1] \in Mapped
           /\ \/ Sends(m, send_pending_configure(m, size))
              \/ SendsNothing(m, send_pending_configure(m, size))
<1>1. PICK kept : kept = IF m.once.tag = "UseWindowSize" /\ ~m.needs_configure
                         THEN [m EXCEPT !.pending.size = m.last.size] ELSE m
  OBVIOUS
<1>2. PICK p : p = [m.pending EXCEPT !.size = m.last.size]
  OBVIOUS
<1>3. p \in ClientState
  BY <1>2 DEF Mapped, ClientState
<1>4. kept = m \/ kept = [m EXCEPT !.pending = p]
  BY <1>1, <1>2 DEF Mapped, ClientState
<1>5. kept \in Mapped /\ SameView(m, kept)
  BY <1>3, <1>4 DEF Mapped, SameView
<1>6. PICK state : state = IF m.once.tag = "UseWindowSize" THEN [m.pending EXCEPT !.size = size] ELSE m.pending
  OBVIOUS
<1>7. state \in ClientState
  BY <1>6 DEF Mapped, ClientState
<1>8. PICK serial : serial = Len(sent) + 1
  OBVIOUS
<1>9. serial \in Nat
  BY <1>8 DEF ConfTypeOK
<1>10. CASE m.needs_configure \/ kept.pending # m.last
  <2>1. PICK r : r = IF m.resize.tag = "WaitingForLastConfigure"
                     THEN [tag |-> "WaitingForLastCommit", serial |-> serial] ELSE m.resize
    OBVIOUS
  <2>2. PICK o : o = IF m.once.tag = "WaitingForConfigure"
                     THEN [tag |-> "WaitingForCommit", serial |-> serial] ELSE m.once
    OBVIOUS
  <2>3. r \in Resizing /\ o \in Once
    BY <2>1, <2>2, <1>9 DEF Mapped, Resizing, Once
  <2>4. PICK uw, um : /\ uw = Noted(m.uncommitted_wfs, m.wfs, m.pending_wfs, serial)
                      /\ um = Noted(m.uncommitted_max, m.max, m.pending_max, serial)
    OBVIOUS
  <2>5. uw \in Queue /\ um \in Queue
    BY <2>4, <1>8
  <2>6. PICK c : c = [state |-> state, wfs |-> m.pending_wfs, max |-> m.pending_max]
    OBVIOUS
  <2>7. c \in Config /\ c.wfs = m.pending_wfs /\ c.max = m.pending_max
    BY <2>6, <1>7 DEF Config, Mapped
  <2>8. send_pending_configure(m, size) =
          <<[m EXCEPT !.last = state, !.pending = state, !.needs_configure = FALSE,
                      !.resize = r, !.once = o, !.uncommitted_wfs = uw, !.uncommitted_max = um],
            Append(sent, c)>>
    BY <1>1, <1>6, <1>8, <1>10, <2>1, <2>2, <2>4, <2>6 DEF send_pending_configure, Mapped
  <2>9. PICK new : new = [m EXCEPT !.last = state, !.pending = state, !.needs_configure = FALSE,
                          !.resize = r, !.once = o, !.uncommitted_wfs = uw, !.uncommitted_max = um]
    OBVIOUS
  <2>10. new \in Mapped
    BY <2>3, <2>5, <2>9, <1>7 DEF Mapped
  <2>11. /\ new.wfs = m.wfs /\ new.max = m.max
         /\ new.uncommitted_wfs = uw /\ new.uncommitted_max = um
    BY <2>9 DEF Mapped
  <2>12. send_pending_configure(m, size) = <<new, Append(sent, c)>>
    BY <2>8, <2>9
  <2>13. Sends(m, <<new, Append(sent, c)>>)
    BY <2>4, <2>7, <2>11, <1>8 DEF Sends
  <2>. QED  BY <2>10, <2>12, <2>13
<1>11. CASE ~(m.needs_configure \/ kept.pending # m.last)
  <2>1. PICK r : r = IF kept.resize.tag = "WaitingForLastConfigure" THEN NotResizing ELSE kept.resize
    OBVIOUS
  <2>2. r \in Resizing
    BY <2>1, <1>5 DEF Mapped, Resizing, NotResizing
  <2>3. send_pending_configure(m, size) = <<[kept EXCEPT !.resize = r], sent>>
    BY <1>1, <1>11, <1>5, <2>1 DEF send_pending_configure, Mapped
  <2>4. [kept EXCEPT !.resize = r] \in Mapped /\ SameView(m, [kept EXCEPT !.resize = r])
    BY <1>5, <2>2 DEF Mapped, SameView
  <2>. QED  BY <2>3, <2>4, <1>11 DEF SendsNothing
<1>. QED  BY <1>10, <1>11

LEMMA OnCommitType ==
    ASSUME NEW m \in Mapped, NEW n \in Nat, NEW wfs \in BOOLEAN, NEW max \in BOOLEAN,
           Committed(m.uncommitted_wfs, m.wfs, n).value = wfs,
           Committed(m.uncommitted_wfs, m.wfs, n).left \in Queue,
           Committed(m.uncommitted_max, m.max, n).value = max,
           Committed(m.uncommitted_max, m.max, n).left \in Queue
    PROVE  /\ on_commit(m, n) \in Mapped
           /\ on_commit(m, n).needs_configure = m.needs_configure
           /\ on_commit(m, n).wfs = wfs /\ on_commit(m, n).max = max
           /\ on_commit(m, n).uncommitted_wfs = Committed(m.uncommitted_wfs, m.wfs, n).left
           /\ on_commit(m, n).uncommitted_max = Committed(m.uncommitted_max, m.max, n).left
<1>1. PICK r : r = IF m.resize.tag = "WaitingForLastCommit" /\ n >= m.resize.serial THEN NotResizing
                   ELSE Renumbered(m.resize, n)
  OBVIOUS
<1>2. r \in Resizing
  BY <1>1 DEF Mapped, Resizing, NotResizing, Renumbered
<1>3. PICK o : o = IF m.once.tag = "WaitingForCommit" /\ n >= m.once.serial
                   THEN [tag |-> "UseWindowSize", serial |-> 0] ELSE Renumbered(m.once, n)
  OBVIOUS
<1>4. o \in Once
  BY <1>3 DEF Mapped, Once, Renumbered
<1>5. PICK uw, um : /\ uw = Committed(m.uncommitted_wfs, m.wfs, n).left
                    /\ um = Committed(m.uncommitted_max, m.max, n).left
  OBVIOUS
<1>6. on_commit(m, n) = [m EXCEPT !.resize = r, !.once = o, !.wfs = wfs, !.uncommitted_wfs = uw,
                                  !.max = max, !.uncommitted_max = um]
  BY <1>1, <1>3, <1>5 DEF on_commit, Mapped
<1>. QED  BY <1>2, <1>4, <1>5, <1>6 DEF Mapped

-----------------------------------------------------------------------------
(***************************************************************************)
(* The invariant.                                                          *)
(***************************************************************************)
LEMMA ValuesOfConfigs ==
    ASSUME NEW configs \in Seq(Config)
    PROVE  /\ WfsOf(configs) \in Seq(BOOLEAN) /\ Len(WfsOf(configs)) = Len(configs)
           /\ MaxOf(configs) \in Seq(BOOLEAN) /\ Len(MaxOf(configs)) = Len(configs)
           /\ \A c \in Config : /\ WfsOf(Append(configs, c)) = Append(WfsOf(configs), c.wfs)
                                /\ MaxOf(Append(configs, c)) = Append(MaxOf(configs), c.max)
           /\ \A n \in 1 .. Len(configs) :
                  LET rest == SubSeq(configs, n + 1, Len(configs))
                  IN  /\ WfsOf(rest) = SubSeq(WfsOf(configs), n + 1, Len(configs))
                      /\ MaxOf(rest) = SubSeq(MaxOf(configs), n + 1, Len(configs))
<1>0. \A s \in 1 .. Len(configs) : configs[s] \in Config
  BY ElementOfSeq
<1>1. \A s \in 1 .. Len(configs) : configs[s].wfs \in BOOLEAN /\ configs[s].max \in BOOLEAN
  BY <1>0 DEF Config
<1>2. Len(configs) \in Nat
  OBVIOUS
<1>3. /\ WfsOf(configs) \in Seq(BOOLEAN) /\ Len(WfsOf(configs)) = Len(configs)
      /\ MaxOf(configs) \in Seq(BOOLEAN) /\ Len(MaxOf(configs)) = Len(configs)
  <2>1. /\ WfsOf(configs) \in [1 .. Len(configs) -> BOOLEAN]
        /\ MaxOf(configs) \in [1 .. Len(configs) -> BOOLEAN]
    BY <1>1 DEF WfsOf, MaxOf
  <2>. QED  BY <2>1, <1>2, FunctionIsSeq
<1>4. ASSUME NEW c \in Config
      PROVE  /\ WfsOf(Append(configs, c)) = Append(WfsOf(configs), c.wfs)
             /\ MaxOf(Append(configs, c)) = Append(MaxOf(configs), c.max)
  BY <1>2, <1>3 DEF WfsOf, MaxOf
<1>5. ASSUME NEW n \in 1 .. Len(configs)
      PROVE  LET rest == SubSeq(configs, n + 1, Len(configs))
             IN  /\ WfsOf(rest) = SubSeq(WfsOf(configs), n + 1, Len(configs))
                 /\ MaxOf(rest) = SubSeq(MaxOf(configs), n + 1, Len(configs))
  BY <1>2, <1>3 DEF WfsOf, MaxOf
<1>. QED  BY <1>3, <1>4, <1>5

\* A call of the layout or the client that sends and commits nothing.
LEMMA CallKeeps ==
    ASSUME ConfInv, mapped' \in Mapped, SameView(mapped, mapped'), UNCHANGED <<sent, committed>>,
           floating' \in BOOLEAN, resizing' \in BOOLEAN, dirty' \in BOOLEAN, owed' \in BOOLEAN,
           asked' \in Size, told' \in Size,
           owed' => dirty' /\ mapped'.needs_configure
    PROVE  ConfInv'
<1>1. ConfTypeOK'
  BY DEF ConfInv, ConfTypeOK
<1>2. ViewFollowsCommits'
  BY DEF ConfInv, ViewFollowsCommits, SameView
<1>3. /\ Tracks(mapped'.uncommitted_wfs, mapped'.wfs, WfsOf(sent'))
      /\ Tracks(mapped'.uncommitted_max, mapped'.max, MaxOf(sent'))
  BY DEF ConfInv, SameView
<1>. QED  BY <1>1, <1>2, <1>3 DEF ConfInv, OwedIsNeeded

LEMMA ConfInitInv == ConfInit => ConfInv
<1>. SUFFICES ASSUME ConfInit PROVE ConfInv
  OBVIOUS
<1>1. PICK first \in SizingMode, last \in SizingMode :
        LET State(mode) == [mode |-> mode, size |-> SizeFor(mode), resizing |-> FALSE]
            Carrying(mode) == [state |-> State(mode), wfs |-> FALSE, max |-> first = "Maximized"]
        IN  /\ committed = [config |-> Carrying(first), geometry |-> SizeFor(first)]
            /\ sent = IF first = last THEN <<>> ELSE <<Carrying(last)>>
            /\ mapped = request_size(MappedNew(State(first), State(last)), SizeFor(last), last)
            /\ floating = FALSE /\ resizing = FALSE /\ dirty = TRUE /\ owed = FALSE
            /\ asked = SizeFor(last) /\ told = asked
  BY Zenon DEF ConfInit
<1>2. PICK f, g : /\ f = [mode |-> first, size |-> SizeFor(first), resizing |-> FALSE]
                  /\ g = [mode |-> last, size |-> SizeFor(last), resizing |-> FALSE]
  OBVIOUS
<1>3. f \in ClientState /\ g \in ClientState /\ f.mode = first
  BY <1>2, SizeForIsSize DEF ClientState
<1>4. PICK m : m = MappedNew(f, g)
  OBVIOUS
<1>5. /\ m \in Mapped /\ m.uncommitted_wfs = <<>> /\ m.uncommitted_max = <<>>
      /\ m.wfs = FALSE /\ m.max = (first = "Maximized")
  BY <1>3, <1>4, MappedNewType
<1>6. mapped = request_size(m, SizeFor(last), last)
  BY <1>1, <1>2, <1>4
<1>7. mapped \in Mapped /\ SameView(m, mapped)
  BY <1>5, <1>6, SizeForIsSize, RequestSizeType
<1>8. PICK cf, cg : /\ cf = [state |-> f, wfs |-> FALSE, max |-> first = "Maximized"]
                    /\ cg = [state |-> g, wfs |-> FALSE, max |-> first = "Maximized"]
  OBVIOUS
<1>9. /\ cf \in Config /\ cf.wfs = FALSE /\ cf.max = (first = "Maximized")
      /\ cg \in Config /\ cg.wfs = FALSE /\ cg.max = (first = "Maximized")
  BY <1>3, <1>8 DEF Config
<1>10. /\ committed = [config |-> cf, geometry |-> SizeFor(first)]
       /\ sent = <<>> \/ sent = <<cg>>
  BY <1>1, <1>2, <1>8
<1>11. ConfTypeOK
  <2>1. sent \in Seq(Config)
    <3>1. <<>> \in Seq(Config)
      OBVIOUS
    <3>2. <<cg>> \in Seq(Config)
      BY <1>9
    <3>. QED  BY <3>1, <3>2, <1>10
  <2>2. SizeFor(first) \in Size /\ SizeFor(last) \in Size
    BY SizeForIsSize
  <2>3. committed \in [config : Config, geometry : Size]
    BY <2>2, <1>9, <1>10
  <2>4. asked \in Size /\ told \in Size
    BY <2>2, <1>1
  <2>. QED  BY <2>1, <2>3, <2>4, <1>1, <1>7 DEF ConfTypeOK
<1>12. ViewFollowsCommits
  BY <1>5, <1>7, <1>9, <1>10 DEF ViewFollowsCommits, SameView
<1>13. /\ Tracks(<<>>, FALSE, WfsOf(sent)) /\ Tracks(<<>>, first = "Maximized", MaxOf(sent))
  BY <1>9, <1>10 DEF Tracks, AsOf, WfsOf, MaxOf
<1>. QED  BY <1>1, <1>5, <1>7, <1>11, <1>12, <1>13 DEF ConfInv, OwedIsNeeded, SameView

\* The end of a turn. Whatever is owed makes the window need a configure, which no throttle stops.
LEMMA RefreshKeeps == ConfInv /\ Refresh => ConfInv'
<1>. SUFFICES ASSUME ConfInv, Refresh PROVE ConfInv'
  OBVIOUS
<1>0. ConfTypeOK
  BY DEF ConfInv
<1>1. PICK on : on = IF floating THEN resizing ELSE FALSE
  OBVIOUS
<1>2. PICK m : m = set_interactive_resize(mapped, on)
  OBVIOUS
<1>3. /\ m \in Mapped /\ SameView(mapped, m) /\ m.needs_configure = mapped.needs_configure
  BY <1>0, <1>1, <1>2, InteractiveResizeType DEF ConfTypeOK
<1>4. PICK g : g = committed.geometry
  OBVIOUS
<1>5. g \in Size
  BY <1>0, <1>4 DEF ConfTypeOK
<1>6. /\ WfsOf(sent) \in Seq(BOOLEAN) /\ Len(WfsOf(sent)) = Len(sent)
      /\ MaxOf(sent) \in Seq(BOOLEAN) /\ Len(MaxOf(sent)) = Len(sent)
      /\ \A c \in Config : /\ WfsOf(Append(sent, c)) = Append(WfsOf(sent), c.wfs)
                           /\ MaxOf(Append(sent, c)) = Append(MaxOf(sent), c.max)
  BY <1>0, ValuesOfConfigs DEF ConfTypeOK
<1>7. /\ m.uncommitted_wfs \in Queue /\ m.uncommitted_max \in Queue
      /\ m.wfs \in BOOLEAN /\ m.max \in BOOLEAN /\ m.pending_wfs \in BOOLEAN /\ m.pending_max \in BOOLEAN
  BY <1>3 DEF Mapped
<1>8. /\ Tracks(m.uncommitted_wfs, m.wfs, WfsOf(sent))
      /\ Tracks(m.uncommitted_max, m.max, MaxOf(sent))
  BY <1>3 DEF ConfInv, SameView
<1>9. PICK uw, um : /\ uw = Noted(m.uncommitted_wfs, m.wfs, m.pending_wfs, Len(sent) + 1)
                    /\ um = Noted(m.uncommitted_max, m.max, m.pending_max, Len(sent) + 1)
  OBVIOUS
<1>10. /\ uw \in Queue /\ Tracks(uw, m.wfs, Append(WfsOf(sent), m.pending_wfs))
       /\ um \in Queue /\ Tracks(um, m.max, Append(MaxOf(sent), m.pending_max))
  BY <1>6, <1>7, <1>8, <1>9, NotedTracks
<1>11. PICK new : new = IF floating THEN floating_refresh(mapped) ELSE scrolling_refresh(mapped)
  OBVIOUS
<1>12. /\ mapped' = new[1] /\ sent' = new[2]
       /\ owed' = (owed /\ new[2] = sent)
       /\ told' = (IF new[2] = sent \/ mapped.once.tag = "UseWindowSize" THEN told ELSE new[1].last.size)
       /\ dirty' = FALSE /\ UNCHANGED <<committed, floating, resizing, asked>>
  BY <1>11 DEF Refresh
<1>13. PICK send : send = send_pending_configure(m, g)
  OBVIOUS
<1>14. send[1] \in Mapped /\ (Sends(m, send) \/ SendsNothing(m, send))
  BY <1>0, <1>3, <1>5, <1>9, <1>10, <1>13, SendPendingType
<1>15. new = send \/ (new = <<m, sent>> /\ ~m.needs_configure)
  BY <1>1, <1>2, <1>4, <1>11, <1>13 DEF floating_refresh, scrolling_refresh, configure_intent
<1>16. Sends(m, new) \/ SendsNothing(m, new)
  BY <1>14, <1>15 DEF SendsNothing, SameView
<1>17. new[1] \in Mapped
  BY <1>3, <1>14, <1>15
<1>18. new[1].last.size \in Size
  BY <1>17 DEF Mapped, ClientState
<1>19. CASE SendsNothing(m, new)
  <2>1. sent' = sent /\ SameView(mapped, mapped') /\ ~mapped.needs_configure
    BY <1>3, <1>12, <1>19 DEF SendsNothing, SameView
  <2>2. ~owed /\ owed' = FALSE
    BY <2>1, <1>12 DEF ConfInv, OwedIsNeeded
  <2>. QED  BY <2>1, <2>2, <1>0, <1>12, <1>17, <1>18, CallKeeps DEF ConfTypeOK
<1>20. CASE Sends(m, new)
  <2>1. PICK c \in Config : /\ sent' = Append(sent, c) /\ c.wfs = m.pending_wfs /\ c.max = m.pending_max
                            /\ mapped'.wfs = m.wfs /\ mapped'.max = m.max
                            /\ mapped'.uncommitted_wfs = uw /\ mapped'.uncommitted_max = um
    BY <1>9, <1>12, <1>20 DEF Sends
  <2>2. sent' \in Seq(Config) /\ sent' # sent
    <3>1. sent \in Seq(Config)
      BY <1>0 DEF ConfTypeOK
    <3>2. Len(Append(sent, c)) = Len(sent) + 1 /\ Len(sent) \in Nat
      BY <3>1
    <3>. QED  BY <3>1, <3>2, <2>1
  <2>3. owed' = FALSE
    BY <2>2, <1>12
  <2>4. ConfTypeOK'
    BY <2>2, <2>3, <1>0, <1>12, <1>17, <1>18 DEF ConfTypeOK
  <2>5. ViewFollowsCommits'
    BY <2>1, <1>3, <1>12 DEF ConfInv, ViewFollowsCommits, SameView
  <2>6. /\ Tracks(mapped'.uncommitted_wfs, mapped'.wfs, WfsOf(sent'))
        /\ Tracks(mapped'.uncommitted_max, mapped'.max, MaxOf(sent'))
    BY <2>1, <1>6, <1>10
  <2>. QED  BY <2>3, <2>4, <2>5, <2>6 DEF ConfInv, OwedIsNeeded
<1>. QED  BY <1>16, <1>19, <1>20

\* The client commits one of the configures it was sent, skipping those before.
LEMMA CommitKeeps == \A n \in DOMAIN sent : ConfInv /\ Commit(n) => ConfInv'
<1>. SUFFICES ASSUME NEW n \in DOMAIN sent, ConfInv, Commit(n) PROVE ConfInv'
  OBVIOUS
<1>0. ConfTypeOK /\ mapped \in Mapped /\ sent \in Seq(Config)
  BY DEF ConfInv, ConfTypeOK
<1>1. n \in 1 .. Len(sent) /\ n \in Nat /\ Len(sent) \in Nat
  BY <1>0
<1>2. PICK size \in {sent[n].state.size, OwnSize} : committed' = [config |-> sent[n], geometry |-> size]
  BY Zenon DEF Commit
<1>3. sent[n] \in Config
  BY <1>0, <1>1, ElementOfSeq
<1>4. size \in Size
  BY <1>2, <1>3 DEF Config, ClientState, Size
<1>5. /\ WfsOf(sent) \in Seq(BOOLEAN) /\ Len(WfsOf(sent)) = Len(sent)
      /\ MaxOf(sent) \in Seq(BOOLEAN) /\ Len(MaxOf(sent)) = Len(sent)
      /\ WfsOf(SubSeq(sent, n + 1, Len(sent))) = SubSeq(WfsOf(sent), n + 1, Len(sent))
      /\ MaxOf(SubSeq(sent, n + 1, Len(sent))) = SubSeq(MaxOf(sent), n + 1, Len(sent))
  BY <1>0, <1>1, ValuesOfConfigs
<1>6. WfsOf(sent)[n] = sent[n].wfs /\ MaxOf(sent)[n] = sent[n].max
  BY <1>1 DEF WfsOf, MaxOf
<1>7. /\ mapped.uncommitted_wfs \in Queue /\ mapped.uncommitted_max \in Queue
      /\ mapped.wfs \in BOOLEAN /\ mapped.max \in BOOLEAN
  BY <1>0 DEF Mapped
<1>8. PICK w, x : /\ w = Committed(mapped.uncommitted_wfs, mapped.wfs, n)
                  /\ x = Committed(mapped.uncommitted_max, mapped.max, n)
  OBVIOUS
<1>9. /\ Tracks(mapped.uncommitted_wfs, mapped.wfs, WfsOf(sent))
      /\ Tracks(mapped.uncommitted_max, mapped.max, MaxOf(sent))
  BY DEF ConfInv
<1>10. /\ w.value = sent[n].wfs /\ w.left \in Queue
       /\ Tracks(w.left, sent[n].wfs, WfsOf(SubSeq(sent, n + 1, Len(sent))))
  <2>1. PICK values : values = WfsOf(sent)
    OBVIOUS
  <2>2. values \in Seq(BOOLEAN) /\ n \in 1 .. Len(values) /\ Tracks(mapped.uncommitted_wfs, mapped.wfs, values)
    BY <2>1, <1>1, <1>5, <1>9
  <2>3. /\ w.value = values[n] /\ w.left \in Queue
        /\ Tracks(w.left, values[n], SubSeq(values, n + 1, Len(values)))
    BY <2>2, <1>7, <1>8, CommittedTracks
  <2>. QED  BY <2>1, <2>3, <1>5, <1>6
<1>11. /\ x.value = sent[n].max /\ x.left \in Queue
       /\ Tracks(x.left, sent[n].max, MaxOf(SubSeq(sent, n + 1, Len(sent))))
  <2>1. PICK values : values = MaxOf(sent)
    OBVIOUS
  <2>2. values \in Seq(BOOLEAN) /\ n \in 1 .. Len(values) /\ Tracks(mapped.uncommitted_max, mapped.max, values)
    BY <2>1, <1>1, <1>5, <1>9
  <2>3. /\ x.value = values[n] /\ x.left \in Queue
        /\ Tracks(x.left, values[n], SubSeq(values, n + 1, Len(values)))
    BY <2>2, <1>7, <1>8, CommittedTracks
  <2>. QED  BY <2>1, <2>3, <1>5, <1>6
<1>12. sent[n].wfs \in BOOLEAN /\ sent[n].max \in BOOLEAN
  BY <1>3 DEF Config
<1>13. /\ mapped' \in Mapped /\ mapped'.needs_configure = mapped.needs_configure
       /\ mapped'.wfs = sent[n].wfs /\ mapped'.max = sent[n].max
       /\ mapped'.uncommitted_wfs = w.left /\ mapped'.uncommitted_max = x.left
  BY <1>0, <1>1, <1>8, <1>10, <1>11, <1>12, OnCommitType DEF Commit
<1>14. /\ sent' = SubSeq(sent, n + 1, Len(sent)) /\ dirty' = TRUE
       /\ UNCHANGED <<floating, resizing, owed, asked, told>>
  BY DEF Commit
<1>15. sent' \in Seq(Config)
  BY <1>0, <1>1, <1>14
<1>16. committed'.config = sent[n] /\ committed' \in [config : Config, geometry : Size]
  BY <1>2, <1>3, <1>4
<1>17. ConfTypeOK'
  BY <1>0, <1>13, <1>14, <1>15, <1>16 DEF ConfTypeOK
<1>18. ViewFollowsCommits'
  BY <1>13, <1>16 DEF ViewFollowsCommits
<1>19. /\ Tracks(mapped'.uncommitted_wfs, mapped'.wfs, WfsOf(sent'))
       /\ Tracks(mapped'.uncommitted_max, mapped'.max, MaxOf(sent'))
  BY <1>10, <1>11, <1>13, <1>14
<1>. QED  BY <1>13, <1>14, <1>17, <1>18, <1>19 DEF ConfInv, OwedIsNeeded

LEMMA ConfNextInv == ConfInv /\ [ConfNext]_confVars => ConfInv'
<1>. SUFFICES ASSUME ConfInv, [ConfNext]_confVars PROVE ConfInv'
  OBVIOUS
<1>0. /\ ConfTypeOK /\ mapped \in Mapped /\ OwedIsNeeded
      /\ floating \in BOOLEAN /\ resizing \in BOOLEAN /\ dirty \in BOOLEAN /\ owed \in BOOLEAN
      /\ asked \in Size /\ told \in Size
  BY DEF ConfInv, ConfTypeOK
<1>1. ASSUME NEW mode \in SizingMode, AskTiled(mode) PROVE ConfInv'
  <2>1. SizeFor(mode) \in Size
    BY SizeForIsSize
  <2>2. /\ mapped' \in Mapped /\ SameView(mapped, mapped')
        /\ mapped.needs_configure => mapped'.needs_configure
    BY <2>1, <1>0, <1>1, RequestSizeType DEF AskTiled, Called
  <2>. QED  BY <2>1, <2>2, <1>0, <1>1, CallKeeps DEF AskTiled, Called, OwedIsNeeded
<1>2. ASSUME NEW size \in FloatSize, AskFloating(size) PROVE ConfInv'
  <2>1. size \in Size
    BY DEF Size
  <2>2. /\ mapped' \in Mapped /\ SameView(mapped, mapped')
        /\ mapped.needs_configure => mapped'.needs_configure
    BY <2>1, <1>0, <1>2, RequestSizeOnceType DEF AskFloating, Called
  <2>. QED  BY <2>1, <2>2, <1>0, <1>2, CallKeeps DEF AskFloating, Called, OwedIsNeeded
<1>3. CASE ToggleWindowedFullscreen
  <2>1. (~mapped.pending_wfs) \in BOOLEAN
    OBVIOUS
  <2>2. /\ mapped' \in Mapped /\ SameView(mapped, mapped')
        /\ mapped.needs_configure => mapped'.needs_configure
    BY <2>1, <1>0, <1>3, WindowedFullscreenType DEF ToggleWindowedFullscreen, Called
  <2>. QED  BY <2>2, <1>0, <1>3, CallKeeps DEF ToggleWindowedFullscreen, Called, OwedIsNeeded
<1>4. CASE Resize
  BY <1>0, <1>4, CallKeeps DEF Resize, SameView, OwedIsNeeded
<1>5. CASE Request
  <2>1. /\ mapped' \in Mapped /\ SameView(mapped, mapped') /\ mapped'.needs_configure
    BY <1>0, <1>5 DEF Request, Mapped, SameView
  <2>. QED  BY <2>1, <1>0, <1>5, CallKeeps DEF Request
<1>6. CASE Refresh
  BY <1>6, RefreshKeeps
<1>7. ASSUME NEW n \in DOMAIN sent, Commit(n) PROVE ConfInv'
  BY <1>7, CommitKeeps
<1>8. CASE UNCHANGED confVars
  BY <1>0, <1>8, CallKeeps DEF confVars, SameView, OwedIsNeeded
<1>. QED  BY <1>1, <1>2, <1>3, <1>4, <1>5, <1>6, <1>7, <1>8 DEF ConfNext

\* A client that asks is told, also when nothing changed and a resize is throttled, and the layout
\* follows what the client commits, however many configures it skips.
THEOREM ExchangeSafety == ConfSpec => []ExchangeIsAnswered
<1>1. ConfInv => ExchangeIsAnswered
  BY DEF ConfInv, OwedIsNeeded, ExchangeIsAnswered, RequestsAnswered
<1>. QED  BY <1>1, ConfInitInv, ConfNextInv, PTL DEF ConfSpec

-----------------------------------------------------------------------------
(***************************************************************************)
(* How the exchange settles. What was sent last tells what the layout and  *)
(* the client will agree on, so the invariant is about the newest          *)
(* configure, sent or committed.                                           *)
(***************************************************************************)
Newest == IF sent = <<>> THEN committed.config ELSE sent[Len(sent)]

\* The sizes that a window can be told as long as it is asked for nothing else.
Near == {asked, OwnSize}

\* A client that is maximized is told so by its size, and takes no size of its own that the
\* layout may ask for.
DistinctSizes ==
    /\ WorkingSize \notin {SlotSize, ViewSize} \cup FloatSize
    /\ OwnSize \notin {SlotSize, WorkingSize, ViewSize} \cup FloatSize

\* What is pending is what was asked for, unless the window uses its own size.
PendingIsAsked ==
    /\ mapped.pending.mode = "Fullscreen" <=> mapped.pending_wfs
    /\ mapped.pending_max <=> mapped.pending.size = WorkingSize
    /\ mapped.pending.size \in Near
    /\ mapped.once.tag # "UseWindowSize" => mapped.pending.size = asked
    /\ IF floating THEN asked \in FloatSize /\ mapped.once.tag # "None"
       ELSE asked \in {SlotSize, WorkingSize, ViewSize} /\ mapped.once.tag = "None"

\* The newest configure carries the values of its state, or another one will be sent.
LastIsNewest ==
    /\ Newest.state = mapped.last
    /\ Newest.wfs => mapped.last.mode = "Fullscreen"
    /\ mapped.last.mode = "Fullscreen" => Newest.wfs \/ mapped.needs_configure \/ ~mapped.pending_wfs
    /\ mapped.needs_configure \/ (Newest.max <=> mapped.last.size = WorkingSize)
    /\ mapped.last.size \in {told, OwnSize}

\* A size that is asked once is with the client, or has been committed.
OnceIsUnderWay ==
    /\ mapped.once.tag = "WaitingForCommit" =>
          /\ mapped.once.serial \in 1 .. Len(sent) /\ told = asked
          /\ \A j \in 1 .. Len(sent) : j >= mapped.once.serial => sent[j].state.size \in Near
    /\ mapped.once.tag = "UseWindowSize" =>
          /\ told = asked /\ committed.geometry \in Near
          /\ \A j \in 1 .. Len(sent) : sent[j].state.size \in Near

\* The end of a resize is with the client, which was told of its beginning.
ResizeIsUnderWay ==
    /\ mapped.resize.tag # "WaitingForLastConfigure"
    /\ mapped.resize.tag = "Ongoing" => mapped.last.resizing
    /\ mapped.resize.tag = "WaitingForLastCommit" => mapped.resize.serial \in 1 .. Len(sent)

\* The end of a turn leaves nothing to send, unless it waits for the client.
TurnIsDone ==
    ~dirty => /\ ~mapped.needs_configure
              /\ mapped.pending = mapped.last \/ sent # <<>>
              /\ mapped.resize.tag = "Ongoing" <=> floating /\ resizing

SettleInv == PendingIsAsked /\ LastIsNewest /\ OnceIsUnderWay /\ ResizeIsUnderWay /\ TurnIsDone

-----------------------------------------------------------------------------
LEMMA RequestSizeFields ==
    ASSUME NEW m \in Mapped, NEW size \in Size, NEW mode \in SizingMode, NEW r,
           r = request_size(m, size, mode)
    PROVE  /\ r.last = m.last /\ r.resize = m.resize /\ r.once.tag = "None"
           /\ r.pending_wfs = (m.pending_wfs /\ mode # "Fullscreen")
           /\ r.pending_max = (mode = "Maximized")
           /\ m.needs_configure => r.needs_configure
           /\ m.max # (mode = "Maximized") => r.needs_configure
           /\ r.pending.size = size /\ r.pending.resizing = m.pending.resizing
           /\ r.pending.mode = IF r.pending_wfs THEN "Fullscreen"
                               ELSE IF mode = "Normal" THEN "Normal" ELSE "Maximized"
<1>1. PICK p : p = [m.pending EXCEPT !.size = size,
                      !.mode = IF m.pending_wfs /\ mode # "Fullscreen" THEN "Fullscreen"
                               ELSE IF mode = "Normal" THEN "Normal" ELSE "Maximized"]
  OBVIOUS
<1>2. PICK w, x, c : /\ w = (m.pending_wfs /\ mode # "Fullscreen") /\ x = (mode = "Maximized")
                     /\ c = (m.needs_configure \/ (mode = "Fullscreen" /\ m.wfs) \/ m.max # (mode = "Maximized"))
  OBVIOUS
<1>3. r = [m EXCEPT !.pending_wfs = w, !.pending_max = x, !.needs_configure = c, !.pending = p, !.once = NoOnce]
  <2>1. r = [m EXCEPT !.pending_wfs = m.pending_wfs /\ mode # "Fullscreen", !.pending_max = mode = "Maximized",
                      !.needs_configure = m.needs_configure \/ (mode = "Fullscreen" /\ m.wfs)
                                          \/ m.max # (mode = "Maximized"),
                      !.pending = p, !.once = NoOnce]
    BY <1>1, ZenonT(60) DEF request_size, Mapped, ClientState
  <2>. QED  BY <2>1, <1>2, Zenon
<1>4. /\ r.last = m.last /\ r.resize = m.resize /\ r.once = NoOnce /\ r.pending = p
      /\ r.pending_wfs = w /\ r.pending_max = x /\ r.needs_configure = c
  BY <1>3 DEF Mapped
<1>5. /\ p.size = size /\ p.resizing = m.pending.resizing
      /\ p.mode = IF m.pending_wfs /\ mode # "Fullscreen" THEN "Fullscreen"
                  ELSE IF mode = "Normal" THEN "Normal" ELSE "Maximized"
  BY <1>1 DEF Mapped, ClientState
<1>6. /\ r.pending_wfs = (m.pending_wfs /\ mode # "Fullscreen") /\ r.pending_max = (mode = "Maximized")
      /\ r.needs_configure = (m.needs_configure \/ (mode = "Fullscreen" /\ m.wfs) \/ m.max # (mode = "Maximized"))
  BY <1>2, <1>4, Zenon
<1>7. r.pending.mode = IF r.pending_wfs THEN "Fullscreen" ELSE IF mode = "Normal" THEN "Normal" ELSE "Maximized"
  BY <1>2, <1>4, <1>5, Zenon
<1>8. r.once.tag = "None"
  BY <1>4 DEF NoOnce
<1>. QED  BY <1>4, <1>5, <1>6, <1>7, <1>8, Zenon

LEMMA RequestSizeOnceFields ==
    ASSUME NEW m \in Mapped, NEW size \in Size, NEW r, r = request_size_once(m, size)
    PROVE  /\ r.last = m.last /\ r.resize = m.resize /\ r.pending_wfs = m.pending_wfs
           /\ ~r.pending_max
           /\ m.needs_configure => r.needs_configure
           /\ AlreadySent(m, size) =>
                 r.pending = m.pending /\ r.once = [tag |-> "WaitingForCommit", serial |-> Len(sent)]
           /\ ~AlreadySent(m, size) =>
                 /\ r.once = [tag |-> "WaitingForConfigure", serial |-> 0]
                 /\ r.pending.size = size /\ r.pending.resizing = m.pending.resizing
                 /\ r.pending.mode = IF m.pending_wfs THEN "Fullscreen" ELSE "Normal"
<1>1. PICK p : p = [m.pending EXCEPT !.size = size, !.mode = IF m.pending_wfs THEN "Fullscreen" ELSE "Normal"]
  OBVIOUS
<1>2. /\ p.size = size /\ p.resizing = m.pending.resizing
      /\ p.mode = IF m.pending_wfs THEN "Fullscreen" ELSE "Normal"
  BY <1>1 DEF Mapped, ClientState
<1>3. CASE AlreadySent(m, size)
  <2>1. r = [m EXCEPT !.pending_max = FALSE, !.needs_configure = m.needs_configure \/ m.max,
                      !.once = [tag |-> "WaitingForCommit", serial |-> Len(sent)]]
    BY <1>3 DEF request_size_once, Mapped
  <2>. QED  BY <2>1, <1>3 DEF Mapped
<1>4. CASE ~AlreadySent(m, size)
  <2>1. r = [m EXCEPT !.pending_max = FALSE, !.needs_configure = m.needs_configure \/ m.max,
                      !.pending = p, !.once = [tag |-> "WaitingForConfigure", serial |-> 0]]
    BY <1>1, <1>4 DEF request_size_once, Mapped, ClientState
  <2>. QED  BY <2>1, <1>2, <1>4 DEF Mapped
<1>. QED  BY <1>3, <1>4

LEMMA WindowedFullscreenFields ==
    ASSUME NEW m \in Mapped, NEW r, r = request_windowed_fullscreen(m, ~m.pending_wfs)
    PROVE  /\ r.last = m.last /\ r.resize = m.resize /\ r.once = m.once
           /\ r.pending_wfs = (~m.pending_wfs) /\ r.pending_max = m.pending_max /\ r.needs_configure
           /\ r.pending.size = m.pending.size
           /\ r.pending.mode = "Fullscreen" <=> r.pending_wfs
<1>1. PICK p : p = [m.pending EXCEPT !.mode = IF ~m.pending_wfs THEN "Fullscreen"
                                              ELSE IF m.pending_max THEN "Maximized" ELSE "Normal"]
  OBVIOUS
<1>2. /\ p.size = m.pending.size
      /\ p.mode = "Fullscreen" <=> ~m.pending_wfs
  BY <1>1 DEF Mapped, ClientState
<1>3. m.pending_wfs # (~m.pending_wfs)
  BY DEF Mapped
<1>4. r = [m EXCEPT !.pending_wfs = ~m.pending_wfs, !.needs_configure = TRUE, !.pending = p]
  BY <1>1, <1>3 DEF request_windowed_fullscreen, Mapped, ClientState
<1>. QED  BY <1>2, <1>4 DEF Mapped

LEMMA InteractiveResizeFields ==
    ASSUME NEW m \in Mapped, NEW on \in BOOLEAN, NEW r, r = set_interactive_resize(m, on)
    PROVE  /\ r.last = m.last /\ r.once = m.once /\ r.needs_configure = m.needs_configure
           /\ r.pending_wfs = m.pending_wfs /\ r.pending_max = m.pending_max
           /\ r.pending.size = m.pending.size /\ r.pending.mode = m.pending.mode
           /\ r.pending.resizing = on
           /\ r.resize = IF on THEN [tag |-> "Ongoing", serial |-> 0]
                         ELSE IF m.resize.tag = "Ongoing" THEN [tag |-> "WaitingForLastConfigure", serial |-> 0]
                         ELSE m.resize
<1>1. PICK p : p = [m.pending EXCEPT !.resizing = on]
  OBVIOUS
<1>2. p.size = m.pending.size /\ p.mode = m.pending.mode /\ p.resizing = on
  BY <1>1 DEF Mapped, ClientState
<1>3. PICK q : q = IF on THEN [tag |-> "Ongoing", serial |-> 0]
                   ELSE IF m.resize.tag = "Ongoing" THEN [tag |-> "WaitingForLastConfigure", serial |-> 0]
                   ELSE m.resize
  OBVIOUS
<1>4. r = [m EXCEPT !.pending = p, !.resize = q]
  BY <1>1, <1>3 DEF set_interactive_resize, Mapped, ClientState
<1>. QED  BY <1>2, <1>3, <1>4 DEF Mapped


\* A configure is sent: what is pending, at the window's own size if it is to use that.
SendsFields(m, size, r, out) ==
    /\ r.last = r.pending /\ ~r.needs_configure
    /\ r.pending_wfs = m.pending_wfs /\ r.pending_max = m.pending_max
    /\ r.last.mode = m.pending.mode /\ r.last.resizing = m.pending.resizing
    /\ r.last.size = IF m.once.tag = "UseWindowSize" THEN size ELSE m.pending.size
    /\ r.resize = IF m.resize.tag = "WaitingForLastConfigure"
                  THEN [tag |-> "WaitingForLastCommit", serial |-> Len(sent) + 1] ELSE m.resize
    /\ r.once = IF m.once.tag = "WaitingForConfigure"
                THEN [tag |-> "WaitingForCommit", serial |-> Len(sent) + 1] ELSE m.once
    /\ out = Append(sent, [state |-> r.last, wfs |-> m.pending_wfs, max |-> m.pending_max])

\* Nothing is sent, as what was sent last is what is pending, but for the size that a window
\* that uses its own is not told.
SendsNoFields(m, r, out) ==
    /\ ~m.needs_configure /\ ~r.needs_configure
    /\ r.last = m.last /\ r.pending = m.last /\ r.once = m.once
    /\ r.pending_wfs = m.pending_wfs /\ r.pending_max = m.pending_max
    /\ m.pending.mode = m.last.mode /\ m.pending.resizing = m.last.resizing
    /\ m.once.tag # "UseWindowSize" => m.pending.size = m.last.size
    /\ r.resize = IF m.resize.tag = "WaitingForLastConfigure" THEN NotResizing ELSE m.resize
    /\ out = sent

LEMMA SendPendingFields ==
    ASSUME NEW m \in Mapped, NEW size \in Size, NEW new, new = send_pending_configure(m, size)
    PROVE  SendsFields(m, size, new[1], new[2]) \/ SendsNoFields(m, new[1], new[2])
<1>1. PICK p : p = [m.pending EXCEPT !.size = m.last.size]
  OBVIOUS
<1>2. p.size = m.last.size /\ p.mode = m.pending.mode /\ p.resizing = m.pending.resizing
  BY <1>1 DEF Mapped, ClientState
<1>3. PICK kept : kept = IF m.once.tag = "UseWindowSize" /\ ~m.needs_configure THEN [m EXCEPT !.pending = p] ELSE m
  OBVIOUS
<1>4. /\ kept.last = m.last /\ kept.once = m.once /\ kept.resize = m.resize
      /\ kept.needs_configure = m.needs_configure
      /\ kept.pending_wfs = m.pending_wfs /\ kept.pending_max = m.pending_max
      /\ kept.pending = IF m.once.tag = "UseWindowSize" /\ ~m.needs_configure THEN p ELSE m.pending
  BY <1>3 DEF Mapped
<1>5. kept = IF m.once.tag = "UseWindowSize" /\ ~m.needs_configure
             THEN [m EXCEPT !.pending.size = m.last.size] ELSE m
  BY <1>1, <1>3 DEF Mapped, ClientState
<1>6. DOMAIN kept = DOMAIN m
  BY <1>3 DEF Mapped
<1>7. PICK state : state = IF m.once.tag = "UseWindowSize" THEN [m.pending EXCEPT !.size = size] ELSE m.pending
  OBVIOUS
<1>8. /\ state.mode = m.pending.mode /\ state.resizing = m.pending.resizing
      /\ state.size = IF m.once.tag = "UseWindowSize" THEN size ELSE m.pending.size
  BY <1>7 DEF Mapped, ClientState
<1>9. CASE m.needs_configure \/ kept.pending # m.last
  <2>1. PICK a : a = IF m.resize.tag = "WaitingForLastConfigure"
                     THEN [tag |-> "WaitingForLastCommit", serial |-> Len(sent) + 1] ELSE m.resize
    OBVIOUS
  <2>2. PICK o : o = IF m.once.tag = "WaitingForConfigure"
                     THEN [tag |-> "WaitingForCommit", serial |-> Len(sent) + 1] ELSE m.once
    OBVIOUS
  <2>3. PICK uw, um : /\ uw = Noted(m.uncommitted_wfs, m.wfs, m.pending_wfs, Len(sent) + 1)
                      /\ um = Noted(m.uncommitted_max, m.max, m.pending_max, Len(sent) + 1)
    OBVIOUS
  <2>4. PICK c : c = [state |-> state, wfs |-> m.pending_wfs, max |-> m.pending_max]
    OBVIOUS
  <2>5. new = <<[m EXCEPT !.last = state, !.pending = state, !.needs_configure = FALSE,
                          !.resize = a, !.once = o, !.uncommitted_wfs = uw, !.uncommitted_max = um],
                Append(sent, c)>>
    BY <1>5, <1>7, <1>9, <2>1, <2>2, <2>3, <2>4 DEF send_pending_configure, Mapped
  <2>6. PICK r : r = [m EXCEPT !.last = state, !.pending = state, !.needs_configure = FALSE,
                               !.resize = a, !.once = o, !.uncommitted_wfs = uw, !.uncommitted_max = um]
    OBVIOUS
  <2>7. new = <<r, Append(sent, c)>>
    BY <2>5, <2>6
  <2>8. /\ r.last = state /\ r.pending = state /\ r.needs_configure = FALSE
        /\ r.resize = a /\ r.once = o
        /\ r.pending_wfs = m.pending_wfs /\ r.pending_max = m.pending_max
    BY <2>6 DEF Mapped
  <2>9. SendsFields(m, size, r, Append(sent, c))
    BY <1>8, <2>1, <2>2, <2>4, <2>8 DEF SendsFields
  <2>. QED  BY <2>7, <2>9
<1>10. CASE ~m.needs_configure /\ kept.pending = m.last
  <2>1. PICK a : a = IF m.resize.tag = "WaitingForLastConfigure" THEN NotResizing ELSE m.resize
    OBVIOUS
  <2>2. PICK r : r = [kept EXCEPT !.resize = a]
    OBVIOUS
  <2>3. new = <<r, sent>>
    BY <1>4, <1>5, <1>10, <2>1, <2>2 DEF send_pending_configure, Mapped
  <2>4. /\ r.last = m.last /\ r.pending = m.last /\ r.once = m.once
        /\ r.needs_configure = m.needs_configure
        /\ r.pending_wfs = m.pending_wfs /\ r.pending_max = m.pending_max /\ r.resize = a
    BY <1>4, <1>6, <1>10, <2>2 DEF Mapped
  <2>5. /\ m.pending.mode = m.last.mode /\ m.pending.resizing = m.last.resizing
        /\ m.once.tag # "UseWindowSize" => m.pending.size = m.last.size
    BY <1>2, <1>4, <1>10
  <2>6. SendsNoFields(m, r, sent)
    BY <1>10, <2>1, <2>4, <2>5 DEF SendsNoFields
  <2>. QED  BY <2>3, <2>6
<1>. QED  BY <1>9, <1>10

LEMMA OnCommitFields ==
    ASSUME NEW m \in Mapped, NEW n \in Nat, NEW r, r = on_commit(m, n)
    PROVE  /\ r.last = m.last /\ r.pending = m.pending /\ r.needs_configure = m.needs_configure
           /\ r.pending_wfs = m.pending_wfs /\ r.pending_max = m.pending_max
           /\ r.resize.tag = IF m.resize.tag = "WaitingForLastCommit" /\ n >= m.resize.serial
                             THEN "None" ELSE m.resize.tag
           /\ m.resize.serial > n => r.resize.serial = m.resize.serial - n
           /\ r.once.tag = IF m.once.tag = "WaitingForCommit" /\ n >= m.once.serial
                           THEN "UseWindowSize" ELSE m.once.tag
           /\ m.once.serial > n => r.once.serial = m.once.serial - n
<1>1. PICK a : a = IF m.resize.tag = "WaitingForLastCommit" /\ n >= m.resize.serial THEN NotResizing
                   ELSE Renumbered(m.resize, n)
  OBVIOUS
<1>2. PICK o : o = IF m.once.tag = "WaitingForCommit" /\ n >= m.once.serial
                   THEN [tag |-> "UseWindowSize", serial |-> 0] ELSE Renumbered(m.once, n)
  OBVIOUS
<1>3. PICK w, x : /\ w = Committed(m.uncommitted_wfs, m.wfs, n)
                  /\ x = Committed(m.uncommitted_max, m.max, n)
  OBVIOUS
<1>4. r = [m EXCEPT !.resize = a, !.once = o, !.wfs = w.value, !.uncommitted_wfs = w.left,
                    !.max = x.value, !.uncommitted_max = x.left]
  BY <1>1, <1>2, <1>3 DEF on_commit, Mapped
<1>5. /\ r.last = m.last /\ r.pending = m.pending /\ r.needs_configure = m.needs_configure
      /\ r.pending_wfs = m.pending_wfs /\ r.pending_max = m.pending_max
      /\ r.resize = a /\ r.once = o
  BY <1>4 DEF Mapped
<1>6. m.resize.serial \in Nat /\ m.once.serial \in Nat
  BY DEF Mapped, Resizing, Once
<1>7. /\ a.tag = IF m.resize.tag = "WaitingForLastCommit" /\ n >= m.resize.serial THEN "None" ELSE m.resize.tag
      /\ m.resize.serial > n => a.serial = m.resize.serial - n
  BY <1>1, <1>6 DEF Mapped, Resizing, NotResizing, Renumbered
<1>8. /\ o.tag = IF m.once.tag = "WaitingForCommit" /\ n >= m.once.serial THEN "UseWindowSize" ELSE m.once.tag
      /\ m.once.serial > n => o.serial = m.once.serial - n
  BY <1>2, <1>6 DEF Mapped, Once, Renumbered
<1>. QED  BY <1>5, <1>7, <1>8


-----------------------------------------------------------------------------
LEMMA SizeForTells ==
    ASSUME DistinctSizes, NEW mode \in SizingMode
    PROVE  /\ SizeFor(mode) \in {SlotSize, WorkingSize, ViewSize} /\ SizeFor(mode) # OwnSize
           /\ SizeFor(mode) = WorkingSize <=> mode = "Maximized"
BY DEF DistinctSizes, SizingMode, SizeFor

LEMMA SettleInit == DistinctSizes /\ ConfInit => SettleInv
<1>. SUFFICES ASSUME DistinctSizes, ConfInit PROVE SettleInv
  OBVIOUS
<1>1. PICK first \in SizingMode, last \in SizingMode :
        LET State(mode) == [mode |-> mode, size |-> SizeFor(mode), resizing |-> FALSE]
            Carrying(mode) == [state |-> State(mode), wfs |-> FALSE, max |-> first = "Maximized"]
        IN  /\ committed = [config |-> Carrying(first), geometry |-> SizeFor(first)]
            /\ sent = IF first = last THEN <<>> ELSE <<Carrying(last)>>
            /\ mapped = request_size(MappedNew(State(first), State(last)), SizeFor(last), last)
            /\ floating = FALSE /\ resizing = FALSE /\ dirty = TRUE /\ owed = FALSE
            /\ asked = SizeFor(last) /\ told = asked
  BY Zenon DEF ConfInit
<1>2. PICK f, g : /\ f = [mode |-> first, size |-> SizeFor(first), resizing |-> FALSE]
                  /\ g = [mode |-> last, size |-> SizeFor(last), resizing |-> FALSE]
  OBVIOUS
<1>3. f \in ClientState /\ g \in ClientState /\ f.mode = first /\ g.size = SizeFor(last) /\ g.mode = last
  BY <1>2, SizeForIsSize DEF ClientState
<1>4. PICK m : m = MappedNew(f, g)
  OBVIOUS
<1>5. /\ m \in Mapped /\ m.wfs = FALSE /\ m.max = (first = "Maximized")
      /\ m.last = g /\ m.resize = NotResizing /\ m.pending_wfs = FALSE
  BY <1>3, <1>4, MappedNewType DEF MappedNew
<1>6. PICK r : r = request_size(m, SizeFor(last), last) /\ mapped = r
  BY <1>1, <1>2, <1>4
<1>7. /\ mapped.last = g /\ mapped.resize = NotResizing /\ mapped.once.tag = "None"
      /\ mapped.pending_wfs = FALSE /\ mapped.pending_max = (last = "Maximized")
      /\ m.max # (last = "Maximized") => mapped.needs_configure
      /\ mapped.pending.size = SizeFor(last)
      /\ mapped.pending.mode = IF last = "Normal" THEN "Normal" ELSE "Maximized"
  <2>1. /\ r.last = m.last /\ r.resize = m.resize /\ r.once.tag = "None"
        /\ r.pending_wfs = (m.pending_wfs /\ last # "Fullscreen")
        /\ r.pending_max = (last = "Maximized")
        /\ m.max # (last = "Maximized") => r.needs_configure
        /\ r.pending.size = SizeFor(last)
        /\ r.pending.mode = IF r.pending_wfs THEN "Fullscreen" ELSE IF last = "Normal" THEN "Normal" ELSE "Maximized"
    BY <1>5, <1>6, SizeForIsSize, RequestSizeFields
  <2>. QED  BY <2>1, <1>5, <1>6
<1>8. PICK x : x = (first = "Maximized")
  OBVIOUS
<1>9. Newest.state = g /\ Newest.wfs = FALSE /\ Newest.max = x
  <2>1. CASE first = last
    BY <1>1, <1>2, <1>8, <2>1 DEF Newest
  <2>2. CASE first # last
    <3>1. PICK c : c = [state |-> g, wfs |-> FALSE, max |-> x]
      OBVIOUS
    <3>2. sent = <<c>>
      BY <1>1, <1>2, <1>8, <2>2, <3>1
    <3>. QED  BY <3>1, <3>2 DEF Newest
  <2>. QED  BY <2>1, <2>2
<1>10. /\ SizeFor(last) \in {SlotSize, WorkingSize, ViewSize} /\ SizeFor(last) # OwnSize
       /\ SizeFor(last) = WorkingSize <=> last = "Maximized"
  BY SizeForTells
<1>11. PendingIsAsked
  BY <1>1, <1>7, <1>10 DEF PendingIsAsked, Near
<1>12. LastIsNewest
  BY <1>1, <1>3, <1>5, <1>7, <1>8, <1>9, <1>10 DEF LastIsNewest
<1>13. OnceIsUnderWay /\ ResizeIsUnderWay /\ TurnIsDone
  BY <1>1, <1>7 DEF OnceIsUnderWay, ResizeIsUnderWay, TurnIsDone, NotResizing
<1>. QED  BY <1>11, <1>12, <1>13 DEF SettleInv

\* A call of the layout or the client that leaves what is under way alone.
LEMMA CallSettles ==
    ASSUME SettleInv, UNCHANGED <<sent, committed, told>>, dirty' = TRUE,
           mapped'.last = mapped.last, mapped'.resize = mapped.resize,
           mapped.needs_configure => mapped'.needs_configure,
           ~mapped'.pending_wfs \/ mapped'.pending_wfs = mapped.pending_wfs \/ mapped'.needs_configure,
           PendingIsAsked', OnceIsUnderWay'
    PROVE  SettleInv'
<1>1. Newest' = Newest
  BY DEF Newest
<1>2. LastIsNewest'
  BY <1>1 DEF SettleInv, LastIsNewest
<1>3. ResizeIsUnderWay' /\ TurnIsDone'
  BY DEF SettleInv, ResizeIsUnderWay, TurnIsDone
<1>. QED  BY <1>2, <1>3 DEF SettleInv

LEMMA AskTiledSettles ==
    ASSUME DistinctSizes, ConfInv, SettleInv, NEW mode \in SizingMode, AskTiled(mode)
    PROVE  SettleInv'
<1>0. mapped \in Mapped /\ SizeFor(mode) \in Size
  BY SizeForIsSize DEF ConfInv, ConfTypeOK
<1>r. PICK r : r = request_size(mapped, SizeFor(mode), mode)
  OBVIOUS
<1>1. /\ mapped' = r /\ dirty' = TRUE
      /\ UNCHANGED <<sent, committed, told>> /\ floating' = FALSE /\ asked' = SizeFor(mode)
  BY <1>r DEF AskTiled, Called
<1>2. /\ mapped'.last = mapped.last /\ mapped'.resize = mapped.resize /\ mapped'.once.tag = "None"
      /\ mapped'.pending_wfs = (mapped.pending_wfs /\ mode # "Fullscreen")
      /\ mapped'.pending_max = (mode = "Maximized")
      /\ mapped.needs_configure => mapped'.needs_configure
      /\ mapped'.pending.size = SizeFor(mode)
      /\ mapped'.pending.mode = IF mapped'.pending_wfs THEN "Fullscreen"
                                ELSE IF mode = "Normal" THEN "Normal" ELSE "Maximized"
  <2>1. /\ r.last = mapped.last /\ r.resize = mapped.resize /\ r.once.tag = "None"
        /\ r.pending_wfs = (mapped.pending_wfs /\ mode # "Fullscreen")
        /\ r.pending_max = (mode = "Maximized")
        /\ mapped.needs_configure => r.needs_configure
        /\ r.pending.size = SizeFor(mode)
        /\ r.pending.mode = IF r.pending_wfs THEN "Fullscreen" ELSE IF mode = "Normal" THEN "Normal" ELSE "Maximized"
    BY <1>0, <1>r, RequestSizeFields
  <2>. QED  BY <2>1, <1>1
<1>3. PendingIsAsked'
  <2>1. mapped'.pending.mode = "Fullscreen" <=> mapped'.pending_wfs
    BY <1>2
  <2>2. mapped'.pending_max <=> mapped'.pending.size = WorkingSize
    BY <1>2, SizeForTells
  <2>3. asked' \in {SlotSize, WorkingSize, ViewSize}
    BY <1>1, SizeForTells
  <2>. QED  BY <1>1, <1>2, <2>1, <2>2, <2>3 DEF PendingIsAsked, Near
<1>4. OnceIsUnderWay'
  BY <1>2 DEF OnceIsUnderWay
<1>5. ~mapped'.pending_wfs \/ mapped'.pending_wfs = mapped.pending_wfs
  <2>1. mapped.pending_wfs \in BOOLEAN
    BY <1>0 DEF Mapped
  <2>. QED  BY <1>2, <2>1
<1>. QED  BY <1>1, <1>2, <1>3, <1>4, <1>5, CallSettles

LEMMA AskFloatingSettles ==
    ASSUME ~AsksBack, DistinctSizes, ConfInv, SettleInv, NEW size \in FloatSize, AskFloating(size)
    PROVE  SettleInv'
<1>0. mapped \in Mapped /\ sent \in Seq(Config) /\ size \in Size /\ size # OwnSize /\ size # WorkingSize
  BY DEF ConfInv, ConfTypeOK, Size, DistinctSizes
<1>r. PICK r : r = request_size_once(mapped, size)
  OBVIOUS
<1>1. /\ mapped' = r /\ dirty' = TRUE
      /\ UNCHANGED <<sent, committed, told>> /\ floating' = TRUE /\ asked' = size
      /\ ~AlreadySent(mapped, size) \/ mapped.pending = mapped.last
  BY <1>r DEF AskFloating, Called
<1>s. /\ r.last = mapped.last /\ r.resize = mapped.resize
      /\ r.pending_wfs = mapped.pending_wfs /\ ~r.pending_max
      /\ mapped.needs_configure => r.needs_configure
  BY <1>0, <1>r, RequestSizeOnceFields
<1>t. AlreadySent(mapped, size) =>
          r.pending = mapped.pending /\ r.once = [tag |-> "WaitingForCommit", serial |-> Len(sent)]
  BY <1>0, <1>r, RequestSizeOnceFields
<1>u. ~AlreadySent(mapped, size) =>
                  /\ r.once = [tag |-> "WaitingForConfigure", serial |-> 0]
                  /\ r.pending.size = size
                  /\ r.pending.mode = IF mapped.pending_wfs THEN "Fullscreen" ELSE "Normal"
  BY <1>0, <1>r, RequestSizeOnceFields
<1>2. /\ mapped'.last = mapped.last /\ mapped'.resize = mapped.resize
      /\ mapped'.pending_wfs = mapped.pending_wfs /\ ~mapped'.pending_max
      /\ mapped.needs_configure => mapped'.needs_configure
  BY <1>1, <1>s
<1>3. CASE AlreadySent(mapped, size)
  <2>1. mapped'.pending = mapped.pending /\ mapped'.once = [tag |-> "WaitingForCommit", serial |-> Len(sent)]
    BY <1>1, <1>t, <1>3
  <2>2. sent # <<>> /\ sent[Len(sent)].state.size = size
    BY <1>3 DEF AlreadySent
  <2>3. mapped.last.size = size /\ mapped.pending.size = size
    BY <2>2, <1>1, <1>3 DEF SettleInv, LastIsNewest, Newest
  <2>4. told = size
    BY <2>3, <1>0 DEF SettleInv, LastIsNewest
  <2>5. PendingIsAsked'
    <3>1. mapped'.pending.mode = "Fullscreen" <=> mapped'.pending_wfs
      BY <1>2, <2>1 DEF SettleInv, PendingIsAsked
    <3>2. mapped'.pending.size = size /\ ~mapped'.pending_max
      BY <1>2, <2>1, <2>3
    <3>. QED  BY <1>0, <1>1, <2>1, <3>1, <3>2 DEF PendingIsAsked, Near
  <2>6. Len(sent) \in 1 .. Len(sent)
    BY <2>2, <1>0
  <2>7. OnceIsUnderWay'
    <3>1. \A j \in 1 .. Len(sent') : j >= Len(sent) => sent'[j].state.size \in Near'
      <4>1. \A j \in 1 .. Len(sent) : j >= Len(sent) => j = Len(sent)
        BY <1>0
      <4>. QED  BY <4>1, <2>2, <1>1 DEF Near
    <3>. QED  BY <3>1, <2>1, <2>4, <2>6, <1>1 DEF OnceIsUnderWay
  <2>. QED  BY <1>1, <1>2, <2>5, <2>7, CallSettles
<1>4. CASE ~AlreadySent(mapped, size)
  <2>1. /\ mapped'.once = [tag |-> "WaitingForConfigure", serial |-> 0]
        /\ mapped'.pending.size = size
        /\ mapped'.pending.mode = IF mapped.pending_wfs THEN "Fullscreen" ELSE "Normal"
    BY <1>1, <1>u, <1>4
  <2>2. PendingIsAsked'
    BY <1>0, <1>1, <1>2, <2>1 DEF PendingIsAsked, Near
  <2>3. OnceIsUnderWay'
    BY <2>1 DEF OnceIsUnderWay
  <2>. QED  BY <1>1, <1>2, <2>2, <2>3, CallSettles
<1>. QED  BY <1>3, <1>4

LEMMA OtherCallSettles ==
    ASSUME ConfInv, SettleInv, ToggleWindowedFullscreen \/ Resize \/ Request
    PROVE  SettleInv'
<1>0. mapped \in Mapped
  BY DEF ConfInv, ConfTypeOK
<1>1. CASE ToggleWindowedFullscreen
  <2>1. /\ mapped' = request_windowed_fullscreen(mapped, ~mapped.pending_wfs) /\ dirty' = TRUE
        /\ UNCHANGED <<sent, committed, told, floating, resizing, asked>>
    BY <1>1 DEF ToggleWindowedFullscreen, Called
  <2>2. /\ mapped'.last = mapped.last /\ mapped'.resize = mapped.resize /\ mapped'.once = mapped.once
        /\ mapped'.pending_max = mapped.pending_max /\ mapped'.needs_configure
        /\ mapped'.pending.size = mapped.pending.size
        /\ mapped'.pending.mode = "Fullscreen" <=> mapped'.pending_wfs
    BY <1>0, <2>1, WindowedFullscreenFields
  <2>3. PendingIsAsked' /\ OnceIsUnderWay'
    BY <2>1, <2>2 DEF SettleInv, PendingIsAsked, OnceIsUnderWay, Near
  <2>. QED  BY <2>1, <2>2, <2>3, CallSettles
<1>2. CASE Resize
  <2>1. /\ dirty' = TRUE /\ UNCHANGED <<mapped, sent, committed, told, floating, asked>>
    BY <1>2 DEF Resize
  <2>2. PendingIsAsked' /\ OnceIsUnderWay'
    BY <2>1 DEF SettleInv, PendingIsAsked, OnceIsUnderWay, Near
  <2>. QED  BY <2>1, <2>2, CallSettles
<1>3. CASE Request
  <2>1. /\ mapped' = [mapped EXCEPT !.needs_configure = TRUE] /\ dirty' = TRUE
        /\ UNCHANGED <<sent, committed, told, floating, resizing, asked>>
    BY <1>3 DEF Request
  <2>2. /\ mapped'.last = mapped.last /\ mapped'.resize = mapped.resize /\ mapped'.once = mapped.once
        /\ mapped'.pending_max = mapped.pending_max /\ mapped'.needs_configure
        /\ mapped'.pending = mapped.pending /\ mapped'.pending_wfs = mapped.pending_wfs
    BY <1>0, <2>1 DEF Mapped
  <2>3. PendingIsAsked' /\ OnceIsUnderWay'
    BY <2>1, <2>2 DEF SettleInv, PendingIsAsked, OnceIsUnderWay, Near
  <2>. QED  BY <2>1, <2>2, <2>3, CallSettles
<1>. QED  BY <1>1, <1>2, <1>3


\* The end of a turn.
LEMMA RefreshSettles ==
    ASSUME DistinctSizes, ConfInv, SettleInv, Refresh
    PROVE  SettleInv'
<1>0. /\ mapped \in Mapped /\ sent \in Seq(Config) /\ Len(sent) \in Nat
      /\ floating \in BOOLEAN /\ resizing \in BOOLEAN /\ committed.geometry \in Size
  BY DEF ConfInv, ConfTypeOK
<1>1. PICK on \in BOOLEAN : on = IF floating THEN resizing ELSE FALSE
  BY <1>0
<1>2. PICK m : m = set_interactive_resize(mapped, on)
  OBVIOUS
<1>3. /\ m.last = mapped.last /\ m.once = mapped.once /\ m.needs_configure = mapped.needs_configure
      /\ m.pending_wfs = mapped.pending_wfs /\ m.pending_max = mapped.pending_max
      /\ m.pending.size = mapped.pending.size /\ m.pending.mode = mapped.pending.mode
      /\ m.pending.resizing = on
      /\ m.resize = IF on THEN [tag |-> "Ongoing", serial |-> 0]
                    ELSE IF mapped.resize.tag = "Ongoing" THEN [tag |-> "WaitingForLastConfigure", serial |-> 0]
                    ELSE mapped.resize
  BY <1>0, <1>2, InteractiveResizeFields
<1>4. m \in Mapped /\ m.last \in ClientState /\ m.pending \in ClientState
  BY <1>0, <1>2, InteractiveResizeType DEF Mapped
<1>5. PICK g : g = committed.geometry
  OBVIOUS
<1>6. PICK new : new = IF floating THEN floating_refresh(mapped) ELSE scrolling_refresh(mapped)
  OBVIOUS
<1>7. PICK send : send = send_pending_configure(m, g)
  OBVIOUS
<1>8. SendsFields(m, g, send[1], send[2]) \/ SendsNoFields(m, send[1], send[2])
  BY <1>0, <1>4, <1>5, <1>7, SendPendingFields
<1>9. /\ mapped' = new[1] /\ sent' = new[2]
      /\ told' = (IF new[2] = sent \/ mapped.once.tag = "UseWindowSize" THEN told ELSE new[1].last.size)
      /\ dirty' = FALSE /\ UNCHANGED <<committed, floating, resizing, asked>>
  BY <1>6 DEF Refresh
<1>10. \/ new = send
       \/ floating /\ new = <<m, sent>> /\ configure_intent(m) \notin {"CanSend", "ShouldSend"}
  BY <1>1, <1>2, <1>5, <1>6, <1>7 DEF floating_refresh, scrolling_refresh
<1>11. m.resize.tag = "Ongoing" <=> on
  BY <1>3
<1>12. m.once.tag \in {"WaitingForCommit", "UseWindowSize"} => told = asked
  BY <1>3 DEF SettleInv, OnceIsUnderWay
<1>13. m.once.tag = "UseWindowSize" =>
          asked # WorkingSize /\ OwnSize # WorkingSize /\ asked \in FloatSize /\ g \in Near /\ ~m.pending_max
  <2>1. OwnSize # WorkingSize
    BY DEF DistinctSizes
  <2>2. m.once.tag = "UseWindowSize" => asked \in FloatSize /\ asked # WorkingSize
    BY <1>3 DEF SettleInv, PendingIsAsked, DistinctSizes
  <2>3. m.once.tag = "UseWindowSize" => g \in Near
    BY <1>3, <1>5 DEF SettleInv, OnceIsUnderWay
  <2>. QED  BY <1>3, <2>1, <2>2, <2>3 DEF SettleInv, PendingIsAsked, Near
<1>14. /\ m.pending.mode = "Fullscreen" <=> m.pending_wfs
       /\ m.pending_max <=> m.pending.size = WorkingSize
       /\ m.pending.size \in Near
       /\ m.once.tag # "UseWindowSize" => m.pending.size = asked
       /\ IF floating THEN asked \in FloatSize /\ m.once.tag # "None"
          ELSE asked \in {SlotSize, WorkingSize, ViewSize} /\ m.once.tag = "None"
  BY <1>3 DEF SettleInv, PendingIsAsked
<1>15. m.once.tag \in {"None", "WaitingForConfigure", "WaitingForCommit", "UseWindowSize"}
  BY <1>4 DEF Mapped, Once
<1>16. CASE new = send /\ SendsFields(m, g, send[1], send[2])
  <2>1. PICK r : r = mapped'
    OBVIOUS
  <2>2. SendsFields(m, g, r, sent')
    BY <2>1, <1>9, <1>16
  <2>3. PICK c : c = [state |-> r.last, wfs |-> m.pending_wfs, max |-> m.pending_max]
    OBVIOUS
  <2>4. sent' = Append(sent, c)
    BY <2>2, <2>3 DEF SendsFields
  <2>5. /\ Len(sent') = Len(sent) + 1 /\ sent'[Len(sent) + 1] = c
        /\ \A j \in 1 .. Len(sent) : sent'[j] = sent[j]
        /\ sent' # sent /\ sent' # <<>>
    BY <2>4, <1>0
  <2>6. Newest' = c
    BY <2>5 DEF Newest
  <2>7. told' = IF m.once.tag = "UseWindowSize" THEN told ELSE r.last.size
    BY <2>1, <2>5, <1>3, <1>9
  <2>8. /\ r.last = r.pending /\ ~r.needs_configure
        /\ r.pending_wfs = m.pending_wfs /\ r.pending_max = m.pending_max
        /\ r.last.mode = m.pending.mode /\ r.last.resizing = on
        /\ r.last.size = IF m.once.tag = "UseWindowSize" THEN g ELSE m.pending.size
        /\ r.resize = IF m.resize.tag = "WaitingForLastConfigure"
                      THEN [tag |-> "WaitingForLastCommit", serial |-> Len(sent) + 1] ELSE m.resize
        /\ r.once = IF m.once.tag = "WaitingForConfigure"
                    THEN [tag |-> "WaitingForCommit", serial |-> Len(sent) + 1] ELSE m.once
    BY <2>2, <1>3 DEF SendsFields
  <2>9. r.last.size \in Near
    BY <2>8, <1>13, <1>14
  <2>10. r.pending_max <=> r.last.size = WorkingSize
    <3>1. CASE m.once.tag = "UseWindowSize"
      BY <3>1, <2>8, <1>13 DEF Near
    <3>2. CASE m.once.tag # "UseWindowSize"
      BY <3>2, <2>8, <1>14
    <3>. QED  BY <3>1, <3>2
  <2>11. PendingIsAsked'
    <3>1. r.once.tag # "UseWindowSize" => r.pending.size = asked
      BY <2>8, <1>14
    <3>2. r.once.tag = "None" <=> m.once.tag = "None"
      BY <2>8
    <3>3. r.pending.mode = "Fullscreen" <=> r.pending_wfs
      BY <2>8, <1>14
    <3>. QED  BY <3>1, <3>2, <3>3, <2>1, <2>8, <2>9, <2>10, <1>9, <1>14 DEF PendingIsAsked, Near
  <2>12. LastIsNewest'
    <3>1. c.state = r.last /\ c.wfs = r.pending_wfs /\ c.max = r.pending_max
      BY <2>3, <2>8
    <3>2. r.last.mode = "Fullscreen" <=> r.pending_wfs
      BY <2>8, <1>14
    <3>3. r.last.size \in {told', OwnSize}
      BY <2>7, <2>8, <1>12, <1>13 DEF Near
    <3>. QED  BY <3>1, <3>2, <3>3, <2>1, <2>6, <2>10 DEF LastIsNewest
  <2>13. OnceIsUnderWay'
    <3>1. sent'[Len(sent) + 1].state.size \in Near
      BY <2>3, <2>5, <2>9
    <3>2. r.once.tag = "WaitingForCommit" => told' = asked
      BY <2>7, <2>8, <1>14
    <3>3. r.once.tag = "WaitingForCommit" =>
             /\ r.once.serial \in 1 .. Len(sent')
             /\ \A j \in 1 .. Len(sent') : j >= r.once.serial => sent'[j].state.size \in Near
      <4>1. CASE m.once.tag = "WaitingForConfigure"
        <5>1. r.once.serial = Len(sent) + 1
          BY <4>1, <2>8
        <5>2. \A j \in 1 .. Len(sent') : j >= Len(sent) + 1 => j = Len(sent) + 1
          BY <2>5, <1>0
        <5>. QED  BY <5>1, <5>2, <3>1, <2>5, <1>0
      <4>2. CASE m.once.tag = "WaitingForCommit"
        <5>1. /\ r.once = mapped.once /\ r.once.serial \in 1 .. Len(sent)
              /\ \A j \in 1 .. Len(sent) : j >= r.once.serial => sent[j].state.size \in Near
          BY <4>2, <2>8, <1>3 DEF SettleInv, OnceIsUnderWay
        <5>2. \A j \in 1 .. Len(sent') : j \in 1 .. Len(sent) \/ j = Len(sent) + 1
          BY <2>5, <1>0
        <5>. QED  BY <5>1, <5>2, <3>1, <2>5, <1>0
      <4>. QED  BY <4>1, <4>2, <2>8
    <3>4. r.once.tag = "UseWindowSize" =>
             /\ told' = asked /\ committed.geometry \in Near
             /\ \A j \in 1 .. Len(sent') : sent'[j].state.size \in Near
      <4>1. SUFFICES ASSUME m.once.tag = "UseWindowSize"
                     PROVE  /\ told' = asked /\ committed.geometry \in Near
                            /\ \A j \in 1 .. Len(sent') : sent'[j].state.size \in Near
        BY <2>8
      <4>2. told' = asked /\ committed.geometry \in Near
        BY <4>1, <2>7, <1>5, <1>12, <1>13
      <4>3. \A j \in 1 .. Len(sent) : sent[j].state.size \in Near
        BY <4>1, <1>3 DEF SettleInv, OnceIsUnderWay
      <4>4. \A j \in 1 .. Len(sent') : j \in 1 .. Len(sent) \/ j = Len(sent) + 1
        BY <2>5, <1>0
      <4>. QED  BY <4>2, <4>3, <4>4, <3>1, <2>5
    <3>5. Near' = Near /\ asked' = asked /\ committed' = committed
      BY <1>9 DEF Near
    <3>. QED  BY <2>1, <3>2, <3>3, <3>4, <3>5 DEF OnceIsUnderWay
  <2>14. ResizeIsUnderWay'
    <3>1. m.resize.tag = "WaitingForLastCommit" => m.resize.serial \in 1 .. Len(sent)
      BY <1>3 DEF SettleInv, ResizeIsUnderWay
    <3>2. r.resize.tag # "WaitingForLastConfigure" /\ (r.resize.tag = "Ongoing" => r.last.resizing)
      BY <2>8, <1>11
    <3>3. r.resize.tag = "WaitingForLastCommit" => r.resize.serial \in 1 .. Len(sent) + 1
      BY <2>8, <3>1, <1>0
    <3>. QED  BY <2>1, <2>5, <3>2, <3>3 DEF ResizeIsUnderWay
  <2>15. TurnIsDone'
    <3>1. r.resize.tag = "Ongoing" <=> on
      BY <2>8, <1>11
    <3>. QED  BY <2>1, <2>8, <3>1, <1>0, <1>1, <1>9 DEF TurnIsDone
  <2>. QED  BY <2>11, <2>12, <2>13, <2>14, <2>15 DEF SettleInv
<1>17. CASE new = send /\ SendsNoFields(m, send[1], send[2])
  <2>1. PICK r : r = mapped'
    OBVIOUS
  <2>2. SendsNoFields(m, r, sent')
    BY <2>1, <1>9, <1>17
  <2>3. /\ ~m.needs_configure /\ ~r.needs_configure
        /\ r.last = m.last /\ r.pending = m.last /\ r.once = m.once
        /\ r.pending_wfs = m.pending_wfs /\ r.pending_max = m.pending_max
        /\ m.last.mode = m.pending.mode /\ m.last.resizing = on
        /\ m.once.tag # "UseWindowSize" => m.pending.size = m.last.size
        /\ r.resize = IF m.resize.tag = "WaitingForLastConfigure" THEN NotResizing ELSE m.resize
        /\ sent' = sent
    BY <2>2, <1>3 DEF SendsNoFields
  <2>4. told' = told /\ Newest' = Newest
    BY <2>3, <1>9 DEF Newest
  <2>5. m.last.size \in {told, OwnSize}
    BY <1>3 DEF SettleInv, LastIsNewest
  <2>6. PendingIsAsked'
    <3>1. CASE m.once.tag = "UseWindowSize"
      <4>1. r.pending.size \in Near /\ r.pending.size # WorkingSize /\ ~r.pending_max
        BY <3>1, <2>3, <2>5, <1>12, <1>13 DEF Near
      <4>. QED  BY <3>1, <4>1, <2>1, <2>3, <1>9, <1>14 DEF PendingIsAsked, Near
    <3>2. CASE m.once.tag # "UseWindowSize"
      BY <3>2, <2>1, <2>3, <1>9, <1>14 DEF PendingIsAsked, Near
    <3>. QED  BY <3>1, <3>2
  <2>7. LastIsNewest'
    BY <2>1, <2>3, <2>4, <1>3 DEF SettleInv, LastIsNewest
  <2>8. OnceIsUnderWay'
    BY <2>1, <2>3, <2>4, <1>3, <1>9 DEF SettleInv, OnceIsUnderWay, Near
  <2>9. ResizeIsUnderWay'
    <3>1. m.resize.tag = "WaitingForLastCommit" => m.resize.serial \in 1 .. Len(sent)
      BY <1>3 DEF SettleInv, ResizeIsUnderWay
    <3>. QED  BY <3>1, <2>1, <2>3, <1>11 DEF ResizeIsUnderWay, NotResizing
  <2>10. TurnIsDone'
    <3>1. r.resize.tag = "Ongoing" <=> on
      BY <2>3, <1>11 DEF NotResizing
    <3>. QED  BY <2>1, <2>3, <3>1, <1>0, <1>1, <1>9 DEF TurnIsDone
  <2>. QED  BY <2>6, <2>7, <2>8, <2>9, <2>10 DEF SettleInv
<1>18. CASE floating /\ new = <<m, sent>> /\ configure_intent(m) \notin {"CanSend", "ShouldSend"}
  <2>1. mapped' = m /\ sent' = sent /\ told' = told /\ Newest' = Newest
    BY <1>9, <1>18 DEF Newest
  <2>2. /\ ~m.needs_configure /\ m.pending.resizing = m.last.resizing
        /\ m.pending = m.last \/ committed.config.state.size # m.last.size
    <3>1. ~m.needs_configure
      BY <1>18 DEF configure_intent
    <3>2. m.pending = m.last \/ ([m.last EXCEPT !.size = m.pending.size] = m.pending
                                  /\ committed.config.state.size # m.last.size)
      BY <1>18 DEF configure_intent
    <3>3. [m.last EXCEPT !.size = m.pending.size].resizing = m.last.resizing
      BY <1>4 DEF ClientState
    <3>. QED  BY <3>1, <3>2, <3>3
  <2>3. m.pending = m.last \/ sent # <<>>
    BY <2>2, <1>3 DEF SettleInv, LastIsNewest, Newest
  <2>4. m.last.resizing = on
    BY <2>2, <1>3
  <2>5. m.resize.tag # "WaitingForLastConfigure"
    BY <2>4, <1>3 DEF SettleInv, ResizeIsUnderWay
  <2>6. PendingIsAsked'
    BY <2>1, <1>9, <1>14 DEF PendingIsAsked, Near
  <2>7. LastIsNewest'
    BY <2>1, <1>3 DEF SettleInv, LastIsNewest
  <2>8. OnceIsUnderWay'
    BY <2>1, <1>3, <1>9 DEF SettleInv, OnceIsUnderWay, Near
  <2>9. ResizeIsUnderWay'
    <3>1. m.resize.tag = "WaitingForLastCommit" => m.resize.serial \in 1 .. Len(sent)
      BY <1>3 DEF SettleInv, ResizeIsUnderWay
    <3>. QED  BY <3>1, <2>1, <2>4, <2>5, <1>11 DEF ResizeIsUnderWay
  <2>10. TurnIsDone'
    BY <2>1, <2>2, <2>3, <1>1, <1>9, <1>11, <1>18 DEF TurnIsDone
  <2>. QED  BY <2>6, <2>7, <2>8, <2>9, <2>10 DEF SettleInv
<1>. QED  BY <1>8, <1>10, <1>16, <1>17, <1>18


\* The client commits one of the configures it was sent, skipping those before.
LEMMA CommitSettles ==
    ASSUME ConfInv, SettleInv, NEW n \in DOMAIN sent, Commit(n)
    PROVE  SettleInv'
<1>0. mapped \in Mapped /\ sent \in Seq(Config) /\ Len(sent) \in Nat /\ n \in 1 .. Len(sent) /\ n \in Nat
  BY DEF ConfInv, ConfTypeOK
<1>1. PICK size \in {sent[n].state.size, OwnSize} : committed' = [config |-> sent[n], geometry |-> size]
  BY Zenon DEF Commit
<1>2. PICK r : r = on_commit(mapped, n) /\ mapped' = r
  BY DEF Commit
<1>3. /\ sent' = SubSeq(sent, n + 1, Len(sent)) /\ dirty' = TRUE
      /\ UNCHANGED <<floating, resizing, owed, asked, told>>
  BY DEF Commit
<1>4. /\ r.last = mapped.last /\ r.pending = mapped.pending /\ r.needs_configure = mapped.needs_configure
      /\ r.pending_wfs = mapped.pending_wfs /\ r.pending_max = mapped.pending_max
      /\ r.resize.tag = IF mapped.resize.tag = "WaitingForLastCommit" /\ n >= mapped.resize.serial
                        THEN "None" ELSE mapped.resize.tag
      /\ mapped.resize.serial > n => r.resize.serial = mapped.resize.serial - n
      /\ r.once.tag = IF mapped.once.tag = "WaitingForCommit" /\ n >= mapped.once.serial
                      THEN "UseWindowSize" ELSE mapped.once.tag
      /\ mapped.once.serial > n => r.once.serial = mapped.once.serial - n
  BY <1>0, <1>2, OnCommitFields
<1>5. /\ Len(sent') = Len(sent) - n
      /\ \A j \in 1 .. Len(sent) - n : sent'[j] = sent[n + j]
      /\ sent' = <<>> <=> n = Len(sent)
  <2>1. sent' \in Seq(Config) /\ Len(sent') = Len(sent) - n
    BY <1>0, <1>3
  <2>2. \A j \in 1 .. Len(sent) - n : sent'[j] = sent[n + j]
    BY <1>0, <1>3
  <2>3. sent' = <<>> <=> Len(sent') = 0
    BY <2>1, EmptySeq
  <2>. QED  BY <2>1, <2>2, <2>3, <1>0
<1>6. committed'.config = sent[n] /\ committed'.geometry = size
  BY <1>1
<1>7. Newest' = Newest
  <2>1. sent # <<>>
    BY <1>0
  <2>2. CASE n = Len(sent)
    BY <2>1, <2>2, <1>5, <1>6 DEF Newest
  <2>3. CASE n # Len(sent)
    <3>1. PICK k \in Nat : k = Len(sent)
      BY <1>0
    <3>2. k - n \in 1 .. k - n /\ n + (k - n) = k
      BY <2>3, <3>1, <1>0
    <3>. QED  BY <2>1, <2>3, <3>1, <3>2, <1>5 DEF Newest
  <2>. QED  BY <2>2, <2>3
<1>8. Near' = Near /\ asked' = asked /\ told' = told /\ floating' = floating
  BY <1>3 DEF Near
<1>9. PendingIsAsked'
  <2>1. /\ r.once.tag = "None" <=> mapped.once.tag = "None"
        /\ r.once.tag # "UseWindowSize" => mapped.once.tag # "UseWindowSize"
    BY <1>4
  <2>. QED  BY <2>1, <1>2, <1>4, <1>8 DEF SettleInv, PendingIsAsked
<1>10. LastIsNewest'
  BY <1>2, <1>4, <1>7, <1>8 DEF SettleInv, LastIsNewest
<1>11. \A j \in 1 .. Len(sent') : n + j \in 1 .. Len(sent) /\ sent'[j] = sent[n + j]
  BY <1>0, <1>5
<1>12. OnceIsUnderWay'
  <2>1. mapped.once.serial \in Nat
    BY <1>0 DEF Mapped, Once
  <2>2. r.once.tag = "WaitingForCommit" =>
           /\ r.once.serial \in 1 .. Len(sent') /\ told = asked
           /\ \A j \in 1 .. Len(sent') : j >= r.once.serial => sent'[j].state.size \in Near
    <3>1. SUFFICES ASSUME mapped.once.tag = "WaitingForCommit", mapped.once.serial > n
                   PROVE  /\ r.once.serial \in 1 .. Len(sent') /\ told = asked
                          /\ \A j \in 1 .. Len(sent') : j >= r.once.serial => sent'[j].state.size \in Near
      BY <2>1, <1>0, <1>4
    <3>2. /\ mapped.once.serial \in 1 .. Len(sent) /\ told = asked
          /\ \A j \in 1 .. Len(sent) : j >= mapped.once.serial => sent[j].state.size \in Near
      BY <3>1 DEF SettleInv, OnceIsUnderWay
    <3>3. r.once.serial = mapped.once.serial - n /\ r.once.serial \in 1 .. Len(sent')
      BY <3>1, <3>2, <1>0, <1>4, <1>5
    <3>4. \A j \in 1 .. Len(sent') : j >= r.once.serial => n + j >= mapped.once.serial
      BY <3>3, <2>1, <1>0
    <3>. QED  BY <3>2, <3>3, <3>4, <1>11
  <2>3. r.once.tag = "UseWindowSize" =>
           /\ told = asked /\ size \in Near
           /\ \A j \in 1 .. Len(sent') : sent'[j].state.size \in Near
    <3>1. CASE mapped.once.tag = "WaitingForCommit" /\ n >= mapped.once.serial
      <4>1. /\ told = asked
            /\ \A j \in 1 .. Len(sent) : j >= mapped.once.serial => sent[j].state.size \in Near
        BY <3>1 DEF SettleInv, OnceIsUnderWay
      <4>2. sent[n].state.size \in Near /\ size \in Near
        BY <3>1, <4>1, <1>0, <1>1 DEF Near
      <4>3. \A j \in 1 .. Len(sent') : n + j >= mapped.once.serial
        BY <3>1, <2>1, <1>0
      <4>. QED  BY <4>1, <4>2, <4>3, <1>11
    <3>2. CASE mapped.once.tag = "UseWindowSize"
      <4>1. told = asked /\ \A j \in 1 .. Len(sent) : sent[j].state.size \in Near
        BY <3>2 DEF SettleInv, OnceIsUnderWay
      <4>2. size \in Near
        BY <4>1, <1>0, <1>1 DEF Near
      <4>. QED  BY <4>1, <4>2, <1>11
    <3>. QED  BY <3>1, <3>2, <1>4
  <2>. QED  BY <2>2, <2>3, <1>2, <1>6, <1>8 DEF OnceIsUnderWay
<1>13. ResizeIsUnderWay'
  <2>1. mapped.resize.serial \in Nat
    BY <1>0 DEF Mapped, Resizing
  <2>2. /\ mapped.resize.tag # "WaitingForLastConfigure"
        /\ mapped.resize.tag = "Ongoing" => mapped.last.resizing
        /\ mapped.resize.tag = "WaitingForLastCommit" => mapped.resize.serial \in 1 .. Len(sent)
    BY DEF SettleInv, ResizeIsUnderWay
  <2>3. r.resize.tag = "WaitingForLastCommit" => r.resize.serial \in 1 .. Len(sent')
    <3>1. SUFFICES ASSUME mapped.resize.tag = "WaitingForLastCommit", mapped.resize.serial > n
                   PROVE  r.resize.serial \in 1 .. Len(sent')
      BY <2>1, <1>0, <1>4
    <3>. QED  BY <3>1, <2>1, <2>2, <1>0, <1>4, <1>5
  <2>4. r.resize.tag # "WaitingForLastConfigure" /\ (r.resize.tag = "Ongoing" => r.last.resizing)
    BY <2>2, <1>4
  <2>. QED  BY <2>3, <2>4, <1>2 DEF ResizeIsUnderWay
<1>14. TurnIsDone'
  BY <1>3 DEF TurnIsDone
<1>. QED  BY <1>9, <1>10, <1>12, <1>13, <1>14 DEF SettleInv

LEMMA SettleNext ==
    ASSUME ~AsksBack, DistinctSizes, ConfInv, SettleInv, [ConfNext]_confVars
    PROVE  SettleInv'
<1>1. CASE UNCHANGED confVars
  <2>1. UNCHANGED <<mapped, sent, committed, floating, resizing, dirty, asked, told>>
    BY <1>1 DEF confVars
  <2>. QED  BY <2>1 DEF SettleInv, PendingIsAsked, LastIsNewest, OnceIsUnderWay, ResizeIsUnderWay, TurnIsDone,
                        Near, Newest
<1>2. ASSUME NEW mode \in SizingMode, AskTiled(mode) PROVE SettleInv'
  BY <1>2, AskTiledSettles
<1>3. ASSUME NEW size \in FloatSize, AskFloating(size) PROVE SettleInv'
  BY <1>3, AskFloatingSettles
<1>4. CASE ToggleWindowedFullscreen \/ Resize \/ Request
  BY <1>4, OtherCallSettles
<1>5. CASE Refresh
  BY <1>5, RefreshSettles
<1>6. ASSUME NEW n \in DOMAIN sent, Commit(n) PROVE SettleInv'
  BY <1>6, CommitSettles
<1>. QED  BY <1>1, <1>2, <1>3, <1>4, <1>5, <1>6 DEF ConfNext

\* When the client has committed all it was sent and the turn is over, the layout's requests have
\* become what holds, whatever was asked, resized, skipped and throttled on the way.
THEOREM SettleSafety ==
    ASSUME ~AsksBack, DistinctSizes
    PROVE  ConfSpec => []Settled
<1>1. ASSUME ConfInv, SettleInv PROVE Settled
  <2>. SUFFICES ASSUME ~dirty, sent = <<>>
                PROVE  /\ mapped.wfs = mapped.pending_wfs /\ mapped.max = mapped.pending_max
                       /\ mapped.pending = mapped.last
                       /\ mapped.resize.tag = IF floating /\ resizing THEN "Ongoing" ELSE "None"
                       /\ mapped.once.tag \in IF floating THEN {"UseWindowSize", "WaitingForConfigure"} ELSE {"None"}
                       /\ told = asked
    BY DEF Settled
  <2>1. /\ mapped.wfs \in BOOLEAN /\ mapped.max \in BOOLEAN
        /\ mapped.pending_wfs \in BOOLEAN /\ mapped.pending_max \in BOOLEAN
        /\ mapped.once.tag \in {"None", "WaitingForConfigure", "WaitingForCommit", "UseWindowSize"}
        /\ mapped.resize.tag \in {"None", "Ongoing", "WaitingForLastConfigure", "WaitingForLastCommit"}
    BY <1>1 DEF ConfInv, ConfTypeOK, Mapped, Once, Resizing
  <2>2. /\ ~mapped.needs_configure /\ mapped.pending = mapped.last
        /\ mapped.resize.tag = "Ongoing" <=> floating /\ resizing
    BY <1>1 DEF SettleInv, TurnIsDone
  <2>3. Newest = committed.config /\ mapped.wfs = Newest.wfs /\ mapped.max = Newest.max
    BY <1>1 DEF ConfInv, ViewFollowsCommits, Newest
  <2>4. mapped.wfs = mapped.pending_wfs
    BY <1>1, <2>1, <2>2, <2>3 DEF SettleInv, PendingIsAsked, LastIsNewest
  <2>5. mapped.max = mapped.pending_max
    BY <1>1, <2>1, <2>2, <2>3 DEF SettleInv, PendingIsAsked, LastIsNewest
  <2>6. ~(\E k \in Nat : k \in 1 .. Len(sent))
    OBVIOUS
  <2>7. mapped.resize.tag = IF floating /\ resizing THEN "Ongoing" ELSE "None"
    <3>1. mapped.resize.tag # "WaitingForLastCommit" /\ mapped.resize.tag # "WaitingForLastConfigure"
      BY <1>1, <2>6 DEF SettleInv, ResizeIsUnderWay
    <3>. QED  BY <3>1, <2>1, <2>2
  <2>8. mapped.once.tag \in IF floating THEN {"UseWindowSize", "WaitingForConfigure"} ELSE {"None"}
    <3>1. mapped.once.tag # "WaitingForCommit"
      BY <1>1, <2>6 DEF SettleInv, OnceIsUnderWay
    <3>. QED  BY <1>1, <3>1, <2>1 DEF SettleInv, PendingIsAsked
  <2>9. told = asked
    <3>1. CASE mapped.once.tag = "UseWindowSize"
      BY <1>1, <3>1 DEF SettleInv, OnceIsUnderWay
    <3>2. CASE mapped.once.tag # "UseWindowSize"
      <4>1. mapped.last.size = asked
        BY <1>1, <3>2, <2>2 DEF SettleInv, PendingIsAsked
      <4>2. asked # OwnSize
        BY <1>1 DEF SettleInv, PendingIsAsked, DistinctSizes
      <4>. QED  BY <1>1, <4>1, <4>2 DEF SettleInv, LastIsNewest
    <3>. QED  BY <3>1, <3>2
  <2>. QED  BY <2>2, <2>4, <2>5, <2>7, <2>8, <2>9
<1>2. DistinctSizes /\ ~AsksBack
  OBVIOUS
<1>3. ConfInit => ConfInv /\ SettleInv
  BY <1>2, ConfInitInv, SettleInit
<1>4. (ConfInv /\ SettleInv) /\ [ConfNext]_confVars => (ConfInv /\ SettleInv)'
  BY <1>2, ConfNextInv, SettleNext
<1>. QED  BY <1>1, <1>3, <1>4, PTL DEF ConfSpec
=============================================================================
