---------------------------- MODULE HandlesProofs ----------------------------
(***************************************************************************)
(* Proof that bars and panels are shown the truth (Handles.tla), for a     *)
(* desktop that is well arranged, as MirrorProofs shows that it is.        *)
(***************************************************************************)
EXTENDS MirrorProofs

(***************************************************************************)
(* The two protocols.  What was last sent names each workspace by its id,  *)
(* or by its index when it has none; a bar has a handle, or a destroyed    *)
(* one, of each workspace that was sent, and in each group the workspaces  *)
(* of its output with a handle; a panel's handles are of windows that were *)
(* sent, of which at most one is activated.                                *)
(***************************************************************************)
WellNamed(r) == r.name = IF r.id = Nil THEN r.coordinates ELSE r.id

SentWell(ws, place) ==
    /\ ws = [s \in DOMAIN ws |-> ws[s]] /\ place = [s \in DOMAIN ws |-> place[s]]
    /\ \A s \in DOMAIN ws : WellNamed(ws[s])

IsBar(b) == b = [ws |-> b.ws, groups |-> b.groups, shown |-> b.shown]

BarFits(b, ws, place, groups) ==
    /\ IsBar(b)
    /\ b.ws = [s \in DOMAIN ws |-> b.ws[s]]
    /\ \A s \in DOMAIN ws : b.ws[s] \in {<<>>, <<ws[s]>>}
    /\ b.groups = [o \in groups |-> b.groups[o]]
    /\ \A o \in groups :
          /\ b.groups[o] \subseteq DOMAIN ws
          /\ \A s \in DOMAIN ws : s \in b.groups[o] <=> place[s] = o /\ b.ws[s] # <<>>

ExtIsTrue(ws, place, d, W) ==
    \A s \in W : s \in DOMAIN ws /\ ws[s] = ExtWorkspace(d, s) /\ place[s] = OutputOf(d, s)

PanelFits(view, data) ==
    /\ view = [w \in DOMAIN view |-> view[w]] /\ DOMAIN view \subseteq DOMAIN data
    /\ \A w \in DOMAIN view : view[w] \in {<<>>, <<data[w]>>}

OneOf(data) == \A v, w \in DOMAIN data : data[v].activated /\ data[w].activated => v = w

BarInv ==
    /\ ext = [ws |-> ext.ws, output |-> ext.output, groups |-> ext.groups]
    /\ SentWell(ext.ws, ext.output)
    /\ actions # Nil => /\ BarFits(bar, ext.ws, ext.output, ext.groups)
                        /\ bar.shown = [ws |-> bar.ws, groups |-> bar.groups]

PanelInv ==
    /\ panel = [view |-> panel.view, most |-> panel.most] /\ panel.most \in {0, 1}
    /\ toplevels = [w \in DOMAIN toplevels |-> toplevels[w]] /\ OneOf(toplevels)
    /\ PanelFits(panel.view, toplevels)
    /\ managed = "bound" => DOMAIN panel.view = DOMAIN toplevels

SentIsTrue ==
    /\ DOMAIN ext.ws = Workspaces(desk) /\ ExtIsTrue(ext.ws, ext.output, desk, Workspaces(desk))
    /\ ext.groups = Connected(desk)
    /\ DOMAIN toplevels = DOMAIN desk.win
    /\ \A w \in DOMAIN desk.win : toplevels[w] = Toplevel(desk, w)

HandlesInv == BarInv /\ PanelInv /\ (~dirty => SentIsTrue)

\* What holds at first and after each step holds all along.
LEMMA Reaches ==
    ASSUME NEW n \in Nat, NEW G, 0 \in G, \A i \in 1 .. n : i - 1 \in G => i \in G
    PROVE  \A i \in 0 .. n : i \in G
<1>1. PICK bad : bad = {i \in 0 .. n : i \notin G}
  OBVIOUS
<1>2. CASE bad = {}
  BY <1>1, <1>2
<1>3. CASE bad # {}
  <2>0. bad \subseteq Nat
    BY <1>1
  <2>1. PICK k \in bad : \A i \in bad : k <= i
    BY <1>3, <2>0, LeastNatural
  <2>2. k \in 1 .. n /\ k \notin G
    BY <1>1, <2>1
  <2>3. k - 1 \in 0 .. n /\ k - 1 \in G
    BY <1>1, <2>1, <2>2
  <2>. QED  BY <2>2, <2>3
<1>. QED  BY <1>2, <1>3

\* The loops of the two refreshes.

AreRefreshed(after, kind, acc, d, q, n) ==
    after = [i \in 0 .. n |-> IF i = 0 THEN acc ELSE RefreshOne(kind, after[i - 1], d, q[i])]

LEMMA RefreshedExist ==
    ASSUME NEW m \in Nat, NEW kind, NEW acc, NEW d, NEW q
    PROVE  \E after : AreRefreshed(after, kind, acc, d, q, m)
<1>1. PICK bad : bad = {i \in Nat : ~\E after : AreRefreshed(after, kind, acc, d, q, i)}
  OBVIOUS
<1>2. CASE bad = {}
  BY <1>1, <1>2
<1>3. CASE bad # {}
  <2>1. PICK n \in bad : \A i \in bad : n <= i
    BY <1>1, <1>3, LeastNatural
  <2>2. n \in Nat /\ ~\E after : AreRefreshed(after, kind, acc, d, q, n)
    BY <1>1, <2>1
  <2>3. CASE n = 0
    <3>1. PICK after : after = [i \in 0 .. n |-> acc]
      OBVIOUS
    <3>2. after = [i \in 0 .. n |-> IF i = 0 THEN acc ELSE RefreshOne(kind, after[i - 1], d, q[i])]
      BY <2>3, <3>1
    <3>. QED  BY <2>2, <3>2 DEF AreRefreshed
  <2>4. CASE n # 0
    <3>1. n - 1 \in Nat /\ n - 1 \notin bad
      BY <2>1, <2>2, <2>4
    <3>2. PICK before : AreRefreshed(before, kind, acc, d, q, n - 1)
      BY <1>1, <3>1
    <3>3. PICK last : last = RefreshOne(kind, before[n - 1], d, q[n])
      OBVIOUS
    <3>4. PICK after : after = [i \in 0 .. n |-> IF i = n THEN last ELSE before[i]]
      OBVIOUS
    <3>5. ASSUME NEW i \in 0 .. n
          PROVE  after[i] = IF i = 0 THEN acc ELSE RefreshOne(kind, after[i - 1], d, q[i])
      <4>0. before = [j \in 0 .. n - 1 |-> IF j = 0 THEN acc ELSE RefreshOne(kind, before[j - 1], d, q[j])]
        BY <3>2 DEF AreRefreshed
      <4>1. CASE i = 0
        <5>1. after[i] = before[i] /\ i \in 0 .. n - 1
          BY <2>2, <2>4, <3>4, <4>1
        <5>. QED  BY <4>0, <4>1, <5>1
      <4>2. CASE i = n
        <5>1. i - 1 \in 0 .. n /\ i - 1 # n
          BY <2>2, <2>4, <4>2
        <5>2. after[i - 1] = before[n - 1] /\ after[i] = last
          BY <3>4, <4>2, <5>1
        <5>. QED  BY <2>4, <3>3, <4>2, <5>2
      <4>3. CASE i # 0 /\ i # n
        <5>1. i \in 0 .. n - 1 /\ i - 1 \in 0 .. n /\ i - 1 # n
          BY <2>2, <4>3
        <5>2. after[i - 1] = before[i - 1] /\ after[i] = before[i]
          BY <3>4, <4>3, <5>1
        <5>3. before[i] = RefreshOne(kind, before[i - 1], d, q[i])
          BY <4>0, <4>3, <5>1
        <5>. QED  BY <4>3, <5>2, <5>3
      <4>. QED  BY <4>1, <4>2, <4>3
    <3>6. after = [i \in 0 .. n |-> after[i]]
      BY <3>4
    <3>7. AreRefreshed(after, kind, acc, d, q, n)
      BY <3>5, <3>6 DEF AreRefreshed
    <3>. QED  BY <2>2, <3>7
  <2>. QED  BY <2>3, <2>4
<1>. QED  BY <1>2, <1>3

Refreshes(after, kind, acc, d, q, n, last) ==
    /\ after[0] = acc /\ last = after[n]
    /\ \A i \in 1 .. n : after[i] = RefreshOne(kind, after[i - 1], d, q[i])

LEMMA RefreshedAre ==
    ASSUME NEW kind, NEW acc, NEW d, NEW q, NEW n \in Nat, n = Len(q)
    PROVE  \E after : Refreshes(after, kind, acc, d, q, n, RefreshAll(kind, acc, d, q))
<1>1. PICK after : after = CHOOSE f : f = [i \in 0 .. n |->
                               IF i = 0 THEN acc ELSE RefreshOne(kind, f[i - 1], d, q[i])]
  OBVIOUS
<1>2. AreRefreshed(after, kind, acc, d, q, n)
  <2>1. PICK some : AreRefreshed(some, kind, acc, d, q, n)
    BY RefreshedExist
  <2>2. some = [i \in 0 .. n |-> IF i = 0 THEN acc ELSE RefreshOne(kind, some[i - 1], d, q[i])]
    BY <2>1 DEF AreRefreshed
  <2>. QED  BY <1>1, <2>2, Zenon DEF AreRefreshed
<1>3. RefreshAll(kind, acc, d, q) = after[n]
  BY <1>1, Zenon DEF RefreshAll
<1>4. after[0] = acc /\ \A i \in 1 .. n : after[i] = RefreshOne(kind, after[i - 1], d, q[i])
  <2>1. after = [i \in 0 .. n |-> IF i = 0 THEN acc ELSE RefreshOne(kind, after[i - 1], d, q[i])]
    BY <1>2 DEF AreRefreshed
  <2>. QED  BY <2>1
<1>5. Refreshes(after, kind, acc, d, q, n, RefreshAll(kind, acc, d, q))
  BY <1>3, <1>4, Zenon DEF Refreshes
<1>. QED  BY <1>5

\* Of the handles a panel has, one at most is of the activated window.
LEMMA OneIsActivated ==
    ASSUME NEW view, NEW data, PanelFits(view, data), OneOf(data)
    PROVE  Cardinality(Activated(view)) \in {0, 1}
<1>1. \A v \in Activated(view) : v \in DOMAIN data /\ data[v].activated
  <2>1. ASSUME NEW v \in Activated(view)
        PROVE  v \in DOMAIN data /\ data[v].activated
    <3>1. v \in DOMAIN view /\ view[v] # <<>> /\ view[v][1].activated
      BY Zenon DEF Activated
    <3>2. v \in DOMAIN data /\ view[v] \in {<<>>, <<data[v]>>}
      BY <3>1 DEF PanelFits
    <3>3. view[v] = <<data[v]>>
      BY <3>1, <3>2
    <3>4. view[v][1] = data[v]
      BY <3>3
    <3>. QED  BY <3>1, <3>2, <3>4
  <2>. QED  BY <2>1
<1>2. CASE Activated(view) = {}
  BY <1>2, FS_EmptySet
<1>3. CASE Activated(view) # {}
  <2>1. PICK v : v \in Activated(view)
    BY <1>3
  <2>2. \A w \in Activated(view) : w = v
    BY <1>1, <2>1, Zenon DEF OneOf
  <2>3. Activated(view) = {v}
    BY <2>1, <2>2
  <2>. QED  BY <2>3, FS_Singleton
<1>. QED  BY <1>2, <1>3

\* What there is once the windows of D have been looked at.
PanelAt(acc, d, D) ==
    /\ acc.most \in {0, 1}
    /\ acc.data = [w \in DOMAIN acc.data |-> acc.data[w]] /\ OneOf(acc.data)
    /\ DOMAIN acc.data \subseteq DOMAIN d.win
    /\ \A w \in D : w \in DOMAIN acc.data /\ acc.data[w] = Toplevel(d, w)
    /\ PanelFits(acc.view, acc.data)
    /\ managed = "bound" => DOMAIN acc.view = DOMAIN acc.data

\* A window that is not focused is looked at before the one that is, if any.
LEMMA ToplevelTold ==
    ASSUME NEW acc, NEW d, NEW D, PanelAt(acc, d, D), NEW w \in DOMAIN d.win,
           d.focus = w => DOMAIN d.win \ {w} \subseteq D,
           NEW r, r = RefreshToplevel(acc, d, w)
    PROVE  PanelAt(r, d, D \cup {w})
<1>1. PICK top : top = Toplevel(d, w)
  OBVIOUS
<1>2. PICK view : view = IF w \in DOMAIN acc.data
                         THEN IF Alive(acc.view, w) THEN [acc.view EXCEPT ![w] = <<top>>] ELSE acc.view
                         ELSE IF managed = "bound" THEN Inserted(acc.view, w, <<top>>) ELSE acc.view
  OBVIOUS
<1>3. PICK n : n = Cardinality(Activated(view))
  OBVIOUS
<1>4. r = [data |-> Inserted(acc.data, w, top), view |-> view, most |-> IF n > acc.most THEN n ELSE acc.most]
  BY <1>1, <1>2, <1>3, Zenon DEF RefreshToplevel
<1>5. r.data = Inserted(acc.data, w, top) /\ r.view = view /\ r.most = IF n > acc.most THEN n ELSE acc.most
  BY <1>4
<1>6. PICK a, b, v : a = acc.data /\ b = r.data /\ v = acc.view
  OBVIOUS
<1>7. /\ DOMAIN b = DOMAIN a \cup {w} /\ b[w] = top
      /\ \A x \in DOMAIN a : x # w => b[x] = a[x]
      /\ b = [x \in DOMAIN b |-> b[x]]
  BY <1>5, <1>6 DEF Inserted
<1>8. top.activated <=> d.focus = w
  BY <1>1 DEF Toplevel
<1>9. DOMAIN a \subseteq DOMAIN d.win /\ \A x \in D : x \in DOMAIN a /\ a[x] = Toplevel(d, x)
  BY <1>6 DEF PanelAt
<1>10. OneOf(b)
  <2>1. OneOf(a)
    BY <1>6 DEF PanelAt
  <2>2. ASSUME NEW x \in DOMAIN b, x # w, d.focus = w
        PROVE  ~b[x].activated
    <3>1. x \in D /\ x \in DOMAIN a
      BY <1>7, <1>9, <2>2
    <3>2. b[x] = Toplevel(d, x)
      BY <1>7, <1>9, <2>2, <3>1
    <3>3. PICK t : t = Toplevel(d, x)
      OBVIOUS
    <3>4. t.activated <=> d.focus = x
      BY <3>3 DEF Toplevel
    <3>. QED  BY <2>2, <3>2, <3>3, <3>4
  <2>3. ASSUME NEW x \in DOMAIN b, NEW y \in DOMAIN b, b[x].activated, b[y].activated
        PROVE  x = y
    <3>1. CASE d.focus = w
      BY <2>2, <2>3, <3>1
    <3>2. CASE d.focus # w
      <4>1. x # w /\ y # w
        BY <1>7, <1>8, <2>3, <3>2
      <4>2. x \in DOMAIN a /\ y \in DOMAIN a /\ a[x].activated /\ a[y].activated
        BY <1>7, <2>3, <4>1
      <4>. QED  BY <2>1, <4>2 DEF OneOf
    <3>. QED  BY <3>1, <3>2
  <2>. QED  BY <2>3 DEF OneOf
<1>11. PanelFits(view, b) /\ (managed = "bound" => DOMAIN view = DOMAIN b)
  <2>1. /\ v = [x \in DOMAIN v |-> v[x]] /\ DOMAIN v \subseteq DOMAIN a
        /\ \A x \in DOMAIN v : v[x] \in {<<>>, <<a[x]>>}
        /\ managed = "bound" => DOMAIN v = DOMAIN a
    BY <1>6 DEF PanelAt, PanelFits
  <2>2. CASE w \in DOMAIN a
    <3>1. CASE Alive(v, w)
      <4>1. w \in DOMAIN v
        BY <3>1 DEF Alive
      <4>2. view = [v EXCEPT ![w] = <<top>>]
        BY <1>2, <1>6, <2>2, <3>1
      <4>3. DOMAIN view = DOMAIN v /\ view = [x \in DOMAIN view |-> view[x]]
        BY <2>1, <4>2
      <4>4. ASSUME NEW x \in DOMAIN view PROVE view[x] \in {<<>>, <<b[x]>>}
        <5>1. CASE x = w
          BY <1>7, <2>1, <4>1, <4>2, <5>1
        <5>2. CASE x # w
          BY <1>7, <2>1, <4>2, <4>3, <5>2
        <5>. QED  BY <5>1, <5>2
      <4>. QED  BY <1>7, <2>1, <2>2, <4>3, <4>4 DEF PanelFits
    <3>2. CASE ~Alive(v, w)
      <4>1. view = v
        BY <1>2, <1>6, <2>2, <3>2
      <4>2. ASSUME NEW x \in DOMAIN view PROVE view[x] \in {<<>>, <<b[x]>>}
        <5>1. CASE x = w
          BY <3>2, <4>1, <4>2, <5>1 DEF Alive
        <5>2. CASE x # w
          BY <1>7, <2>1, <4>1, <4>2, <5>2
        <5>. QED  BY <5>1, <5>2
      <4>. QED  BY <1>7, <2>1, <2>2, <4>1, <4>2 DEF PanelFits
    <3>. QED  BY <3>1, <3>2
  <2>3. CASE w \notin DOMAIN a /\ managed = "bound"
    <3>1. view = Inserted(v, w, <<top>>)
      BY <1>2, <1>6, <2>3
    <3>2. /\ DOMAIN view = DOMAIN v \cup {w} /\ view[w] = <<top>>
          /\ \A x \in DOMAIN v : x # w => view[x] = v[x]
          /\ view = [x \in DOMAIN view |-> view[x]]
      BY <3>1 DEF Inserted
    <3>3. ASSUME NEW x \in DOMAIN view PROVE view[x] \in {<<>>, <<b[x]>>}
      <4>1. CASE x = w
        BY <1>7, <3>2, <4>1
      <4>2. CASE x # w
        BY <1>7, <2>1, <3>2, <4>2
      <4>. QED  BY <4>1, <4>2
    <3>. QED  BY <1>7, <2>1, <2>3, <3>2, <3>3 DEF PanelFits
  <2>4. CASE w \notin DOMAIN a /\ managed # "bound"
    <3>1. view = v
      BY <1>2, <1>6, <2>4
    <3>2. ASSUME NEW x \in DOMAIN view PROVE view[x] \in {<<>>, <<b[x]>>}
      BY <1>7, <2>1, <2>4, <3>1
    <3>. QED  BY <1>7, <2>1, <2>4, <3>1, <3>2 DEF PanelFits
  <2>. QED  BY <2>2, <2>3, <2>4
<1>12. n \in {0, 1}
  BY <1>3, <1>10, <1>11, OneIsActivated
<1>13. r.most \in {0, 1}
  BY <1>5, <1>12 DEF PanelAt
<1>14. \A x \in D \cup {w} : x \in DOMAIN b /\ b[x] = Toplevel(d, x)
  BY <1>1, <1>7, <1>9
<1>15. DOMAIN b \subseteq DOMAIN d.win
  BY <1>7, <1>9
<1>. QED  BY <1>5, <1>6, <1>7, <1>10, <1>11, <1>13, <1>14, <1>15 DEF PanelAt

\* The windows are looked at once each, and the focused one last.
LooksAt(q, n, W, f) ==
    /\ n = Len(q)
    /\ \A i \in 1 .. n : q[i] \in W
    /\ \A w \in W : \E i \in 1 .. n : q[i] = w
    /\ \A i \in 1 .. n, w \in W : q[i] = f /\ w # f => \E j \in 1 .. i - 1 : q[j] = w

LEMMA FocusedComesLast ==
    ASSUME NEW d, IsDesk(d)
    PROVE  \E n \in Nat : LooksAt(FocusedLast(d), n, DOMAIN d.win, d.focus)
<1>1. PICK W, f : W = DOMAIN d.win /\ f = d.focus
  OBVIOUS
<1>2. W \subseteq Window /\ f \in W \cup {Nil} /\ Nil \notin W
  BY <1>1, DesktopAssumption DEF IsDesk
<1>3. IsFiniteSet(W \ {f})
  <2>1. IsFiniteSet(Window)
    BY DesktopAssumption
  <2>2. W \ {f} \subseteq Window
    BY <1>2
  <2>. QED  BY <2>1, <2>2, FS_Subset
<1>4. PICK m \in Nat : Lists(SetToSeq(W \ {f}), m, W \ {f})
  BY <1>3, SeqOfSet
<1>5. PICK p : p = SetToSeq(W \ {f})
  OBVIOUS
<1>6. /\ p \in [1 .. m -> W \ {f}]
      /\ \A e \in W \ {f} : \E i \in 1 .. m : p[i] = e
  BY <1>4, <1>5 DEF Lists
<1>7. p \in Seq(W) /\ Len(p) = m
  <2>1. p \in [1 .. m -> W]
    BY <1>6
  <2>. QED  BY <2>1
<1>8. PICK q : q = FocusedLast(d)
  OBVIOUS
<1>9. q = p \o (IF f = Nil THEN <<>> ELSE <<f>>)
  BY <1>1, <1>5, <1>8 DEF FocusedLast
<1>10. CASE f = Nil
  <2>1. q = p
    BY <1>7, <1>9, <1>10
  <2>2. \A i \in 1 .. m : q[i] \in W /\ q[i] # f
    BY <1>6, <2>1
  <2>3. \A w \in W : \E i \in 1 .. m : q[i] = w
    BY <1>2, <1>6, <1>10, <2>1
  <2>4. m = Len(q)
    BY <1>7, <2>1
  <2>5. LooksAt(q, m, W, f)
    BY <2>2, <2>3, <2>4 DEF LooksAt
  <2>. QED  BY <1>1, <1>8, <2>5
<1>11. CASE f # Nil
  <2>1. q = p \o <<f>> /\ f \in W
    BY <1>2, <1>9, <1>11
  <2>2. PICK n : n = m + 1
    OBVIOUS
  <2>3. n \in Nat /\ n = Len(q) /\ q[n] = f /\ \A i \in 1 .. m : q[i] = p[i]
    BY <1>7, <2>1, <2>2
  <2>4. \A i \in 1 .. n : q[i] \in W
    BY <1>6, <2>1, <2>2, <2>3
  <2>5. \A w \in W \ {f} : \E j \in 1 .. m : q[j] = w
    BY <1>6, <2>3
  <2>6. \A w \in W : \E i \in 1 .. n : q[i] = w
    <3>1. n \in 1 .. n /\ \A j \in 1 .. m : j \in 1 .. n
      BY <2>2, <2>3
    <3>2. ASSUME NEW w \in W
          PROVE  \E i \in 1 .. n : q[i] = w
      BY <2>3, <2>5, <3>1
    <3>. QED  BY <3>2
  <2>7. ASSUME NEW i \in 1 .. n, NEW w \in W, q[i] = f, w # f
        PROVE  \E j \in 1 .. i - 1 : q[j] = w
    <3>1. i \notin 1 .. m
      <4>1. i \in 1 .. m => q[i] = p[i] /\ p[i] # f
        BY <1>6, <2>3
      <4>. QED  BY <2>7, <4>1
    <3>2. i - 1 = m
      BY <2>2, <2>3, <3>1
    <3>3. \E j \in 1 .. m : q[j] = w
      BY <2>5, <2>7
    <3>. QED  BY <3>2, <3>3
  <2>8. \A i \in 1 .. n, w \in W : q[i] = f /\ w # f => \E j \in 1 .. i - 1 : q[j] = w
    BY <2>7
  <2>9. LooksAt(q, n, W, f)
    BY <2>3, <2>4, <2>6, <2>8, Zenon DEF LooksAt
  <2>. QED  BY <1>1, <1>8, <2>3, <2>9
<1>. QED  BY <1>10, <1>11

\* A panel is told of all windows, and of no two at once that they are activated.
LEMMA PanelRefreshed ==
    ASSUME PanelInv, IsDesk(desk), NEW r, r = ToplevelsRefreshed(desk)
    PROVE  PanelAt(r, desk, DOMAIN desk.win)
<1>1. PICK d, closed, start :
        /\ d = desk /\ closed = DOMAIN toplevels \ DOMAIN d.win
        /\ start = [data |-> Without(toplevels, closed), view |-> Without(panel.view, closed), most |-> 0]
  OBVIOUS
<1>2. PICK q : q = FocusedLast(d)
  OBVIOUS
<1>3. r = RefreshAll("toplevel", start, d, q)
  BY <1>1, <1>2, Zenon DEF ToplevelsRefreshed
<1>0. PICK n \in Nat : LooksAt(q, n, DOMAIN d.win, d.focus)
  BY <1>1, <1>2, FocusedComesLast
<1>4. /\ n = Len(q)
      /\ \A i \in 1 .. n : q[i] \in DOMAIN d.win
      /\ \A w \in DOMAIN d.win : \E i \in 1 .. n : q[i] = w
      /\ \A i \in 1 .. n, w \in DOMAIN d.win :
            q[i] = d.focus /\ w # d.focus => \E j \in 1 .. i - 1 : q[j] = w
  BY <1>0, Zenon DEF LooksAt
<1>5. PICK after : /\ after[0] = start /\ r = after[n]
                   /\ \A i \in 1 .. n : after[i] = RefreshOne("toplevel", after[i - 1], d, q[i])
  <2>1. \E after : Refreshes(after, "toplevel", start, d, q, n, r)
    BY <1>3, <1>4, RefreshedAre
  <2>. QED  BY <2>1, Zenon DEF Refreshes
<1>6. PICK G : G = {i \in 0 .. n : PanelAt(after[i], d, {q[j] : j \in 1 .. i})}
  OBVIOUS
<1>7. 0 \in G
  <2>1. PICK a, v : a = Without(toplevels, closed) /\ v = Without(panel.view, closed)
    OBVIOUS
  <2>2. start.data = a /\ start.view = v /\ start.most = 0
    BY <1>1, <2>1
  <2>3. /\ DOMAIN a = DOMAIN toplevels \ closed /\ \A w \in DOMAIN a : a[w] = toplevels[w]
        /\ a = [w \in DOMAIN a |-> a[w]]
    BY <2>1 DEF Without
  <2>4. /\ DOMAIN v = DOMAIN panel.view \ closed /\ \A w \in DOMAIN v : v[w] = panel.view[w]
        /\ v = [w \in DOMAIN v |-> v[w]]
    BY <2>1 DEF Without
  <2>5. DOMAIN a \subseteq DOMAIN d.win
    BY <1>1, <2>3
  <2>6. OneOf(a)
    BY <2>3 DEF PanelInv, OneOf
  <2>7. PanelFits(v, a) /\ (managed = "bound" => DOMAIN v = DOMAIN a)
    BY <2>3, <2>4 DEF PanelInv, PanelFits
  <2>8. {q[j] : j \in 1 .. 0} = {}
    OBVIOUS
  <2>9. PanelAt(after[0], d, {q[j] : j \in 1 .. 0})
    BY <1>5, <2>2, <2>3, <2>5, <2>6, <2>7, <2>8 DEF PanelAt
  <2>. QED  BY <1>6, <2>9
<1>8. ASSUME NEW i \in 1 .. n, i - 1 \in G
      PROVE  i \in G
  <2>1. PICK D, w, b, c : D = {q[j] : j \in 1 .. i - 1} /\ w = q[i] /\ b = after[i - 1] /\ c = after[i]
    OBVIOUS
  <2>2. PanelAt(b, d, D) /\ w \in DOMAIN d.win
    BY <1>4, <1>6, <1>8, <2>1
  <2>3. c = RefreshToplevel(b, d, w)
    BY <1>5, <2>1 DEF RefreshOne
  <2>4. ASSUME d.focus = w, NEW x \in DOMAIN d.win \ {w}
        PROVE  x \in D
    <3>1. q[i] = d.focus /\ x # d.focus
      BY <2>1, <2>4
    <3>2. \E j \in 1 .. i - 1 : q[j] = x
      BY <1>4, <2>4, <3>1, Zenon
    <3>. QED  BY <2>1, <3>2
  <2>5. PanelAt(c, d, D \cup {w})
    BY <2>2, <2>3, <2>4, ToplevelTold
  <2>6. D \cup {w} = {q[j] : j \in 1 .. i}
    <3>1. \A j : j \in 1 .. i <=> j \in 1 .. i - 1 \/ j = i
      OBVIOUS
    <3>. QED  BY <2>1, <3>1
  <2>. QED  BY <1>6, <2>1, <2>5, <2>6
<1>9. n \in G
  <2>1. \A i \in 1 .. n : i - 1 \in G => i \in G
    BY <1>8
  <2>2. \A i \in 0 .. n : i \in G
    BY <1>7, <2>1, Reaches
  <2>. QED  BY <2>2
<1>10. {q[j] : j \in 1 .. n} = DOMAIN d.win
  BY <1>4
<1>. QED  BY <1>1, <1>5, <1>6, <1>9, <1>10

----------------------------------------------------------------------------
\* What is sent of the workspaces.

IsAcc(acc) == acc = [ws |-> acc.ws, output |-> acc.output, groups |-> acc.groups,
                     bar |-> acc.bar, changed |-> acc.changed]

\* One workspace, whose data is new and whose output is out, was looked at.
Sends(r, acc, s, new, out) ==
    /\ IsAcc(r) /\ r.groups = acc.groups
    /\ r.ws = Inserted(acc.ws, s, new) /\ r.output = Inserted(acc.output, s, out)
    /\ s \notin DOMAIN acc.ws => /\ r.bar = Enter(AddInstance(acc.bar, s, new), s, out)
                                 /\ r.changed = TRUE
    /\ s \in DOMAIN acc.ws => /\ r.bar = TellChange(acc.bar, s, acc.ws[s], acc.output[s], new, out)
                              /\ r.changed = (acc.changed \/ acc.ws[s] # new \/ acc.output[s] # out)

\* The data is that of the workspace, whether or not the name was built again.
LEMMA WorkspaceSent ==
    ASSUME NEW acc, IsAcc(acc), SentWell(acc.ws, acc.output), NEW d, NEW s,
           NEW new, new = ExtWorkspace(d, s), NEW out, out = OutputOf(d, s),
           NEW r, r = RefreshWorkspace(acc, d, s)
    PROVE  Sends(r, acc, s, new, out)
<1>1. CASE s \notin DOMAIN acc.ws
  <2>1. PICK w, p, b : /\ w = Inserted(acc.ws, s, new) /\ p = Inserted(acc.output, s, out)
                       /\ b = Enter(AddInstance(acc.bar, s, new), s, out)
    OBVIOUS
  <2>2. r = [acc EXCEPT !.ws = w, !.output = p, !.bar = b, !.changed = TRUE]
    BY <1>1, <2>1, Zenon DEF RefreshWorkspace
  <2>3. r = [ws |-> w, output |-> p, groups |-> acc.groups, bar |-> b, changed |-> TRUE]
    BY <2>2 DEF IsAcc
  <2>4. r.ws = w /\ r.output = p /\ r.groups = acc.groups /\ r.bar = b /\ r.changed = TRUE
    BY <2>3
  <2>5. IsAcc(r)
    BY <2>3, <2>4 DEF IsAcc
  <2>. QED  BY <1>1, <2>1, <2>4, <2>5, Zenon DEF Sends
<1>2. CASE s \in DOMAIN acc.ws
  <2>1. PICK old, from, data :
          /\ old = acc.ws[s] /\ from = acc.output[s]
          /\ data = [new EXCEPT !.name = IF NameChecked(old, new) THEN @ ELSE old.name]
    OBVIOUS
  <2>2. data = new
    <3>1. PICK id, name, at, state : new = [id |-> id, name |-> name, coordinates |-> at, state |-> state]
                                     /\ name = IF id = Nil THEN at ELSE id
      BY DEF ExtWorkspace
    <3>2. old.name = IF old.id = Nil THEN old.coordinates ELSE old.id
      BY <1>2, <2>1 DEF SentWell, WellNamed
    <3>3. ~NameChecked(old, new) => old.name = name
      BY <3>1, <3>2 DEF NameChecked
    <3>4. data = [id |-> id, name |-> IF NameChecked(old, new) THEN name ELSE old.name,
                  coordinates |-> at, state |-> state]
      BY <2>1, <3>1
    <3>. QED  BY <3>1, <3>3, <3>4
  <2>3. PICK w, p, b, c : /\ w = [acc.ws EXCEPT ![s] = data] /\ p = [acc.output EXCEPT ![s] = out]
                          /\ b = TellChange(acc.bar, s, old, from, data, out)
                          /\ c = (acc.changed \/ old # data \/ from # out)
    OBVIOUS
  <2>4. r = [acc EXCEPT !.ws = w, !.output = p, !.bar = b, !.changed = c]
    BY <1>2, <2>1, <2>3, Zenon DEF RefreshWorkspace
  <2>5. r = [ws |-> w, output |-> p, groups |-> acc.groups, bar |-> b, changed |-> c]
    BY <2>4 DEF IsAcc
  <2>6. w = Inserted(acc.ws, s, new)
    BY <1>2, <2>2, <2>3 DEF SentWell, Inserted
  <2>7. p = Inserted(acc.output, s, out)
    BY <1>2, <2>3 DEF SentWell, Inserted
  <2>8. r.ws = w /\ r.output = p /\ r.groups = acc.groups /\ r.bar = b /\ r.changed = c
    BY <2>5
  <2>9. r.bar = TellChange(acc.bar, s, acc.ws[s], acc.output[s], new, out)
    BY <2>1, <2>2, <2>3, <2>8
  <2>10. r.changed = (acc.changed \/ acc.ws[s] # new \/ acc.output[s] # out)
    BY <2>1, <2>2, <2>3, <2>8, Zenon
  <2>11. IsAcc(r)
    BY <2>5, <2>8 DEF IsAcc
  <2>. QED  BY <1>2, <2>6, <2>7, <2>8, <2>9, <2>10, <2>11 DEF Sends
<1>. QED  BY <1>1, <1>2

LEMMA StillSent ==
    ASSUME NEW ws, NEW place, SentWell(ws, place), NEW d, NEW D, ExtIsTrue(ws, place, d, D), NEW s,
           NEW w, w = Inserted(ws, s, ExtWorkspace(d, s)), NEW p, p = Inserted(place, s, OutputOf(d, s))
    PROVE  SentWell(w, p) /\ ExtIsTrue(w, p, d, D \cup {s})
<1>1. PICK new, out : new = ExtWorkspace(d, s) /\ out = OutputOf(d, s)
  OBVIOUS
<1>2. DOMAIN place = DOMAIN ws
  BY DEF SentWell
<1>3. /\ DOMAIN w = DOMAIN ws \cup {s} /\ w = [t \in DOMAIN w |-> w[t]] /\ p = [t \in DOMAIN w |-> p[t]]
      /\ w[s] = new /\ p[s] = out
      /\ \A t \in DOMAIN ws : t # s => w[t] = ws[t] /\ p[t] = place[t]
  BY <1>1, <1>2 DEF Inserted
<1>4. WellNamed(new)
  BY <1>1 DEF WellNamed, ExtWorkspace
<1>5. \A t \in DOMAIN w : WellNamed(w[t])
  <2>1. \A t \in DOMAIN ws : WellNamed(ws[t])
    BY DEF SentWell
  <2>. QED  BY <1>3, <1>4, <2>1
<1>6. ExtIsTrue(w, p, d, D \cup {s})
  BY <1>1, <1>3 DEF ExtIsTrue
<1>. QED  BY <1>3, <1>5, <1>6 DEF SentWell

\* What a bar is told of them.

\* A bar with groups of the outputs in G.
HasGroups(b, G) == IsBar(b) /\ b.groups = [o \in G |-> b.groups[o]]

\* It is told that a workspace enters or leaves the group of an output.
Entered(e, b, G, s, o) ==
    /\ HasGroups(e, G) /\ e.ws = b.ws /\ e.shown = b.shown
    /\ \A p \in G : e.groups[p] = IF p = o THEN b.groups[p] \cup {s} ELSE b.groups[p]

HasLeft(e, b, G, s, o) ==
    /\ HasGroups(e, G) /\ e.ws = b.ws /\ e.shown = b.shown
    /\ \A p \in G : e.groups[p] = IF p = o THEN b.groups[p] \ {s} ELSE b.groups[p]

LEMMA EnterIs ==
    ASSUME NEW G, NEW b, HasGroups(b, G), NEW s, NEW o, NEW e, e = Enter(b, s, o)
    PROVE  Entered(e, b, G, s, o)
<1>1. CASE o \notin G
  <2>1. DOMAIN b.groups = G
    BY DEF HasGroups
  <2>2. e = b
    BY <1>1, <2>1 DEF Enter
  <2>. QED  BY <1>1, <2>2 DEF Entered
<1>2. CASE o \in G
  <2>1. DOMAIN b.groups = G
    BY DEF HasGroups
  <2>2. PICK g : g = [b.groups EXCEPT ![o] = @ \cup {s}]
    OBVIOUS
  <2>3. e = [b EXCEPT !.groups = g]
    BY <1>2, <2>1, <2>2 DEF Enter, HasGroups, IsBar
  <2>4. e = [ws |-> b.ws, groups |-> g, shown |-> b.shown]
    BY <2>3 DEF HasGroups, IsBar
  <2>5. g = [p \in G |-> IF p = o THEN b.groups[p] \cup {s} ELSE b.groups[p]]
    BY <1>2, <2>1, <2>2 DEF HasGroups
  <2>. QED  BY <2>4, <2>5 DEF Entered, HasGroups, IsBar
<1>. QED  BY <1>1, <1>2

LEMMA LeaveIs ==
    ASSUME NEW G, NEW b, HasGroups(b, G), NEW s, NEW o, NEW e, e = Leave(b, s, o)
    PROVE  HasLeft(e, b, G, s, o)
<1>1. CASE o \notin G
  <2>1. DOMAIN b.groups = G
    BY DEF HasGroups
  <2>2. e = b
    BY <1>1, <2>1 DEF Leave
  <2>. QED  BY <1>1, <2>2 DEF HasLeft
<1>2. CASE o \in G
  <2>1. DOMAIN b.groups = G
    BY DEF HasGroups
  <2>2. PICK g : g = [b.groups EXCEPT ![o] = @ \ {s}]
    OBVIOUS
  <2>3. e = [b EXCEPT !.groups = g]
    BY <1>2, <2>1, <2>2 DEF Leave, HasGroups, IsBar
  <2>4. e = [ws |-> b.ws, groups |-> g, shown |-> b.shown]
    BY <2>3 DEF HasGroups, IsBar
  <2>5. g = [p \in G |-> IF p = o THEN b.groups[p] \ {s} ELSE b.groups[p]]
    BY <1>2, <2>1, <2>2 DEF HasGroups
  <2>. QED  BY <2>4, <2>5 DEF HasLeft, HasGroups, IsBar
<1>. QED  BY <1>1, <1>2

LEMMA InstanceIs ==
    ASSUME actions # Nil, NEW G, NEW b, HasGroups(b, G), NEW s, NEW x, NEW e, e = AddInstance(b, s, x)
    PROVE  /\ HasGroups(e, G) /\ e.groups = b.groups /\ e.shown = b.shown
           /\ e.ws = [t \in DOMAIN b.ws \cup {s} |-> IF t = s THEN <<x>> ELSE b.ws[t]]
<1>1. PICK h : h = Inserted(b.ws, s, <<x>>)
  OBVIOUS
<1>2. e = [b EXCEPT !.ws = h]
  BY <1>1 DEF AddInstance
<1>3. e = [ws |-> h, groups |-> b.groups, shown |-> b.shown]
  BY <1>2 DEF HasGroups, IsBar
<1>4. h = [t \in DOMAIN b.ws \cup {s} |-> IF t = s THEN <<x>> ELSE b.ws[t]]
  BY <1>1 DEF Inserted
<1>. QED  BY <1>3, <1>4 DEF HasGroups, IsBar

\* A bar that was told of one workspace, and of no other, has what it should.
OneTold(e, b, ws, G, s, new, out) ==
    /\ HasGroups(e, G)
    /\ e.ws = [t \in DOMAIN ws \cup {s} |-> e.ws[t]] /\ e.ws[s] \in {<<>>, <<new>>}
    /\ \A t \in DOMAIN ws : t # s => e.ws[t] = b.ws[t]
    /\ \A o \in G : \A t : t # s => (t \in e.groups[o] <=> t \in b.groups[o])
    /\ \A o \in G : s \in e.groups[o] <=> out = o /\ e.ws[s] # <<>>

LEMMA FitsAgain ==
    ASSUME NEW b, NEW ws, NEW place, NEW G, SentWell(ws, place), BarFits(b, ws, place, G),
           NEW s, NEW new, NEW out, NEW e, OneTold(e, b, ws, G, s, new, out), NEW w, w = Inserted(ws, s, new), NEW p, p = Inserted(place, s, out)
    PROVE  BarFits(e, w, p, G)
<1>. USE DEF OneTold
<1>1. DOMAIN place = DOMAIN ws
  BY DEF SentWell
<1>2. /\ DOMAIN w = DOMAIN ws \cup {s} /\ w[s] = new /\ p[s] = out
      /\ \A t \in DOMAIN ws : t # s => w[t] = ws[t] /\ p[t] = place[t]
  BY <1>1 DEF Inserted
<1>3. \A t \in DOMAIN w : e.ws[t] \in {<<>>, <<w[t]>>}
  <2>1. ASSUME NEW t \in DOMAIN ws, t # s PROVE e.ws[t] \in {<<>>, <<w[t]>>}
    BY <1>2, <2>1 DEF BarFits
  <2>. QED  BY <1>2, <2>1
<1>4. ASSUME NEW o \in G
      PROVE  /\ e.groups[o] \subseteq DOMAIN w
             /\ \A t \in DOMAIN w : t \in e.groups[o] <=> p[t] = o /\ e.ws[t] # <<>>
  <2>1. /\ b.groups[o] \subseteq DOMAIN ws
        /\ \A t \in DOMAIN ws : t \in b.groups[o] <=> place[t] = o /\ b.ws[t] # <<>>
    BY DEF BarFits
  <2>2. e.groups[o] \subseteq DOMAIN w
    BY <1>2, <2>1
  <2>3. ASSUME NEW t \in DOMAIN w
        PROVE  t \in e.groups[o] <=> p[t] = o /\ e.ws[t] # <<>>
    <3>1. CASE t = s
      BY <1>2, <3>1
    <3>2. CASE t # s
      BY <1>2, <2>1, <2>3, <3>2
    <3>. QED  BY <3>1, <3>2
  <2>. QED  BY <2>2, <2>3
<1>. QED  BY <1>2, <1>3, <1>4 DEF BarFits, HasGroups

LEMMA NewTold ==
    ASSUME actions # Nil,
           NEW b, NEW ws, NEW place, NEW G, SentWell(ws, place), BarFits(b, ws, place, G),
           NEW s, s \notin DOMAIN ws, NEW new, NEW out, NEW e, e = Enter(AddInstance(b, s, new), s, out),
           NEW w, w = Inserted(ws, s, new), NEW p, p = Inserted(place, s, out)
    PROVE  BarFits(e, w, p, G) /\ e.shown = b.shown
<1>1. HasGroups(b, G) /\ DOMAIN b.ws = DOMAIN ws
  BY DEF BarFits, HasGroups
<1>2. PICK c : c = AddInstance(b, s, new)
  OBVIOUS
<1>3. /\ HasGroups(c, G) /\ c.groups = b.groups /\ c.shown = b.shown
      /\ c.ws = [t \in DOMAIN ws \cup {s} |-> IF t = s THEN <<new>> ELSE b.ws[t]]
  BY <1>1, <1>2, InstanceIs
<1>4. e = Enter(c, s, out)
  BY <1>2
<1>5. /\ HasGroups(e, G) /\ e.ws = c.ws /\ e.shown = c.shown
      /\ \A o \in G : e.groups[o] = IF o = out THEN c.groups[o] \cup {s} ELSE c.groups[o]
  <2>1. HasGroups(c, G)
    BY <1>3
  <2>2. Entered(e, c, G, s, out)
    BY <1>4, <2>1, EnterIs
  <2>. QED  BY <2>2 DEF Entered
<1>6. /\ e.ws = [t \in DOMAIN ws \cup {s} |-> e.ws[t]] /\ e.ws[s] = <<new>>
      /\ \A t \in DOMAIN ws : t # s => e.ws[t] = b.ws[t]
  BY <1>3, <1>5
<1>7. \A o \in G : \A t : t # s => (t \in e.groups[o] <=> t \in b.groups[o])
  BY <1>3, <1>5
<1>8. \A o \in G : s \in e.groups[o] <=> out = o /\ e.ws[s] # <<>>
  <2>1. \A o \in G : s \notin b.groups[o]
    BY DEF BarFits
  <2>2. e.ws[s] # <<>>
    BY <1>6
  <2>3. ASSUME NEW o \in G PROVE s \in e.groups[o] <=> out = o
    BY <1>3, <1>5, <2>1
  <2>. QED  BY <2>2, <2>3
<1>9. OneTold(e, b, ws, G, s, new, out)
  BY <1>5, <1>6, <1>7, <1>8 DEF OneTold
<1>10. BarFits(e, w, p, G)
  BY <1>9, FitsAgain
<1>. QED  BY <1>3, <1>5, <1>10

LEMMA ChangeTold ==
    ASSUME actions # Nil,
           NEW b, NEW ws, NEW place, NEW G, SentWell(ws, place), BarFits(b, ws, place, G),
           NEW s \in DOMAIN ws, NEW new, NEW out, NEW e, e = TellChange(b, s, ws[s], place[s], new, out),
           NEW w, w = Inserted(ws, s, new), NEW p, p = Inserted(place, s, out)
    PROVE  /\ BarFits(e, w, p, G) /\ e.shown = b.shown
           /\ ws[s] = new /\ place[s] = out => e.ws = b.ws /\ e.groups = b.groups
<1>1. HasGroups(b, G) /\ DOMAIN b.ws = DOMAIN ws /\ b.ws = [t \in DOMAIN ws |-> b.ws[t]]
  BY DEF BarFits, HasGroups
<1>2. PICK old, from, moved : /\ old = ws[s] /\ from = place[s]
                              /\ moved = IF from = out THEN b ELSE Leave(b, s, from)
  OBVIOUS
<1>3. PICK told : told = IF Alive(moved.ws, s) THEN [moved EXCEPT !.ws[s] = <<new>>] ELSE moved
  OBVIOUS
<1>4. /\ HasGroups(moved, G) /\ moved.ws = b.ws /\ moved.shown = b.shown
      /\ from = out => moved.groups = b.groups
      /\ \A o \in G : moved.groups[o] = IF o = from /\ from # out THEN b.groups[o] \ {s} ELSE b.groups[o]
  <2>1. CASE from = out
    BY <1>1, <1>2, <2>1
  <2>2. CASE from # out
    <3>1. moved = Leave(b, s, from)
      BY <1>2, <2>2
    <3>2. HasLeft(moved, b, G, s, from)
      BY <1>1, <3>1, LeaveIs
    <3>. QED  BY <2>2, <3>2 DEF HasLeft
  <2>. QED  BY <2>1, <2>2
<1>5. /\ b.ws[s] \in {<<>>, <<old>>}
      /\ \A o \in G : s \in b.groups[o] <=> from = o /\ b.ws[s] # <<>>
  BY <1>2 DEF BarFits
<1>6. \A o \in G : s \in moved.groups[o] <=> from = o /\ from = out /\ b.ws[s] # <<>>
  BY <1>4, <1>5
<1>7. CASE old.id # new.id /\ old.id # Nil
  <2>1. PICK c, f : c = Leave(moved, s, out) /\ f = AddInstance(c, s, new)
    OBVIOUS
  <2>2. e = Enter(f, s, out)
    BY <1>2, <1>7, <2>1, Zenon DEF TellChange
  <2>3. /\ HasGroups(c, G) /\ c.ws = moved.ws /\ c.shown = moved.shown
        /\ \A o \in G : c.groups[o] = IF o = out THEN moved.groups[o] \ {s} ELSE moved.groups[o]
    <3>1. HasGroups(moved, G) /\ c = Leave(moved, s, out)
      BY <1>4, <2>1
    <3>2. HasLeft(c, moved, G, s, out)
      BY <3>1, LeaveIs
    <3>. QED  BY <3>2 DEF HasLeft
  <2>4. /\ HasGroups(f, G) /\ f.groups = c.groups /\ f.shown = c.shown
        /\ f.ws = [t \in DOMAIN c.ws \cup {s} |-> IF t = s THEN <<new>> ELSE c.ws[t]]
    <3>1. HasGroups(c, G) /\ f = AddInstance(c, s, new)
      BY <2>1, <2>3
    <3>. QED  BY <3>1, InstanceIs
  <2>5. /\ HasGroups(e, G) /\ e.ws = f.ws /\ e.shown = f.shown
        /\ \A o \in G : e.groups[o] = IF o = out THEN f.groups[o] \cup {s} ELSE f.groups[o]
    <3>1. HasGroups(f, G)
      BY <2>4
    <3>2. Entered(e, f, G, s, out)
      BY <2>2, <3>1, EnterIs
    <3>. QED  BY <3>2 DEF Entered
  <2>6. /\ e.ws = [t \in DOMAIN ws \cup {s} |-> e.ws[t]] /\ e.ws[s] = <<new>>
        /\ \A t \in DOMAIN ws : t # s => e.ws[t] = b.ws[t]
    BY <1>1, <1>4, <2>3, <2>4, <2>5
  <2>7. \A o \in G : \A t : t # s => (t \in e.groups[o] <=> t \in b.groups[o])
    <3>1. ASSUME NEW o \in G, NEW t, t # s
          PROVE  t \in e.groups[o] <=> t \in b.groups[o]
      <4>1. t \in moved.groups[o] <=> t \in b.groups[o]
        BY <1>4, <3>1
      <4>2. t \in c.groups[o] <=> t \in moved.groups[o]
        BY <2>3, <3>1
      <4>3. t \in e.groups[o] <=> t \in f.groups[o]
        BY <2>5, <3>1
      <4>. QED  BY <2>4, <4>1, <4>2, <4>3
    <3>. QED  BY <3>1
  <2>8. \A o \in G : s \in e.groups[o] <=> out = o /\ e.ws[s] # <<>>
    <3>1. e.ws[s] # <<>>
      BY <2>6
    <3>2. ASSUME NEW o \in G PROVE s \in e.groups[o] <=> out = o
      <4>1. CASE o = out
        BY <2>5, <4>1
      <4>2. CASE o # out
        <5>1. e.groups[o] = f.groups[o] /\ f.groups[o] = c.groups[o] /\ c.groups[o] = moved.groups[o]
          BY <2>3, <2>4, <2>5, <4>2
        <5>2. s \notin moved.groups[o]
          BY <1>6, <4>2
        <5>. QED  BY <4>2, <5>1, <5>2
      <4>. QED  BY <4>1, <4>2
    <3>. QED  BY <3>1, <3>2
  <2>9. BarFits(e, w, p, G)
    <3>1. OneTold(e, b, ws, G, s, new, out)
      BY <2>5, <2>6, <2>7, <2>8 DEF OneTold
    <3>. QED  BY <3>1, FitsAgain
  <2>. QED  BY <1>2, <1>4, <1>7, <2>3, <2>4, <2>5, <2>9
<1>8. CASE ~(old.id # new.id /\ old.id # Nil)
  <2>1. /\ HasGroups(told, G) /\ told.groups = moved.groups /\ told.shown = b.shown
        /\ told.ws = [t \in DOMAIN ws |-> told.ws[t]]
        /\ \A t \in DOMAIN ws : t # s => told.ws[t] = b.ws[t]
        /\ told.ws[s] = IF b.ws[s] # <<>> THEN <<new>> ELSE <<>>
    <3>1. CASE Alive(moved.ws, s)
      <4>1. PICK h : h = [b.ws EXCEPT ![s] = <<new>>]
        OBVIOUS
      <4>2. told = [ws |-> h, groups |-> moved.groups, shown |-> moved.shown]
        BY <1>3, <1>4, <3>1, <4>1 DEF HasGroups, IsBar
      <4>3. b.ws[s] # <<>>
        BY <1>4, <3>1 DEF Alive
      <4>4. /\ h = [t \in DOMAIN ws |-> h[t]] /\ h[s] = <<new>>
            /\ \A t \in DOMAIN ws : t # s => h[t] = b.ws[t]
        BY <1>1, <4>1
      <4>. QED  BY <1>4, <4>2, <4>3, <4>4 DEF HasGroups, IsBar
    <3>2. CASE ~Alive(moved.ws, s)
      <4>1. told = moved /\ b.ws[s] = <<>>
        BY <1>1, <1>3, <1>4, <3>2 DEF Alive
      <4>. QED  BY <1>1, <1>4, <4>1
    <3>. QED  BY <3>1, <3>2
  <2>2. Alive(moved.ws, s) <=> b.ws[s] # <<>>
    BY <1>1, <1>4 DEF Alive
  <2>3. e = IF from = out \/ b.ws[s] = <<>> THEN told ELSE Enter(told, s, out)
    BY <1>2, <1>3, <1>8, <2>2, Zenon DEF TellChange
  <2>4. DOMAIN ws \cup {s} = DOMAIN ws
    OBVIOUS
  <2>5. CASE from = out \/ b.ws[s] = <<>>
    <3>1. e = told
      BY <2>3, <2>5
    <3>2. e.ws = [t \in DOMAIN ws \cup {s} |-> e.ws[t]] /\ e.ws[s] \in {<<>>, <<new>>}
      BY <2>1, <2>4, <3>1
    <3>3. \A o \in G : \A t : t # s => (t \in e.groups[o] <=> t \in b.groups[o])
      BY <1>4, <2>1, <3>1
    <3>4. e.ws[s] # <<>> <=> b.ws[s] # <<>>
      BY <2>1, <3>1
    <3>5. \A o \in G : s \in e.groups[o] <=> out = o /\ e.ws[s] # <<>>
      BY <1>6, <2>1, <2>5, <3>1, <3>4
    <3>6. BarFits(e, w, p, G)
      <4>1. OneTold(e, b, ws, G, s, new, out)
        <5>1. HasGroups(e, G) /\ \A t \in DOMAIN ws : t # s => e.ws[t] = b.ws[t]
          BY <2>1, <3>1
        <5>. QED  BY <3>2, <3>3, <3>5, <5>1 DEF OneTold
      <4>. QED  BY <4>1, FitsAgain
    <3>7. ASSUME ws[s] = new, place[s] = out
          PROVE  e.ws = b.ws /\ e.groups = b.groups
      <4>1. told.ws[s] = b.ws[s]
        BY <1>2, <1>5, <2>1, <3>7
      <4>2. told.ws = b.ws
        BY <1>1, <2>1, <4>1
      <4>. QED  BY <1>2, <1>4, <2>1, <3>1, <3>7, <4>2
    <3>. QED  BY <2>1, <3>1, <3>6, <3>7
  <2>6. CASE ~(from = out \/ b.ws[s] = <<>>)
    <3>1. e = Enter(told, s, out)
      BY <2>3, <2>6
    <3>2. /\ HasGroups(e, G) /\ e.ws = told.ws /\ e.shown = told.shown
          /\ \A o \in G : e.groups[o] = IF o = out THEN told.groups[o] \cup {s} ELSE told.groups[o]
      <4>1. HasGroups(told, G)
        BY <2>1
      <4>2. Entered(e, told, G, s, out)
        BY <3>1, <4>1, EnterIs
      <4>. QED  BY <4>2 DEF Entered
    <3>3. e.ws = [t \in DOMAIN ws \cup {s} |-> e.ws[t]] /\ e.ws[s] = <<new>>
      <4>1. e.ws = told.ws /\ b.ws[s] # <<>>
        BY <2>6, <3>2
      <4>2. e.ws[s] = <<new>>
        BY <2>1, <4>1
      <4>. QED  BY <2>1, <2>4, <4>1, <4>2
    <3>4. \A o \in G : \A t : t # s => (t \in e.groups[o] <=> t \in b.groups[o])
      <4>1. ASSUME NEW o \in G, NEW t, t # s
            PROVE  t \in e.groups[o] <=> t \in b.groups[o]
        <5>1. t \in e.groups[o] <=> t \in told.groups[o]
          BY <3>2, <4>1
        <5>2. t \in moved.groups[o] <=> t \in b.groups[o]
          BY <1>4, <4>1
        <5>. QED  BY <2>1, <5>1, <5>2
      <4>. QED  BY <4>1
    <3>5. \A o \in G : s \in e.groups[o] <=> out = o /\ e.ws[s] # <<>>
      <4>1. e.ws[s] # <<>>
        <5>1. e.ws[s] = <<new>>
          BY <3>3
        <5>. QED  BY <5>1
      <4>2. ASSUME NEW o \in G PROVE s \in e.groups[o] <=> out = o
        BY <1>6, <2>1, <2>6, <3>2
      <4>. QED  BY <4>1, <4>2
    <3>6. BarFits(e, w, p, G)
      <4>1. OneTold(e, b, ws, G, s, new, out)
        <5>1. HasGroups(e, G) /\ \A t \in DOMAIN ws : t # s => e.ws[t] = b.ws[t]
          BY <2>1, <3>2
        <5>. QED  BY <3>3, <3>4, <3>5, <5>1 DEF OneTold
      <4>. QED  BY <4>1, FitsAgain
    <3>. QED  BY <1>2, <2>1, <2>6, <3>2, <3>6
  <2>. QED  BY <2>5, <2>6
<1>. QED  BY <1>7, <1>8

\* What there is once the workspaces of D, and then the groups of H, have been looked at.
BarAt(acc, d, D, H) ==
    /\ IsAcc(acc) /\ acc.changed \in BOOLEAN
    /\ SentWell(acc.ws, acc.output) /\ ExtIsTrue(acc.ws, acc.output, d, D)
    /\ DOMAIN acc.ws \subseteq Workspaces(d)
    /\ H \subseteq acc.groups /\ acc.groups \subseteq Connected(d)
    /\ actions # Nil =>
         /\ BarFits(acc.bar, acc.ws, acc.output, acc.groups)
         /\ acc.bar.shown = bar.shown
         /\ ~acc.changed => acc.bar.ws = bar.ws /\ acc.bar.groups = bar.groups

LEMMA WorkspaceLooked ==
    ASSUME NEW acc, NEW d, NEW D, BarAt(acc, d, D, {}), NEW s \in Workspaces(d),
           NEW r, r = RefreshWorkspace(acc, d, s)
    PROVE  BarAt(r, d, D \cup {s}, {})
<1>1. PICK new, out : new = ExtWorkspace(d, s) /\ out = OutputOf(d, s)
  OBVIOUS
<1>2. PICK ws, place, G, b : ws = acc.ws /\ place = acc.output /\ G = acc.groups /\ b = acc.bar
  OBVIOUS
<1>3. PICK w, p : w = Inserted(ws, s, new) /\ p = Inserted(place, s, out)
  OBVIOUS
<1>4. /\ IsAcc(acc) /\ acc.changed \in BOOLEAN
      /\ SentWell(ws, place) /\ ExtIsTrue(ws, place, d, D)
      /\ DOMAIN ws \subseteq Workspaces(d) /\ G \subseteq Connected(d)
  BY <1>2 DEF BarAt
<1>5. actions # Nil => /\ BarFits(b, ws, place, G) /\ b.shown = bar.shown
                       /\ ~acc.changed => b.ws = bar.ws /\ b.groups = bar.groups
  BY <1>2 DEF BarAt
<1>6. /\ IsAcc(r) /\ r.groups = G /\ r.ws = w /\ r.output = p
      /\ s \notin DOMAIN ws => r.bar = Enter(AddInstance(b, s, new), s, out) /\ r.changed = TRUE
      /\ s \in DOMAIN ws => /\ r.bar = TellChange(b, s, ws[s], place[s], new, out)
                            /\ r.changed = (acc.changed \/ ws[s] # new \/ place[s] # out)
  <2>1. SentWell(acc.ws, acc.output)
    BY <1>2, <1>4
  <2>2. Sends(r, acc, s, new, out)
    BY <1>1, <1>4, <2>1, WorkspaceSent
  <2>. QED  BY <1>2, <1>3, <2>2 DEF Sends
<1>7. SentWell(w, p) /\ ExtIsTrue(w, p, d, D \cup {s})
  BY <1>1, <1>3, <1>4, StillSent
<1>8. DOMAIN w \subseteq Workspaces(d)
  BY <1>3, <1>4 DEF Inserted
<1>9. r.changed \in BOOLEAN
  BY <1>4, <1>6
<1>10. ASSUME actions # Nil
       PROVE  /\ BarFits(r.bar, w, p, G) /\ r.bar.shown = bar.shown
              /\ ~r.changed => r.bar.ws = bar.ws /\ r.bar.groups = bar.groups
  <2>1. BarFits(b, ws, place, G) /\ b.shown = bar.shown
    BY <1>5, <1>10
  <2>2. PICK e : e = r.bar
    OBVIOUS
  <2>3. CASE s \notin DOMAIN ws
    <3>1. e = Enter(AddInstance(b, s, new), s, out) /\ r.changed = TRUE
      BY <1>6, <2>2, <2>3
    <3>2. BarFits(e, w, p, G) /\ e.shown = b.shown
      BY <1>3, <1>4, <1>10, <2>1, <2>3, <3>1, NewTold
    <3>. QED  BY <2>1, <2>2, <3>1, <3>2
  <2>4. CASE s \in DOMAIN ws
    <3>1. /\ e = TellChange(b, s, ws[s], place[s], new, out)
          /\ r.changed = (acc.changed \/ ws[s] # new \/ place[s] # out)
      BY <1>6, <2>2, <2>4
    <3>2. /\ BarFits(e, w, p, G) /\ e.shown = b.shown
          /\ ws[s] = new /\ place[s] = out => e.ws = b.ws /\ e.groups = b.groups
      BY <1>3, <1>4, <1>10, <2>1, <2>4, <3>1, ChangeTold
    <3>3. ~r.changed => ~acc.changed /\ ws[s] = new /\ place[s] = out
      BY <3>1
    <3>. QED  BY <1>5, <1>10, <2>1, <2>2, <3>2, <3>3
  <2>. QED  BY <2>3, <2>4
<1>. QED  BY <1>4, <1>6, <1>7, <1>8, <1>9, <1>10 DEF BarAt

LEMMA GroupLooked ==
    ASSUME NEW acc, NEW d, NEW D, NEW H, BarAt(acc, d, D, H), NEW o \in Connected(d),
           NEW r, r = RefreshGroup(acc, o)
    PROVE  BarAt(r, d, D, H \cup {o})
<1>1. CASE o \in acc.groups
  <2>1. r = acc
    BY <1>1 DEF RefreshGroup
  <2>. QED  BY <1>1, <2>1 DEF BarAt
<1>2. CASE o \notin acc.groups
  <2>1. PICK G, b, members, e :
          /\ G = acc.groups \cup {o} /\ b = acc.bar
          /\ members = {s \in DOMAIN b.ws : b.ws[s] # <<>> /\ acc.output[s] = o}
          /\ e = IF actions = Nil THEN b ELSE [b EXCEPT !.groups = Inserted(@, o, members)]
    OBVIOUS
  <2>2. r = [acc EXCEPT !.groups = G, !.bar = e, !.changed = TRUE]
    BY <1>2, <2>1, Zenon DEF RefreshGroup
  <2>3. r = [ws |-> acc.ws, output |-> acc.output, groups |-> G, bar |-> e, changed |-> TRUE]
    BY <2>2 DEF BarAt, IsAcc
  <2>4. r.ws = acc.ws /\ r.output = acc.output /\ r.groups = G /\ r.bar = e /\ r.changed = TRUE
    BY <2>3
  <2>5. IsAcc(r)
    BY <2>3, <2>4 DEF IsAcc
  <2>6. H \cup {o} \subseteq G /\ G \subseteq Connected(d)
    BY <2>1 DEF BarAt
  <2>7. ASSUME actions # Nil
        PROVE  BarFits(e, acc.ws, acc.output, G) /\ e.shown = bar.shown
    <3>1. PICK ws, place, h : ws = acc.ws /\ place = acc.output /\ h = Inserted(b.groups, o, members)
      OBVIOUS
    <3>2. BarFits(b, ws, place, acc.groups) /\ b.shown = bar.shown
      BY <2>1, <2>7, <3>1 DEF BarAt
    <3>3. e = [b EXCEPT !.groups = h]
      BY <2>1, <2>7, <3>1
    <3>4. e = [ws |-> b.ws, groups |-> h, shown |-> b.shown]
      BY <3>2, <3>3 DEF BarFits, IsBar
    <3>5. e.ws = b.ws /\ e.groups = h /\ e.shown = b.shown /\ IsBar(e)
      BY <3>4 DEF IsBar
    <3>6. /\ b.ws = [s \in DOMAIN ws |-> b.ws[s]] /\ b.groups = [q \in acc.groups |-> b.groups[q]]
          /\ \A s \in DOMAIN ws : b.ws[s] \in {<<>>, <<ws[s]>>}
          /\ \A q \in acc.groups :
                /\ b.groups[q] \subseteq DOMAIN ws
                /\ \A s \in DOMAIN ws : s \in b.groups[q] <=> place[s] = q /\ b.ws[s] # <<>>
      BY <3>2 DEF BarFits
    <3>7. /\ DOMAIN h = G /\ h = [q \in G |-> h[q]] /\ h[o] = members
          /\ \A q \in acc.groups : h[q] = b.groups[q]
      BY <1>2, <2>1, <3>1, <3>6 DEF Inserted
    <3>8. ASSUME NEW q \in G
          PROVE  /\ h[q] \subseteq DOMAIN ws
                 /\ \A s \in DOMAIN ws : s \in h[q] <=> place[s] = q /\ b.ws[s] # <<>>
      <4>1. CASE q = o
        <5>1. members = {s \in DOMAIN ws : b.ws[s] # <<>> /\ place[s] = o}
          BY <2>1, <3>1, <3>6
        <5>. QED  BY <3>7, <4>1, <5>1
      <4>2. CASE q # o
        <5>1. q \in acc.groups /\ h[q] = b.groups[q]
          BY <2>1, <3>7, <4>2
        <5>. QED  BY <3>6, <5>1
      <4>. QED  BY <4>1, <4>2
    <3>9. BarFits(e, ws, place, G)
      BY <3>5, <3>6, <3>7, <3>8 DEF BarFits
    <3>. QED  BY <3>1, <3>2, <3>5, <3>9
  <2>. QED  BY <2>4, <2>5, <2>6, <2>7 DEF BarAt
<1>. QED  BY <1>1, <1>2

LEMMA ConnectedFinite ==
    ASSUME NEW d, IsDesk(d)
    PROVE  IsFiniteSet(Connected(d))
<1>1. PICK f : f = [o \in Connected(d) |-> d.mons[o][1]]
  OBVIOUS
<1>2. ASSUME NEW o \in Connected(d)
      PROVE  1 \in DOMAIN d.mons[o] /\ d.mons[o][1] \in Workspace
  <2>1. d.mons[o] \in Seq(Workspace) \ {<<>>}
    BY DEF IsDesk, WellArranged, Connected
  <2>. QED  BY <2>1
<1>3. f \in [Connected(d) -> Workspace]
  BY <1>1, <1>2
<1>4. ASSUME NEW o \in Connected(d), NEW p \in Connected(d), f[o] = f[p]
      PROVE  o = p
  <2>1. d.mons[o][1] = d.mons[p][1]
    BY <1>1, <1>4
  <2>2. 1 \in DOMAIN d.mons[o] /\ 1 \in DOMAIN d.mons[p]
    BY <1>2
  <2>. QED  BY <2>1, <2>2 DEF IsDesk, WellArranged, Connected
<1>5. f \in Injection(Connected(d), Workspace)
  BY <1>3, <1>4 DEF Injection, IsInjective
<1>. QED  BY <1>5, FS_Injection, DesktopAssumption

\* Workspaces and groups that no longer exist are removed first.
LEMMA OldRemoved ==
    ASSUME BarInv, NEW d, NEW start,
           start = [ws |-> ext.ws, output |-> ext.output, groups |-> ext.groups,
                    bar |-> bar, changed |-> FALSE],
           NEW r, r = RemoveGroups(RemoveWorkspaces(start, d), d)
    PROVE  BarAt(r, d, {}, {})
<1>1. PICK old, lost : old = DOMAIN ext.ws \ Workspaces(d) /\ lost = ext.groups \ Connected(d)
  OBVIOUS
<1>2. PICK ws, place, groups, members :
        /\ ws = Without(ext.ws, old) /\ place = Without(ext.output, old) /\ groups = ext.groups \ lost
        /\ members = [o \in DOMAIN bar.groups |-> bar.groups[o] \ old]
  OBVIOUS
<1>3. PICK b, e : /\ b = [bar EXCEPT !.ws = Without(@, old), !.groups = [o \in DOMAIN @ |-> @[o] \ old]]
                  /\ e = [b EXCEPT !.groups = Without(@, lost)]
  OBVIOUS
<1>4. PICK c : c = (old # {})
  OBVIOUS
<1>5. PICK a : a = RemoveWorkspaces(start, d)
  OBVIOUS
<1>6. a = [ws |-> ws, output |-> place, groups |-> ext.groups, bar |-> b, changed |-> c]
  <2>1. start.ws = ext.ws
    OBVIOUS
  <2>2. a = [start EXCEPT !.ws = Without(@, old), !.output = Without(@, old), !.bar = b, !.changed = c]
    BY <1>1, <1>3, <1>4, <1>5, <2>1 DEF RemoveWorkspaces
  <2>. QED  BY <1>2, <2>2
<1>7. PICK k : k = (c \/ lost # {})
  OBVIOUS
<1>8. r = [ws |-> ws, output |-> place, groups |-> groups, bar |-> e, changed |-> k]
  <2>1. a.groups = ext.groups /\ a.bar = b /\ a.changed = c
    BY <1>6
  <2>2. r = [a EXCEPT !.groups = groups, !.bar = e, !.changed = k]
    BY <1>1, <1>2, <1>3, <1>5, <1>7, <2>1 DEF RemoveGroups
  <2>. QED  BY <1>6, <2>2
<1>9. r.ws = ws /\ r.output = place /\ r.groups = groups /\ r.bar = e /\ r.changed = k /\ IsAcc(r)
  BY <1>8 DEF IsAcc
<1>10. k \in BOOLEAN
  BY <1>4, <1>7
<1>11. /\ ext.ws = [s \in DOMAIN ext.ws |-> ext.ws[s]] /\ ext.output = [s \in DOMAIN ext.ws |-> ext.output[s]]
       /\ \A s \in DOMAIN ext.ws : WellNamed(ext.ws[s])
  BY DEF BarInv, SentWell
<1>12. /\ DOMAIN ws = DOMAIN ext.ws \ old /\ ws = [s \in DOMAIN ws |-> ws[s]]
       /\ place = [s \in DOMAIN ws |-> place[s]]
       /\ \A s \in DOMAIN ws : ws[s] = ext.ws[s] /\ place[s] = ext.output[s]
  BY <1>2, <1>11 DEF Without
<1>13. SentWell(ws, place) /\ DOMAIN ws \subseteq Workspaces(d) /\ groups \subseteq Connected(d)
  BY <1>1, <1>2, <1>11, <1>12 DEF SentWell
<1>14. ExtIsTrue(ws, place, d, {})
  BY DEF ExtIsTrue
<1>15. ASSUME actions # Nil
       PROVE  /\ BarFits(e, ws, place, groups) /\ e.shown = bar.shown
              /\ ~k => e.ws = bar.ws /\ e.groups = bar.groups
  <2>1. /\ IsBar(bar)
        /\ bar.ws = [s \in DOMAIN ext.ws |-> bar.ws[s]]
        /\ \A s \in DOMAIN ext.ws : bar.ws[s] \in {<<>>, <<ext.ws[s]>>}
        /\ bar.groups = [o \in ext.groups |-> bar.groups[o]]
        /\ \A o \in ext.groups :
              /\ bar.groups[o] \subseteq DOMAIN ext.ws
              /\ \A s \in DOMAIN ext.ws : s \in bar.groups[o] <=> ext.output[s] = o /\ bar.ws[s] # <<>>
    BY <1>15 DEF BarInv, BarFits
  <2>2. PICK h, g : h = Without(bar.ws, old) /\ g = Without(members, lost)
    OBVIOUS
  <2>3. b = [ws |-> h, groups |-> members, shown |-> bar.shown]
    BY <1>2, <1>3, <2>1, <2>2 DEF IsBar
  <2>4. e = [ws |-> h, groups |-> g, shown |-> bar.shown]
    <3>1. b.groups = members
      BY <2>3
    <3>2. e = [b EXCEPT !.groups = g]
      BY <1>3, <2>2, <3>1
    <3>. QED  BY <2>3, <3>2
  <2>5. e.ws = h /\ e.groups = g /\ e.shown = bar.shown /\ IsBar(e)
    BY <2>4 DEF IsBar
  <2>6. /\ DOMAIN h = DOMAIN ws /\ h = [s \in DOMAIN ws |-> h[s]]
        /\ \A s \in DOMAIN ws : h[s] = bar.ws[s]
    BY <1>12, <2>1, <2>2 DEF Without
  <2>7. /\ DOMAIN g = groups /\ g = [o \in groups |-> g[o]]
        /\ \A o \in groups : o \in ext.groups /\ g[o] = bar.groups[o] \ old
    BY <1>2, <2>1, <2>2 DEF Without
  <2>8. \A s \in DOMAIN ws : h[s] \in {<<>>, <<ws[s]>>}
    BY <1>12, <2>1, <2>6
  <2>9. ASSUME NEW o \in groups
        PROVE  /\ g[o] \subseteq DOMAIN ws
               /\ \A s \in DOMAIN ws : s \in g[o] <=> place[s] = o /\ h[s] # <<>>
    <3>1. o \in ext.groups /\ g[o] = bar.groups[o] \ old
      BY <2>7
    <3>2. g[o] \subseteq DOMAIN ws
      BY <1>12, <2>1, <3>1
    <3>3. ASSUME NEW s \in DOMAIN ws
          PROVE  s \in g[o] <=> place[s] = o /\ h[s] # <<>>
      BY <1>12, <2>1, <2>6, <3>1
    <3>. QED  BY <3>2, <3>3
  <2>10. BarFits(e, ws, place, groups)
    BY <2>5, <2>6, <2>7, <2>8, <2>9 DEF BarFits
  <2>11. ASSUME ~k PROVE h = bar.ws /\ g = bar.groups
    <3>1. old = {} /\ lost = {}
      BY <1>4, <1>7, <2>11
    <3>2. DOMAIN ws = DOMAIN ext.ws /\ groups = ext.groups
      BY <1>2, <1>12, <3>1
    <3>3. h = bar.ws
      <4>1. PICK x : x = bar.ws
        OBVIOUS
      <4>2. x = [s \in DOMAIN ws |-> x[s]]
        BY <2>1, <3>2, <4>1, Zenon
      <4>3. \A s \in DOMAIN ws : h[s] = x[s]
        BY <2>6, <4>1, Zenon
      <4>4. h = [s \in DOMAIN ws |-> h[s]]
        BY <2>6, Zenon
      <4>. QED  BY <4>1, <4>2, <4>3, <4>4
    <3>4. g = bar.groups
      <4>1. PICK x : x = bar.groups
        OBVIOUS
      <4>2. x = [o \in groups |-> x[o]]
        BY <2>1, <3>2, <4>1, Zenon
      <4>3. \A o \in groups : g[o] = x[o]
        <5>1. ASSUME NEW o \in groups PROVE g[o] = x[o]
          <6>1. g[o] = x[o] \ old
            BY <2>7, <4>1, Zenon
          <6>. QED  BY <3>1, <6>1
        <5>. QED  BY <5>1
      <4>4. g = [o \in groups |-> g[o]]
        BY <2>7, Zenon
      <4>. QED  BY <4>1, <4>2, <4>3, <4>4
    <3>. QED  BY <3>3, <3>4
  <2>. QED  BY <2>5, <2>10, <2>11
<1>. QED  BY <1>9, <1>10, <1>13, <1>14, <1>15 DEF BarAt

\* A bar is told of all workspaces and of all groups.
LEMMA BarRefreshed ==
    ASSUME BarInv, IsDesk(desk), NEW r, r = ExtRefreshed(desk)
    PROVE  BarAt(r, desk, Workspaces(desk), Connected(desk))
<1>1. PICK d, start, removed : /\ d = desk /\ removed = RemoveGroups(RemoveWorkspaces(start, d), d)
                               /\ start = [ws |-> ext.ws, output |-> ext.output, groups |-> ext.groups,
                                           bar |-> bar, changed |-> FALSE]
  OBVIOUS
<1>2. PICK q, updated, o : /\ q = SetToSeq(Workspaces(d))
                           /\ updated = RefreshAll("workspace", removed, d, q)
                           /\ o = SetToSeq(Connected(d))
  OBVIOUS
<1>3. r = RefreshAll("group", updated, d, o)
  BY <1>1, <1>2, Zenon DEF ExtRefreshed
<1>4. BarAt(removed, d, {}, {})
  BY <1>1, OldRemoved
<1>5. BarAt(updated, d, Workspaces(d), {})
  <2>1. PICK n \in Nat : Lists(q, n, Workspaces(d))
    BY <1>1, <1>2, WorkspacesFinite, SeqOfSet
  <2>2. n = Len(q) /\ (\A i \in 1 .. n : q[i] \in Workspaces(d)) /\ {q[j] : j \in 1 .. n} = Workspaces(d)
    BY <2>1 DEF Lists
  <2>3. PICK after : /\ after[0] = removed /\ updated = after[n]
                     /\ \A i \in 1 .. n : after[i] = RefreshOne("workspace", after[i - 1], d, q[i])
    <3>1. \E after : Refreshes(after, "workspace", removed, d, q, n, updated)
      BY <1>2, <2>2, RefreshedAre
    <3>. QED  BY <3>1, Zenon DEF Refreshes
  <2>4. PICK G : G = {i \in 0 .. n : BarAt(after[i], d, {q[j] : j \in 1 .. i}, {})}
    OBVIOUS
  <2>5. 0 \in G
    <3>1. {q[j] : j \in 1 .. 0} = {}
      OBVIOUS
    <3>. QED  BY <1>4, <2>3, <2>4, <3>1
  <2>6. ASSUME NEW i \in 1 .. n, i - 1 \in G
        PROVE  i \in G
    <3>1. PICK D, s, a, c : D = {q[j] : j \in 1 .. i - 1} /\ s = q[i] /\ a = after[i - 1] /\ c = after[i]
      OBVIOUS
    <3>2. BarAt(a, d, D, {}) /\ s \in Workspaces(d)
      BY <2>2, <2>4, <2>6, <3>1
    <3>3. c = RefreshWorkspace(a, d, s)
      BY <2>3, <3>1 DEF RefreshOne
    <3>4. BarAt(c, d, D \cup {s}, {})
      BY <3>2, <3>3, WorkspaceLooked
    <3>5. D \cup {s} = {q[j] : j \in 1 .. i}
      <4>1. \A j : j \in 1 .. i <=> j \in 1 .. i - 1 \/ j = i
        OBVIOUS
      <4>. QED  BY <3>1, <4>1
    <3>. QED  BY <2>4, <3>1, <3>4, <3>5
  <2>7. n \in G
    <3>1. \A i \in 1 .. n : i - 1 \in G => i \in G
      BY <2>6
    <3>2. \A i \in 0 .. n : i \in G
      BY <2>5, <3>1, Reaches
    <3>. QED  BY <3>2
  <2>. QED  BY <2>2, <2>3, <2>4, <2>7
<1>6. BarAt(r, d, Workspaces(d), Connected(d))
  <2>1. PICK n \in Nat : Lists(o, n, Connected(d))
    BY <1>1, <1>2, ConnectedFinite, SeqOfSet
  <2>2. n = Len(o) /\ (\A i \in 1 .. n : o[i] \in Connected(d)) /\ {o[j] : j \in 1 .. n} = Connected(d)
    BY <2>1 DEF Lists
  <2>3. PICK after : /\ after[0] = updated /\ r = after[n]
                     /\ \A i \in 1 .. n : after[i] = RefreshOne("group", after[i - 1], d, o[i])
    <3>1. \E after : Refreshes(after, "group", updated, d, o, n, r)
      BY <1>3, <2>2, RefreshedAre
    <3>. QED  BY <3>1, Zenon DEF Refreshes
  <2>4. PICK G : G = {i \in 0 .. n : BarAt(after[i], d, Workspaces(d), {o[j] : j \in 1 .. i})}
    OBVIOUS
  <2>5. 0 \in G
    <3>1. {o[j] : j \in 1 .. 0} = {}
      OBVIOUS
    <3>. QED  BY <1>5, <2>3, <2>4, <3>1
  <2>6. ASSUME NEW i \in 1 .. n, i - 1 \in G
        PROVE  i \in G
    <3>1. PICK H, p, a, c : H = {o[j] : j \in 1 .. i - 1} /\ p = o[i] /\ a = after[i - 1] /\ c = after[i]
      OBVIOUS
    <3>2. BarAt(a, d, Workspaces(d), H) /\ p \in Connected(d)
      BY <2>2, <2>4, <2>6, <3>1
    <3>3. c = RefreshGroup(a, p)
      BY <2>3, <3>1 DEF RefreshOne
    <3>4. BarAt(c, d, Workspaces(d), H \cup {p})
      BY <3>2, <3>3, GroupLooked
    <3>5. H \cup {p} = {o[j] : j \in 1 .. i}
      <4>1. \A j : j \in 1 .. i <=> j \in 1 .. i - 1 \/ j = i
        OBVIOUS
      <4>. QED  BY <3>1, <4>1
    <3>. QED  BY <2>4, <3>1, <3>4, <3>5
  <2>7. n \in G
    <3>1. \A i \in 1 .. n : i - 1 \in G => i \in G
      BY <2>6
    <3>2. \A i \in 0 .. n : i \in G
      BY <2>5, <3>1, Reaches
    <3>. QED  BY <3>2
  <2>. QED  BY <2>2, <2>3, <2>4, <2>7
<1>. QED  BY <1>1, <1>6

----------------------------------------------------------------------------
\* Steps that neither the bar nor the panel is told of.
Untold ==
    /\ UNCHANGED <<ext, bar, toplevels, panel, managed>>
    /\ actions' # Nil => actions # Nil
    /\ dirty' = TRUE \/ (desk' = desk /\ dirty' = dirty)

LEMMA UntoldKeeps ==
    ASSUME HandlesInv, Untold
    PROVE  HandlesInv'
<1>1. /\ ext' = ext /\ bar' = bar /\ toplevels' = toplevels /\ panel' = panel /\ managed' = managed
      /\ actions' # Nil => actions # Nil
      /\ dirty' = TRUE \/ (desk' = desk /\ dirty' = dirty)
  BY DEF Untold
<1>2. BarInv'
  BY <1>1, Zenon DEF HandlesInv, BarInv
<1>3. PanelInv'
  BY <1>1, Zenon DEF HandlesInv, PanelInv
<1>4. (~dirty => SentIsTrue)'
  <2>1. CASE dirty' = TRUE
    BY <2>1
  <2>2. CASE desk' = desk /\ dirty' = dirty
    BY <1>1, <2>2 DEF HandlesInv, SentIsTrue
  <2>. QED  BY <1>1, <2>1, <2>2
<1>. QED  BY <1>2, <1>3, <1>4 DEF HandlesInv

\* Steps of a client that has handles, or gets them.
Unsent == UNCHANGED <<desk, dirty, ext, toplevels>>

LEMMA UnsentKeeps ==
    ASSUME HandlesInv, Unsent, BarInv', PanelInv'
    PROVE  HandlesInv'
<1>1. desk' = desk /\ dirty' = dirty /\ ext' = ext /\ toplevels' = toplevels
  BY DEF Unsent
<1>2. SentIsTrue' <=> SentIsTrue
  BY <1>1 DEF SentIsTrue
<1>. QED  BY <1>1, <1>2 DEF HandlesInv

LEMMA BarStays ==
    ASSUME BarInv, ext' = ext, bar' = bar, actions' = actions
    PROVE  BarInv'
  BY Zenon DEF BarInv

LEMMA PanelStays ==
    ASSUME PanelInv, toplevels' = toplevels, panel' = panel, managed' = managed
    PROVE  PanelInv'
  BY Zenon DEF PanelInv

LEMMA BindBarKeeps ==
    ASSUME HandlesInv, BindBar
    PROVE  HandlesInv'
<1>1. PICK ws, groups : /\ ws = [s \in DOMAIN ext.ws |-> <<ext.ws[s]>>]
                        /\ groups = [o \in ext.groups |-> {s \in DOMAIN ext.ws : ext.output[s] = o}]
  OBVIOUS
<1>2. /\ bar' = Done([ws |-> ws, groups |-> groups, shown |-> Nil])
      /\ UNCHANGED <<desk, dirty, ext, toplevels, panel, managed>>
  BY <1>1, Zenon DEF BindBar, deskVars
<1>3. bar' = [ws |-> ws, groups |-> groups, shown |-> [ws |-> ws, groups |-> groups]]
  BY <1>2 DEF Done
<1>4. PICK b : b = bar'
  OBVIOUS
<1>5. IsBar(b) /\ b.ws = ws /\ b.groups = groups /\ b.shown = [ws |-> b.ws, groups |-> b.groups]
  BY <1>3, <1>4 DEF IsBar
<1>6. BarFits(b, ext.ws, ext.output, ext.groups)
  BY <1>1, <1>5 DEF BarFits
<1>7. BarInv'
  BY <1>2, <1>4, <1>5, <1>6, Zenon DEF HandlesInv, BarInv
<1>8. PanelInv'
  BY <1>2, PanelStays DEF HandlesInv
<1>. QED  BY <1>2, <1>7, <1>8, UnsentKeeps DEF Unsent

LEMMA BindPanelKeeps ==
    ASSUME HandlesInv, BindPanel
    PROVE  HandlesInv'
<1>1. PICK view : view = [w \in DOMAIN toplevels |-> <<toplevels[w]>>]
  OBVIOUS
<1>2. /\ panel' = [view |-> view, most |-> 0]
      /\ UNCHANGED <<desk, dirty, ext, bar, actions, toplevels>>
  BY <1>1, Zenon DEF BindPanel, deskVars
<1>3. PICK p : p = panel'
  OBVIOUS
<1>4. p = [view |-> p.view, most |-> p.most] /\ p.view = view /\ p.most = 0
  BY <1>2, <1>3
<1>5. PanelFits(view, toplevels) /\ DOMAIN view = DOMAIN toplevels
  BY <1>1 DEF PanelFits
<1>6. PanelInv'
  BY <1>2, <1>3, <1>4, <1>5 DEF HandlesInv, PanelInv
<1>7. BarInv'
  BY <1>2, BarStays DEF HandlesInv
<1>. QED  BY <1>2, <1>6, <1>7, UnsentKeeps DEF Unsent

LEMMA StopBarKeeps ==
    ASSUME HandlesInv, StopBar
    PROVE  HandlesInv'
<1>1. actions' = Nil /\ UNCHANGED <<desk, dirty, ext, toplevels, panel, managed>>
  BY DEF StopBar
<1>2. BarInv'
  BY <1>1 DEF HandlesInv, BarInv
<1>3. PanelInv'
  BY <1>1, PanelStays DEF HandlesInv
<1>. QED  BY <1>1, <1>2, <1>3, UnsentKeeps DEF Unsent

LEMMA StopPanelKeeps ==
    ASSUME HandlesInv, StopPanel
    PROVE  HandlesInv'
<1>1. managed' = "stopped" /\ UNCHANGED <<desk, dirty, ext, bar, actions, toplevels, panel>>
  BY DEF StopPanel
<1>2. PanelInv'
  BY <1>1 DEF HandlesInv, PanelInv
<1>3. BarInv'
  BY <1>1, BarStays DEF HandlesInv
<1>. QED  BY <1>1, <1>2, <1>3, UnsentKeeps DEF Unsent

LEMMA DestroyHandleKeeps ==
    ASSUME HandlesInv, DestroyHandle
    PROVE  HandlesInv'
<1>1. PICK s \in DOMAIN bar.ws :
         bar' = [bar EXCEPT !.ws[s] = <<>>, !.shown.ws[s] = <<>>,
                            !.groups = [o \in DOMAIN @ |-> @[o] \ {s}],
                            !.shown.groups = [o \in DOMAIN @ |-> @[o] \ {s}]]
  BY Zenon DEF DestroyHandle
<1>2. UNCHANGED <<desk, dirty, ext, actions, toplevels, panel, managed>>
  BY DEF DestroyHandle
<1>3. PanelInv'
  BY <1>2, PanelStays DEF HandlesInv
<1>4. ASSUME actions # Nil
      PROVE  /\ BarFits(bar', ext.ws, ext.output, ext.groups)
             /\ bar'.shown = [ws |-> bar'.ws, groups |-> bar'.groups]
  <2>1. /\ IsBar(bar) /\ bar.shown = [ws |-> bar.ws, groups |-> bar.groups]
        /\ bar.ws = [t \in DOMAIN ext.ws |-> bar.ws[t]]
        /\ \A t \in DOMAIN ext.ws : bar.ws[t] \in {<<>>, <<ext.ws[t]>>}
        /\ bar.groups = [o \in ext.groups |-> bar.groups[o]]
        /\ \A o \in ext.groups :
              /\ bar.groups[o] \subseteq DOMAIN ext.ws
              /\ \A t \in DOMAIN ext.ws : t \in bar.groups[o] <=> ext.output[t] = o /\ bar.ws[t] # <<>>
    BY <1>4 DEF HandlesInv, BarInv, BarFits
  <2>2. PICK ws, groups, b : /\ ws = [bar.ws EXCEPT ![s] = <<>>] /\ b = bar'
                             /\ groups = [o \in DOMAIN bar.groups |-> bar.groups[o] \ {s}]
    OBVIOUS
  <2>3. b = [ws |-> ws, groups |-> groups, shown |-> [ws |-> ws, groups |-> groups]]
    <3>1. PICK old, h, g : old = bar /\ h = bar.ws /\ g = bar.groups
      OBVIOUS
    <3>2. old = [ws |-> h, groups |-> g, shown |-> [ws |-> h, groups |-> g]]
      BY <2>1, <3>1 DEF IsBar
    <3>3. b = [old EXCEPT !.ws[s] = <<>>, !.shown.ws[s] = <<>>,
                          !.groups = [o \in DOMAIN @ |-> @[o] \ {s}],
                          !.shown.groups = [o \in DOMAIN @ |-> @[o] \ {s}]]
      BY <1>1, <2>2, <3>1
    <3>4. ws = [h EXCEPT ![s] = <<>>] /\ groups = [o \in DOMAIN g |-> g[o] \ {s}]
      BY <2>2, <3>1
    <3>. QED  BY <3>2, <3>3, <3>4
  <2>4. b.ws = ws /\ b.groups = groups /\ b.shown = [ws |-> b.ws, groups |-> b.groups] /\ IsBar(b)
    BY <2>3 DEF IsBar
  <2>5. /\ DOMAIN ws = DOMAIN ext.ws /\ ws = [t \in DOMAIN ext.ws |-> ws[t]] /\ ws[s] = <<>>
        /\ \A t \in DOMAIN ext.ws : t # s => ws[t] = bar.ws[t]
    BY <2>1, <2>2
  <2>6. /\ DOMAIN groups = ext.groups /\ groups = [o \in ext.groups |-> groups[o]]
        /\ \A o \in ext.groups : groups[o] = bar.groups[o] \ {s}
    BY <2>1, <2>2
  <2>7. \A t \in DOMAIN ext.ws : ws[t] \in {<<>>, <<ext.ws[t]>>}
    BY <2>1, <2>5
  <2>8. ASSUME NEW o \in ext.groups
        PROVE  /\ groups[o] \subseteq DOMAIN ext.ws
               /\ \A t \in DOMAIN ext.ws : t \in groups[o] <=> ext.output[t] = o /\ ws[t] # <<>>
    <3>0. PICK m : m = bar.groups[o]
      OBVIOUS
    <3>3. groups[o] = m \ {s} /\ m \subseteq DOMAIN ext.ws
      BY <2>1, <2>6, <3>0, Zenon
    <3>4. \A t \in DOMAIN ext.ws : t \in m <=> ext.output[t] = o /\ bar.ws[t] # <<>>
      BY <2>1, <3>0, Zenon
    <3>1. ASSUME NEW t \in DOMAIN ext.ws
          PROVE  t \in groups[o] <=> ext.output[t] = o /\ ws[t] # <<>>
      <4>1. CASE t = s
        BY <2>5, <3>3, <4>1
      <4>2. CASE t # s
        <5>1. ws[t] = bar.ws[t]
          BY <2>5, <4>2, Zenon
        <5>. QED  BY <3>3, <3>4, <4>2, <5>1, Zenon
      <4>. QED  BY <4>1, <4>2
    <3>2. groups[o] \subseteq DOMAIN ext.ws
      BY <3>3
    <3>. QED  BY <3>1, <3>2
  <2>9. BarFits(b, ext.ws, ext.output, ext.groups)
    BY <2>4, <2>5, <2>6, <2>7, <2>8 DEF BarFits
  <2>. QED  BY <2>2, <2>4, <2>9
<1>5. BarInv'
  BY <1>2, <1>4, Zenon DEF HandlesInv, BarInv
<1>. QED  BY <1>2, <1>3, <1>5, UnsentKeeps DEF Unsent

LEMMA DestroyToplevelKeeps ==
    ASSUME HandlesInv, DestroyToplevel
    PROVE  HandlesInv'
<1>1. PICK w \in DOMAIN panel.view : panel' = [panel EXCEPT !.view[w] = <<>>]
  BY Zenon DEF DestroyToplevel
<1>2. UNCHANGED <<desk, dirty, ext, bar, actions, toplevels, managed>>
  BY DEF DestroyToplevel
<1>3. PICK v, view, p : v = panel.view /\ view = [v EXCEPT ![w] = <<>>] /\ p = panel'
  OBVIOUS
<1>4. panel = [view |-> v, most |-> panel.most] /\ panel.most \in {0, 1}
  BY <1>3 DEF HandlesInv, PanelInv
<1>5. p = [view |-> view, most |-> panel.most]
  BY <1>1, <1>3, <1>4
<1>6. p.view = view /\ p.most = panel.most /\ p = [view |-> p.view, most |-> p.most]
  BY <1>5
<1>7. PanelFits(view, toplevels) /\ DOMAIN view = DOMAIN v
  BY <1>3 DEF HandlesInv, PanelInv, PanelFits
<1>8. PanelInv'
  BY <1>2, <1>3, <1>4, <1>6, <1>7 DEF HandlesInv, PanelInv
<1>9. BarInv'
  BY <1>2, BarStays DEF HandlesInv
<1>. QED  BY <1>2, <1>8, <1>9, UnsentKeeps DEF Unsent

LEMMA HandlesRefreshKeeps ==
    ASSUME HandlesInv, IsDesk(desk), Refresh
    PROVE  HandlesInv'
<1>1. PICK acc, top : acc = ExtRefreshed(desk) /\ top = ToplevelsRefreshed(desk)
  OBVIOUS
<1>2. /\ ext' = [ws |-> acc.ws, output |-> acc.output, groups |-> acc.groups]
      /\ bar' = IF acc.changed /\ actions # Nil THEN Done(acc.bar) ELSE acc.bar
      /\ toplevels' = top.data
      /\ panel' = [view |-> top.view, most |-> top.most]
      /\ actions' = actions /\ managed' = managed /\ desk' = desk
  BY <1>1, Zenon DEF Refresh, HandlesRefresh
<1>3. BarAt(acc, desk, Workspaces(desk), Connected(desk)) /\ PanelAt(top, desk, DOMAIN desk.win)
  BY <1>1, BarRefreshed, PanelRefreshed DEF HandlesInv
<1>4. PICK x, p, b : x = ext' /\ p = panel' /\ b = bar'
  OBVIOUS
<1>5. /\ x.ws = acc.ws /\ x.output = acc.output /\ x.groups = acc.groups
      /\ x = [ws |-> x.ws, output |-> x.output, groups |-> x.groups]
  BY <1>2, <1>4
<1>6. p.view = top.view /\ p.most = top.most /\ p = [view |-> p.view, most |-> p.most]
  BY <1>2, <1>4
<1>7. BarInv'
  <2>1. SentWell(x.ws, x.output)
    BY <1>3, <1>5 DEF BarAt
  <2>2. ASSUME actions # Nil
        PROVE  BarFits(b, x.ws, x.output, x.groups) /\ b.shown = [ws |-> b.ws, groups |-> b.groups]
    <3>1. PICK e : e = acc.bar
      OBVIOUS
    <3>2. /\ BarFits(e, x.ws, x.output, x.groups) /\ e.shown = bar.shown
          /\ ~acc.changed => e.ws = bar.ws /\ e.groups = bar.groups
      BY <1>3, <1>5, <2>2, <3>1 DEF BarAt
    <3>3. IsBar(e) /\ bar.shown = [ws |-> bar.ws, groups |-> bar.groups]
      BY <2>2, <3>2 DEF HandlesInv, BarInv, BarFits
    <3>4. CASE acc.changed
      <4>1. b = Done(e)
        BY <1>2, <1>4, <2>2, <3>1, <3>4
      <4>2. b = [ws |-> e.ws, groups |-> e.groups, shown |-> [ws |-> e.ws, groups |-> e.groups]]
        BY <3>3, <4>1 DEF Done, IsBar
      <4>3. b.ws = e.ws /\ b.groups = e.groups /\ b.shown = [ws |-> b.ws, groups |-> b.groups] /\ IsBar(b)
        BY <4>2 DEF IsBar
      <4>. QED  BY <3>2, <4>3 DEF BarFits
    <3>5. CASE ~acc.changed
      <4>1. b = e
        BY <1>2, <1>4, <3>1, <3>5
      <4>. QED  BY <3>2, <3>3, <3>5, <4>1
    <3>. QED  BY <3>4, <3>5
  <2>. QED  BY <1>2, <1>4, <1>5, <2>1, <2>2 DEF BarInv
<1>8. PanelInv'
  BY <1>2, <1>3, <1>4, <1>6 DEF PanelInv, PanelAt
<1>9. SentIsTrue'
  <2>1. /\ DOMAIN acc.ws = Workspaces(desk)
        /\ ExtIsTrue(acc.ws, acc.output, desk, Workspaces(desk))
        /\ acc.groups = Connected(desk)
    BY <1>3 DEF BarAt, ExtIsTrue
  <2>2. /\ DOMAIN top.data = DOMAIN desk.win
        /\ \A w \in DOMAIN desk.win : top.data[w] = Toplevel(desk, w)
    BY <1>3 DEF PanelAt
  <2>. QED  BY <1>2, <1>4, <1>5, <2>1, <2>2 DEF SentIsTrue
<1>. QED  BY <1>7, <1>8, <1>9 DEF HandlesInv

LEMMA DeskStepDirties ==
    ASSUME IsDesk(desk), CastsFit(server, desk), DeskStep
    PROVE  dirty' = TRUE
<1>1. CASE Toggle
  BY <1>1, ToggleKeeps
<1>2. ASSUME ~Toggle PROVE KeepsDesk
  BY <1>2, RearrangeKeeps, SwitchToKeeps, RenameKeeps, OpenWindowKeeps, CloseWindowKeeps,
     MoveWindowKeeps, AlterWindowKeeps, FocusWindowKeeps, Zenon DEF DeskStep
<1>. QED  BY <1>1, <1>2 DEF KeepsDesk

LEMMA CommitUntold ==
    ASSUME Commit
    PROVE  Untold
<1>1. UNCHANGED <<ext, bar, toplevels, panel, managed>> /\ actions # Nil
  BY Zenon DEF Commit
<1>2. CASE \E i \in DOMAIN actions : Panics(desk, actions[i])
  <2>1. desk' = desk /\ dirty' = dirty
    BY <1>2, Zenon DEF Commit, deskVars
  <2>. QED  BY <1>1, <2>1 DEF Untold
<1>3. CASE ~\E i \in DOMAIN actions : Panics(desk, actions[i])
  <2>1. dirty' = TRUE
    BY <1>3, Zenon DEF Commit
  <2>. QED  BY <1>1, <2>1 DEF Untold
<1>. QED  BY <1>2, <1>3

LEMMA HandlesNext ==
    ASSUME MirrorInv, HandlesInv, [MirrorsNext]_vars
    PROVE  HandlesInv'
<1>0. IsDesk(desk) /\ CastsFit(server, desk)
  BY DEF MirrorInv, Mirrored
<1>1. CASE DeskStep /\ UNCHANGED <<ipcVars, handleVars>>
  <2>1. dirty' = TRUE
    BY <1>0, <1>1, DeskStepDirties
  <2>2. UNCHANGED <<ext, bar, actions, toplevels, panel, managed>>
    BY <1>1 DEF handleVars
  <2>. QED  BY <2>1, <2>2, UntoldKeeps DEF Untold
<1>2. CASE GlobalRemoved
  <2>1. UNCHANGED <<ext, bar, toplevels, panel, managed>> /\ dirty' = TRUE
    BY <1>2, Zenon DEF GlobalRemoved, ForgetGlobal
  <2>2. actions = Nil => actions' = Nil
    BY <1>2, Zenon DEF GlobalRemoved
  <2>. QED  BY <2>1, <2>2, UntoldKeeps DEF Untold
<1>3. CASE ConfigLoaded /\ UNCHANGED handleVars
  <2>1. dirty' = TRUE /\ UNCHANGED <<ext, bar, actions, toplevels, panel, managed>>
    BY <1>3 DEF ConfigLoaded, handleVars
  <2>. QED  BY <2>1, UntoldKeeps DEF Untold
<1>4. CASE Connect
  <2>1. CASE Subscribe /\ UNCHANGED handleVars
    <3>1. UNCHANGED <<desk, dirty, ext, bar, actions, toplevels, panel, managed>>
      BY <2>1 DEF Subscribe, deskVars, handleVars
    <3>. QED  BY <3>1, UntoldKeeps DEF Untold
  <2>2. CASE BindBar
    BY <2>2, BindBarKeeps
  <2>3. CASE BindPanel
    BY <2>3, BindPanelKeeps
  <2>. QED  BY <1>4, <2>1, <2>2, <2>3, Zenon DEF Connect
<1>5. CASE IpcStep /\ UNCHANGED handleVars
  <2>1. UNCHANGED deskVars
    BY <1>5, Zenon DEF IpcStep, ReadEvents, Hangup
  <2>2. UNCHANGED <<desk, dirty, ext, bar, actions, toplevels, panel, managed>>
    BY <1>5, <2>1 DEF deskVars, handleVars
  <2>. QED  BY <2>2, UntoldKeeps DEF Untold
<1>6. CASE HandlesStep
  <2>1. CASE RequestAction
    <3>1. UNCHANGED <<ext, bar, toplevels, panel, managed>> /\ actions # Nil /\ UNCHANGED deskVars
      BY <2>1, Zenon DEF RequestAction
    <3>2. desk' = desk /\ dirty' = dirty
      BY <3>1 DEF deskVars
    <3>. QED  BY <3>1, <3>2, UntoldKeeps DEF Untold
  <2>2. CASE Commit
    BY <2>2, CommitUntold, UntoldKeeps
  <2>. QED  BY <1>6, <2>1, <2>2, StopBarKeeps, DestroyHandleKeeps, StopPanelKeeps,
                DestroyToplevelKeeps, Zenon DEF HandlesStep
<1>7. CASE ActivateToplevel
  <2>1. dirty' = TRUE
    BY <1>0, <1>7, ActivateToplevelKeeps DEF KeepsDesk
  <2>2. UNCHANGED <<ext, bar, actions, toplevels, panel, managed>>
    BY <1>7 DEF ActivateToplevel, handleVars
  <2>. QED  BY <2>1, <2>2, UntoldKeeps DEF Untold
<1>8. CASE Refresh
  BY <1>0, <1>8, HandlesRefreshKeeps
<1>9. CASE UNCHANGED vars
  <2>1. UNCHANGED <<desk, dirty, ext, bar, actions, toplevels, panel, managed>>
    BY <1>9 DEF vars, deskVars, handleVars
  <2>. QED  BY <2>1, UntoldKeeps DEF Untold
<1>. QED  BY <1>1, <1>2, <1>3, <1>4, <1>5, <1>6, <1>7, <1>8, <1>9, Zenon DEF MirrorsNext

LEMMA HandlesInitially ==
    ASSUME MirrorsInit
    PROVE  HandlesInv
<1>1. PICK none : none = <<>>
  OBVIOUS
<1>2. DOMAIN none = {} /\ none = [x \in {} |-> none[x]]
  BY <1>1
<1>3. /\ ext = [ws |-> none, output |-> none, groups |-> {}] /\ actions = Nil
      /\ toplevels = none /\ panel = [view |-> none, most |-> 0] /\ managed = "off" /\ dirty = TRUE
  BY <1>1 DEF MirrorsInit, HandlesInit, DeskInit
<1>4. BarInv
  <2>1. ext.ws = none /\ ext.output = none /\ ext = [ws |-> ext.ws, output |-> ext.output, groups |-> ext.groups]
    BY <1>3
  <2>2. SentWell(ext.ws, ext.output)
    BY <1>2, <2>1 DEF SentWell
  <2>. QED  BY <1>3, <2>1, <2>2 DEF BarInv
<1>5. PanelInv
  <2>1. panel.view = none /\ panel.most = 0 /\ panel = [view |-> panel.view, most |-> panel.most]
    BY <1>3
  <2>2. PanelFits(none, none) /\ OneOf(none)
    BY <1>2 DEF PanelFits, OneOf
  <2>. QED  BY <1>2, <1>3, <2>1, <2>2 DEF PanelInv
<1>. QED  BY <1>3, <1>4, <1>5 DEF HandlesInv

LEMMA HandlesShowTruth ==
    ASSUME HandlesInv
    PROVE  ClientsSeeTruth
<1>1. OneActivated
  <2>1. panel.most \in {0, 1} /\ PanelFits(panel.view, toplevels) /\ OneOf(toplevels)
    BY DEF HandlesInv, PanelInv
  <2>2. Cardinality(Activated(panel.view)) \in {0, 1}
    BY <2>1, OneIsActivated
  <2>. QED  BY <2>1, <2>2 DEF OneActivated
<1>2. ASSUME ~dirty
      PROVE  /\ \A w \in DOMAIN panel.view :
                   w \in DOMAIN desk.win /\ panel.view[w] \in {<<>>, <<Toplevel(desk, w)>>}
             /\ managed = "bound" => DOMAIN panel.view = DOMAIN desk.win
  <2>1. SentIsTrue /\ PanelInv
    BY <1>2 DEF HandlesInv
  <2>2. ASSUME NEW w \in DOMAIN panel.view
        PROVE  w \in DOMAIN desk.win /\ panel.view[w] \in {<<>>, <<Toplevel(desk, w)>>}
    <3>1. w \in DOMAIN toplevels /\ panel.view[w] \in {<<>>, <<toplevels[w]>>}
      BY <2>1 DEF PanelInv, PanelFits
    <3>2. w \in DOMAIN desk.win /\ toplevels[w] = Toplevel(desk, w)
      BY <2>1, <3>1, Zenon DEF SentIsTrue
    <3>. QED  BY <3>1, <3>2
  <2>3. managed = "bound" => DOMAIN panel.view = DOMAIN desk.win
    BY <2>1, Zenon DEF PanelInv, SentIsTrue
  <2>. QED  BY <2>2, <2>3
<1>3. ASSUME ~dirty, actions # Nil
      PROVE  /\ DOMAIN bar.shown.ws = Workspaces(desk)
             /\ \A s \in Workspaces(desk) : bar.shown.ws[s] \in {<<>>, <<ExtWorkspace(desk, s)>>}
             /\ bar.shown.groups =
                  [o \in Connected(desk) |->
                      {s \in Workspaces(desk) : OutputOf(desk, s) = o /\ bar.shown.ws[s] # <<>>}]
  <2>1. SentIsTrue /\ BarFits(bar, ext.ws, ext.output, ext.groups)
        /\ bar.shown = [ws |-> bar.ws, groups |-> bar.groups]
    BY <1>3 DEF HandlesInv, BarInv
  <2>2. PICK W, C, h, g, ws, place : /\ W = Workspaces(desk) /\ C = Connected(desk)
                                     /\ h = bar.ws /\ g = bar.groups
                                     /\ ws = ext.ws /\ place = ext.output
    OBVIOUS
  <2>3. bar.shown.ws = h /\ bar.shown.groups = g
    BY <2>1, <2>2
  <2>4. /\ DOMAIN ws = W /\ ext.groups = C
        /\ \A s \in W : ws[s] = ExtWorkspace(desk, s) /\ place[s] = OutputOf(desk, s)
    BY <2>1, <2>2, Zenon DEF SentIsTrue, ExtIsTrue
  <2>5. /\ h = [s \in W |-> h[s]] /\ \A s \in W : h[s] \in {<<>>, <<ws[s]>>}
        /\ g = [o \in C |-> g[o]]
        /\ \A o \in C : /\ g[o] \subseteq W
                        /\ \A s \in W : s \in g[o] <=> place[s] = o /\ h[s] # <<>>
    BY <2>1, <2>2, <2>4 DEF BarFits
  <2>6. DOMAIN h = W
    BY <2>5
  <2>7. \A s \in W : h[s] \in {<<>>, <<ExtWorkspace(desk, s)>>}
    BY <2>4, <2>5
  <2>8. \A o \in C : g[o] = {s \in W : OutputOf(desk, s) = o /\ h[s] # <<>>}
    <3>1. ASSUME NEW o \in C
          PROVE  g[o] = {s \in W : OutputOf(desk, s) = o /\ h[s] # <<>>}
      <4>1. \A s \in W : s \in g[o] <=> OutputOf(desk, s) = o /\ h[s] # <<>>
        BY <2>4, <2>5
      <4>2. g[o] \subseteq W
        BY <2>5
      <4>. QED  BY <4>1, <4>2
    <3>. QED  BY <3>1
  <2>9. g = [o \in C |-> {s \in W : OutputOf(desk, s) = o /\ h[s] # <<>>}]
    BY <2>5, <2>8
  <2>. QED  BY <2>2, <2>3, <2>6, <2>7, <2>9
<1>. QED  BY <1>1, <1>2, <1>3, Zenon DEF ClientsSeeTruth, HandlesAreTrue

(***************************************************************************)
(* After each refresh a bar shows the workspaces there are, by their names *)
(* and places and in the groups of their outputs, and a panel the windows  *)
(* there are; and at no event, not even in the middle of a refresh, does a *)
(* panel have two windows activated.  It is so of any desktop, however it  *)
(* changed within a turn of the event loop, whenever the clients bound and *)
(* whichever handles they destroyed (protocols/ext_workspace.rs:84,        *)
(* protocols/foreign_toplevel.rs:95, :113).                                *)
(***************************************************************************)
THEOREM ClientsSafety == MirrorsSpec => []ClientsSeeTruth
<1>1. MirrorsInit => MirrorInv /\ HandlesInv
  BY InvInit, HandlesInitially
<1>2. MirrorInv /\ HandlesInv /\ [MirrorsNext]_vars => MirrorInv' /\ HandlesInv'
  BY InvNext, HandlesNext
<1>3. HandlesInv => ClientsSeeTruth
  BY HandlesShowTruth
<1>. QED  BY <1>1, <1>2, <1>3, PTL DEF MirrorsSpec
=============================================================================
