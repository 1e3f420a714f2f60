---------------------------- MODULE OutputsProofs ---------------------------
(***************************************************************************)
(* What outputs show and where they are, proved of three components: gamma *)
(* control, output configuration with its clients, and the TTY backend     *)
(* under the GPUs and connectors that come and go.                         *)
(***************************************************************************)
EXTENDS Gamma, Outputs, Devices, SequenceTheorems, FiniteSetTheorems, WellFoundedInduction, TLAPS

----------------------------------------------------------------------------
(***************************************************************************)
(* Gamma control restores what it should, for any CRTCs and any ramps. The *)
(* hardware alone says nothing while the session is suspended, so the      *)
(* argument follows the ramp that resuming is going to apply.              *)
(***************************************************************************)
Ramp == Ramps \cup {Default}

GammaTypeOK ==
    /\ on \subseteq Crtcs /\ controlled \subseteq on
    /\ active \in BOOLEAN
    /\ asked \in [Crtcs -> Ramp]
    /\ pending \in [Crtcs -> Ramp \cup {NoChange}]
    /\ blob \in [Crtcs -> Ramp]
    /\ hw \in [Crtcs -> Ramp \cup {Foreign}]

\* Changes wait only while the session is suspended.
NothingWaits == active => \A c \in Crtcs : pending[c] = NoChange

\* The ramp of a surface: the one that waits, otherwise the one that was set.
Due(c) == IF pending[c] # NoChange THEN pending[c] ELSE blob[c]

\* What is due is what the control asked for, whatever the hardware shows meanwhile.
DueAsAsked == \A c \in on : Due(c) = asked[c]

\* An output that goes takes its ramp with it.
AbsentAsksNothing == \A c \in Crtcs \ on : asked[c] = Default

GammaInv ==
    /\ GammaTypeOK
    /\ NothingWaits
    /\ DueAsAsked
    /\ AbsentAsksNothing
    /\ GammaFollowsControl

\* No ramp is mistaken for the absence of a change.
LEMMA RampsAreChanges == \A r \in Ramp : r # NoChange
BY RampsAssumption DEF Ramp, Default, Foreign, NoChange

\* Setting the ramp that the control asks for keeps the invariant, suspended or not.
LEMMA SetGammaStep ==
    ASSUME GammaInv, NEW c \in on, NEW r \in Ramp, set_gamma(c, r),
           asked' = [asked EXCEPT ![c] = r],
           UNCHANGED <<on, active>>, controlled' \subseteq controlled
    PROVE  GammaInv'
<1> USE DEF GammaInv, GammaTypeOK
<1>1. GammaTypeOK'
  BY DEF set_gamma
<1>2. NothingWaits'
  BY DEF set_gamma, NothingWaits
<1>3. DueAsAsked'
  BY RampsAreChanges DEF set_gamma, DueAsAsked, Due, NothingWaits
<1>4. AbsentAsksNothing'
  BY DEF AbsentAsksNothing
<1>5. GammaFollowsControl'
  BY DEF set_gamma, GammaFollowsControl
<1> QED
  BY <1>1, <1>2, <1>3, <1>4, <1>5

\* Resuming applies what is due, also to what another session has changed.
LEMMA ResumeStep ==
    ASSUME GammaInv, NEW gone \in SUBSET on, Resume(gone)
    PROVE  GammaInv'
<1> USE DEF GammaInv, GammaTypeOK
<1>1. /\ active' = TRUE /\ on' = on \ gone /\ controlled' = controlled \ gone
      /\ asked' = [c \in Crtcs |-> IF c \in gone THEN Default ELSE asked[c]]
      /\ hw' = [c \in Crtcs |-> IF c \in on' THEN Restored(c) ELSE hw[c]]
      /\ blob' = [c \in Crtcs |-> IF c \in on' /\ pending[c] # NoChange THEN pending[c] ELSE blob[c]]
      /\ pending' = [c \in Crtcs |-> NoChange]
  BY DEF Resume
<1>2. \A c \in Crtcs : Restored(c) \in Ramp \cup {Foreign}
  BY DEF Restored
<1>3. GammaTypeOK'
  BY <1>1, <1>2, RampsAreChanges DEF Ramp
<1>4. NothingWaits'
  BY <1>1 DEF NothingWaits
<1>5. DueAsAsked'
  BY <1>1 DEF DueAsAsked, Due
<1>6. AbsentAsksNothing'
  BY <1>1 DEF AbsentAsksNothing
<1>7. ASSUME NEW c \in on' \cap Atomic PROVE hw'[c] = asked'[c]
  <2>1. Restored(c) = Due(c)
    BY <1>1 DEF Restored, Due
  <2> QED
    BY <1>1, <2>1 DEF DueAsAsked
<1> QED
  BY <1>3, <1>4, <1>5, <1>6, <1>7 DEF GammaFollowsControl

\* Every step keeps the invariant.
LEMMA GammaStep == GammaInv /\ [GammaNext]_gammaVars => GammaInv'
<1> SUFFICES ASSUME GammaInv, [GammaNext]_gammaVars PROVE GammaInv'
  OBVIOUS
<1> USE DEF GammaInv, GammaTypeOK
<1>1. ASSUME NEW c \in Crtcs, GetGammaControl(c) PROVE GammaInv'
  BY <1>1 DEF GetGammaControl, NothingWaits, DueAsAsked, Due, AbsentAsksNothing, GammaFollowsControl
<1>2. ASSUME NEW c \in Crtcs, NEW r \in Ramps, SetGamma(c, r) PROVE GammaInv'
  <2>1. c \in on /\ r \in Ramp
    BY <1>2 DEF SetGamma, Ramp
  <2> QED
    BY <1>2, <2>1, SetGammaStep DEF SetGamma
<1>3. ASSUME NEW c \in Crtcs, Destroyed(c) PROVE GammaInv'
  <2>1. c \in on /\ Default \in Ramp
    BY <1>3 DEF Destroyed, Ramp
  <2> QED
    BY <1>3, <2>1, SetGammaStep DEF Destroyed
<1>4. ASSUME NEW c \in Crtcs, Connect(c) PROVE GammaInv'
  BY <1>4 DEF Connect, Ramp, NothingWaits, DueAsAsked, Due, AbsentAsksNothing, GammaFollowsControl
<1>5. ASSUME NEW c \in Crtcs, output_removed(c) PROVE GammaInv'
  BY <1>5 DEF output_removed, Ramp, NothingWaits, DueAsAsked, Due, AbsentAsksNothing, GammaFollowsControl
<1>6. ASSUME NEW c \in Crtcs, OtherSession(c) PROVE GammaInv'
  BY <1>6 DEF OtherSession, NothingWaits, DueAsAsked, Due, AbsentAsksNothing, GammaFollowsControl
<1>7. CASE Suspend
  BY <1>7 DEF Suspend, NothingWaits, DueAsAsked, Due, AbsentAsksNothing, GammaFollowsControl
<1>8. ASSUME NEW gone \in SUBSET on, Resume(gone) PROVE GammaInv'
  BY <1>8, ResumeStep
<1>9. CASE UNCHANGED gammaVars
  BY <1>9 DEF gammaVars, NothingWaits, DueAsAsked, Due, AbsentAsksNothing, GammaFollowsControl
<1> QED
  BY <1>1, <1>2, <1>3, <1>4, <1>5, <1>6, <1>7, <1>8, <1>9 DEF GammaNext

LEMMA GammaInitially == GammaInit => GammaInv
BY DEF GammaInit, GammaInv, GammaTypeOK, Ramp, NothingWaits, DueAsAsked, Due,
       AbsentAsksNothing, GammaFollowsControl

\* On an active session an output with a GAMMA_LUT shows what its control last set, and the
\* default when nobody controls it (Tty::set_gamma, resume, output_removed).
THEOREM GammaSafety == GammaSpec => []GammaFollowsControl
<1>1. GammaInv => GammaFollowsControl
  BY DEF GammaInv
<1> QED
  BY GammaInitially, GammaStep, <1>1, PTL DEF GammaSpec

-----------------------------------------------------------------------------
(***************************************************************************)
(* The row of outputs.                                                     *)
(***************************************************************************)
\* The outputs S stand side by side, and one of them ends the row.
Row(placed, S, width) ==
    /\ DOMAIN placed = S
    /\ \A o \in S : placed[o] \in Nat
    /\ \A o, p \in S : o # p => ~Overlaps(placed[o], width[o], placed[p], width[p])
    /\ S = {} \/ \E o \in S : \A p \in S : placed[p] + width[p] <= placed[o] + width[o]

Widths == [OutSet -> Nat \ {0}]

\* Automatic placement is the end of the row: no output placed reaches beyond it.
LEMMA FallBackEndsRow ==
    ASSUME NEW S \in SUBSET OutSet, NEW width \in Widths, NEW placed, Row(placed, S, width)
    PROVE  /\ FallBack(placed, width) \in Nat
           /\ \A o \in S : placed[o] + width[o] <= FallBack(placed, width)
           /\ S = {} \/ \E o \in S : FallBack(placed, width) = placed[o] + width[o]
<1>1. PICK edges : edges = {placed[o] + width[o] : o \in S}
  OBVIOUS
<1>2. FallBack(placed, width) = IF edges = {} THEN 0 ELSE CHOOSE e \in edges : \A f \in edges : e >= f
  BY <1>1 DEF FallBack, Row
<1>3. \A o \in S : placed[o] + width[o] \in Nat
  BY DEF Row, Widths
<1>4. CASE S = {}
  BY <1>1, <1>2, <1>4
<1>5. CASE S # {}
  <2>1. PICK o \in S : \A p \in S : placed[p] + width[p] <= placed[o] + width[o]
    BY <1>5 DEF Row
  <2>2. placed[o] + width[o] \in edges /\ \A f \in edges : placed[o] + width[o] >= f
    BY <1>1, <1>3, <2>1
  <2>3. PICK m : m = CHOOSE e \in edges : \A f \in edges : e >= f
    OBVIOUS
  <2>4. m \in edges /\ \A f \in edges : m >= f
    BY <2>2, <2>3
  <2>5. FallBack(placed, width) = m
    BY <1>2, <2>2, <2>3
  <2>. QED  BY <1>1, <1>3, <2>4, <2>5
<1>. QED  BY <1>4, <1>5

\* An output placed in a row, where it is wanted or at the end, makes a row again.
LEMMA PlacedInRow ==
    ASSUME NEW S \in SUBSET OutSet, NEW width \in Widths, NEW placed, Row(placed, S, width),
           NEW o \in OutSet \ S, NEW want \in Nat \cup {Nowhere}
    PROVE  Row(PlaceAt(placed, width, o, want), S \cup {o}, width)
<1>1. PICK end : end = FallBack(placed, width)
  OBVIOUS
<1>2. /\ end \in Nat /\ \A p \in S : placed[p] + width[p] <= end
      /\ S = {} \/ \E p \in S : end = placed[p] + width[p]
  BY <1>1, FallBackEndsRow
<1>3. PICK x : x = IF want = Nowhere \/ \E e \in DOMAIN placed : Overlaps(want, width[o], placed[e], width[e])
                   THEN end ELSE want
  OBVIOUS
<1>4. PICK row : row = PlaceAt(placed, width, o, want)
  OBVIOUS
<1>5. DOMAIN placed = S /\ \A p \in S : placed[p] \in Nat /\ width[p] \in Nat \ {0}
  BY DEF Row, Widths
<1>6. row = [e \in S \cup {o} |-> IF e = o THEN x ELSE placed[e]]
  BY <1>1, <1>3, <1>4, <1>5 DEF PlaceAt
<1>7. DOMAIN row = S \cup {o} /\ row[o] = x /\ \A p \in S : row[p] = placed[p]
  BY <1>6
<1>8. x \in Nat /\ width[o] \in Nat \ {0}
  BY <1>2, <1>3 DEF Widths, Nowhere
<1>9. \A p \in S : ~Overlaps(x, width[o], placed[p], width[p]) /\ ~Overlaps(placed[p], width[p], x, width[o])
  <2>1. CASE x = end
    BY <2>1, <1>2, <1>5, <1>8 DEF Overlaps
  <2>2. CASE x = want /\ \A e \in S : ~Overlaps(want, width[o], placed[e], width[e])
    BY <2>2, <1>5, <1>8 DEF Overlaps
  <2>. QED  BY <2>1, <2>2, <1>3, <1>5
<1>10. \A p, q \in S \cup {o} : p # q => ~Overlaps(row[p], width[p], row[q], width[q])
  BY <1>7, <1>9 DEF Row
<1>11. \E p \in S \cup {o} : \A q \in S \cup {o} : row[q] + width[q] <= row[p] + width[p]
  <2>1. CASE S = {} \/ x + width[o] >= end
    <3>1. \A q \in S \cup {o} : row[q] + width[q] <= row[o] + width[o]
      BY <2>1, <1>2, <1>5, <1>7, <1>8
    <3>. QED  BY <3>1
  <2>2. CASE S # {} /\ x + width[o] < end
    <3>1. PICK p \in S : end = placed[p] + width[p]
      BY <2>2, <1>2
    <3>2. \A q \in S \cup {o} : row[q] + width[q] <= row[p] + width[p]
      BY <2>2, <3>1, <1>2, <1>5, <1>7, <1>8
    <3>. QED  BY <3>2
  <2>. QED  BY <2>1, <2>2, <1>2, <1>8
<1>12. \A p \in S \cup {o} : row[p] \in Nat
  BY <1>5, <1>7, <1>8
<1>. QED  BY <1>4, <1>7, <1>10, <1>11, <1>12 DEF Row

-----------------------------------------------------------------------------
(***************************************************************************)
(* Placing all the outputs, one turn after the other.                      *)
(***************************************************************************)
Rounds == 2 * Len(Outs)

PlacedIn(S, k, c) == {o \in OutSet : \E i \in S : HasTurn(k, c, i) /\ InTurn(i) = o}

Enabled(k, c) == {o \in OutSet : IsOn(k, c, o)}

\* In two turns of the names everything that is on has exactly one turn, configured
\* positions first.
LEMMA Turns ==
    ASSUME NEW k, NEW c
    PROVE  /\ Rounds \in Nat
           /\ \A i \in 1 .. Rounds : InTurn(i) \in OutSet
           /\ \A i, j \in 1 .. Rounds : HasTurn(k, c, i) /\ HasTurn(k, c, j) /\ InTurn(i) = InTurn(j) => i = j
           /\ PlacedIn(1 .. Rounds, k, c) = Enabled(k, c)
<1>1. Len(Outs) \in Nat /\ DOMAIN Outs = 1 .. Len(Outs)
  BY OutputsAssumption, LenProperties
<1>2. \A i \in 1 .. Len(Outs) : Outs[i] \in OutSet
  BY <1>1 DEF OutSet
<1>3. Rounds \in Nat
  BY <1>1 DEF Rounds
<1>4. \A i \in 1 .. Rounds : IF i <= Len(Outs) THEN i \in 1 .. Len(Outs) ELSE i - Len(Outs) \in 1 .. Len(Outs)
  BY <1>1 DEF Rounds
<1>5. \A i \in 1 .. Rounds : InTurn(i) \in OutSet
  BY <1>2, <1>4 DEF InTurn
<1>6. ASSUME NEW i \in 1 .. Rounds, NEW j \in 1 .. Rounds,
             HasTurn(k, c, i), HasTurn(k, c, j), InTurn(i) = InTurn(j)
      PROVE  i = j
  <2>1. i <= Len(Outs) <=> j <= Len(Outs)
    BY <1>6 DEF HasTurn
  <2>2. CASE i <= Len(Outs)
    BY <2>1, <2>2, <1>1, <1>4, <1>6, OutputsAssumption DEF InTurn
  <2>3. CASE ~(i <= Len(Outs))
    <3>1. i - Len(Outs) = j - Len(Outs)
      BY <2>1, <2>3, <1>1, <1>4, <1>6, OutputsAssumption DEF InTurn
    <3>. QED  BY <3>1, <1>1, <1>3
  <2>. QED  BY <2>2, <2>3
<1>7. PlacedIn(1 .. Rounds, k, c) = Enabled(k, c)
  <2>1. ASSUME NEW o \in PlacedIn(1 .. Rounds, k, c) PROVE o \in Enabled(k, c)
    BY <2>1 DEF PlacedIn, Enabled, HasTurn
  <2>2. ASSUME NEW o \in Enabled(k, c) PROVE o \in PlacedIn(1 .. Rounds, k, c)
    <3>1. PICK m \in 1 .. Len(Outs) : o = Outs[m]
      BY <1>1 DEF Enabled, OutSet
    <3>2. CASE c[o].position # Nowhere
      <4>1. m \in 1 .. Rounds /\ InTurn(m) = o /\ m <= Len(Outs)
        BY <3>1, <1>1 DEF InTurn, Rounds
      <4>2. HasTurn(k, c, m)
        BY <4>1, <3>2 DEF HasTurn, Enabled
      <4>. QED  BY <4>1, <4>2 DEF PlacedIn, Enabled
    <3>3. CASE ~(c[o].position # Nowhere)
      <4>1. PICK i : i = m + Len(Outs)
        OBVIOUS
      <4>2. i \in 1 .. Rounds /\ ~(i <= Len(Outs)) /\ i - Len(Outs) = m
        BY <4>1, <1>1 DEF Rounds
      <4>3. InTurn(i) = o
        BY <4>2, <3>1 DEF InTurn
      <4>4. HasTurn(k, c, i)
        BY <4>2, <4>3, <3>3 DEF HasTurn, Enabled
      <4>. QED  BY <4>2, <4>3, <4>4 DEF PlacedIn, Enabled
    <3>. QED  BY <3>2, <3>3
  <2>. QED  BY <2>1, <2>2
<1>. QED  BY <1>3, <1>5, <1>6, <1>7

\* Naturals have a least element.
LEMMA LeastNatural ==
    ASSUME NEW T, T \subseteq Nat, T # {}
    PROVE  \E n \in T : \A m \in T : n <= m
<1>1. \E n \in T : \A m \in T : ~(<<m, n>> \in OpToRel(<, Nat))
  BY NatLessThanWellFounded, WFMin, Zenon
<1>2. PICK n \in T : \A m \in T : ~(<<m, n>> \in OpToRel(<, Nat))
  BY <1>1
<1>3. \A m \in T : ~(m < n)
  BY <1>2, Zenon DEF OpToRel
<1>. QED  BY <1>3

\* What the turn i makes of the row, and all the rows up to the turn m.
AfterTurn(placed, i, k, c, width) ==
    IF HasTurn(k, c, i) THEN PlaceAt(placed, width, InTurn(i), c[InTurn(i)].position) ELSE placed

AreRows(rows, m, k, c, width) ==
    rows = [i \in 0 .. m |-> IF i = 0 THEN <<>> ELSE AfterTurn(rows[i - 1], i, k, c, width)]

\* The recursive definition of the rows has a solution.
LEMMA RowsExist ==
    ASSUME NEW m \in Nat, NEW k, NEW c, NEW width
    PROVE  \E rows : AreRows(rows, m, k, c, width)
<1>1. PICK bad : bad = {i \in Nat : ~\E rows : AreRows(rows, i, k, c, width)}
  OBVIOUS
<1>2. CASE bad = {}
  BY <1>1, <1>2
<1>3. CASE bad # {}
  <2>1. PICK n \in bad : \A i \in bad : n <= i
    BY <1>1, <1>3, LeastNatural
  <2>2. n \in Nat /\ ~\E rows : AreRows(rows, n, k, c, width)
    BY <1>1, <2>1
  <2>3. CASE n = 0
    <3>1. PICK rows : rows = [i \in 0 .. 0 |-> <<>>]
      OBVIOUS
    <3>2. AreRows(rows, n, k, c, width)
      BY <2>3, <3>1 DEF AreRows
    <3>. QED  BY <2>2, <3>2
  <2>4. CASE n # 0
    <3>1. n - 1 \in Nat /\ n - 1 \notin bad
      BY <2>1, <2>2, <2>4
    <3>2. PICK rows : AreRows(rows, n - 1, k, c, width)
      BY <1>1, <3>1
    <3>3. PICK more : more = [i \in 0 .. n |-> IF i = n THEN AfterTurn(rows[n - 1], n, k, c, width) ELSE rows[i]]
      OBVIOUS
    <3>4. \A i \in 0 .. n - 1 : rows[i] = IF i = 0 THEN <<>> ELSE AfterTurn(rows[i - 1], i, k, c, width)
      BY <3>2 DEF AreRows
    <3>5. \A i \in 0 .. n - 1 : more[i] = rows[i]
      BY <2>2, <3>3
    <3>6. \A i \in 0 .. n : more[i] = IF i = 0 THEN <<>> ELSE AfterTurn(more[i - 1], i, k, c, width)
      <4>1. ASSUME NEW i \in 0 .. n - 1 PROVE more[i] = IF i = 0 THEN <<>> ELSE AfterTurn(more[i - 1], i, k, c, width)
        <5>1. CASE i = 0
          BY <5>1, <3>4, <3>5
        <5>2. CASE i # 0
          <6>1. i - 1 \in 0 .. n - 1
            BY <5>2, <2>2
          <6>. QED  BY <5>2, <6>1, <3>4, <3>5
        <5>. QED  BY <5>1, <5>2
      <4>2. more[n] = AfterTurn(more[n - 1], n, k, c, width)
        <5>1. n - 1 \in 0 .. n - 1 /\ n \in 0 .. n
          BY <3>1, <2>2
        <5>. QED  BY <5>1, <3>3, <3>5
      <4>3. \A i \in 0 .. n : i \in 0 .. n - 1 \/ i = n
        BY <2>2
      <4>. QED  BY <4>1, <4>2, <4>3, <2>4
    <3>7. more = [i \in 0 .. n |-> more[i]]
      BY <3>3
    <3>8. AreRows(more, n, k, c, width)
      BY <3>6, <3>7 DEF AreRows
    <3>. QED  BY <2>2, <3>8
  <2>. QED  BY <2>3, <2>4
<1>. QED  BY <1>2, <1>3

\* Whatever the outputs are, those that are on are placed, and none over another.
LEMMA RepositionIsRow ==
    ASSUME NEW k, NEW n, NEW c, NEW width \in Widths, width = [o \in OutSet |-> pick_mode(n, c, o)],
           \A o \in OutSet : c[o].position \in Nat \cup {Nowhere}
    PROVE  Row(reposition_outputs(k, n, c), Enabled(k, c), width)
<1>0. /\ Rounds \in Nat /\ Rounds = 2 * Len(Outs)
      /\ \A i \in 1 .. Rounds : InTurn(i) \in OutSet
      /\ \A i, j \in 1 .. Rounds : HasTurn(k, c, i) /\ HasTurn(k, c, j) /\ InTurn(i) = InTurn(j) => i = j
      /\ PlacedIn(1 .. Rounds, k, c) = Enabled(k, c)
  BY Turns DEF Rounds
<1>1. PICK rows : rows = CHOOSE f : f = [i \in 0 .. Rounds |->
                                           IF i = 0 THEN <<>> ELSE AfterTurn(f[i - 1], i, k, c, width)]
  OBVIOUS
<1>2. AreRows(rows, Rounds, k, c, width)
  <2>1. PICK some : AreRows(some, Rounds, k, c, width)
    BY <1>0, RowsExist
  <2>2. some = [i \in 0 .. Rounds |-> IF i = 0 THEN <<>> ELSE AfterTurn(some[i - 1], i, k, c, width)]
    BY <2>1 DEF AreRows
  <2>3. rows = [i \in 0 .. Rounds |-> IF i = 0 THEN <<>> ELSE AfterTurn(rows[i - 1], i, k, c, width)]
    BY <1>1, <2>2, Zenon
  <2>. QED  BY <2>3 DEF AreRows
<1>3. reposition_outputs(k, n, c) = rows[Rounds]
  BY <1>0, <1>1, Zenon DEF reposition_outputs, AfterTurn
<1>4. PICK bad : bad = {i \in 0 .. Rounds : ~Row(rows[i], PlacedIn(1 .. i, k, c), width)}
  OBVIOUS
<1>5. CASE bad # {}
  <2>1. PICK i \in bad : \A j \in bad : i <= j
    <3>1. bad \subseteq Nat
      BY <1>0, <1>4
    <3>. QED  BY <3>1, <1>5, LeastNatural
  <2>2. i \in 0 .. Rounds /\ ~Row(rows[i], PlacedIn(1 .. i, k, c), width)
    BY <1>4, <2>1
  <2>3. rows[i] = IF i = 0 THEN <<>> ELSE AfterTurn(rows[i - 1], i, k, c, width)
    BY <1>2, <2>2 DEF AreRows
  <2>4. CASE i = 0
    <3>1. PlacedIn(1 .. i, k, c) = {}
      BY <2>4 DEF PlacedIn
    <3>. QED  BY <2>2, <2>3, <2>4, <3>1 DEF Row
  <2>5. CASE i # 0
    <3>1. i - 1 \in 0 .. Rounds /\ i \in 1 .. Rounds /\ i - 1 \notin bad
      BY <1>0, <2>1, <2>2, <2>5
    <3>2. PICK S, o : S = PlacedIn(1 .. i - 1, k, c) /\ o = InTurn(i)
      OBVIOUS
    <3>3. Row(rows[i - 1], S, width) /\ S \in SUBSET OutSet
      BY <1>4, <3>1, <3>2 DEF PlacedIn
    <3>4. \A j \in 1 .. i : j \in 1 .. i - 1 \/ j = i
      BY <3>1
    <3>5. \A j \in 1 .. i - 1 : j \in 1 .. i /\ j \in 1 .. Rounds /\ j # i
      BY <3>1, <1>0
    <3>6. CASE HasTurn(k, c, i)
      <4>1. o \in OutSet \ S
        BY <3>1, <3>2, <3>5, <3>6, <1>0 DEF PlacedIn
      <4>2. PlacedIn(1 .. i, k, c) = S \cup {o}
        BY <3>1, <3>2, <3>4, <3>5, <3>6, <4>1 DEF PlacedIn
      <4>3. c[o].position \in Nat \cup {Nowhere}
        BY <4>1
      <4>4. rows[i] = PlaceAt(rows[i - 1], width, o, c[o].position)
        BY <2>3, <2>5, <3>2, <3>6 DEF AfterTurn
      <4>5. Row(PlaceAt(rows[i - 1], width, o, c[o].position), S \cup {o}, width)
        BY <3>3, <4>1, <4>3, PlacedInRow
      <4>. QED  BY <2>2, <4>2, <4>4, <4>5
    <3>7. CASE ~HasTurn(k, c, i)
      <4>1. PlacedIn(1 .. i, k, c) = S
        BY <3>2, <3>4, <3>5, <3>7 DEF PlacedIn
      <4>2. rows[i] = rows[i - 1]
        BY <2>3, <2>5, <3>7 DEF AfterTurn
      <4>. QED  BY <2>2, <3>3, <4>1, <4>2
    <3>. QED  BY <3>6, <3>7
  <2>. QED  BY <2>4, <2>5
<1>6. CASE bad = {}
  <2>1. Rounds \in 0 .. Rounds
    BY <1>0
  <2>2. Row(rows[Rounds], PlacedIn(1 .. Rounds, k, c), width)
    BY <2>1, <1>4, <1>6
  <2>. QED  BY <2>2, <1>0, <1>3
<1>. QED  BY <1>5, <1>6

-----------------------------------------------------------------------------
(***************************************************************************)
(* The invariant.                                                          *)
(***************************************************************************)
Ids == {<<o, conn[o]>> : o \in {p \in OutSet : conn[p] # 0}}

Entries == UNION {[D -> Section] : D \in SUBSET (OutSet \X (1 .. 2))}

Conf == [state : {"none", "ongoing", "finished"}, fresh : BOOLEAN, answered : BOOLEAN, entries : Entries]

OutputsTypeOK ==
    /\ conn \in [OutSet -> 0 .. 2]
    /\ native \in [OutSet -> {ms \in Seq(Nat \ {NoMode}) : ms # <<>>}]
    /\ cfg \in [OutSet -> Section]
    /\ dirty \in Nat /\ bound \subseteq Clients /\ unplaced \in BOOLEAN
    /\ heads = [c \in Clients |-> heads[c]]
    /\ confs \in [Clients -> Conf]

\* The outputs that are on are the ones that have a place.
PlacedAreOn == DOMAIN pos = Enabled(conn, cfg) /\ \A o \in DOMAIN pos : pos[o] \in Nat

\* What the clients were told last, as long as nothing changed since.
ToldLast ==
    /\ \A id \in DOMAIN om : id \in OutSet \X (1 .. 2) /\ (om[id].current # 0 => om[id].logical # Nowhere)
    /\ dirty = 0 => DOMAIN om = Ids /\ \A id \in Ids : om[id] = Report(id[1])

\* A client that puts the differences together has the report r.
Shows(v, r) ==
    /\ v.modes = r.modes /\ v.enabled = (r.current # 0)
    /\ r.current # 0 => v.current = r.current /\ v.position = r.logical

ViewsShow ==
    \A c \in bound : DOMAIN heads[c] = DOMAIN om /\ \A id \in DOMAIN om \ miscounted : Shows(heads[c][id], om[id])

OutputsInv == OutputsTypeOK /\ PlacedAreOn /\ OutputsDisjoint /\ ToldLast /\ ViewsShow

\* An object without entries is one of the objects there may be.
LEMMA NoEntries == <<>> \in Entries
<1>1. <<>> \in [{} -> Section]
  BY EmptySeq, SeqDef
<1>2. {} \in SUBSET (OutSet \X (1 .. 2))
  OBVIOUS
<1>. QED  BY <1>1, <1>2 DEF Entries

\* Each output has a mode, and a report says where it is when it is on.
LEMMA ModesAreWidths ==
    ASSUME NEW n \in [OutSet -> {ms \in Seq(Nat \ {NoMode}) : ms # <<>>}], NEW c \in [OutSet -> Section]
    PROVE  [o \in OutSet |-> pick_mode(n, c, o)] \in Widths
<1>1. ASSUME NEW o \in OutSet PROVE pick_mode(n, c, o) \in Nat \ {0}
  <2>1. PICK ms : ms = n[o] /\ ms \in Seq(Nat \ {NoMode}) /\ ms # <<>>
    OBVIOUS
  <2>2. ms[1] \in Nat \ {0}
    <3>1. Len(ms) \in Nat /\ Len(ms) # 0
      BY <2>1, LenProperties, EmptySeq
    <3>2. 1 \in 1 .. Len(ms)
      BY <3>1
    <3>. QED  BY <2>1, <3>2, ElementOfSeq DEF NoMode
  <2>3. c[o].mode \in Nat
    BY DEF Section
  <2>. QED  BY <2>1, <2>2, <2>3 DEF pick_mode, NoMode
<1>. QED  BY <1>1 DEF Widths

\* What is on is reported with a place.
LEMMA ReportsPlace ==
    ASSUME PlacedAreOn, NEW o \in OutSet, Report(o).current # 0
    PROVE  Report(o).logical # Nowhere
<1>1. PICK r : r = Report(o)
  OBVIOUS
<1>2. IsOn(conn, cfg, o) /\ r.logical = pos[o]
  BY <1>1 DEF Report
<1>. QED  BY <1>1, <1>2 DEF PlacedAreOn, Enabled, Nowhere

-----------------------------------------------------------------------------
(***************************************************************************)
(* The steps.                                                              *)
(***************************************************************************)
\* Whatever changes, the outputs are placed anew.
LEMMA ArrangedStep ==
    ASSUME OutputsInv, conn' \in [OutSet -> 0 .. 2], cfg' \in [OutSet -> Section],
           Arranged(conn', native, cfg'), confs' \in [Clients -> Conf],
           UNCHANGED <<native, om, bound, heads, miscounted>>
    PROVE  OutputsInv'
<1>1. /\ pos' = reposition_outputs(conn', native, cfg')
      /\ dirty' = dirty + 1 /\ unplaced' = FALSE
  BY DEF Arranged
<1>2. OutputsTypeOK'
  <2>1. dirty' \in Nat
    BY <1>1 DEF OutputsInv, OutputsTypeOK
  <2>2. heads' = [c \in Clients |-> heads'[c]]
    BY Zenon DEF OutputsInv, OutputsTypeOK
  <2>3. native' \in [OutSet -> {ms \in Seq(Nat \ {NoMode}) : ms # <<>>}]
    BY DEF OutputsInv, OutputsTypeOK
  <2>4. bound' \subseteq Clients /\ unplaced' \in BOOLEAN
    BY <1>1 DEF OutputsInv, OutputsTypeOK
  <2>. QED  BY <2>1, <2>2, <2>3, <2>4 DEF OutputsTypeOK
<1>2a. dirty' # 0
  BY <1>1 DEF OutputsInv, OutputsTypeOK
<1>3. PICK width : width = [o \in OutSet |-> pick_mode(native, cfg', o)]
  OBVIOUS
<1>4. width \in Widths
  BY <1>3, ModesAreWidths DEF OutputsInv, OutputsTypeOK
<1>5. PICK k, n, c : k = conn' /\ n = native /\ c = cfg'
  OBVIOUS
<1>6. Row(reposition_outputs(k, n, c), Enabled(k, c), width)
  <2>1. \A o \in OutSet : c[o].position \in Nat \cup {Nowhere}
    BY <1>5 DEF Section
  <2>2. width = [o \in OutSet |-> pick_mode(n, c, o)]
    BY <1>3, <1>5
  <2>. QED  BY <1>4, <2>1, <2>2, RepositionIsRow
<1>7. Row(pos', Enabled(conn', cfg'), width)
  BY <1>1, <1>5, <1>6
<1>8. PlacedAreOn'
  BY <1>7 DEF PlacedAreOn, Row, Enabled
<1>9. OutputsDisjoint'
  <2>1. \A o \in DOMAIN pos' : o \in OutSet /\ width[o] = pick_mode(native', cfg', o)
    BY <1>3, <1>7 DEF Row, Enabled
  <2>. QED  BY <2>1, <1>7 DEF OutputsDisjoint, Row
<1>10. ToldLast'
  BY <1>2a DEF OutputsInv, ToldLast
<1>11. ViewsShow'
  BY DEF OutputsInv, ViewsShow
<1>. QED  BY <1>2, <1>8, <1>9, <1>10, <1>11 DEF OutputsInv

\* A connector that changes keeps the invariant: its output is placed or gone.
LEMMA HotplugStep ==
    ASSUME OutputsInv, NEW o \in OutSet, NEW id \in 0 .. 2, Hotplug(o, id)
    PROVE  OutputsInv'
<1>1. /\ conn' = [conn EXCEPT ![o] = id] /\ Arranged(conn', native, cfg) /\ cfg' = cfg
      /\ UNCHANGED <<native, om, bound, heads, confs, miscounted>>
  BY DEF Hotplug
<1>2. conn' \in [OutSet -> 0 .. 2] /\ cfg' \in [OutSet -> Section] /\ confs' \in [Clients -> Conf]
  BY <1>1 DEF OutputsInv, OutputsTypeOK
<1>. QED  BY <1>1, <1>2, ArrangedStep

\* So does a section of the config that changes, whoever asked for it.
LEMMA SectionStep ==
    ASSUME OutputsInv, NEW o \in OutSet, NEW new \in Picks[o],
           reload_output_config(o, new) \/ apply_monitors_config(o, new)
    PROVE  OutputsInv'
<1>1. new \in Section
  BY OutputsAssumption
<1>2. cfg' \in [OutSet -> Section]
  <2>1. CASE reload_output_config(o, new)
    BY <1>1, <2>1 DEF reload_output_config, OutputsInv, OutputsTypeOK
  <2>2. CASE apply_monitors_config(o, new)
    <3>1. \A p \in OutSet : [cfg[p] EXCEPT !.off = TRUE] \in Section /\ cfg[p] \in Section
      BY DEF OutputsInv, OutputsTypeOK, Section
    <3>. QED  BY <1>1, <2>2, <3>1 DEF apply_monitors_config
  <2>. QED  BY <2>1, <2>2
<1>3. conn' = conn /\ Arranged(conn, native, cfg') /\ UNCHANGED <<native, om, bound, heads, confs, miscounted>>
  BY DEF reload_output_config, apply_monitors_config
<1>4. conn' \in [OutSet -> 0 .. 2] /\ confs' \in [Clients -> Conf]
  BY <1>3 DEF OutputsInv, OutputsTypeOK
<1>5. Arranged(conn', native, cfg')
  BY <1>3
<1>. QED  BY <1>2, <1>3, <1>4, <1>5, ArrangedStep

\* An output whose mode changed is remembered until the outputs are placed anew.
LEMMA ModesStep ==
    ASSUME OutputsInv, NEW o \in OutSet, NEW ms \in Native[o], ModesChange(o, ms)
    PROVE  OutputsInv'
<1>1. /\ native' = [native EXCEPT ![o] = ms] /\ dirty' = dirty + 1
      /\ unplaced' = (unplaced \/ (IsOn(conn, cfg, o) /\ pick_mode(native', cfg, o) # pick_mode(native, cfg, o)))
      /\ UNCHANGED <<conn, cfg, pos, om, bound, heads, confs, miscounted>>
  BY DEF ModesChange
<1>2. ms \in Seq(Nat \ {NoMode}) /\ ms # <<>>
  BY OutputsAssumption
<1>3. OutputsTypeOK' /\ dirty' # 0
  BY <1>1, <1>2 DEF OutputsInv, OutputsTypeOK
<1>4. PlacedAreOn'
  BY <1>1 DEF OutputsInv, PlacedAreOn
<1>5. OutputsDisjoint'
  <2>1. ASSUME ~unplaced', NEW p \in DOMAIN pos PROVE pick_mode(native', cfg, p) = pick_mode(native, cfg, p)
    <3>1. CASE p = o
      BY <1>1, <2>1, <3>1 DEF OutputsInv, PlacedAreOn, Enabled
    <3>2. CASE p # o
      <4>1. native'[p] = native[p]
        BY <1>1, <3>2 DEF OutputsInv, OutputsTypeOK
      <4>. QED  BY <4>1 DEF pick_mode
    <3>. QED  BY <3>1, <3>2
  <2>. QED  BY <1>1, <2>1 DEF OutputsInv, OutputsDisjoint
<1>6. ToldLast'
  BY <1>1, <1>3 DEF OutputsInv, ToldLast
<1>7. ViewsShow'
  BY <1>1 DEF OutputsInv, ViewsShow
<1>. QED  BY <1>3, <1>4, <1>5, <1>6, <1>7 DEF OutputsInv

\* Nothing of a configuration object shows until it is applied.
LEMMA ConfsStep ==
    ASSUME OutputsInv, confs' \in [Clients -> Conf],
           UNCHANGED <<conn, native, cfg, pos, dirty, om, bound, heads, unplaced, miscounted>>
    PROVE  OutputsInv'
<1>1. Ids' = Ids /\ \A o \in OutSet : Report(o)' = Report(o)
  BY DEF Ids, Report, IsOn, pick_mode
<1>2. OutputsTypeOK'
  BY DEF OutputsInv, OutputsTypeOK
<1>3. PlacedAreOn' /\ OutputsDisjoint' /\ ViewsShow'
  BY DEF OutputsInv, PlacedAreOn, OutputsDisjoint, ViewsShow
<1>4. ToldLast'
  <2>1. \A id \in Ids : id[1] \in OutSet
    BY DEF Ids
  <2>. QED  BY <1>1, <2>1 DEF OutputsInv, ToldLast
<1>. QED  BY <1>2, <1>3, <1>4 DEF OutputsInv

\* Creating, destroying and testing an object touch nothing but the object.
LEMMA ObjectStep ==
    ASSUME OutputsInv, NEW c \in Clients,
           \/ \E current \in BOOLEAN : CreateConfiguration(c, current)
           \/ Destroy(c) \/ Test(c)
    PROVE  OutputsInv'
<1>1. UNCHANGED <<conn, native, cfg, pos, dirty, om, bound, heads, unplaced, miscounted>>
  BY DEF CreateConfiguration, Destroy, Test
<1>2. confs' \in [Clients -> Conf]
  <2>1. ASSUME NEW current \in BOOLEAN, CreateConfiguration(c, current) PROVE confs' \in [Clients -> Conf]
    <3>1. PICK new : new = [state |-> "ongoing", fresh |-> current, answered |-> ~current, entries |-> <<>>]
      OBVIOUS
    <3>2. new \in Conf
      BY <3>1, NoEntries DEF Conf
    <3>. QED  BY <2>1, <3>1, <3>2 DEF CreateConfiguration, OutputsInv, OutputsTypeOK
  <2>2. CASE Destroy(c)
    <3>1. NoConf \in Conf
      BY NoEntries DEF Conf, NoConf
    <3>. QED  BY <2>2, <3>1 DEF Destroy, OutputsInv, OutputsTypeOK
  <2>3. CASE Test(c)
    <3>1. PICK state, new : /\ state = IF confs[c].fresh THEN "finished" ELSE confs[c].state
                            /\ new = [confs[c] EXCEPT !.state = state, !.fresh = FALSE, !.answered = TRUE,
                                                      !.entries = <<>>]
      OBVIOUS
    <3>2. new \in Conf
      BY <3>1, NoEntries DEF OutputsInv, OutputsTypeOK, Conf
    <3>3. confs' = [confs EXCEPT ![c] = new]
      BY <2>3, <3>1 DEF Test, OutputsInv, OutputsTypeOK, Conf
    <3>. QED  BY <3>2, <3>3 DEF OutputsInv, OutputsTypeOK
  <2>. QED  BY <2>1, <2>2, <2>3
<1>. QED  BY <1>1, <1>2, ConfsStep

\* Configuring a head adds an entry to the object, a section of the config.
LEMMA ConfigureStep ==
    ASSUME OutputsInv, NEW c \in Clients, NEW id \in DOMAIN om, NEW new \in Picks[id[1]],
           ConfigureHead(c, id, new)
    PROVE  OutputsInv'
<1>1. id \in OutSet \X (1 .. 2) /\ id[1] \in OutSet
  BY DEF OutputsInv, ToldLast
<1>2. new \in Section
  BY <1>1, OutputsAssumption
<1>3. [cfg[id[1]] EXCEPT !.off = TRUE] \in Section
  <2>1. PICK was : was = cfg[id[1]]
    OBVIOUS
  <2>2. was \in Section
    BY <1>1, <2>1 DEF OutputsInv, OutputsTypeOK
  <2>3. [was EXCEPT !.off = TRUE] \in Section
    BY <2>2 DEF Section
  <2>. QED  BY <2>1, <2>3
<1>4. PICK old, section, entries :
         /\ old = confs[c].entries
         /\ section = IF new.off THEN [cfg[id[1]] EXCEPT !.off = TRUE] ELSE new
         /\ entries = [i \in DOMAIN old \cup {id} |-> IF i # id THEN old[i] ELSE section]
  OBVIOUS
<1>5. section \in Section
  BY <1>2, <1>3, <1>4
<1>6. old \in Entries
  BY <1>4 DEF OutputsInv, OutputsTypeOK, Conf
<1>7. PICK D \in SUBSET (OutSet \X (1 .. 2)) : old \in [D -> Section]
  BY <1>6 DEF Entries
<1>8. entries \in [D \cup {id} -> Section] /\ D \cup {id} \in SUBSET (OutSet \X (1 .. 2))
  BY <1>1, <1>4, <1>5, <1>7
<1>9. entries \in Entries
  BY <1>8 DEF Entries
<1>10. confs' = [confs EXCEPT ![c] = [confs[c] EXCEPT !.entries = entries]]
  <2>1. confs' = [confs EXCEPT ![c].entries = [i \in DOMAIN old \cup {id} |->
                     IF i # id THEN old[i]
                     ELSE IF new.off THEN [cfg[id[1]] EXCEPT !.off = TRUE]
                     ELSE new]]
    BY <1>4 DEF ConfigureHead
  <2>2. [i \in DOMAIN old \cup {id} |-> IF i # id THEN old[i]
                                        ELSE IF new.off THEN [cfg[id[1]] EXCEPT !.off = TRUE] ELSE new] = entries
    BY <1>4
  <2>. QED  BY <2>1, <2>2
<1>11. [confs[c] EXCEPT !.entries = entries] \in Conf
  <2>1. PICK conf : conf = confs[c]
    OBVIOUS
  <2>2. conf \in Conf
    BY <2>1 DEF OutputsInv, OutputsTypeOK
  <2>3. [conf EXCEPT !.entries = entries] \in Conf
    BY <1>9, <2>2 DEF Conf
  <2>. QED  BY <2>1, <2>3
<1>12. confs' \in [Clients -> Conf]
  BY <1>10, <1>11 DEF OutputsInv, OutputsTypeOK
<1>. QED  BY <1>12, ConfsStep DEF ConfigureHead

\* Applying an object is a change of the sections it has entries of.
LEMMA ApplyStep ==
    ASSUME OutputsInv, NEW c \in Clients, Apply(c)
    PROVE  OutputsInv'
<1>1. PICK state, gone : /\ state = IF confs[c].fresh THEN "finished" ELSE confs[c].state
                         /\ gone = [confs[c] EXCEPT !.state = state, !.fresh = FALSE, !.answered = TRUE,
                                                    !.entries = <<>>]
  OBVIOUS
<1>2. gone \in Conf
  BY <1>1, NoEntries DEF OutputsInv, OutputsTypeOK, Conf
<1>3. confs' = [confs EXCEPT ![c] = gone]
  BY <1>1 DEF Apply, OutputsInv, OutputsTypeOK, Conf
<1>4. confs' \in [Clients -> Conf]
  BY <1>2, <1>3 DEF OutputsInv, OutputsTypeOK
<1>5. CASE confs[c].fresh /\ AnyEnabled(confs[c].entries)
  <2>1. PICK new : new = confs[c].entries
    OBVIOUS
  <2>2. new \in Entries
    BY <2>1 DEF OutputsInv, OutputsTypeOK, Conf
  <2>3. \A id \in DOMAIN new : new[id] \in Section
    BY <2>2 DEF Entries
  <2>4. /\ cfg' = [o \in OutSet |-> IF \E id \in DOMAIN new : id[1] = o
                                   THEN new[CHOOSE id \in DOMAIN new : id[1] = o] ELSE DefaultOutput]
        /\ Arranged(conn, native, cfg') /\ UNCHANGED <<conn, native, om, bound, heads, miscounted>>
    BY <1>5, <2>1 DEF Apply
  <2>5. DefaultOutput \in Section
    BY DEF DefaultOutput, Section, NoMode, Nowhere
  <2>6. ASSUME NEW o \in OutSet PROVE cfg'[o] \in Section
    BY <2>3, <2>4, <2>5
  <2>7. cfg' \in [OutSet -> Section]
    BY <2>4, <2>6
  <2>8. Arranged(conn', native, cfg') /\ conn' \in [OutSet -> 0 .. 2]
    BY <2>4 DEF OutputsInv, OutputsTypeOK
  <2>. QED  BY <1>4, <2>4, <2>7, <2>8, ArrangedStep
<1>6. CASE ~(confs[c].fresh /\ AnyEnabled(confs[c].entries))
  <2>1. UNCHANGED <<conn, native, cfg, pos, dirty, om, bound, heads, unplaced, miscounted>>
    BY <1>6 DEF Apply
  <2>. QED  BY <1>4, <2>1, ConfsStep
<1>. QED  BY <1>5, <1>6

\* A client that comes is told everything, one that goes no longer counts.
LEMMA ClientStep ==
    ASSUME OutputsInv, NEW c \in Clients, bind(c) \/ Leave(c)
    PROVE  OutputsInv'
<1>1. UNCHANGED <<conn, native, cfg, pos, dirty, om, unplaced, miscounted>>
  BY DEF bind, Leave
<1>2. Ids' = Ids /\ \A o \in OutSet : Report(o)' = Report(o)
  BY <1>1 DEF Ids, Report, IsOn, pick_mode
<1>3. PlacedAreOn' /\ OutputsDisjoint'
  BY <1>1 DEF OutputsInv, PlacedAreOn, OutputsDisjoint
<1>4. ToldLast'
  <2>1. \A id \in Ids : id[1] \in OutSet
    BY DEF Ids
  <2>. QED  BY <1>1, <1>2, <2>1 DEF OutputsInv, ToldLast
<1>5. heads = [k \in Clients |-> heads[k]] /\ bound \subseteq Clients
  BY DEF OutputsInv, OutputsTypeOK
<1>6. CASE bind(c)
  <2>1. PICK view : view = [id \in DOMAIN om |-> NewHead(om[id])]
    OBVIOUS
  <2>2. heads' = [heads EXCEPT ![c] = view] /\ bound' = bound \cup {c} /\ confs' = [confs EXCEPT ![c] = NoConf]
    BY <1>6, <2>1 DEF bind
  <2>3. heads' = [k \in Clients |-> IF k = c THEN view ELSE heads[k]]
    BY <1>5, <2>2
  <2>4. OutputsTypeOK'
    <3>1. NoConf \in Conf
      BY NoEntries DEF Conf, NoConf
    <3>. QED  BY <1>1, <2>2, <2>3, <3>1 DEF OutputsInv, OutputsTypeOK
  <2>5. \A id \in DOMAIN om : Shows(view[id], om[id])
    BY <2>1 DEF Shows, NewHead
  <2>6. ViewsShow'
    BY <1>1, <1>5, <2>1, <2>2, <2>3, <2>5 DEF OutputsInv, ViewsShow
  <2>. QED  BY <1>3, <1>4, <2>4, <2>6 DEF OutputsInv
<1>7. CASE Leave(c)
  <2>1. heads' = [heads EXCEPT ![c] = <<>>] /\ bound' = bound \ {c} /\ confs' = [confs EXCEPT ![c] = NoConf]
    BY <1>7 DEF Leave
  <2>2. heads' = [k \in Clients |-> IF k = c THEN <<>> ELSE heads[k]]
    BY <1>5, <2>1
  <2>3. NoConf \in Conf
    BY NoEntries DEF Conf, NoConf
  <2>4. OutputsTypeOK'
    BY <1>1, <2>1, <2>2, <2>3 DEF OutputsInv, OutputsTypeOK
  <2>5. ViewsShow'
    BY <1>1, <1>5, <2>1, <2>2 DEF OutputsInv, ViewsShow
  <2>. QED  BY <1>3, <1>4, <2>4, <2>5 DEF OutputsInv
<1>. QED  BY <1>6, <1>7

\* The events sent for a head turn the old report into the new one.
LEMMA UpdateShows ==
    ASSUME NEW v, NEW old, NEW new, Shows(v, old), new.current # 0 => new.logical # Nowhere,
           Len(old.modes) = Len(new.modes) \/ new.current = 0
    PROVE  Shows(Updated(v, old, new), new)
<1>1. PICK u : u = Updated(v, old, new)
  OBVIOUS
<1>2. /\ u.modes = new.modes
      /\ u.enabled = CASE old.current # 0 /\ new.current = 0 -> FALSE
                       [] old.current = 0 /\ new.current # 0 /\ Len(old.modes) = Len(new.modes) -> TRUE
                       [] OTHER -> v.enabled
      /\ u.current = IF new.current # 0 /\ Len(old.modes) = Len(new.modes)
                        /\ (new.modes # old.modes \/ new.current # old.current)
                     THEN new.current ELSE v.current
      /\ u.position = IF new.logical # Nowhere THEN new.logical ELSE v.position
  BY <1>1 DEF Updated
<1>3. u.enabled = (new.current # 0)
  <2>1. CASE old.current # 0 /\ new.current = 0
    BY <1>2, <2>1
  <2>2. CASE old.current = 0 /\ new.current # 0
    BY <1>2, <2>2
  <2>3. CASE old.current = 0 /\ new.current = 0
    BY <1>2, <2>3 DEF Shows
  <2>4. CASE old.current # 0 /\ new.current # 0
    BY <1>2, <2>4 DEF Shows
  <2>. QED  BY <2>1, <2>2, <2>3, <2>4
<1>4. ASSUME new.current # 0 PROVE u.current = new.current /\ u.position = new.logical
  BY <1>2, <1>4 DEF Shows
<1>. QED  BY <1>1, <1>2, <1>3, <1>4 DEF Shows

\* Telling the clients at the end of a turn makes all their pictures true again.
LEMMA NotifyStep ==
    ASSUME OutputsInv, notify_changes
    PROVE  OutputsInv'
<1>1. PICK new : new = IpcOutputs
  OBVIOUS
<1>2. /\ dirty' = 0 /\ om' = new
      /\ UNCHANGED <<conn, native, cfg, pos, bound, unplaced>>
  BY <1>1 DEF notify_changes
<1>3. DOMAIN new = Ids /\ \A id \in Ids : new[id] = Report(id[1])
  BY <1>1 DEF IpcOutputs, Ids
<1>4. \A id \in Ids : id[1] \in OutSet /\ id \in OutSet \X (1 .. 2)
  BY DEF Ids, OutputsInv, OutputsTypeOK
<1>5. Ids' = Ids /\ \A o \in OutSet : Report(o)' = Report(o)
  BY <1>2 DEF Ids, Report, IsOn, pick_mode
<1>6. PlacedAreOn' /\ OutputsDisjoint'
  BY <1>2 DEF OutputsInv, PlacedAreOn, OutputsDisjoint
<1>7. \A id \in DOMAIN new : new[id].current # 0 => new[id].logical # Nowhere
  BY <1>3, <1>4, ReportsPlace DEF OutputsInv
<1>8. ToldLast'
  BY <1>2, <1>3, <1>4, <1>5, <1>7 DEF ToldLast
<1>9. CASE new = om
  <2>1. UNCHANGED <<heads, confs, miscounted>>
    BY <1>1, <1>9 DEF notify_changes
  <2>2. OutputsTypeOK'
    BY <1>2, <2>1 DEF OutputsInv, OutputsTypeOK
  <2>3. ViewsShow'
    BY <1>2, <1>9, <2>1 DEF OutputsInv, ViewsShow
  <2>. QED  BY <1>6, <1>8, <2>2, <2>3 DEF OutputsInv
<1>10. CASE new # om
  <2>1. PICK both, recount :
           /\ both = DOMAIN new \cap DOMAIN om
           /\ recount = {id \in both : Len(new[id].modes) # Len(om[id].modes) /\ new[id].current # 0}
    OBVIOUS
  <2>2. heads' = [c \in Clients |->
                    IF c \notin bound THEN <<>>
                    ELSE [id \in DOMAIN new |->
                             IF id \in both THEN Updated(heads[c][id], om[id], new[id])
                                            ELSE NewHead(new[id])]]
    BY <1>1, <1>10, <2>1 DEF notify_changes
  <2>3. confs' = Outdated(confs) /\ miscounted' = (miscounted \cup recount) \cap DOMAIN new
    BY <1>1, <1>10, <2>1 DEF notify_changes
  <2>4. confs' \in [Clients -> Conf]
    <3>1. ASSUME NEW c \in Clients
          PROVE  [confs[c] EXCEPT !.fresh = FALSE, !.answered = @ \/ confs[c].state # "none", !.entries = <<>>] \in Conf
      <4>1. PICK answered : answered = (confs[c].answered \/ confs[c].state # "none")
        OBVIOUS
      <4>2. answered \in BOOLEAN /\ confs[c] \in Conf
        BY <4>1 DEF OutputsInv, OutputsTypeOK, Conf
      <4>3. [confs[c] EXCEPT !.fresh = FALSE, !.answered = answered, !.entries = <<>>] \in Conf
        BY <4>2, NoEntries DEF Conf
      <4>. QED  BY <4>1, <4>3
    <3>. QED  BY <2>3, <3>1 DEF Outdated
  <2>5. heads' = [c \in Clients |-> heads'[c]]
    BY <2>2
  <2>6. OutputsTypeOK'
    BY <1>2, <2>4, <2>5 DEF OutputsInv, OutputsTypeOK
  <2>7. ASSUME NEW c \in bound
        PROVE  DOMAIN heads'[c] = DOMAIN new /\ \A id \in DOMAIN new \ miscounted' : Shows(heads'[c][id], new[id])
    <3>1. c \in Clients
      BY DEF OutputsInv, OutputsTypeOK
    <3>2. heads'[c] = [id \in DOMAIN new |-> IF id \in both THEN Updated(heads[c][id], om[id], new[id])
                                                            ELSE NewHead(new[id])]
      BY <2>2, <3>1
    <3>3. ASSUME NEW id \in DOMAIN new \ miscounted' PROVE Shows(heads'[c][id], new[id])
      <4>1. CASE id \in both
        <5>1. id \in DOMAIN om \ miscounted /\ id \notin recount
          BY <2>1, <2>3, <4>1
        <5>2. Shows(heads[c][id], om[id])
          BY <5>1 DEF OutputsInv, ViewsShow
        <5>3. Len(om[id].modes) = Len(new[id].modes) \/ new[id].current = 0
          BY <2>1, <4>1, <5>1
        <5>4. new[id].current # 0 => new[id].logical # Nowhere
          BY <1>7
        <5>5. Shows(Updated(heads[c][id], om[id], new[id]), new[id])
          BY <5>2, <5>3, <5>4, UpdateShows
        <5>. QED  BY <3>2, <4>1, <5>5
      <4>2. CASE id \notin both
        BY <3>2, <4>2 DEF Shows, NewHead
      <4>. QED  BY <4>1, <4>2
    <3>. QED  BY <3>2, <3>3
  <2>8. ViewsShow'
    BY <1>2, <2>7 DEF ViewsShow
  <2>. QED  BY <1>6, <1>8, <2>6, <2>8 DEF OutputsInv
<1>. QED  BY <1>9, <1>10

\* Every step keeps the invariant.
LEMMA OutputsStep ==
    ASSUME OutputsInv, OutputsNext
    PROVE  OutputsInv'
<1>1. ASSUME NEW o \in OutSet, NEW id \in 0 .. 2, Hotplug(o, id) PROVE OutputsInv'
  BY <1>1, HotplugStep
<1>2. ASSUME NEW o \in OutSet, NEW ms \in Native[o], ModesChange(o, ms) PROVE OutputsInv'
  BY <1>2, ModesStep
<1>3. ASSUME NEW o \in OutSet, NEW new \in Picks[o], reload_output_config(o, new) \/ apply_monitors_config(o, new)
      PROVE  OutputsInv'
  BY <1>3, SectionStep
<1>4. ASSUME NEW c \in Clients, \E current \in BOOLEAN : CreateConfiguration(c, current) PROVE OutputsInv'
  BY <1>4, ObjectStep
<1>5. ASSUME NEW c \in Clients, Destroy(c) \/ Test(c) PROVE OutputsInv'
  BY <1>5, ObjectStep
<1>6. ASSUME NEW c \in Clients, NEW id \in DOMAIN om, NEW new \in Picks[id[1]], ConfigureHead(c, id, new)
      PROVE  OutputsInv'
  BY <1>6, ConfigureStep
<1>7. ASSUME NEW c \in Clients, bind(c) \/ Leave(c) PROVE OutputsInv'
  BY <1>7, ClientStep
<1>8. ASSUME NEW c \in Clients, Apply(c) PROVE OutputsInv'
  BY <1>8, ApplyStep
<1>. QED  BY <1>1, <1>2, <1>3, <1>4, <1>5, <1>6, <1>7, <1>8, NotifyStep, Zenon DEF OutputsNext

\* At the start nothing is connected.
LEMMA OutputsStart ==
    ASSUME OutputsInit
    PROVE  OutputsInv
<1>1. \A o \in OutSet : conn[o] = 0
  BY DEF OutputsInit
<1>2. Enabled(conn, cfg) = {} /\ Ids = {}
  BY <1>1 DEF Enabled, IsOn, Ids
<1>3. DOMAIN pos = {} /\ DOMAIN om = {} /\ bound = {}
  BY DEF OutputsInit
<1>4. PlacedAreOn /\ OutputsDisjoint /\ ToldLast /\ ViewsShow
  BY <1>2, <1>3 DEF PlacedAreOn, OutputsDisjoint, ToldLast, ViewsShow
<1>5. native \in [OutSet -> {ms \in Seq(Nat \ {NoMode}) : ms # <<>>}]
  <2>1. ASSUME NEW o \in OutSet PROVE native[o] \in {ms \in Seq(Nat \ {NoMode}) : ms # <<>>}
    <3>1. Native[o] # {} /\ \A ms \in Native[o] : ms \in Seq(Nat \ {NoMode}) /\ ms # <<>>
      BY OutputsAssumption
    <3>2. PICK lengths : lengths = {Len(ms) : ms \in Native[o]}
      OBVIOUS
    <3>3. lengths \subseteq Nat /\ lengths # {}
      BY <3>1, <3>2, LenProperties
    <3>4. PICK least \in lengths : \A m \in lengths : least <= m
      BY <3>3, LeastNatural
    <3>5. \E ms \in Native[o] : \A k \in Native[o] : Len(ms) <= Len(k)
      BY <3>2, <3>4
    <3>6. native[o] \in Native[o]
      BY <3>5 DEF OutputsInit
    <3>. QED  BY <3>1, <3>6
  <2>2. native = [o \in OutSet |-> native[o]]
    BY DEF OutputsInit
  <2>. QED  BY <2>1, <2>2
<1>6. cfg \in [OutSet -> Section]
  BY DEF OutputsInit, DefaultOutput, Section, NoMode, Nowhere
<1>7. confs \in [Clients -> Conf]
  <2>1. NoConf \in Conf
    BY NoEntries DEF Conf, NoConf
  <2>. QED  BY <2>1 DEF OutputsInit
<1>8. heads = [c \in Clients |-> heads[c]]
  BY DEF OutputsInit
<1>9. OutputsTypeOK
  <2>1. conn \in [OutSet -> 0 .. 2]
    BY DEF OutputsInit
  <2>2. dirty \in Nat /\ bound \subseteq Clients /\ unplaced \in BOOLEAN
    BY DEF OutputsInit
  <2>. QED  BY <1>5, <1>6, <1>7, <1>8, <2>1, <2>2 DEF OutputsTypeOK
<1>. QED  BY <1>4, <1>9 DEF OutputsInv

\* So does a step of somebody else.
LEMMA OutputsStutter ==
    ASSUME OutputsInv, UNCHANGED outputVars
    PROVE  OutputsInv'
<1>1. UNCHANGED <<conn, native, cfg, pos, dirty, om, bound, heads, confs, unplaced, miscounted>>
  BY DEF outputVars
<1>. QED  BY <1>1, ConfsStep DEF OutputsInv, OutputsTypeOK

\* Wherever outputs are configured to be and in whatever order they come and go, none lies
\* over another, unless a mode changed by itself since they were placed.
THEOREM PlacementSafety == OutputsSpec => []OutputsDisjoint
<1>1. OutputsInv /\ [OutputsNext]_outputVars => OutputsInv'
  BY OutputsStep, OutputsStutter
<1>2. OutputsInv => OutputsDisjoint
  BY DEF OutputsInv
<1>. QED  BY <1>1, <1>2, OutputsStart, PTL DEF OutputsSpec

\* Between turns every client shows each output as it is, however many changes of however
\* many turns the events it was sent summed up.
THEOREM HeadsSafety == OutputsSpec => []HeadsTruthful
<1>1. OutputsInv /\ [OutputsNext]_outputVars => OutputsInv'
  BY OutputsStep, OutputsStutter
<1>2. OutputsInv => HeadsTruthful
  <2>. SUFFICES ASSUME OutputsInv, dirty = 0 PROVE HeadsTruthful
    BY DEF HeadsTruthful
  <2>1. ASSUME NEW c \in bound
        PROVE  /\ DOMAIN heads[c] = DOMAIN om
               /\ \A id \in DOMAIN om \ miscounted : Shows(heads[c][id], Report(id[1]))
    BY DEF OutputsInv, ToldLast, ViewsShow
  <2>. QED  BY <2>1 DEF HeadsTruthful, Shows, NewHead
<1>. QED  BY <1>1, <1>2, OutputsStart, PTL DEF OutputsSpec

----------------------------------------------------------------------------
(***************************************************************************)
(* The TTY backend shows what it should, for any GPUs and connectors.  The *)
(* handlers are functions on the record of the program; each lemma says    *)
(* what one of them makes of it.  Behind the property are three relations: *)
(* of what is lit to what the last scan found (Applied), of what it found  *)
(* to what is plugged in, unless an event of it is on its way (UpToDate),  *)
(* and of the events on their way to the devices there are (Replays).      *)
(***************************************************************************)
Connection == {"no", "bare", "ready"}

Tty ==
    [active : BOOLEAN, lid : BOOLEAN, off : SUBSET Configurable,
     ignoring : SUBSET Gpus, ignored : SUBSET Gpus,
     devices : SUBSET Gpus, paused : SUBSET Gpus,
     scanned : [ConnectorSet -> Connection],
     names : [ConnectorSet -> {"no", "named", "unnamed"}],
     surfaces : SUBSET ConnectorSet, leased : SUBSET ConnectorSet,
     deferred : BOOLEAN, ipc : UNION {[S -> BOOLEAN] : S \in SUBSET ConnectorSet},
     panicked : BOOLEAN, refused : SUBSET Gpus, stale : BOOLEAN]

\* The connectors that the program knows to be connected.
There(t) == {c \in ConnectorsOf(t.devices) : t.scanned[c] # "no"}

ShouldBeOff(t, c) == c \in t.off \/ (should_disable_laptop_panels(t) /\ Kind[c] = "panel")

\* What is lit or lent is connected, and no two connectors share a name.
Sound(t) ==
    /\ t \in Tty
    /\ t.surfaces \subseteq {c \in There(t) : Kind[c] # "headset"}
    /\ t.leased \subseteq {c \in There(t) : Kind[c] = "headset"}
    /\ t.paused \subseteq t.devices
    /\ t.devices \cap t.refused = {}
    /\ \A c, e \in ConnectorSet : c # e => ~SameName(t, c, e)
    /\ ~t.panicked

Applied(t) ==
    t.deferred
    \/ /\ \A c \in t.surfaces : ~ShouldBeOff(t, c)
       /\ \A c \in There(t) :
            DeviceOf[c] \notin t.paused \cup dead =>
              /\ Kind[c] = "headset" /\ c \notin t.off => c \in t.leased
              /\ /\ Kind[c] # "headset" /\ t.scanned[c] # "bare"
                 /\ ~ShouldBeOff(t, c)
                 /\ ~(t.stale /\ Kind[c] = "panel")
                 => c \in t.surfaces

IpcAgrees(t) == \A c \in ConnectorSet : (c \in t.surfaces) <=> (c \in DOMAIN t.ipc /\ t.ipc[c])

Fresh(t, d) == \A c \in ConnectorsOf({d}) : t.scanned[c] = plugged[c]

\* The devices of which an event is on its way.
Told == {d \in Gpus : \E i \in 1 .. Len(udev) : udev[i] = [kind |-> "changed", gpu |-> d]}

Event == [kind : {"added", "changed", "removed"}, gpu : Gpus]

\* The event tells how the devices a became b.
Tells(e, a, b) ==
    \/ e.kind = "added" /\ e.gpu \notin a /\ b = a \cup {e.gpu}
    \/ e.kind = "removed" /\ e.gpu \in a /\ b = a \ {e.gpu}
    \/ e.kind = "changed" /\ e.gpu \in a /\ b = a

\* The events q tell how the devices a became b.
Replays(q, a, b) ==
    \E lists \in [0 .. Len(q) -> SUBSET Gpus] :
        /\ lists[0] = a
        /\ lists[Len(q)] = b
        /\ \A i \in 1 .. Len(q) : Tells(q[i], lists[i - 1], lists[i])

\* What the program knows once it has looked at the devices listed in L, with news of
\* those in S to come.
Seen(t, L, S) ==
    /\ t.devices \subseteq L \ t.ignored
    /\ L \ (t.ignored \cup t.refused) \subseteq t.devices
    /\ \A d \in t.devices \ (dead \cup S) : Fresh(t, d)

UpToDate(t, L, S) ==
    t.active =>
      /\ t.paused = {}
      /\ ~t.deferred
      /\ t.ignored = compute_ignored_nodes(t)
      /\ Seen(t, L, S)

HardwareTypeOK ==
    /\ gpus \subseteq Gpus /\ listed \subseteq Gpus /\ dead \subseteq tty.devices
    /\ tty.devices \ gpus \subseteq dead
    /\ plugged \in [ConnectorSet -> Connection]
    /\ \A c \in ConnectorSet : Kind[c] # "monitor" => plugged[c] = "ready"
    /\ udev \in Seq(Event)

DevicesInv ==
    /\ HardwareTypeOK
    /\ Sound(tty) /\ Applied(tty) /\ IpcAgrees(tty)
    /\ Replays(udev, listed, gpus)
    /\ UpToDate(tty, listed, Told)

\* What the output configuration leaves alone.
SameDevices(r, t) ==
    /\ r.active = t.active /\ r.lid = t.lid /\ r.off = t.off
    /\ r.ignoring = t.ignoring /\ r.ignored = t.ignored
    /\ r.devices = t.devices /\ r.paused = t.paused /\ r.refused = t.refused

LEMMA RefreshTells ==
    ASSUME NEW t \in Tty, t.surfaces \subseteq There(t), NEW r, r = refresh_ipc_outputs(t)
    PROVE  r = [t EXCEPT !.ipc = r.ipc] /\ r \in Tty /\ IpcAgrees(r)
<1>1. PICK s : s = [c \in There(t) |-> c \in t.surfaces]
  OBVIOUS
<1>2. r = [t EXCEPT !.ipc = s]
  BY <1>1 DEF refresh_ipc_outputs, There
<1>3. There(t) \in SUBSET ConnectorSet
  BY DEF There, ConnectorsOf
<1>4. s \in [There(t) -> BOOLEAN]
  BY <1>1
<1>5. s \in UNION {[S -> BOOLEAN] : S \in SUBSET ConnectorSet}
  BY <1>3, <1>4
<1>6. r \in Tty
  BY <1>2, <1>5 DEF Tty
<1>7. r.ipc = s /\ r.surfaces = t.surfaces
  BY <1>2 DEF Tty
<1>8. IpcAgrees(r)
  BY <1>1, <1>7 DEF IpcAgrees
<1>. QED  BY <1>2, <1>6, <1>7, <1>8

LEMMA ConfigApplied ==
    ASSUME NEW t, Sound(t), t.active, NEW r, r = on_output_config_changed(t)
    PROVE  /\ Sound(r) /\ Applied(r) /\ IpcAgrees(r)
           /\ ~r.deferred
           /\ SameDevices(r, t) /\ r.scanned = t.scanned
<1>0. t \in Tty
  BY DEF Sound
<1>1. PICK off, turnOn : /\ off = {c \in t.surfaces : ShouldBeOff(t, c)}
                         /\ turnOn = {c \in There(t) : c \notin t.surfaces \cup t.leased /\ ~ShouldBeOff(t, c)}
  OBVIOUS
<1>2. PICK lent, lit : /\ lent = {c \in turnOn : Kind[c] = "headset"}
                       /\ lit = {c \in turnOn : DeviceOf[c] \notin t.paused /\ Kind[c] # "headset"
                                            /\ t.scanned[c] # "bare"}
  OBVIOUS
<1>3. PICK u : u = connector_disconnected([t EXCEPT !.deferred = FALSE, !.stale = FALSE], off)
  OBVIOUS
<1>4. /\ u \in Tty
      /\ u = [t EXCEPT !.deferred = FALSE, !.stale = FALSE, !.surfaces = t.surfaces \ off]
  <2>1. u = [t EXCEPT !.deferred = FALSE, !.stale = FALSE, !.surfaces = t.surfaces \ off]
    BY <1>0, <1>1, <1>3 DEF connector_disconnected, Tty
  <2>2. t.surfaces \ off \in SUBSET ConnectorSet
    BY <1>0 DEF Tty
  <2>. QED  BY <1>0, <2>1, <2>2 DEF Tty
<1>5. PICK v : v = connector_connected(u, turnOn)
  OBVIOUS
<1>6. PICK ouch : ouch = (u.panicked \/ lit \cap u.surfaces # {}
                            \/ \E c \in lit, e \in u.surfaces \cup lit : c # e /\ SameName(u, c, e))
  OBVIOUS
<1>7. v = [u EXCEPT !.leased = u.leased \cup lent, !.surfaces = u.surfaces \cup lit, !.panicked = ouch]
  <2>1. u.paused = t.paused /\ u.scanned = t.scanned
    BY <1>0, <1>4 DEF Tty
  <2>2. lit = {c \in turnOn \ lent : DeviceOf[c] \notin u.paused /\ u.scanned[c] # "bare"}
    BY <2>1, <1>2
  <2>. QED  BY <1>2, <1>4, <1>5, <1>6, <2>2 DEF connector_connected, Tty
<1>8. ~ouch
  <2>1. u.panicked = t.panicked /\ u.surfaces \subseteq t.surfaces /\ u.names = t.names
    BY <1>0, <1>4 DEF Tty
  <2>2. lit \cap u.surfaces = {}
    BY <1>1, <1>2, <2>1
  <2>3. lit \cup u.surfaces \subseteq ConnectorSet
    BY <1>0, <1>1, <1>2, <2>1 DEF Tty, There, ConnectorsOf
  <2>4. \A c, e \in ConnectorSet : c # e => ~SameName(u, c, e)
    BY <2>1 DEF Sound, SameName
  <2>. QED  BY <1>6, <2>1, <2>2, <2>3, <2>4 DEF Sound
<1>9. r = refresh_ipc_outputs(v)
  BY <1>1, <1>3, <1>5, Zenon DEF on_output_config_changed, There, ShouldBeOff
<1>10. lent \cup lit \subseteq There(t) /\ There(t) \subseteq ConnectorSet
  BY <1>1, <1>2 DEF There, ConnectorsOf
<1>11. /\ u.surfaces = t.surfaces \ off /\ u.leased = t.leased
       /\ u.names = t.names /\ u.scanned = t.scanned
       /\ ~u.deferred /\ ~u.stale
       /\ SameDevices(u, t)
  BY <1>0, <1>4 DEF Tty, SameDevices
<1>12. /\ v \in Tty
       /\ v.surfaces = (t.surfaces \ off) \cup lit /\ v.leased = t.leased \cup lent
       /\ v.names = t.names /\ v.scanned = t.scanned
       /\ ~v.deferred /\ ~v.stale /\ ~v.panicked
       /\ SameDevices(v, t)
  <2>1. ouch \in BOOLEAN
    BY <1>6, Zenon
  <2>2. u.surfaces \cup lit \subseteq ConnectorSet /\ u.leased \cup lent \subseteq ConnectorSet
    BY <1>4, <1>10 DEF Tty
  <2>3. v \in Tty
    <3>1. /\ u.surfaces \cup lit \in SUBSET ConnectorSet
          /\ u.leased \cup lent \in SUBSET ConnectorSet
      BY <2>2
    <3>2. PICK ss, ls : ss = u.surfaces \cup lit /\ ls = u.leased \cup lent
      OBVIOUS
    <3>3. ss \in SUBSET ConnectorSet /\ ls \in SUBSET ConnectorSet
      BY <3>1, <3>2
    <3>4. v = [u EXCEPT !.leased = ls, !.surfaces = ss, !.panicked = ouch]
      BY <1>7, <3>2
    <3>. QED  BY <1>4, <2>1, <3>3, <3>4, ZenonT(60) DEF Tty
  <2>4. v.panicked = ouch /\ v.deferred = u.deferred /\ v.stale = u.stale
    BY <1>4, <1>7 DEF Tty
  <2>5. SameDevices(v, u) /\ v.names = u.names /\ v.scanned = u.scanned
    BY <1>4, <1>7 DEF Tty, SameDevices
  <2>6. v.surfaces = u.surfaces \cup lit /\ v.leased = u.leased \cup lent
    BY <1>4, <1>7 DEF Tty
  <2>7. ~v.deferred /\ ~v.stale /\ ~v.panicked
    BY <1>8, <1>11, <2>4, Zenon
  <2>. QED  BY <1>11, <2>3, <2>5, <2>6, <2>7 DEF SameDevices
<1>13. There(v) = There(t)
  BY <1>12 DEF There, SameDevices
<1>14. v.surfaces \subseteq There(v)
  BY <1>10, <1>12, <1>13 DEF Sound
<1>15. r = [v EXCEPT !.ipc = r.ipc] /\ r \in Tty /\ IpcAgrees(r)
  BY <1>9, <1>12, <1>14, RefreshTells
<1>16. /\ r.surfaces = (t.surfaces \ off) \cup lit /\ r.leased = t.leased \cup lent
       /\ r.names = t.names /\ r.scanned = t.scanned
       /\ ~r.deferred /\ ~r.stale /\ ~r.panicked
       /\ SameDevices(r, t)
  <2>1. v \in Tty /\ r = [v EXCEPT !.ipc = r.ipc]
    BY <1>12, <1>15
  <2>2. /\ r.surfaces = v.surfaces /\ r.leased = v.leased
        /\ r.names = v.names /\ r.scanned = v.scanned
        /\ r.deferred = v.deferred /\ r.stale = v.stale /\ r.panicked = v.panicked
    BY <2>1 DEF Tty
  <2>3. SameDevices(r, v)
    BY <2>1 DEF Tty, SameDevices
  <2>4. SameDevices(r, t)
    BY <1>12, <2>3 DEF SameDevices
  <2>. QED  BY <1>12, <2>2, <2>4
<1>17. There(r) = There(t) /\ \A c : ShouldBeOff(r, c) <=> ShouldBeOff(t, c)
  BY <1>16 DEF There, ShouldBeOff, should_disable_laptop_panels, SameDevices
<1>18. Sound(r)
  <2>1. \A c, e \in ConnectorSet : c # e => ~SameName(r, c, e)
    BY <1>16 DEF Sound, SameName
  <2>2. lent \subseteq {c \in There(t) : Kind[c] = "headset"} /\ lit \subseteq {c \in There(t) : Kind[c] # "headset"}
    BY <1>2, <1>10
  <2>. QED  BY <1>15, <1>16, <1>17, <2>1, <2>2 DEF Sound, SameDevices
<1>19. Applied(r)
  <2>1. \A c \in r.surfaces : ~ShouldBeOff(r, c)
    BY <1>1, <1>2, <1>16, <1>17
  <2>2. ASSUME NEW c \in There(r), DeviceOf[c] \notin r.paused, Kind[c] = "headset", c \notin r.off
        PROVE  c \in r.leased
    <3>1. c \notin t.surfaces /\ ~ShouldBeOff(t, c)
      BY <1>16, <2>2 DEF Sound, ShouldBeOff, SameDevices
    <3>. QED  BY <1>1, <1>2, <1>16, <1>17, <2>2, <3>1 DEF SameDevices
  <2>3. ASSUME NEW c \in There(r), DeviceOf[c] \notin r.paused, Kind[c] # "headset",
               r.scanned[c] # "bare", ~ShouldBeOff(r, c)
        PROVE  c \in r.surfaces
    <3>1. c \notin t.leased
      BY <2>3 DEF Sound
    <3>. QED  BY <1>1, <1>2, <1>16, <1>17, <2>3, <3>1 DEF SameDevices
  <2>. QED  BY <2>1, <2>2, <2>3 DEF Applied
<1>. QED  BY <1>15, <1>16, <1>18, <1>19

\* What is there of the device after a scan is what is plugged in.
LEMMA ConnectorsScanned ==
    ASSUME NEW t, Sound(t), NEW d \in t.devices, NEW r, r = ScanConnectors(t, d),
           plugged \in [ConnectorSet -> Connection]
    PROVE  /\ Sound(r) /\ SameDevices(r, t)
           /\ r.scanned = [c \in ConnectorSet |->
                              IF c \in ConnectorsOf({d}) THEN plugged[c] ELSE t.scanned[c]]
<1>0. t \in Tty
  BY DEF Sound
<1>1. PICK cs, removed, added :
        /\ cs = ConnectorsOf({d})
        /\ removed = {c \in cs : t.scanned[c] # "no" /\ plugged[c] = "no"}
        /\ added = {c \in cs : t.scanned[c] = "no" /\ plugged[c] # "no"}
  OBVIOUS
<1>2. PICK sc, kept : /\ sc = [c \in ConnectorSet |-> IF c \in cs THEN plugged[c] ELSE t.scanned[c]]
                      /\ kept = [c \in ConnectorSet |-> IF c \in removed THEN "no" ELSE t.names[c]]
  OBVIOUS
<1>3. PICK names : names = [c \in ConnectorSet |->
                       IF c \notin added THEN kept[c]
                       ELSE IF \E e \in ConnectorSet :
                                 /\ Edid[e] = Edid[c]
                                 /\ IF e \in added THEN Precedes(e, c) ELSE kept[e] = "named"
                            THEN "unnamed" ELSE "named"]
  OBVIOUS
<1>4. PICK ss, ls : ss = t.surfaces \ removed /\ ls = t.leased \ (removed \ t.surfaces)
  OBVIOUS
<1>5. /\ cs \subseteq ConnectorSet /\ removed \subseteq cs /\ added \subseteq cs
      /\ sc \in [ConnectorSet -> Connection] /\ kept \in [ConnectorSet -> {"no", "named", "unnamed"}]
      /\ names \in [ConnectorSet -> {"no", "named", "unnamed"}]
      /\ ss \in SUBSET t.surfaces /\ ls \in SUBSET t.leased
  BY <1>0, <1>1, <1>2, <1>3, <1>4 DEF ConnectorsOf, Tty
<1>6. r = [t EXCEPT !.scanned = sc, !.names = names, !.surfaces = ss, !.leased = ls]
  <2>1. PICK a : a = [t EXCEPT !.scanned = sc]
    OBVIOUS
  <2>2. PICK b : b = connector_disconnected(a, removed)
    OBVIOUS
  <2>3. PICK k : k = [b EXCEPT !.names = [c \in ConnectorSet |-> IF c \in removed THEN "no" ELSE @[c]]]
    OBVIOUS
  <2>4. r = NameConnectors(k, added)
    BY <1>1, <1>2, <2>1, <2>2, <2>3, Zenon DEF ScanConnectors
  <2>5. b = [t EXCEPT !.scanned = sc, !.surfaces = ss, !.leased = ls]
    BY <1>0, <1>4, <2>1, <2>2 DEF connector_disconnected, Tty
  <2>6. k = [t EXCEPT !.scanned = sc, !.surfaces = ss, !.leased = ls, !.names = kept]
    BY <1>0, <1>2, <2>3, <2>5 DEF Tty
  <2>7. k.names = kept
    BY <1>0, <2>6 DEF Tty
  <2>8. r = [k EXCEPT !.names = names]
    BY <1>3, <2>4, <2>7 DEF NameConnectors
  <2>. QED  BY <1>0, <2>6, <2>8 DEF Tty
<1>7. r \in Tty
  <2>1. ss \in SUBSET ConnectorSet /\ ls \in SUBSET ConnectorSet
    BY <1>0, <1>5 DEF Tty
  <2>2. sc \in [ConnectorSet -> Connection] /\ names \in [ConnectorSet -> {"no", "named", "unnamed"}]
    BY <1>5
  <2>3. [t EXCEPT !.scanned = sc, !.names = names] \in Tty
    BY <1>0, <2>2 DEF Tty
  <2>4. \A a \in Tty : [a EXCEPT !.surfaces = ss, !.leased = ls] \in Tty
    BY <2>1 DEF Tty
  <2>5. r = [[t EXCEPT !.scanned = sc, !.names = names] EXCEPT !.surfaces = ss, !.leased = ls]
    BY <1>0, <1>6 DEF Tty
  <2>. QED  BY <2>3, <2>4, <2>5
<1>8. /\ r.scanned = sc /\ r.names = names /\ r.surfaces = ss /\ r.leased = ls
      /\ SameDevices(r, t) /\ r.panicked = t.panicked
  BY <1>0, <1>6 DEF Tty, SameDevices
<1>9. There(r) = {c \in ConnectorsOf(t.devices) : sc[c] # "no"}
  BY <1>8 DEF There, SameDevices
<1>10. There(t) \ removed \subseteq There(r)
  BY <1>1, <1>2, <1>9 DEF There, ConnectorsOf
<1>11. \A c, e \in ConnectorSet : c # e => ~SameName(r, c, e)
  <2> SUFFICES ASSUME NEW c \in ConnectorSet, NEW e \in ConnectorSet, c # e, Edid[c] = Edid[e],
                      names[c] = "named", names[e] = "named"
               PROVE  FALSE
    BY <1>8 DEF SameName
  <2>1. CASE c \in added /\ e \in added
    <3>1. ~Precedes(e, c) /\ ~Precedes(c, e)
      BY <1>3, <2>1
    <3>2. PICK i, j \in DOMAIN Connectors : Connectors[i] = c /\ Connectors[j] = e
      BY DEF ConnectorSet
    <3>3. i \in Nat /\ j \in Nat
      BY DevicesAssumption
    <3>. QED  BY <3>1, <3>2, <3>3 DEF Precedes
  <2>2. CASE c \in added /\ e \notin added
    BY <1>3, <2>2
  <2>3. CASE c \notin added /\ e \in added
    BY <1>3, <2>3
  <2>4. CASE c \notin added /\ e \notin added
    <3>1. t.names[c] = "named" /\ t.names[e] = "named"
      BY <1>2, <1>3, <2>4
    <3>. QED  BY <3>1 DEF Sound, SameName
  <2>. QED  BY <2>1, <2>2, <2>3, <2>4
<1>12. Sound(r)
  <2>1. ss \subseteq {c \in There(r) : Kind[c] # "headset"}
    BY <1>4, <1>10 DEF Sound
  <2>2. ls \subseteq {c \in There(r) : Kind[c] = "headset"}
    <3>1. ls \cap removed = {}
      BY <1>4 DEF Sound
    <3>. QED  BY <1>4, <1>10, <3>1 DEF Sound
  <2>. QED  BY <1>7, <1>8, <1>11, <2>1, <2>2 DEF Sound, SameDevices
<1>. QED  BY <1>1, <1>2, <1>8, <1>12

\* What a scan of a device that is there leaves: everything is as it should be.
LEMMA Rescanned ==
    ASSUME NEW t, Sound(t), t.active, NEW d \in t.devices, d \in gpus \ dead,
           plugged \in [ConnectorSet -> Connection], NEW r, r = Rescan(t, d)
    PROVE  /\ Sound(r) /\ Applied(r) /\ IpcAgrees(r) /\ ~r.deferred
           /\ SameDevices(r, t)
           /\ Fresh(r, d)
           /\ \A e \in Gpus \ {d} : Fresh(t, e) => Fresh(r, e)
<1>1. PICK s : s = ScanConnectors(t, d)
  OBVIOUS
<1>2. /\ Sound(s) /\ SameDevices(s, t)
      /\ s.scanned = [c \in ConnectorSet |->
                         IF c \in ConnectorsOf({d}) THEN plugged[c] ELSE t.scanned[c]]
  BY <1>1, ConnectorsScanned
<1>3. r = on_output_config_changed(s)
  BY <1>1 DEF Rescan
<1>4. s.active
  BY <1>2 DEF SameDevices
<1>5. /\ Sound(r) /\ Applied(r) /\ IpcAgrees(r) /\ ~r.deferred
      /\ SameDevices(r, s) /\ r.scanned = s.scanned
  BY <1>2, <1>3, <1>4, ConfigApplied
<1>6. SameDevices(r, t)
  BY <1>2, <1>5 DEF SameDevices
<1>7. Fresh(r, d) /\ \A e \in Gpus \ {d} : Fresh(t, e) => Fresh(r, e)
  BY <1>2, <1>5 DEF Fresh, ConnectorsOf
<1>. QED  BY <1>5, <1>6, <1>7


----------------------------------------------------------------------------

\* What a loop over devices has done to t when it has handled those in `done`.
Progress(what, u, t, done) ==
    /\ Sound(u) /\ Applied(u) /\ IpcAgrees(u)
    /\ u.active = t.active /\ u.lid = t.lid /\ u.off = t.off
    /\ u.ignoring = t.ignoring /\ u.ignored = t.ignored
    /\ u.deferred => t.deferred
    /\ \A e \in Gpus \ done : Fresh(t, e) => Fresh(u, e)
    /\ what = "remove" =>
          /\ u.devices = t.devices \ done /\ u.paused = t.paused \ done
          /\ u.refused = t.refused
    /\ what = "activate" =>
          /\ u.devices = t.devices /\ u.paused = t.paused \ done
          /\ u.refused = t.refused
          /\ \A e \in done \ dead : Fresh(u, e)
    /\ what = "add" =>
          /\ u.paused = t.paused
          /\ t.devices \subseteq u.devices
          /\ u.devices \ t.devices \subseteq (done \cap gpus) \ t.ignored
          /\ done \subseteq u.devices \cup u.refused \cup t.ignored
          /\ u.refused \ done = t.refused \ done
          /\ \A e \in done \cap u.devices : Fresh(u, e)

\* The devices that such a loop may be given.
Ready(what, t, ds) ==
    /\ t.active
    /\ t.devices \ gpus \subseteq dead
    /\ ds \subseteq Gpus
    /\ \/ what = "remove" /\ ds \subseteq t.devices
       \/ what = "activate" /\ ds \subseteq t.devices \ t.ignored
       \/ what = "add" /\ ds \cap (t.devices \cup dead) = {}

\* Removing a device takes its connectors; the others stay as they are, lit or not.
LEMMA DeviceRemoved ==
    ASSUME NEW t, Sound(t), Applied(t), NEW d \in t.devices, NEW r, r = device_removed(t, d)
    PROVE  /\ Sound(r) /\ Applied(r) /\ IpcAgrees(r)
           /\ r.active = t.active /\ r.lid = t.lid /\ r.off = t.off
           /\ r.ignoring = t.ignoring /\ r.ignored = t.ignored
           /\ r.deferred = t.deferred /\ r.refused = t.refused
           /\ r.devices = t.devices \ {d} /\ r.paused = t.paused \ {d}
           /\ \A e \in Gpus \ {d} : Fresh(t, e) => Fresh(r, e)
<1>0. t \in Tty
  BY DEF Sound
<1>1. PICK cs, cut : cs = ConnectorsOf({d}) /\ cut = {c \in cs : t.scanned[c] # "no"}
  OBVIOUS
<1>2. PICK sc, names : /\ sc = [c \in ConnectorSet |-> IF c \in cs THEN "no" ELSE t.scanned[c]]
                       /\ names = [c \in ConnectorSet |-> IF c \in cs THEN "no" ELSE t.names[c]]
  OBVIOUS
<1>3. PICK ss, ls, ds, ps : /\ ss = t.surfaces \ cut /\ ls = t.leased \ (cut \ t.surfaces)
                            /\ ds = t.devices \ {d} /\ ps = t.paused \ {d}
  OBVIOUS
<1>4. PICK u : u = [t EXCEPT !.surfaces = ss, !.leased = ls, !.devices = ds, !.paused = ps,
                             !.scanned = sc, !.names = names, !.stale = TRUE]
  OBVIOUS
<1>5. r = refresh_ipc_outputs(u)
  <2>1. PICK g : g = connector_disconnected(t, cut)
    OBVIOUS
  <2>2. g = [t EXCEPT !.surfaces = ss, !.leased = ls]
    BY <1>0, <1>3, <2>1 DEF connector_disconnected, Tty
  <2>3. PICK k : k = [g EXCEPT !.devices = @ \ {d}, !.paused = @ \ {d},
                               !.scanned = [c \in ConnectorSet |-> IF c \in cs THEN "no" ELSE @[c]],
                               !.names = [c \in ConnectorSet |-> IF c \in cs THEN "no" ELSE @[c]],
                               !.stale = TRUE]
    OBVIOUS
  <2>4. r = refresh_ipc_outputs(k)
    BY <1>1, <2>1, <2>3, Zenon DEF device_removed
  <2>5. g.devices = t.devices /\ g.paused = t.paused /\ g.scanned = t.scanned /\ g.names = t.names
    BY <1>0, <2>2 DEF Tty
  <2>6. k = [g EXCEPT !.devices = ds, !.paused = ps, !.scanned = sc, !.names = names, !.stale = TRUE]
    BY <1>2, <1>3, <2>3, <2>5
  <2>7. k = u
    BY <1>0, <1>4, <2>2, <2>6 DEF Tty
  <2>. QED  BY <2>4, <2>7
<1>6. /\ cs \subseteq ConnectorSet /\ cut \subseteq cs
      /\ sc \in [ConnectorSet -> Connection] /\ names \in [ConnectorSet -> {"no", "named", "unnamed"}]
      /\ ss \in SUBSET ConnectorSet /\ ls \in SUBSET ConnectorSet
      /\ ds \in SUBSET Gpus /\ ps \in SUBSET Gpus
  BY <1>0, <1>1, <1>2, <1>3 DEF ConnectorsOf, Tty, Connection
<1>7. u \in Tty
  BY <1>0, <1>4, <1>6 DEF Tty
<1>8. /\ u.surfaces = ss /\ u.leased = ls /\ u.devices = ds /\ u.paused = ps
      /\ u.scanned = sc /\ u.names = names /\ u.stale
      /\ u.active = t.active /\ u.lid = t.lid /\ u.off = t.off
      /\ u.ignoring = t.ignoring /\ u.ignored = t.ignored
      /\ u.deferred = t.deferred /\ u.refused = t.refused /\ u.panicked = t.panicked
  BY <1>0, <1>4 DEF Tty
<1>9. There(u) = There(t) \ cs
  BY <1>0, <1>1, <1>2, <1>3, <1>8 DEF There, ConnectorsOf
<1>10. There(t) \cap cs \subseteq cut
  BY <1>1 DEF There
<1>11. ss = t.surfaces \ cs /\ ls = t.leased \ cs
  BY <1>1, <1>3, <1>10 DEF Sound
<1>12. u.surfaces \subseteq There(u)
  BY <1>8, <1>9, <1>11 DEF Sound
<1>13. r = [u EXCEPT !.ipc = r.ipc] /\ r \in Tty /\ IpcAgrees(r)
  BY <1>5, <1>7, <1>12, RefreshTells
<1>14. /\ r.surfaces = ss /\ r.leased = ls /\ r.devices = ds /\ r.paused = ps
       /\ r.scanned = sc /\ r.names = names /\ r.stale
       /\ r.active = t.active /\ r.lid = t.lid /\ r.off = t.off
       /\ r.ignoring = t.ignoring /\ r.ignored = t.ignored
       /\ r.deferred = t.deferred /\ r.refused = t.refused /\ r.panicked = t.panicked
  BY <1>7, <1>8, <1>13 DEF Tty
<1>15. There(r) = There(t) \ cs
  BY <1>8, <1>9, <1>14 DEF There
<1>16. Sound(r)
  <2>1. \A c, e \in ConnectorSet : c # e => ~SameName(r, c, e)
    BY <1>2, <1>14 DEF Sound, SameName
  <2>. QED  BY <1>3, <1>11, <1>13, <1>14, <1>15, <2>1 DEF Sound
<1>17. should_disable_laptop_panels(r) => should_disable_laptop_panels(t)
  BY <1>0, <1>2, <1>3, <1>6, <1>14 DEF should_disable_laptop_panels, ConnectorsOf
<1>18. Applied(r)
  <2>1. CASE t.deferred
    BY <1>14, <2>1 DEF Applied
  <2>2. CASE ~t.deferred
    <3>1. \A c \in r.surfaces : ~ShouldBeOff(r, c)
      BY <1>11, <1>14, <1>17, <2>2 DEF Applied, ShouldBeOff
    <3>2. ASSUME NEW c \in There(r), DeviceOf[c] \notin r.paused \cup dead
          PROVE  /\ c \in There(t) \ cs /\ DeviceOf[c] \notin t.paused \cup dead
                 /\ ~ShouldBeOff(r, c) /\ ~(r.stale /\ Kind[c] = "panel")
                      => ~ShouldBeOff(t, c) /\ ~(t.stale /\ Kind[c] = "panel")
      <4>1. c \in There(t) \ cs
        BY <1>15
      <4>2. DeviceOf[c] # d
        BY <1>1, <4>1 DEF There, ConnectorsOf
      <4>. QED  BY <1>3, <1>14, <3>2, <4>1, <4>2 DEF ShouldBeOff
    <3>3. \A c \in There(t) \ cs : r.scanned[c] = t.scanned[c]
      BY <1>2, <1>14 DEF There, ConnectorsOf
    <3>4. ASSUME NEW c \in There(r), DeviceOf[c] \notin r.paused \cup dead
          PROVE  /\ Kind[c] = "headset" /\ c \notin r.off => c \in r.leased
                 /\ /\ Kind[c] # "headset" /\ r.scanned[c] # "bare"
                    /\ ~ShouldBeOff(r, c)
                    /\ ~(r.stale /\ Kind[c] = "panel")
                    => c \in r.surfaces
      BY <1>11, <1>14, <2>2, <3>2, <3>3, <3>4 DEF Applied
    <3>. QED  BY <3>1, <3>4 DEF Applied
  <2>. QED  BY <2>1, <2>2
<1>19. \A e \in Gpus \ {d} : Fresh(t, e) => Fresh(r, e)
  BY <1>1, <1>2, <1>14 DEF Fresh, ConnectorsOf
<1>. QED  BY <1>3, <1>13, <1>14, <1>16, <1>18, <1>19


\* Adding a device that is not there yet: it is there afterwards, refused or ignored.
LEMMA DeviceAdded ==
    ASSUME NEW t, Sound(t), Applied(t), IpcAgrees(t), t.active,
           NEW d \in Gpus, d \notin t.devices \cup dead,
           plugged \in [ConnectorSet -> Connection], NEW r, r = device_added(t, d)
    PROVE  Progress("add", r, t, {d})
<1>0. t \in Tty
  BY DEF Sound
<1>1. CASE d \in t.ignored
  <2>1. r = t
    BY <1>1 DEF device_added
  <2>. QED  BY <1>1, <2>1 DEF Progress
<1>2. CASE d \notin t.ignored /\ (d \notin gpus \/ (d \in DisplayOnly /\ Primary \notin t.devices))
  <2>1. PICK rs : rs = t.refused \cup {d}
    OBVIOUS
  <2>2. r = [t EXCEPT !.refused = rs]
    BY <1>2, <2>1 DEF device_added
  <2>3. rs \in SUBSET Gpus
    BY <1>0, <2>1 DEF Tty
  <2>4. r \in Tty
    BY <1>0, <2>2, <2>3 DEF Tty
  <2>5. /\ r.refused = rs
        /\ r.active = t.active /\ r.lid = t.lid /\ r.off = t.off
        /\ r.ignoring = t.ignoring /\ r.ignored = t.ignored
        /\ r.devices = t.devices /\ r.paused = t.paused
        /\ r.surfaces = t.surfaces /\ r.leased = t.leased /\ r.names = t.names
        /\ r.scanned = t.scanned /\ r.ipc = t.ipc
        /\ r.deferred = t.deferred /\ r.stale = t.stale /\ r.panicked = t.panicked
    BY <1>0, <2>2 DEF Tty, SameDevices
  <2>6. There(r) = There(t) /\ \A c : ShouldBeOff(r, c) <=> ShouldBeOff(t, c)
    BY <2>5 DEF There, ShouldBeOff, should_disable_laptop_panels
  <2>7. Sound(r)
    <3>1. \A c, e \in ConnectorSet : c # e => ~SameName(r, c, e)
      BY <2>5 DEF Sound, SameName
    <3>. QED  BY <2>1, <2>4, <2>5, <2>6, <3>1 DEF Sound
  <2>8. Applied(r)
    BY <2>5, <2>6 DEF Applied
  <2>9. IpcAgrees(r) /\ \A e : Fresh(t, e) => Fresh(r, e)
    BY <2>5 DEF IpcAgrees, Fresh
  <2>. QED  BY <2>1, <2>5, <2>7, <2>8, <2>9 DEF Progress
<1>3. CASE d \notin t.ignored /\ d \in gpus /\ ~(d \in DisplayOnly /\ Primary \notin t.devices)
  <2>1. PICK ds, rs, p : /\ ds = t.devices \cup {d} /\ rs = t.refused \ {d}
                         /\ p = (t.panicked \/ d \in t.devices)
    OBVIOUS
  <2>2. PICK u : u = [t EXCEPT !.panicked = p, !.devices = ds, !.refused = rs]
    OBVIOUS
  <2>3. r = Rescan(u, d)
    BY <1>3, <2>1, <2>2, Zenon DEF device_added
  <2>4. ds \in SUBSET Gpus /\ rs \in SUBSET Gpus /\ d \in ds
    BY <1>0, <2>1 DEF Tty
  <2>5. p \in BOOLEAN
    BY <2>1, Zenon
  <2>6. ~p
    BY <2>1 DEF Sound
  <2>7. u \in Tty
    BY <1>0, <2>2, <2>4, <2>5 DEF Tty
  <2>8. /\ u.refused = rs /\ u.devices = ds
        /\ u.active = t.active /\ u.lid = t.lid /\ u.off = t.off
        /\ u.ignoring = t.ignoring /\ u.ignored = t.ignored /\ u.paused = t.paused
        /\ u.surfaces = t.surfaces /\ u.leased = t.leased /\ u.names = t.names
        /\ u.scanned = t.scanned
    BY <1>0, <2>2 DEF Tty
  <2>9. ~u.panicked
    <3>1. u.panicked = p
      BY <1>0, <2>2 DEF Tty
    <3>. QED  BY <2>6, <3>1, Zenon
  <2>10. There(t) \subseteq There(u)
    BY <2>1, <2>8 DEF There, ConnectorsOf
  <2>11. Sound(u)
    <3>1. \A c, e \in ConnectorSet : c # e => ~SameName(u, c, e)
      BY <2>8 DEF Sound, SameName
    <3>. QED  BY <2>1, <2>7, <2>8, <2>9, <2>10, <3>1 DEF Sound
  <2>12. u.active /\ d \in u.devices /\ d \in gpus \ dead
    BY <1>3, <2>4, <2>8
  <2>13. /\ Sound(r) /\ Applied(r) /\ IpcAgrees(r) /\ ~r.deferred
         /\ SameDevices(r, u)
         /\ Fresh(r, d)
         /\ \A e \in Gpus \ {d} : Fresh(u, e) => Fresh(r, e)
    BY <2>3, <2>11, <2>12, Rescanned
  <2>14. \A e : Fresh(t, e) => Fresh(u, e)
    BY <2>8 DEF Fresh
  <2>. QED  BY <1>3, <2>1, <2>8, <2>13, <2>14 DEF Progress, SameDevices
<1>. QED  BY <1>1, <1>2, <1>3

\* Activating a device that is known: it is scanned again, unless it is gone.
LEMMA DeviceActivated ==
    ASSUME NEW t, Sound(t), Applied(t), IpcAgrees(t), t.active, t.devices \ gpus \subseteq dead,
           NEW d \in t.devices \ t.ignored,
           plugged \in [ConnectorSet -> Connection],
           NEW r, r = device_changed([t EXCEPT !.paused = @ \ {d}], d)
    PROVE  Progress("activate", r, t, {d})
<1>0. t \in Tty
  BY DEF Sound
<1>1. PICK ps : ps = t.paused \ {d}
  OBVIOUS
<1>2. PICK u : u = [t EXCEPT !.paused = ps]
  OBVIOUS
<1>3. ps \in SUBSET Gpus
  BY <1>0, <1>1 DEF Tty
<1>4. u \in Tty
  BY <1>0, <1>2, <1>3 DEF Tty
<1>5. /\ u.paused = ps
      /\ u.active = t.active /\ u.lid = t.lid /\ u.off = t.off
      /\ u.ignoring = t.ignoring /\ u.ignored = t.ignored
      /\ u.devices = t.devices /\ u.refused = t.refused
      /\ u.surfaces = t.surfaces /\ u.leased = t.leased /\ u.names = t.names
      /\ u.scanned = t.scanned /\ u.ipc = t.ipc
      /\ u.deferred = t.deferred /\ u.stale = t.stale /\ u.panicked = t.panicked
  BY <1>0, <1>2 DEF Tty
<1>6. r = Rescan(u, d)
  <2>1. r = device_changed(u, d)
    BY <1>1, <1>2
  <2>. QED  BY <1>5, <2>1 DEF device_changed
<1>7. There(u) = There(t) /\ \A c : ShouldBeOff(u, c) <=> ShouldBeOff(t, c)
  BY <1>5 DEF There, ShouldBeOff, should_disable_laptop_panels
<1>8. Sound(u)
  <2>1. \A c, e \in ConnectorSet : c # e => ~SameName(u, c, e)
    BY <1>5 DEF Sound, SameName
  <2>. QED  BY <1>1, <1>4, <1>5, <1>7, <2>1 DEF Sound
<1>9. \A e : Fresh(t, e) => Fresh(u, e)
  BY <1>5 DEF Fresh
<1>10. CASE d \in gpus \ dead
  <2>1. u.active /\ d \in u.devices
    BY <1>5
  <2>2. /\ Sound(r) /\ Applied(r) /\ IpcAgrees(r) /\ ~r.deferred
        /\ SameDevices(r, u)
        /\ Fresh(r, d)
        /\ \A e \in Gpus \ {d} : Fresh(u, e) => Fresh(r, e)
    BY <1>6, <1>8, <1>10, <2>1, Rescanned
  <2>. QED  BY <1>1, <1>5, <1>9, <2>2 DEF Progress, SameDevices
<1>11. CASE d \notin gpus \ dead
  <2>1. d \in dead /\ r = u
    BY <1>6, <1>11 DEF Rescan
  <2>2. \A c \in There(u) : DeviceOf[c] \notin u.paused \cup dead => DeviceOf[c] \notin t.paused \cup dead
    BY <1>1, <1>5, <2>1
  <2>3. Applied(u)
    BY <1>5, <1>7, <2>2 DEF Applied
  <2>4. IpcAgrees(u)
    BY <1>5 DEF IpcAgrees
  <2>. QED  BY <1>1, <1>5, <1>8, <1>9, <2>1, <2>3, <2>4 DEF Progress
<1>. QED  BY <1>10, <1>11

\* One turn of a loop.
LEMMA HandledNext ==
    ASSUME NEW what, NEW u, NEW t, NEW ds, NEW done \in SUBSET ds, NEW d \in ds \ done,
           Ready(what, t, ds), Progress(what, u, t, done),
           plugged \in [ConnectorSet -> Connection], NEW r, r = Handled(what, u, d)
    PROVE  Progress(what, r, t, done \cup {d})
<1>0. u \in Tty /\ u.active /\ d \in Gpus /\ done \subseteq Gpus
  BY DEF Progress, Sound, Ready
<1>1. CASE what = "remove"
  <2>1. r = device_removed(u, d) /\ d \in u.devices
    BY <1>1 DEF Handled, Progress, Ready
  <2>2. /\ Sound(r) /\ Applied(r) /\ IpcAgrees(r)
        /\ r.active = u.active /\ r.lid = u.lid /\ r.off = u.off
        /\ r.ignoring = u.ignoring /\ r.ignored = u.ignored
        /\ r.deferred = u.deferred /\ r.refused = u.refused
        /\ r.devices = u.devices \ {d} /\ r.paused = u.paused \ {d}
        /\ \A e \in Gpus \ {d} : Fresh(u, e) => Fresh(r, e)
    BY <2>1, DeviceRemoved DEF Progress
  <2>. QED  BY <1>1, <2>2 DEF Progress
<1>2. CASE what = "activate"
  <2>1. r = device_changed([u EXCEPT !.paused = @ \ {d}], d) /\ d \in u.devices \ u.ignored
    BY <1>2 DEF Handled, Progress, Ready
  <2>2. u.devices \ gpus \subseteq dead
    BY <1>2 DEF Progress, Ready
  <2>3. Progress("activate", r, u, {d})
    BY <1>0, <2>1, <2>2, DeviceActivated, ZenonT(60) DEF Progress
  <2>4. \A e \in done \ dead : e # d => Fresh(r, e)
    BY <1>0, <1>2, <2>3 DEF Progress
  <2>. QED  BY <1>2, <2>3, <2>4 DEF Progress
<1>3. CASE what = "add"
  <2>1. r = device_added(u, d) /\ d \notin u.devices \cup dead
    BY <1>3 DEF Handled, Progress, Ready
  <2>2. Progress("add", r, u, {d})
    BY <1>0, <2>1, DeviceAdded, ZenonT(60) DEF Progress
  <2>3. \A e \in done \cap u.devices : Fresh(r, e)
    BY <1>0, <1>3, <2>2 DEF Progress
  <2>4. \A e \in done : e \in r.devices => e \in u.devices
    BY <1>0, <2>2 DEF Progress
  <2>. QED  BY <1>3, <2>2, <2>3, <2>4 DEF Progress
<1>. QED  BY <1>1, <1>2, <1>3 DEF Ready

\* The next state of a loop.
AfterDevice(what, u, ds, d) == IF d \in ds THEN Handled(what, u, d) ELSE u

\* The states of a loop over the first m devices.
AreStates(after, m, what, t, ds, order) ==
    after = [i \in 0 .. m |-> IF i = 0 THEN t ELSE AfterDevice(what, after[i - 1], ds, order[i])]

LEMMA StatesExist ==
    ASSUME NEW m \in Nat, NEW what, NEW t, NEW ds, NEW order
    PROVE  \E after : AreStates(after, m, what, t, ds, order)
<1>1. PICK bad : bad = {i \in Nat : ~\E after : AreStates(after, i, what, t, ds, order)}
  OBVIOUS
<1>2. CASE bad = {}
  BY <1>1, <1>2
<1>3. CASE bad # {}
  <2>1. PICK n \in bad : \A i \in bad : n <= i
    BY <1>1, <1>3, LeastNatural
  <2>2. n \in Nat /\ ~\E after : AreStates(after, n, what, t, ds, order)
    BY <1>1, <2>1
  <2>3. CASE n = 0
    <3>1. PICK after : after = [i \in 0 .. 0 |-> t]
      OBVIOUS
    <3>2. AreStates(after, n, what, t, ds, order)
      BY <2>3, <3>1 DEF AreStates
    <3>. QED  BY <2>2, <3>2
  <2>4. CASE n # 0
    <3>1. n - 1 \in Nat /\ n - 1 \notin bad
      BY <2>1, <2>2, <2>4
    <3>2. PICK after : AreStates(after, n - 1, what, t, ds, order)
      BY <1>1, <3>1
    <3>3. PICK more : more = [i \in 0 .. n |->
                                IF i = n THEN AfterDevice(what, after[n - 1], ds, order[n]) ELSE after[i]]
      OBVIOUS
    <3>4. \A i \in 0 .. n - 1 : after[i] = IF i = 0 THEN t ELSE AfterDevice(what, after[i - 1], ds, order[i])
      BY <3>2 DEF AreStates
    <3>5. \A i \in 0 .. n - 1 : more[i] = after[i]
      BY <2>2, <3>3
    <3>6. \A i \in 0 .. n : more[i] = IF i = 0 THEN t ELSE AfterDevice(what, more[i - 1], ds, order[i])
      <4>1. ASSUME NEW i \in 0 .. n - 1
            PROVE  more[i] = IF i = 0 THEN t ELSE AfterDevice(what, more[i - 1], ds, order[i])
        <5>1. CASE i = 0
          BY <5>1, <3>4, <3>5
        <5>2. CASE i # 0
          <6>1. i - 1 \in 0 .. n - 1
            BY <5>2, <2>2
          <6>. QED  BY <5>2, <6>1, <3>4, <3>5
        <5>. QED  BY <5>1, <5>2
      <4>2. more[n] = AfterDevice(what, more[n - 1], ds, order[n])
        <5>1. n - 1 \in 0 .. n - 1 /\ n \in 0 .. n
          BY <3>1, <2>2
        <5>. QED  BY <5>1, <3>3, <3>5
      <4>3. \A i \in 0 .. n : i \in 0 .. n - 1 \/ i = n
        BY <2>2
      <4>. QED  BY <4>1, <4>2, <4>3, <2>4
    <3>7. more = [i \in 0 .. n |-> more[i]]
      BY <3>3
    <3>8. AreStates(more, n, what, t, ds, order)
      BY <3>6, <3>7 DEF AreStates
    <3>. QED  BY <2>2, <3>8
  <2>. QED  BY <2>3, <2>4
<1>. QED  BY <1>2, <1>3

\* A HashMap has every device, and has it once.
LEMMA OrderHasAll ==
    ASSUME NEW order \in SetToSeqs(Gpus)
    PROVE  /\ Len(order) \in Nat
           /\ \A i \in 1 .. Len(order) : order[i] \in Gpus
           /\ \A i, j \in 1 .. Len(order) : order[i] = order[j] => i = j
           /\ \A d \in Gpus : \E i \in 1 .. Len(order) : order[i] = d
<1>1. PICK n : n = Cardinality(Gpus)
  OBVIOUS
<1>2. n \in Nat
  BY <1>1, DevicesAssumption, FS_CardinalityType
<1>3. order \in [1 .. n -> Gpus] /\ \A i, j \in 1 .. n : i # j => order[i] # order[j]
  BY <1>1 DEF SetToSeqs
<1>4. Len(order) = n
  BY <1>2, <1>3
<1>5. order \in Injection(1 .. n, Gpus)
  BY <1>3 DEF Injection, IsInjective
<1>6. Cardinality(1 .. n) = n
  BY <1>2, FS_Interval
<1>7. order \in Surjection(1 .. n, Gpus)
  BY <1>1, <1>5, <1>6, DevicesAssumption, FS_Injection
<1>8. \A d \in Gpus : \E i \in 1 .. n : order[i] = d
  BY <1>7 DEF Surjection
<1>. QED  BY <1>2, <1>3, <1>4, <1>8

\* What a loop over devices comes to.
LEMMA LoopDone ==
    ASSUME NEW what, NEW t, NEW ds, NEW order \in SetToSeqs(Gpus),
           Sound(t), Applied(t), IpcAgrees(t), Ready(what, t, ds),
           plugged \in [ConnectorSet -> Connection]
    PROVE  Progress(what, AllHandled(what, t, ds, order), t, ds)
<1>0. /\ Len(order) \in Nat
      /\ \A i \in 1 .. Len(order) : order[i] \in Gpus
      /\ \A i, j \in 1 .. Len(order) : order[i] = order[j] => i = j
      /\ \A d \in Gpus : \E i \in 1 .. Len(order) : order[i] = d
  BY OrderHasAll
<1>1. PICK m : m = Len(order)
  OBVIOUS
<1>2. PICK after : after = CHOOSE f : f = [i \in 0 .. m |-> IF i = 0 THEN t
                                              ELSE IF order[i] \in ds THEN Handled(what, f[i - 1], order[i])
                                              ELSE f[i - 1]]
  OBVIOUS
<1>3. AreStates(after, m, what, t, ds, order)
  <2>1. PICK some : AreStates(some, m, what, t, ds, order)
    BY <1>0, <1>1, StatesExist
  <2>2. some = [i \in 0 .. m |-> IF i = 0 THEN t
                                 ELSE IF order[i] \in ds THEN Handled(what, some[i - 1], order[i])
                                 ELSE some[i - 1]]
    BY <2>1 DEF AreStates, AfterDevice
  <2>3. after = [i \in 0 .. m |-> IF i = 0 THEN t
                                  ELSE IF order[i] \in ds THEN Handled(what, after[i - 1], order[i])
                                  ELSE after[i - 1]]
    BY <1>2, <2>2, Zenon
  <2>. QED  BY <2>3 DEF AreStates, AfterDevice
<1>4. AllHandled(what, t, ds, order) = after[m]
  BY <1>1, <1>2, Zenon DEF AllHandled
<1>5. PICK done : done = [i \in 0 .. m |-> {d \in ds : \E j \in 1 .. i : order[j] = d}]
  OBVIOUS
<1>6. PICK bad : bad = {i \in 0 .. m : ~Progress(what, after[i], t, done[i])}
  OBVIOUS
<1>7. CASE bad # {}
  <2>1. PICK i \in bad : \A j \in bad : i <= j
    <3>1. bad \subseteq Nat
      BY <1>0, <1>1, <1>6
    <3>. QED  BY <3>1, <1>7, LeastNatural
  <2>2. i \in 0 .. m /\ ~Progress(what, after[i], t, done[i])
    BY <1>6, <2>1
  <2>3. after[i] = IF i = 0 THEN t ELSE AfterDevice(what, after[i - 1], ds, order[i])
    BY <1>3, <2>2 DEF AreStates
  <2>4. CASE i = 0
    <3>1. done[i] = {}
      BY <1>0, <1>1, <1>5, <2>4
    <3>2. Progress(what, t, t, {})
      BY DEF Progress
    <3>. QED  BY <2>2, <2>3, <2>4, <3>1, <3>2
  <2>5. CASE i # 0
    <3>1. i - 1 \in 0 .. m /\ i \in 1 .. m /\ i - 1 \notin bad
      BY <1>0, <1>1, <2>1, <2>2, <2>5
    <3>2. PICK u, dn, d : u = after[i - 1] /\ dn = done[i - 1] /\ d = order[i]
      OBVIOUS
    <3>3. Progress(what, u, t, dn)
      BY <1>6, <3>1, <3>2
    <3>4. \A j \in 1 .. i : j \in 1 .. i - 1 \/ j = i
      BY <3>1
    <3>5. \A j \in 1 .. i - 1 : j \in 1 .. i /\ j \in 1 .. m /\ j # i
      BY <3>1, <1>0, <1>1
    <3>6. dn = {e \in ds : \E j \in 1 .. i - 1 : order[j] = e}
      BY <1>5, <3>1, <3>2
    <3>7. done[i] = {e \in ds : \E j \in 1 .. i : order[j] = e}
      BY <1>5, <3>1
    <3>8. CASE d \in ds
      <4>1. d \in ds \ dn
        BY <1>0, <1>1, <3>1, <3>2, <3>5, <3>6, <3>8
      <4>2. i \in 1 .. i
        BY <3>1
      <4>3. done[i] = dn \cup {d}
        BY <3>2, <3>4, <3>5, <3>6, <3>7, <3>8, <4>2
      <4>4. after[i] = Handled(what, u, d)
        BY <2>3, <2>5, <3>2, <3>8 DEF AfterDevice
      <4>5. Progress(what, after[i], t, dn \cup {d})
        BY <3>3, <3>6, <4>1, <4>4, HandledNext
      <4>. QED  BY <2>2, <4>3, <4>5
    <3>9. CASE d \notin ds
      <4>1. done[i] = dn
        BY <3>2, <3>4, <3>5, <3>6, <3>7, <3>9
      <4>2. after[i] = u
        BY <2>3, <2>5, <3>2, <3>9 DEF AfterDevice
      <4>. QED  BY <2>2, <3>3, <4>1, <4>2
    <3>. QED  BY <3>8, <3>9
  <2>. QED  BY <2>4, <2>5
<1>8. CASE bad = {}
  <2>1. m \in 0 .. m
    BY <1>0, <1>1
  <2>2. Progress(what, after[m], t, done[m])
    BY <2>1, <1>6, <1>8
  <2>3. ds \subseteq Gpus
    BY DEF Ready
  <2>4. done[m] = {d \in ds : \E j \in 1 .. m : order[j] = d}
    BY <1>5, <2>1
  <2>5. done[m] = ds
    BY <1>0, <1>1, <2>3, <2>4
  <2>. QED  BY <1>4, <2>2, <2>5
<1>. QED  BY <1>7, <1>8


----------------------------------------------------------------------------
\* Telling IPC changes nothing else.
LEMMA RefreshKeeps ==
    ASSUME NEW t, Sound(t), Applied(t), NEW r, r = refresh_ipc_outputs(t)
    PROVE  /\ Sound(r) /\ Applied(r) /\ IpcAgrees(r)
           /\ SameDevices(r, t) /\ r.scanned = t.scanned /\ r.deferred = t.deferred
<1>0. t \in Tty /\ t.surfaces \subseteq There(t)
  BY DEF Sound
<1>1. r = [t EXCEPT !.ipc = r.ipc] /\ r \in Tty /\ IpcAgrees(r)
  BY <1>0, RefreshTells
<1>2. /\ SameDevices(r, t) /\ r.scanned = t.scanned /\ r.deferred = t.deferred
      /\ r.surfaces = t.surfaces /\ r.leased = t.leased /\ r.names = t.names
      /\ r.stale = t.stale /\ r.panicked = t.panicked
  BY <1>0, <1>1 DEF Tty, SameDevices
<1>3. There(r) = There(t) /\ \A c : ShouldBeOff(r, c) <=> ShouldBeOff(t, c)
  BY <1>2 DEF There, ShouldBeOff, should_disable_laptop_panels, SameDevices
<1>4. Sound(r)
  <2>1. \A c, e \in ConnectorSet : c # e => ~SameName(r, c, e)
    BY <1>2 DEF Sound, SameName
  <2>. QED  BY <1>1, <1>2, <1>3, <2>1 DEF Sound, SameDevices
<1>5. Applied(r)
  BY <1>2, <1>3 DEF Applied, SameDevices
<1>. QED  BY <1>1, <1>2, <1>4, <1>5

\* The loop that adds devices, with the primary one first.
LEMMA NewAdded ==
    ASSUME NEW t, Sound(t), Applied(t), IpcAgrees(t), NEW new, Ready("add", t, new),
           plugged \in [ConnectorSet -> Connection], NEW order \in SetToSeqs(Gpus),
           NEW r, r = AllHandled("add", PrimaryAdded(t, new), new \ {Primary}, order)
    PROVE  Progress("add", r, t, new)
<1>1. PICK p, rest : p = PrimaryAdded(t, new) /\ rest = new \ {Primary}
  OBVIOUS
<1>2. CASE Primary \in new
  <2>1. p = device_added(t, Primary)
    BY <1>1, <1>2 DEF PrimaryAdded
  <2>2. Primary \in Gpus /\ Primary \notin t.devices \cup dead /\ t.active
    BY <1>2 DEF Ready
  <2>3. Progress("add", p, t, {Primary})
    BY <2>1, <2>2, DeviceAdded
  <2>4. Ready("add", p, rest) /\ Sound(p) /\ Applied(p) /\ IpcAgrees(p)
    BY <1>1, <2>2, <2>3 DEF Ready, Progress
  <2>5. Progress("add", r, p, rest)
    BY <1>1, <2>4, LoopDone
  <2>6. new = rest \cup {Primary} /\ new \subseteq Gpus
    BY <1>1, <1>2 DEF Ready
  <2>7. ASSUME NEW e \in new \cap r.devices PROVE Fresh(r, e)
    <3>1. CASE e \in rest
      BY <2>5, <2>7, <3>1 DEF Progress
    <3>2. CASE e \notin rest
      <4>1. e = Primary /\ e \in p.devices
        BY <2>5, <2>6, <2>7, <3>2 DEF Progress
      <4>. QED  BY <2>2, <2>3, <2>5, <3>2, <4>1 DEF Progress
    <3>. QED  BY <3>1, <3>2
  <2>8. new \subseteq r.devices \cup r.refused \cup t.ignored
    <3>1. p.refused \ rest \subseteq r.refused /\ p.devices \subseteq r.devices
      BY <2>5 DEF Progress
    <3>2. rest \subseteq r.devices \cup r.refused \cup p.ignored /\ p.ignored = t.ignored
      BY <2>3, <2>5 DEF Progress
    <3>3. Primary \in p.devices \cup p.refused \cup t.ignored
      BY <2>3 DEF Progress
    <3>. QED  BY <1>1, <2>6, <3>1, <3>2, <3>3
  <2>9. r.refused \ new = t.refused \ new
    <3>1. r.refused \ rest = p.refused \ rest /\ p.refused \ {Primary} = t.refused \ {Primary}
      BY <2>3, <2>5 DEF Progress
    <3>. QED  BY <2>6, <3>1
  <2>10. \A e \in Gpus \ new : Fresh(t, e) => Fresh(r, e)
    BY <2>3, <2>5, <2>6 DEF Progress
  <2>. QED  BY <2>3, <2>5, <2>6, <2>7, <2>8, <2>9, <2>10, ZenonT(60) DEF Progress
<1>3. CASE Primary \notin new
  <2>1. p = t /\ rest = new
    BY <1>1, <1>3 DEF PrimaryAdded
  <2>. QED  BY <1>1, <2>1, LoopDone
<1>. QED  BY <1>2, <1>3

\* When all that are new have been added, all have been seen.
LEMMA AllSeen ==
    ASSUME NEW t, NEW r, NEW new, NEW L, NEW S, Ready("add", t, new), Progress("add", r, t, new),
           new \subseteq L, t.devices \subseteq L \ t.ignored, L \ t.ignored \subseteq t.devices \cup new \cup t.refused,
           \A d \in t.devices \ (dead \cup S) : Fresh(t, d), t.devices \subseteq Gpus
    PROVE  Seen(r, L, S) /\ r.devices \ gpus \subseteq dead
<1>1. r.ignored = t.ignored
  BY DEF Progress
<1>2. r.devices \subseteq L \ r.ignored /\ r.devices \ gpus \subseteq dead
  BY <1>1 DEF Progress, Ready
<1>3. L \ (r.ignored \cup r.refused) \subseteq r.devices
  <2>1. t.refused \ new \subseteq r.refused /\ t.devices \subseteq r.devices
    BY DEF Progress
  <2>. QED  BY <1>1, <2>1 DEF Progress
<1>4. ASSUME NEW d \in r.devices \ (dead \cup S) PROVE Fresh(r, d)
  <2>1. CASE d \in new
    BY <1>4, <2>1 DEF Progress
  <2>2. CASE d \notin new
    <3>1. d \in t.devices
      BY <1>4, <2>2 DEF Progress
    <3>. QED  BY <1>4, <2>2, <3>1 DEF Progress
  <2>. QED  BY <2>1, <2>2
<1>. QED  BY <1>2, <1>3, <1>4 DEF Seen

\* Resuming catches up with everything that was missed.
LEMMA Resumed ==
    ASSUME NEW t, Sound(t), Applied(t), IpcAgrees(t),
           dead \subseteq t.devices, t.devices \ gpus \subseteq dead,
           listed \subseteq Gpus, plugged \in [ConnectorSet -> Connection],
           NEW order \in SetToSeqs(Gpus), NEW r, r = ResumeAll(t, order)
    PROVE  /\ Sound(r) /\ Applied(r) /\ IpcAgrees(r)
           /\ r.active /\ UpToDate(r, listed, {}) /\ r.devices \ gpus \subseteq dead
<1>0. t \in Tty
  BY DEF Sound
<1>1. PICK ign : ign = compute_ignored_nodes(t)
  OBVIOUS
<1>2. PICK start : start = [t EXCEPT !.active = TRUE, !.ignored = ign]
  OBVIOUS
<1>3. ign \in SUBSET Gpus
  BY <1>0, <1>1 DEF compute_ignored_nodes, Tty
<1>4. start \in Tty
  BY <1>0, <1>2, <1>3 DEF Tty
<1>5. /\ start.active /\ start.ignored = ign
      /\ start.lid = t.lid /\ start.off = t.off /\ start.ignoring = t.ignoring
      /\ start.devices = t.devices /\ start.paused = t.paused /\ start.refused = t.refused
      /\ start.surfaces = t.surfaces /\ start.leased = t.leased /\ start.names = t.names
      /\ start.scanned = t.scanned /\ start.ipc = t.ipc
      /\ start.deferred = t.deferred /\ start.stale = t.stale /\ start.panicked = t.panicked
  BY <1>0, <1>2 DEF Tty
<1>6. There(start) = There(t) /\ \A c : ShouldBeOff(start, c) <=> ShouldBeOff(t, c)
  BY <1>5 DEF There, ShouldBeOff, should_disable_laptop_panels
<1>7. Sound(start) /\ Applied(start) /\ IpcAgrees(start)
  <2>1. \A c, e \in ConnectorSet : c # e => ~SameName(start, c, e)
    BY <1>5 DEF Sound, SameName
  <2>2. Sound(start)
    BY <1>4, <1>5, <1>6, <2>1 DEF Sound
  <2>3. Applied(start)
    BY <1>5, <1>6 DEF Applied
  <2>. QED  BY <1>5, <2>2, <2>3 DEF IpcAgrees
<1>8. PICK removed, remained, new :
        /\ removed = {d \in t.devices : d \notin listed \/ d \in ign}
        /\ remained = t.devices \ removed
        /\ new = listed \ t.devices
  OBVIOUS
<1>9. /\ t.devices \subseteq Gpus /\ remained \subseteq listed \ ign
      /\ new \subseteq Gpus /\ new \cap dead = {} /\ listed \ ign \subseteq remained \cup new
  BY <1>0, <1>8 DEF Tty
<1>10. PICK cleared : cleared = AllHandled("remove", start, removed, order)
  OBVIOUS
<1>11. Progress("remove", cleared, start, removed)
  <2>1. Ready("remove", start, removed)
    BY <1>5, <1>8, <1>9 DEF Ready
  <2>. QED  BY <1>7, <1>10, <2>1, LoopDone
<1>12. PICK updated : updated = AllHandled("activate", cleared, remained, order)
  OBVIOUS
<1>13. Progress("activate", updated, cleared, remained)
  <2>1. Ready("activate", cleared, remained)
    BY <1>5, <1>8, <1>9, <1>11 DEF Ready, Progress
  <2>2. Sound(cleared) /\ Applied(cleared) /\ IpcAgrees(cleared)
    BY <1>11 DEF Progress
  <2>. QED  BY <1>12, <2>1, <2>2, LoopDone
<1>14. /\ Sound(updated) /\ Applied(updated) /\ IpcAgrees(updated)
       /\ updated.active /\ updated.ignored = ign /\ updated.ignoring = t.ignoring
       /\ updated.devices = remained /\ updated.paused = {}
       /\ \A e \in remained \ dead : Fresh(updated, e)
  <2>1. updated.paused = {}
    BY <1>5, <1>8, <1>11, <1>13 DEF Progress, Sound
  <2>. QED  BY <1>5, <1>8, <1>11, <1>13, <2>1 DEF Progress
<1>15. Ready("add", updated, new)
  BY <1>8, <1>9, <1>14 DEF Ready
<1>16. PICK added : added = AllHandled("add", PrimaryAdded(updated, new), new \ {Primary}, order)
  OBVIOUS
<1>17. Progress("add", added, updated, new)
  BY <1>14, <1>15, <1>16, NewAdded
<1>18. Seen(added, listed, {}) /\ added.devices \ gpus \subseteq dead
  <2>1. new \subseteq listed /\ updated.devices \subseteq Gpus
    BY <1>8, <1>9, <1>14, Zenon
  <2>. QED  BY <1>9, <1>14, <1>15, <1>17, <2>1, AllSeen
<1>20. /\ Sound(added) /\ Applied(added) /\ IpcAgrees(added)
       /\ added.active /\ added.ignored = ign /\ added.ignoring = t.ignoring /\ added.paused = {}
  BY <1>14, <1>17 DEF Progress
<1>22. PICK applied : applied = IF added.deferred THEN on_output_config_changed(added) ELSE added
  OBVIOUS
<1>23. /\ Sound(applied) /\ Applied(applied) /\ ~applied.deferred
       /\ SameDevices(applied, added) /\ applied.scanned = added.scanned
  <2>1. CASE added.deferred
    BY <1>20, <1>22, <2>1, ConfigApplied
  <2>2. CASE ~added.deferred
    BY <1>20, <1>22, <2>2 DEF SameDevices
  <2>. QED  BY <2>1, <2>2
<1>24. r = refresh_ipc_outputs(applied)
  BY <1>1, <1>2, <1>5, <1>8, <1>10, <1>12, <1>16, <1>22, ZenonT(60) DEF ResumeAll
<1>25. /\ Sound(r) /\ Applied(r) /\ IpcAgrees(r)
       /\ SameDevices(r, applied) /\ r.scanned = applied.scanned /\ r.deferred = applied.deferred
  BY <1>23, <1>24, RefreshKeeps
<1>26. SameDevices(r, added) /\ r.scanned = added.scanned
  BY <1>23, <1>25 DEF SameDevices
<1>27. Seen(r, listed, {}) /\ r.devices \ gpus \subseteq dead
  BY <1>18, <1>26 DEF Seen, SameDevices, Fresh
<1>28. r.ignored = compute_ignored_nodes(r)
  BY <1>1, <1>20, <1>26 DEF SameDevices, compute_ignored_nodes
<1>. QED  BY <1>20, <1>23, <1>25, <1>26, <1>27, <1>28 DEF SameDevices, UpToDate


\* The output configuration may change at any time; a suspended session defers it.
LEMMA Reconfigured ==
    ASSUME NEW t, Sound(t), IpcAgrees(t), NEW L, NEW S, UpToDate(t, L, S),
           NEW r, r = on_output_config_changed(t)
    PROVE  /\ Sound(r) /\ Applied(r) /\ IpcAgrees(r) /\ UpToDate(r, L, S)
           /\ r.devices = t.devices
<1>0. t \in Tty
  BY DEF Sound
<1>1. CASE t.active
  <2>1. /\ Sound(r) /\ Applied(r) /\ IpcAgrees(r) /\ ~r.deferred
        /\ SameDevices(r, t) /\ r.scanned = t.scanned
    BY <1>1, ConfigApplied
  <2>2. UpToDate(r, L, S)
    BY <1>1, <2>1 DEF UpToDate, Seen, SameDevices, Fresh, compute_ignored_nodes
  <2>. QED  BY <2>1, <2>2 DEF SameDevices
<1>2. CASE ~t.active
  <2>1. r = [t EXCEPT !.deferred = TRUE]
    BY <1>2 DEF on_output_config_changed
  <2>2. r \in Tty
    BY <1>0, <2>1 DEF Tty
  <2>3. /\ r.active = t.active /\ r.devices = t.devices /\ r.paused = t.paused
        /\ r.refused = t.refused /\ r.scanned = t.scanned
        /\ r.surfaces = t.surfaces /\ r.leased = t.leased /\ r.names = t.names
        /\ r.ipc = t.ipc /\ r.deferred /\ r.panicked = t.panicked
    BY <1>0, <2>1 DEF Tty
  <2>4. There(r) = There(t)
    BY <2>3 DEF There
  <2>5. Sound(r)
    <3>1. \A c, e \in ConnectorSet : c # e => ~SameName(r, c, e)
      BY <2>3 DEF Sound, SameName
    <3>. QED  BY <2>2, <2>3, <2>4, <3>1 DEF Sound
  <2>. QED  BY <1>2, <2>3, <2>5 DEF Applied, IpcAgrees, UpToDate
<1>. QED  BY <1>1, <1>2

\* The user edits the devices to ignore: those that are ignored now leave, those that no
\* longer are come back, and what is on its way about the others stays so.
LEMMA IgnoredChanged ==
    ASSUME NEW t, Sound(t), Applied(t), IpcAgrees(t), t.active,
           dead \subseteq t.devices, t.devices \ gpus \subseteq dead,
           listed \subseteq Gpus, plugged \in [ConnectorSet -> Connection],
           NEW S, t.paused = {}, ~t.deferred, t.devices \subseteq listed,
           \A d \in t.devices \ (dead \cup S) : Fresh(t, d),
           t.ignored = compute_ignored_nodes(t),
           NEW order \in SetToSeqs(Gpus),
           NEW cleared, cleared = AllHandled("remove", t, {d \in t.devices : d \in t.ignored \/ d \notin listed}, order),
           NEW r, r = AddListed(cleared, t.devices, order)
    PROVE  /\ Sound(r) /\ Applied(r) /\ IpcAgrees(r) /\ UpToDate(r, listed, S)
           /\ r.devices \ gpus \subseteq dead
<1>0. t \in Tty
  BY DEF Sound
<1>1. PICK removed, new : /\ removed = {d \in t.devices : d \in t.ignored \/ d \notin listed}
                          /\ new = listed \ t.devices
  OBVIOUS
<1>2. Progress("remove", cleared, t, removed)
  <2>1. Ready("remove", t, removed)
    BY <1>0, <1>1 DEF Ready, Tty
  <2>. QED  BY <1>1, <2>1, LoopDone
<1>3. /\ Sound(cleared) /\ Applied(cleared) /\ IpcAgrees(cleared)
      /\ cleared.active /\ ~cleared.deferred /\ cleared.paused = {}
      /\ cleared.ignored = t.ignored /\ cleared.ignoring = t.ignoring
      /\ cleared.devices = t.devices \ removed /\ cleared.devices \subseteq listed \ t.ignored
      /\ \A d \in cleared.devices \ (dead \cup S) : Fresh(cleared, d)
  BY <1>0, <1>1, <1>2 DEF Progress, Tty
<1>4. r = AllHandled("add", cleared, new, order)
  BY <1>1 DEF AddListed
<1>5. Ready("add", cleared, new)
  BY <1>1, <1>3 DEF Ready
<1>6. Progress("add", r, cleared, new)
  BY <1>3, <1>4, <1>5, LoopDone
<1>7. Seen(r, listed, S) /\ r.devices \ gpus \subseteq dead
  <2>1. new \subseteq listed /\ cleared.devices \subseteq Gpus
    BY <1>1, <1>3
  <2>2. listed \ cleared.ignored \subseteq cleared.devices \cup new \cup cleared.refused
    BY <1>1, <1>3
  <2>. QED  BY <1>3, <1>5, <1>6, <2>1, <2>2, AllSeen, ZenonT(60)
<1>8. /\ Sound(r) /\ Applied(r) /\ IpcAgrees(r) /\ ~r.deferred
      /\ r.paused = {} /\ r.ignored = compute_ignored_nodes(r)
  <2>1. /\ Sound(r) /\ Applied(r) /\ IpcAgrees(r)
        /\ r.deferred => cleared.deferred
        /\ r.ignored = cleared.ignored /\ r.ignoring = cleared.ignoring
    BY <1>6 DEF Progress
  <2>2. r.paused = cleared.paused
    BY <1>6 DEF Progress
  <2>3. cleared.paused = {} /\ ~cleared.deferred
    BY <1>3
  <2>4. cleared.ignored = t.ignored /\ cleared.ignoring = t.ignoring
    BY <1>3
  <2>5. t.ignored = t.ignoring \ {Primary}
    BY DEF compute_ignored_nodes
  <2>6. r.ignored = r.ignoring \ {Primary}
    BY <2>1, <2>4, <2>5
  <2>. QED  BY <2>1, <2>2, <2>3, <2>6 DEF compute_ignored_nodes
<1>. QED  BY <1>7, <1>8 DEF UpToDate

\* The program starts with the devices that are listed.
LEMMA Started ==
    ASSUME dead = {}, listed \subseteq Gpus, listed = gpus, plugged \in [ConnectorSet -> Connection],
           NEW r, \/ \E order \in SetToSeqs(Gpus) : r = init(NoTty, order)
                  \/ r = [NoTty EXCEPT !.active = FALSE]
    PROVE  /\ Sound(r) /\ Applied(r) /\ IpcAgrees(r) /\ UpToDate(r, listed, {})
           /\ r.devices \ gpus \subseteq dead
<1>1. PICK none, sc : /\ none = [c \in {} |-> FALSE]
                          /\ sc = [c \in ConnectorSet |-> "no"]
  OBVIOUS
<1>2. none \in [{} -> BOOLEAN]
  BY <1>1
<1>3. none \in UNION {[T -> BOOLEAN] : T \in SUBSET ConnectorSet}
  BY <1>2
<1>4. sc \in [ConnectorSet -> Connection] /\ sc \in [ConnectorSet -> {"no", "named", "unnamed"}]
  BY <1>1 DEF Connection
<1>5. ASSUME NEW t, NEW b \in BOOLEAN, t = [active |-> b, lid |-> FALSE, off |-> {}, ignoring |-> {}, ignored |-> {},
               devices |-> {}, paused |-> {}, scanned |-> sc, names |-> sc, surfaces |-> {},
               leased |-> {}, deferred |-> FALSE, ipc |-> none, panicked |-> FALSE,
               refused |-> {}, stale |-> FALSE]
      PROVE  /\ Sound(t) /\ Applied(t) /\ IpcAgrees(t) /\ t.active = b
             /\ t.devices = {} /\ t.ignored = {} /\ t.ignoring = {} /\ t.paused = {} /\ ~t.deferred
  <2>1. t = [active |-> b, lid |-> FALSE, off |-> {}, ignoring |-> {}, ignored |-> {},
             devices |-> {}, paused |-> {}, scanned |-> sc, names |-> sc, surfaces |-> {},
             leased |-> {}, deferred |-> FALSE, ipc |-> none, panicked |-> FALSE,
             refused |-> {}, stale |-> FALSE]
    BY <1>5
  <2>2. t \in Tty
    BY <1>3, <1>4, <2>1 DEF Tty
  <2>3. There(t) = {}
    BY <2>1 DEF There, ConnectorsOf
  <2>4. \A c, e \in ConnectorSet : c # e => ~SameName(t, c, e)
    BY <1>1, <2>1 DEF SameName
  <2>5. Sound(t)
    BY <2>1, <2>2, <2>3, <2>4 DEF Sound
  <2>6. Applied(t)
    BY <2>1, <2>3 DEF Applied
  <2>7. IpcAgrees(t)
    BY <1>1, <2>1 DEF IpcAgrees
  <2>. QED  BY <2>1, <2>5, <2>6, <2>7
<1>6. CASE \E order \in SetToSeqs(Gpus) : r = init(NoTty, order)
  <2>1. PICK order \in SetToSeqs(Gpus) : r = init(NoTty, order)
    BY <1>6
  <2>2. PICK t : t = NoTty
    OBVIOUS
  <2>3. t = [active |-> TRUE, lid |-> FALSE, off |-> {}, ignoring |-> {}, ignored |-> {},
             devices |-> {}, paused |-> {}, scanned |-> sc, names |-> sc, surfaces |-> {},
             leased |-> {}, deferred |-> FALSE, ipc |-> none, panicked |-> FALSE,
             refused |-> {}, stale |-> FALSE]
    BY <1>1, <2>2, Zenon DEF NoTty
  <2>4. /\ Sound(t) /\ Applied(t) /\ IpcAgrees(t) /\ t.active
        /\ t.devices = {} /\ t.ignored = {} /\ t.ignoring = {} /\ t.paused = {} /\ ~t.deferred
    BY <1>5, <2>3
  <2>5. r = AllHandled("add", PrimaryAdded(t, listed), listed \ {Primary}, order)
    BY <2>1, <2>2 DEF init
  <2>6. Ready("add", t, listed)
    BY <2>4 DEF Ready
  <2>7. Progress("add", r, t, listed)
    BY <2>4, <2>5, <2>6, NewAdded
  <2>8. Seen(r, listed, {}) /\ r.devices \ gpus \subseteq dead
    BY <2>4, <2>6, <2>7, AllSeen
  <2>9. r.ignored = compute_ignored_nodes(r)
    BY <2>4, <2>7 DEF Progress, compute_ignored_nodes
  <2>. QED  BY <2>4, <2>7, <2>8, <2>9 DEF Progress, UpToDate
<1>7. CASE r = [NoTty EXCEPT !.active = FALSE]
  <2>1. r = [active |-> FALSE, lid |-> FALSE, off |-> {}, ignoring |-> {}, ignored |-> {},
             devices |-> {}, paused |-> {}, scanned |-> sc, names |-> sc, surfaces |-> {},
             leased |-> {}, deferred |-> FALSE, ipc |-> none, panicked |-> FALSE,
             refused |-> {}, stale |-> FALSE]
    BY <1>1, <1>7 DEF NoTty
  <2>. QED  BY <1>5, <2>1 DEF UpToDate
<1>. QED  BY <1>6, <1>7


----------------------------------------------------------------------------
\* The kernel queues one more event.
LEMMA EventQueued ==
    ASSUME NEW q \in Seq(Event), NEW a, NEW b, Replays(q, a, b),
           NEW e \in Event, NEW c \in SUBSET Gpus, Tells(e, b, c)
    PROVE  Append(q, e) \in Seq(Event) /\ Replays(Append(q, e), a, c)
<1>1. PICK lists \in [0 .. Len(q) -> SUBSET Gpus] :
        /\ lists[0] = a
        /\ lists[Len(q)] = b
        /\ \A i \in 1 .. Len(q) : Tells(q[i], lists[i - 1], lists[i])
  BY DEF Replays
<1>2. PICK n, q2 : n = Len(q) /\ q2 = Append(q, e)
  OBVIOUS
<1>3. /\ n \in Nat /\ q2 \in Seq(Event) /\ Len(q2) = n + 1 /\ q2[n + 1] = e
      /\ \A i \in 1 .. n : q2[i] = q[i]
  BY <1>2
<1>4. PICK more : more = [i \in 0 .. n + 1 |-> IF i = n + 1 THEN c ELSE lists[i]]
  OBVIOUS
<1>5. more \in [0 .. n + 1 -> SUBSET Gpus]
  BY <1>1, <1>2, <1>3, <1>4
<1>6. /\ \A i \in 0 .. n : more[i] = lists[i]
      /\ more[n + 1] = c
  BY <1>3, <1>4
<1>7. \A i \in 1 .. n + 1 : Tells(q2[i], more[i - 1], more[i])
  <2>1. ASSUME NEW i \in 1 .. n PROVE Tells(q2[i], more[i - 1], more[i])
    <3>1. i - 1 \in 0 .. n /\ i \in 0 .. n
      BY <1>3
    <3>. QED  BY <1>1, <1>2, <1>3, <1>6, <3>1
  <2>2. ASSUME NEW i \in 1 .. n + 1, i \notin 1 .. n
        PROVE  Tells(q2[i], more[i - 1], more[i])
    <3>1. n \in 0 .. n /\ i = n + 1 /\ i - 1 = n
      BY <1>3, <2>2
    <3>. QED  BY <1>1, <1>2, <1>3, <1>6, <3>1
  <2>. QED  BY <2>1, <2>2
<1>8. more[0] = a
  BY <1>1, <1>3, <1>6
<1>9. Replays(q2, a, c)
  BY <1>3, <1>5, <1>6, <1>7, <1>8 DEF Replays
<1>. QED  BY <1>2, <1>3, <1>9

\* The program takes the first one.
LEMMA EventTaken ==
    ASSUME NEW q \in Seq(Event), q # <<>>, NEW a, NEW b, Replays(q, a, b)
    PROVE  /\ Head(q) \in Event /\ Tail(q) \in Seq(Event)
           /\ \E c \in SUBSET Gpus : Tells(Head(q), a, c) /\ Replays(Tail(q), c, b)
<1>1. PICK lists \in [0 .. Len(q) -> SUBSET Gpus] :
        /\ lists[0] = a
        /\ lists[Len(q)] = b
        /\ \A i \in 1 .. Len(q) : Tells(q[i], lists[i - 1], lists[i])
  BY DEF Replays
<1>2. PICK n, q2 : n = Len(q) /\ q2 = Tail(q)
  OBVIOUS
<1>3. /\ n \in Nat /\ n >= 1 /\ q2 \in Seq(Event) /\ Len(q2) = n - 1 /\ Head(q) = q[1]
      /\ \A i \in 1 .. n - 1 : q2[i] = q[i + 1]
      /\ Head(q) \in Event
  BY <1>2
<1>4. PICK fewer : fewer = [i \in 0 .. n - 1 |-> lists[i + 1]]
  OBVIOUS
<1>5. fewer \in [0 .. n - 1 -> SUBSET Gpus]
  BY <1>1, <1>2, <1>3, <1>4
<1>6. fewer[0] = lists[1] /\ fewer[n - 1] = b
  BY <1>1, <1>2, <1>3, <1>4
<1>7. ASSUME NEW i \in 1 .. n - 1 PROVE Tells(q2[i], fewer[i - 1], fewer[i])
  <2>1. fewer[i - 1] = lists[i] /\ fewer[i] = lists[i + 1] /\ i + 1 \in 1 .. n /\ (i + 1) - 1 = i
    BY <1>3, <1>4
  <2>. QED  BY <1>1, <1>2, <1>3, <2>1
<1>8. Replays(q2, lists[1], b)
  BY <1>3, <1>5, <1>6, <1>7 DEF Replays
<1>9. Tells(Head(q), a, lists[1]) /\ lists[1] \in SUBSET Gpus
  BY <1>1, <1>2, <1>3
<1>. QED  BY <1>2, <1>3, <1>8, <1>9

\* The program in t handles the event e, which tells that the devices are L now, and which
\* is the last news of its device, unless S2 has more; this makes r.
Handles(t, S, S2, e, L, r) ==
    /\ Sound(t) /\ Applied(t) /\ IpcAgrees(t) /\ t.active /\ UpToDate(t, listed, S)
    /\ dead \subseteq t.devices /\ t.devices \ gpus \subseteq dead
    /\ listed \subseteq Gpus /\ plugged \in [ConnectorSet -> Connection]
    /\ e \in Event /\ Tells(e, listed, L)
    /\ S \ S2 \subseteq {e.gpu}
    /\ e.kind # "changed" => S \subseteq S2
    /\ e.kind = "added" => r = device_added([t EXCEPT !.ignored = compute_ignored_nodes(t)], e.gpu)
    /\ e.kind = "changed" => r = device_changed(t, e.gpu)
    /\ e.kind = "removed" => r = device_removed(t, e.gpu)

LEMMA EventHandled ==
    ASSUME NEW t, NEW S, NEW S2, NEW e, NEW L, NEW r, Handles(t, S, S2, e, L, r)
    PROVE  /\ Sound(r) /\ Applied(r) /\ IpcAgrees(r) /\ UpToDate(r, L, S2)
           /\ r.devices \ gpus \subseteq dead /\ r.active
<1> SUFFICES ASSUME
        Sound(t), Applied(t), IpcAgrees(t), t.active, UpToDate(t, listed, S),
        dead \subseteq t.devices, t.devices \ gpus \subseteq dead,
        listed \subseteq Gpus, plugged \in [ConnectorSet -> Connection],
        e \in Event, Tells(e, listed, L),
        S \ S2 \subseteq {e.gpu},
        e.kind # "changed" => S \subseteq S2,
        e.kind = "added" => r = device_added([t EXCEPT !.ignored = compute_ignored_nodes(t)], e.gpu),
        e.kind = "changed" => r = device_changed(t, e.gpu),
        e.kind = "removed" => r = device_removed(t, e.gpu)
      PROVE  /\ Sound(r) /\ Applied(r) /\ IpcAgrees(r) /\ UpToDate(r, L, S2)
             /\ r.devices \ gpus \subseteq dead /\ r.active
  BY DEF Handles
<1>0. t \in Tty
  BY DEF Sound
<1>1. PICK d : d = e.gpu
  OBVIOUS
<1>2. d \in Gpus
  BY <1>1 DEF Event
<1>3. /\ t.paused = {} /\ ~t.deferred /\ t.ignored = compute_ignored_nodes(t)
      /\ t.devices \subseteq listed \ t.ignored
      /\ listed \ (t.ignored \cup t.refused) \subseteq t.devices
      /\ \A f \in t.devices \ (dead \cup S) : Fresh(t, f)
  BY DEF UpToDate, Seen
<1>4. ASSUME d \notin t.devices, r = device_added(t, d), L = listed \cup {d}, S \ S2 \subseteq {d}
      PROVE  /\ Sound(r) /\ Applied(r) /\ IpcAgrees(r) /\ UpToDate(r, L, S2)
             /\ r.devices \ gpus \subseteq dead /\ r.active
  <2>1. d \notin t.devices \cup dead
    BY <1>4
  <2>2. Progress("add", r, t, {d})
    BY <1>2, <1>4, <2>1, DeviceAdded
  <2>3. Ready("add", t, {d})
    BY <1>2, <2>1 DEF Ready
  <2>4. /\ {d} \subseteq L /\ t.devices \subseteq L \ t.ignored
        /\ L \ t.ignored \subseteq t.devices \cup {d} \cup t.refused
        /\ \A f \in t.devices \ (dead \cup S2) : Fresh(t, f)
        /\ t.devices \subseteq Gpus
    BY <1>0, <1>3, <1>4 DEF Tty
  <2>5. Seen(r, L, S2) /\ r.devices \ gpus \subseteq dead
    BY <2>2, <2>3, <2>4, AllSeen
  <2>6. r.ignored = compute_ignored_nodes(r)
    BY <1>3, <2>2 DEF Progress, compute_ignored_nodes
  <2>. QED  BY <1>3, <2>2, <2>5, <2>6 DEF Progress, UpToDate
<1>5. CASE e.kind = "added"
  <2>1. [t EXCEPT !.ignored = compute_ignored_nodes(t)] = t
    BY <1>0, <1>3 DEF Tty
  <2>2. r = device_added(t, d)
    BY <1>1, <1>5, <2>1
  <2>3. d \notin t.devices /\ L = listed \cup {d} /\ S \ S2 \subseteq {d}
    BY <1>1, <1>3, <1>5 DEF Tells
  <2>. QED  BY <1>4, <2>2, <2>3
<1>6. CASE e.kind = "changed"
  <2>1. r = device_changed(t, d) /\ d \in listed /\ L = listed
    BY <1>1, <1>6 DEF Tells
  <2>2. CASE d \in t.ignored \/ (d \in t.devices /\ d \notin gpus \ dead)
    <3>1. r = t
      BY <1>3, <2>1, <2>2 DEF device_changed, Rescan
    <3>2. \A f \in t.devices \ (dead \cup S2) : Fresh(t, f)
      BY <1>1, <1>3, <2>2
    <3>. QED  BY <1>3, <2>1, <3>1, <3>2 DEF UpToDate, Seen
  <2>3. CASE d \notin t.ignored /\ d \in t.devices /\ d \in gpus \ dead
    <3>1. r = Rescan(t, d)
      BY <2>1, <2>3 DEF device_changed
    <3>2. /\ Sound(r) /\ Applied(r) /\ IpcAgrees(r) /\ ~r.deferred
          /\ SameDevices(r, t)
          /\ Fresh(r, d)
          /\ \A f \in Gpus \ {d} : Fresh(t, f) => Fresh(r, f)
      BY <2>3, <3>1, Rescanned
    <3>3. \A f \in t.devices \ (dead \cup S2) : Fresh(r, f)
      BY <1>0, <1>1, <1>3, <3>2 DEF Tty
    <3>4. UpToDate(r, L, S2)
      BY <1>3, <2>1, <3>2, <3>3 DEF UpToDate, Seen, SameDevices, compute_ignored_nodes
    <3>. QED  BY <3>2, <3>4 DEF SameDevices
  <2>4. CASE d \notin t.ignored /\ d \notin t.devices
    <3>1. r = device_added(t, d) /\ L = listed \cup {d} /\ S \ S2 \subseteq {d}
      BY <1>1, <2>1, <2>4 DEF device_changed
    <3>. QED  BY <1>4, <2>4, <3>1
  <2>. QED  BY <2>2, <2>3, <2>4
<1>7. CASE e.kind = "removed"
  <2>1. r = device_removed(t, d) /\ d \in listed /\ L = listed \ {d} /\ S \subseteq S2
    BY <1>1, <1>7 DEF Tells
  <2>2. CASE d \in t.devices
    <3>1. /\ Sound(r) /\ Applied(r) /\ IpcAgrees(r)
          /\ r.active = t.active /\ r.ignoring = t.ignoring /\ r.ignored = t.ignored
          /\ r.deferred = t.deferred /\ r.refused = t.refused
          /\ r.devices = t.devices \ {d} /\ r.paused = t.paused \ {d}
          /\ \A f \in Gpus \ {d} : Fresh(t, f) => Fresh(r, f)
      BY ONLY Sound(t), Applied(t), <2>1, <2>2, DeviceRemoved, SMT
    <3>2. \A f \in r.devices \ (dead \cup S2) : Fresh(r, f)
      BY <1>0, <1>3, <2>1, <3>1 DEF Tty
    <3>3. UpToDate(r, L, S2)
      BY <1>3, <2>1, <3>1, <3>2 DEF UpToDate, Seen, compute_ignored_nodes
    <3>. QED  BY <3>1, <3>3
  <2>3. CASE d \notin t.devices
    <3>1. PICK rs : rs = t.refused \ {d}
      OBVIOUS
    <3>2. r = [t EXCEPT !.refused = rs]
      BY <2>1, <2>3, <3>1 DEF device_removed
    <3>3. rs \in SUBSET Gpus
      BY <1>0, <3>1 DEF Tty
    <3>4. r \in Tty
      BY <1>0, <3>2, <3>3 DEF Tty
    <3>5. /\ r.refused = rs
          /\ r.active = t.active /\ r.lid = t.lid /\ r.off = t.off
          /\ r.ignoring = t.ignoring /\ r.ignored = t.ignored
          /\ r.devices = t.devices /\ r.paused = t.paused
          /\ r.surfaces = t.surfaces /\ r.leased = t.leased /\ r.names = t.names
          /\ r.scanned = t.scanned /\ r.ipc = t.ipc
          /\ r.deferred = t.deferred /\ r.stale = t.stale /\ r.panicked = t.panicked
      BY <1>0, <3>2 DEF Tty
    <3>6. There(r) = There(t) /\ \A c : ShouldBeOff(r, c) <=> ShouldBeOff(t, c)
      BY <3>5 DEF There, ShouldBeOff, should_disable_laptop_panels
    <3>7. Sound(r)
      <4>1. \A c, f \in ConnectorSet : c # f => ~SameName(r, c, f)
        BY <3>5 DEF Sound, SameName
      <4>. QED  BY <3>1, <3>4, <3>5, <3>6, <4>1 DEF Sound
    <3>8. Applied(r)
      BY <3>5, <3>6 DEF Applied
    <3>9. UpToDate(r, L, S2)
      <4>1. \A f : Fresh(t, f) => Fresh(r, f)
        BY <3>5 DEF Fresh
      <4>. QED  BY <1>3, <2>1, <2>3, <3>1, <3>5, <4>1 DEF UpToDate, Seen, compute_ignored_nodes
    <3>. QED  BY <3>5, <3>7, <3>8, <3>9 DEF IpcAgrees
  <2>. QED  BY <2>2, <2>3
<1>. QED  BY <1>5, <1>6, <1>7 DEF Event


----------------------------------------------------------------------------
\* The invariant holds at first.
LEMMA DevicesInvInit == DevicesInit => DevicesInv
<1> SUFFICES ASSUME DevicesInit PROVE DevicesInv
  OBVIOUS
<1>1. /\ dead = {} /\ listed = gpus /\ listed \subseteq Gpus /\ udev = <<>>
      /\ plugged = [c \in ConnectorSet |-> IF Kind[c] = "monitor" THEN "no" ELSE "ready"]
  BY DEF DevicesInit
<1>2. /\ plugged \in [ConnectorSet -> Connection]
      /\ \A c \in ConnectorSet : Kind[c] # "monitor" => plugged[c] = "ready"
  BY <1>1 DEF Connection
<1>3. PICK r : r = tty
  OBVIOUS
<1>4. \/ \E order \in SetToSeqs(Gpus) : r = init(NoTty, order)
      \/ r = [NoTty EXCEPT !.active = FALSE]
  BY <1>3 DEF DevicesInit
<1>5. /\ Sound(r) /\ Applied(r) /\ IpcAgrees(r) /\ UpToDate(r, listed, {})
      /\ r.devices \ gpus \subseteq dead
  BY <1>1, <1>2, <1>4, Started
<1>6. Told = {}
  BY <1>1 DEF Told
<1>7. Replays(udev, listed, gpus)
  <2>1. PICK lists : lists = [i \in 0 .. 0 |-> gpus]
    OBVIOUS
  <2>2. lists \in [0 .. Len(udev) -> SUBSET Gpus] /\ lists[0] = listed /\ lists[Len(udev)] = gpus
    BY <1>1, <2>1
  <2>3. 1 .. Len(udev) = {}
    BY <1>1
  <2>. QED  BY <2>2, <2>3 DEF Replays
<1>8. HardwareTypeOK
  BY <1>1, <1>2, <1>3, <1>5 DEF HardwareTypeOK
<1>. QED  BY <1>3, <1>5, <1>6, <1>7, <1>8 DEF DevicesInv

\* A step of the program, which may take an event.
LEMMA ProgramStep ==
    ASSUME DevicesInv, NEW r, tty' = r, dead' = dead \cap r.devices, UNCHANGED <<gpus, plugged>>,
           NEW L, NEW S, L = listed', S = Told', L \subseteq Gpus,
           udev' \in Seq(Event), Replays(udev', L, gpus),
           Sound(r), Applied(r), IpcAgrees(r), UpToDate(r, L, S), r.devices \ gpus \subseteq dead
    PROVE  DevicesInv'
<1>1. There(r)' = There(r)
  BY DEF There, ConnectorsOf
<1>2. Sound(tty)'
  BY <1>1 DEF Sound, There, ConnectorsOf, SameName
<1>3. Applied(tty)'
  <2>1. \A c \in There(r) : DeviceOf[c] \in r.devices
    BY DEF There, ConnectorsOf
  <2>. QED  BY <2>1 DEF Applied, There, ConnectorsOf, ShouldBeOff, should_disable_laptop_panels
<1>4. IpcAgrees(tty)'
  BY DEF IpcAgrees
<1>5. UpToDate(tty, listed, Told)'
  BY DEF UpToDate, Seen, Fresh, compute_ignored_nodes
<1>6. HardwareTypeOK'
  BY DEF DevicesInv, HardwareTypeOK
<1>7. Replays(udev, listed, gpus)'
  BY DEF Replays, Tells
<1>. QED  BY <1>2, <1>3, <1>4, <1>5, <1>6, <1>7 DEF DevicesInv

\* A step of the hardware, which the kernel tells of.
LEMMA HardwareStep ==
    ASSUME DevicesInv, UNCHANGED <<listed, tty>>,
           NEW e \in Event, udev' = Append(udev, e), gpus' \subseteq Gpus, Tells(e, gpus, gpus'),
           dead \subseteq dead', dead' \subseteq tty.devices, tty.devices \ gpus' \subseteq dead',
           plugged' \in [ConnectorSet -> Connection],
           \A c \in ConnectorSet : Kind[c] # "monitor" => plugged'[c] = "ready",
           \A c \in ConnectorSet : \/ plugged'[c] = plugged[c]
                                   \/ e = [kind |-> "changed", gpu |-> DeviceOf[c]]
    PROVE  DevicesInv'
<1>1. udev \in Seq(Event) /\ Replays(udev, listed, gpus)
  BY DEF DevicesInv, HardwareTypeOK
<1>2. PICK q2, g2 : q2 = Append(udev, e) /\ g2 = gpus'
  OBVIOUS
<1>3. g2 \in SUBSET Gpus /\ Tells(e, gpus, g2)
  BY <1>2 DEF Tells
<1>4. q2 \in Seq(Event) /\ Replays(q2, listed, g2)
  BY <1>1, <1>2, <1>3, EventQueued
<1>5. Replays(udev, listed, gpus)'
  <2>1. udev' = q2 /\ listed' = listed /\ gpus' = g2
    BY <1>2
  <2>2. \E lists \in [0 .. Len(q2) -> SUBSET Gpus] :
            /\ lists[0] = listed
            /\ lists[Len(q2)] = g2
            /\ \A i \in 1 .. Len(q2) : Tells(q2[i], lists[i - 1], lists[i])
    BY <1>4, Zenon DEF Replays
  <2>. QED  BY <2>1, <2>2, Zenon DEF Replays
<1>6. HardwareTypeOK'
  BY <1>2, <1>4 DEF DevicesInv, HardwareTypeOK
<1>7. Sound(tty)' /\ IpcAgrees(tty)'
  BY DEF DevicesInv, Sound, IpcAgrees, There, ConnectorsOf, SameName
<1>8. Applied(tty)'
  BY DEF DevicesInv, Applied, There, ConnectorsOf, ShouldBeOff, should_disable_laptop_panels
<1>9. UpToDate(tty, listed, Told)'
  <2>1. PICK t2, S2 : t2 = Told /\ S2 = Told'
    OBVIOUS
  <2>2. t2 \subseteq S2 /\ (e.kind = "changed" => e.gpu \in S2)
    <3>1. PICK n : n = Len(udev)
      OBVIOUS
    <3>2. /\ n \in Nat /\ Len(udev') = n + 1 /\ udev'[n + 1] = e
          /\ \A i \in 1 .. n : udev'[i] = udev[i]
      BY <1>1, <3>1
    <3>3. n + 1 \in 1 .. n + 1 /\ \A i \in 1 .. n : i \in 1 .. n + 1
      BY <3>2
    <3>4. t2 \subseteq S2
      BY <2>1, <3>1, <3>2, <3>3 DEF Told
    <3>5. e.gpu \in Gpus /\ (e.kind = "changed" => e = [kind |-> "changed", gpu |-> e.gpu])
      BY DEF Event
    <3>6. e.kind = "changed" => e.gpu \in S2
      BY <2>1, <3>2, <3>3, <3>5 DEF Told
    <3>. QED  BY <3>4, <3>6
  <2>3. ASSUME NEW d \in tty.devices \ (dead' \cup S2), tty.active PROVE Fresh(tty, d)'
    <3>1. Fresh(tty, d)
      BY <2>1, <2>2, <2>3 DEF DevicesInv, UpToDate, Seen
    <3>2. \A c \in ConnectorsOf({d}) : plugged'[c] = plugged[c]
      BY <2>2, <2>3 DEF ConnectorsOf
    <3>. QED  BY <3>1, <3>2 DEF Fresh, ConnectorsOf
  <2>4. UpToDate(tty, listed, Told)
    BY DEF DevicesInv
  <2>. QED  BY <2>1, <2>3, <2>4 DEF UpToDate, Seen, compute_ignored_nodes
<1>. QED  BY <1>5, <1>6, <1>7, <1>8, <1>9 DEF DevicesInv


LEMMA DevicesInvNext == DevicesInv /\ [DevicesNext]_deviceVars => DevicesInv'
<1> SUFFICES ASSUME DevicesInv, [DevicesNext]_deviceVars PROVE DevicesInv'
  OBVIOUS
<1>0. /\ Sound(tty) /\ Applied(tty) /\ IpcAgrees(tty) /\ UpToDate(tty, listed, Told)
      /\ Replays(udev, listed, gpus) /\ HardwareTypeOK /\ tty \in Tty
  BY DEF DevicesInv, Sound
<1>1. /\ gpus \subseteq Gpus /\ listed \subseteq Gpus /\ dead \subseteq tty.devices
      /\ tty.devices \ gpus \subseteq dead
      /\ plugged \in [ConnectorSet -> Connection]
      /\ \A c \in ConnectorSet : Kind[c] # "monitor" => plugged[c] = "ready"
      /\ udev \in Seq(Event)
  BY <1>0 DEF HardwareTypeOK
<1>2. ASSUME NEW c \in ConnectorSet, NEW s \in {"no", "bare", "ready"}, MonitorChanges(c, s)
      PROVE  DevicesInv'
  <2>1. PICK e : e = [kind |-> "changed", gpu |-> DeviceOf[c]]
    OBVIOUS
  <2>2. /\ plugged' = [plugged EXCEPT ![c] = s] /\ DeviceOf[c] \in gpus
        /\ udev' = Append(udev, e) /\ UNCHANGED <<gpus, dead, listed, tty>> /\ Kind[c] = "monitor"
    BY <1>2, <2>1 DEF MonitorChanges, Notify
  <2>3. e \in Event /\ Tells(e, gpus, gpus')
    BY <1>1, <2>1, <2>2 DEF Event, Tells
  <2>4. /\ plugged' \in [ConnectorSet -> Connection]
        /\ \A x \in ConnectorSet : Kind[x] # "monitor" => plugged'[x] = "ready"
        /\ \A x \in ConnectorSet : plugged'[x] = plugged[x] \/ e = [kind |-> "changed", gpu |-> DeviceOf[x]]
    BY <1>1, <2>1, <2>2 DEF Connection
  <2>. QED  BY <1>1, <2>2, <2>3, <2>4, HardwareStep
<1>3. ASSUME NEW d \in Gpus, GpuAppears(d)
      PROVE  DevicesInv'
  <2>1. PICK e : e = [kind |-> "added", gpu |-> d]
    OBVIOUS
  <2>2. /\ gpus' = gpus \cup {d} /\ d \notin gpus
        /\ udev' = Append(udev, e) /\ UNCHANGED <<dead, plugged, listed, tty>>
    BY <1>3, <2>1 DEF GpuAppears, Notify
  <2>3. e \in Event /\ Tells(e, gpus, gpus')
    BY <2>1, <2>2 DEF Event, Tells
  <2>4. gpus' \subseteq Gpus /\ tty.devices \ gpus' \subseteq dead'
    BY <1>1, <2>2
  <2>. QED  BY <1>1, <2>2, <2>3, <2>4, HardwareStep
<1>4. ASSUME NEW d \in Gpus, GpuVanishes(d)
      PROVE  DevicesInv'
  <2>1. PICK e : e = [kind |-> "removed", gpu |-> d]
    OBVIOUS
  <2>2. /\ gpus' = gpus \ {d} /\ d \in gpus /\ dead' = dead \cup ({d} \cap tty.devices)
        /\ udev' = Append(udev, e) /\ UNCHANGED <<plugged, listed, tty>>
    BY <1>4, <2>1 DEF GpuVanishes, Notify
  <2>3. e \in Event /\ Tells(e, gpus, gpus')
    BY <2>1, <2>2 DEF Event, Tells
  <2>4. /\ gpus' \subseteq Gpus /\ tty.devices \ gpus' \subseteq dead'
        /\ dead \subseteq dead' /\ dead' \subseteq tty.devices
    BY <1>1, <2>2
  <2>. QED  BY <1>1, <2>2, <2>3, <2>4, HardwareStep
<1>5. CASE on_udev_event
  <2>1. PICK e, q2 : e = Head(udev) /\ q2 = Tail(udev)
    OBVIOUS
  <2>2. udev # <<>> /\ udev' = q2 /\ UNCHANGED <<gpus, plugged>>
    BY <1>5, <2>1 DEF on_udev_event, Dispatch
  <2>3. e \in Event /\ q2 \in Seq(Event)
    BY <1>0, <1>1, <2>1, <2>2, EventTaken
  <2>4. PICK L \in SUBSET Gpus : Tells(e, listed, L) /\ Replays(q2, L, gpus)
    BY <1>0, <1>1, <2>1, <2>2, EventTaken
  <2>5. L = listed'
    BY <1>5, <2>1, <2>4 DEF on_udev_event, Dispatch, Tells
  <2>6. PICK S, S2 : S = Told /\ S2 = Told'
    OBVIOUS
  <2>7. S \ S2 \subseteq {e.gpu} /\ (e.kind # "changed" => S \subseteq S2)
    <3>1. PICK n : n = Len(udev)
      OBVIOUS
    <3>2. /\ n \in Nat /\ n >= 1 /\ Len(q2) = n - 1 /\ udev[1] = e
          /\ \A i \in 1 .. n - 1 : q2[i] = udev[i + 1]
      BY <1>1, <2>1, <2>2, <3>1
    <3>3. \A i \in 1 .. n : i = 1 \/ (i - 1 \in 1 .. n - 1 /\ (i - 1) + 1 = i)
      BY <3>2
    <3>4. ASSUME NEW d \in S \ S2 PROVE e = [kind |-> "changed", gpu |-> d]
      <4>1. PICK i \in 1 .. n : udev[i] = [kind |-> "changed", gpu |-> d]
        BY <2>6, <3>1, <3>4 DEF Told
      <4>2. CASE i = 1
        BY <3>2, <4>1, <4>2
      <4>3. CASE i # 1
        <5>1. i - 1 \in 1 .. n - 1 /\ q2[i - 1] = [kind |-> "changed", gpu |-> d]
          BY <3>2, <3>3, <4>1, <4>3
        <5>2. d \in S2
          BY <2>2, <2>6, <3>2, <3>4, <5>1 DEF Told
        <5>. QED  BY <3>4, <5>2
      <4>. QED  BY <4>2, <4>3
    <3>. QED  BY <3>4
  <2>8. PICK r : r = tty'
    OBVIOUS
  <2>9. CASE tty.active
    <3>1. /\ r = CASE e.kind = "added" ->
                        device_added([tty EXCEPT !.ignored = compute_ignored_nodes(tty)], e.gpu)
                   [] e.kind = "changed" -> device_changed(tty, e.gpu)
                   [] OTHER -> device_removed(tty, e.gpu)
          /\ dead' = dead \cap r.devices
      BY <1>5, <2>1, <2>8, <2>9, Zenon DEF on_udev_event
    <3>2. PICK t : t = tty
      OBVIOUS
    <3>3. /\ Sound(r) /\ Applied(r) /\ IpcAgrees(r) /\ UpToDate(r, L, S2)
          /\ r.devices \ gpus \subseteq dead
      <4>1. UpToDate(t, listed, S)
        BY <1>0, <2>6, <3>2
      <4>2. /\ e.kind = "added" =>
                   r = device_added([t EXCEPT !.ignored = compute_ignored_nodes(t)], e.gpu)
            /\ e.kind = "changed" => r = device_changed(t, e.gpu)
            /\ e.kind = "removed" => r = device_removed(t, e.gpu)
        BY <3>1, <3>2
      <4>3. Sound(t) /\ Applied(t) /\ IpcAgrees(t) /\ t.active /\ dead \subseteq t.devices /\ t.devices \ gpus \subseteq dead
        BY <1>0, <1>1, <2>9, <3>2
      <4>4. listed \subseteq Gpus /\ plugged \in [ConnectorSet -> Connection]
        BY <1>1
      <4>5. Handles(t, S, S2, e, L, r)
        BY <2>3, <2>4, <2>7, <4>1, <4>2, <4>3, <4>4 DEF Handles
      <4>. QED  BY <4>5, EventHandled
    <3>. QED  BY <2>2, <2>3, <2>4, <2>5, <2>6, <2>8, <3>1, <3>3, ProgramStep
  <2>10. CASE ~tty.active
    <3>1. UNCHANGED <<tty, dead>>
      BY <1>5, <2>10 DEF on_udev_event
    <3>2. r = tty /\ dead' = dead \cap r.devices /\ r.devices \ gpus \subseteq dead
      BY <1>1, <2>8, <3>1
    <3>3. UpToDate(r, L, S2)
      BY <2>10, <3>2 DEF UpToDate
    <3>. QED  BY <1>0, <2>2, <2>3, <2>4, <2>5, <2>6, <2>8, <3>2, <3>3, ProgramStep
  <2>. QED  BY <2>9, <2>10
<1>6. ASSUME NEW r, r = tty', dead' = dead \cap r.devices, UNCHANGED <<gpus, plugged, udev, listed>>,
             Sound(r), Applied(r), IpcAgrees(r), UpToDate(r, listed, Told), r.devices \ gpus \subseteq dead
      PROVE  DevicesInv'
  <2>1. Told' = Told
    BY <1>6 DEF Told
  <2>2. PICK L, S : L = listed' /\ S = Told'
    OBVIOUS
  <2>3. /\ L \subseteq Gpus /\ udev' \in Seq(Event) /\ Replays(udev', L, gpus)
        /\ UpToDate(r, L, S)
    BY <1>0, <1>1, <1>6, <2>1, <2>2
  <2>. QED  BY <1>6, <2>2, <2>3, ProgramStep
<1>7. CASE PauseSession
  <2>1. PICK r : r = [tty EXCEPT !.active = FALSE, !.paused = tty.devices]
    OBVIOUS
  <2>2. r = tty' /\ UNCHANGED hardware
    BY <1>7, <2>1 DEF PauseSession
  <2>3. tty.devices \in SUBSET Gpus
    BY <1>0 DEF Tty
  <2>4. r \in Tty
    BY <1>0, <2>1, <2>3 DEF Tty
  <2>5. /\ ~r.active /\ r.devices = tty.devices /\ r.paused = tty.devices
        /\ r.lid = tty.lid /\ r.off = tty.off /\ r.refused = tty.refused
        /\ r.surfaces = tty.surfaces /\ r.leased = tty.leased /\ r.names = tty.names
        /\ r.scanned = tty.scanned /\ r.ipc = tty.ipc
        /\ r.deferred = tty.deferred /\ r.stale = tty.stale /\ r.panicked = tty.panicked
    BY <1>0, <2>1 DEF Tty
  <2>6. There(r) = There(tty) /\ \A c : ShouldBeOff(r, c) <=> ShouldBeOff(tty, c)
    BY <2>5 DEF There, ShouldBeOff, should_disable_laptop_panels
  <2>7. Sound(r)
    <3>1. \A c, e \in ConnectorSet : c # e => ~SameName(r, c, e)
      BY <1>0, <2>5 DEF Sound, SameName
    <3>. QED  BY <1>0, <2>4, <2>5, <2>6, <3>1 DEF Sound
  <2>8. Applied(r)
    <3>1. \A c \in There(r) : DeviceOf[c] \in r.paused
      BY <2>5 DEF There, ConnectorsOf
    <3>. QED  BY <1>0, <2>5, <2>6, <3>1 DEF Applied
  <2>9. IpcAgrees(r) /\ UpToDate(r, listed, Told)
    BY <1>0, <2>5 DEF IpcAgrees, UpToDate
  <2>10. /\ UNCHANGED <<gpus, plugged, udev, listed>> /\ dead' = dead \cap r.devices
         /\ r.devices \ gpus \subseteq dead
    BY <1>1, <2>2, <2>5 DEF hardware
  <2>. QED  BY <1>6, <2>2, <2>7, <2>8, <2>9, <2>10
<1>8. CASE ActivateSession
  <2>1. PICK order \in SetToSeqs(Gpus) : tty' = ResumeAll(tty, order)
    BY <1>8 DEF ActivateSession
  <2>2. PICK t, r : t = tty /\ r = ResumeAll(tty, order)
    OBVIOUS
  <2>3. /\ Sound(t) /\ Applied(t) /\ IpcAgrees(t) /\ dead \subseteq t.devices
        /\ t.devices \ gpus \subseteq dead /\ r = ResumeAll(t, order)
    BY <1>0, <1>1, <2>2
  <2>4. /\ Sound(r) /\ Applied(r) /\ IpcAgrees(r)
        /\ UpToDate(r, listed, {}) /\ r.devices \ gpus \subseteq dead
    BY <1>1, <2>3, Resumed
  <2>5. UpToDate(r, listed, Told)
    BY <2>4 DEF UpToDate, Seen
  <2>6. r = tty' /\ dead' = dead \cap r.devices /\ UNCHANGED <<gpus, plugged, udev, listed>>
    BY <1>8, <2>1, <2>2 DEF ActivateSession
  <2>. QED  BY <1>6, <2>4, <2>5, <2>6
<1>9. ASSUME NEW t, Sound(t), IpcAgrees(t), UpToDate(t, listed, Told), t.devices = tty.devices,
             tty' = on_output_config_changed(t), UNCHANGED <<gpus, plugged, udev, listed>>,
             dead' \in {dead, dead \cap tty'.devices}
      PROVE  DevicesInv'
  <2>1. PICK r, S : r = on_output_config_changed(t) /\ S = Told
    OBVIOUS
  <2>2. UpToDate(t, listed, S)
    BY <1>9, <2>1
  <2>3. /\ Sound(r) /\ Applied(r) /\ IpcAgrees(r) /\ UpToDate(r, listed, S)
        /\ r.devices = t.devices
    BY <1>9, <2>1, <2>2, Reconfigured
  <2>4. /\ r = tty' /\ UNCHANGED <<gpus, plugged, udev, listed>> /\ dead' = dead \cap r.devices
        /\ r.devices \ gpus \subseteq dead
    BY <1>1, <1>9, <2>1, <2>3
  <2>. QED  BY <1>6, <2>1, <2>3, <2>4
<1>10. CASE set_lid_closed
  <2>1. PICK lid, t : lid = ~tty.lid /\ t = [tty EXCEPT !.lid = lid]
    OBVIOUS
  <2>2. lid \in BOOLEAN
    BY <2>1, Zenon
  <2>3. t \in Tty
    BY <1>0, <2>1, <2>2 DEF Tty
  <2>4. /\ t.active = tty.active /\ t.devices = tty.devices /\ t.paused = tty.paused
        /\ t.ignoring = tty.ignoring /\ t.ignored = tty.ignored /\ t.refused = tty.refused
        /\ t.surfaces = tty.surfaces /\ t.leased = tty.leased /\ t.names = tty.names
        /\ t.scanned = tty.scanned /\ t.ipc = tty.ipc
        /\ t.deferred = tty.deferred /\ t.panicked = tty.panicked
    BY <1>0, <2>1 DEF Tty
  <2>5. There(t) = There(tty)
    BY <2>4 DEF There
  <2>6. Sound(t)
    <3>1. \A c, e \in ConnectorSet : c # e => ~SameName(t, c, e)
      BY <1>0, <2>4 DEF Sound, SameName
    <3>. QED  BY <1>0, <2>3, <2>4, <2>5, <3>1 DEF Sound
  <2>7. IpcAgrees(t) /\ UpToDate(t, listed, Told)
    BY <1>0, <2>4 DEF IpcAgrees, UpToDate, Seen, Fresh, compute_ignored_nodes
  <2>8. tty' = on_output_config_changed(t) /\ UNCHANGED hardware
    BY <1>10, <2>1 DEF set_lid_closed
  <2>. QED  BY <1>9, <2>4, <2>6, <2>7, <2>8 DEF hardware
<1>11. ASSUME NEW c \in Configurable, ConfigureOutput(c)
       PROVE  DevicesInv'
  <2>1. PICK off, t : /\ off = IF c \in tty.off THEN tty.off \ {c} ELSE tty.off \cup {c}
                      /\ t = [tty EXCEPT !.off = off]
    OBVIOUS
  <2>2. off \in SUBSET Configurable
    BY <1>0, <2>1 DEF Tty
  <2>3. t \in Tty
    BY <1>0, <2>1, <2>2 DEF Tty
  <2>4. /\ t.active = tty.active /\ t.devices = tty.devices /\ t.paused = tty.paused
        /\ t.ignoring = tty.ignoring /\ t.ignored = tty.ignored /\ t.refused = tty.refused
        /\ t.surfaces = tty.surfaces /\ t.leased = tty.leased /\ t.names = tty.names
        /\ t.scanned = tty.scanned /\ t.ipc = tty.ipc
        /\ t.deferred = tty.deferred /\ t.panicked = tty.panicked
    BY <1>0, <2>1 DEF Tty
  <2>5. There(t) = There(tty)
    BY <2>4 DEF There
  <2>6. Sound(t)
    <3>1. \A x, e \in ConnectorSet : x # e => ~SameName(t, x, e)
      BY <1>0, <2>4 DEF Sound, SameName
    <3>. QED  BY <1>0, <2>3, <2>4, <2>5, <3>1 DEF Sound
  <2>7. IpcAgrees(t) /\ UpToDate(t, listed, Told)
    BY <1>0, <2>4 DEF IpcAgrees, UpToDate, Seen, Fresh, compute_ignored_nodes
  <2>8. tty' = on_output_config_changed(t) /\ UNCHANGED hardware
    BY <1>11, <2>1 DEF ConfigureOutput
  <2>. QED  BY <1>9, <2>4, <2>6, <2>7, <2>8 DEF hardware
<1>12. ASSUME NEW d \in Ignorable, update_ignored_nodes_config(d)
       PROVE  DevicesInv'
  <2>1. PICK ignoring, t : /\ ignoring = IF d \in tty.ignoring THEN tty.ignoring \ {d} ELSE tty.ignoring \cup {d}
                           /\ t = [tty EXCEPT !.ignoring = ignoring]
    OBVIOUS
  <2>2. PICK ign, new : ign = compute_ignored_nodes(t) /\ new = [t EXCEPT !.ignored = ign]
    OBVIOUS
  <2>3. ignoring \in SUBSET Gpus /\ ign \in SUBSET Gpus /\ t.ignoring = ignoring
    BY <1>0, <2>1, <2>2, DevicesAssumption DEF Tty, compute_ignored_nodes
  <2>4. t \in Tty /\ new \in Tty
    <3>1. t \in Tty
      BY <1>0, <2>1, <2>3 DEF Tty
    <3>. QED  BY <2>2, <2>3, <3>1 DEF Tty
  <2>5. /\ t.active = tty.active /\ t.lid = tty.lid /\ t.off = tty.off
        /\ t.devices = tty.devices /\ t.paused = tty.paused
        /\ t.ignored = tty.ignored /\ t.refused = tty.refused
        /\ t.surfaces = tty.surfaces /\ t.leased = tty.leased /\ t.names = tty.names
        /\ t.scanned = tty.scanned /\ t.ipc = tty.ipc
        /\ t.deferred = tty.deferred /\ t.stale = tty.stale /\ t.panicked = tty.panicked
    BY <1>0, <2>1 DEF Tty
  <2>6. /\ new.active = tty.active /\ new.lid = tty.lid /\ new.off = tty.off
        /\ new.devices = tty.devices /\ new.paused = tty.paused
        /\ new.ignoring = ignoring /\ new.ignored = ign /\ new.refused = tty.refused
        /\ new.surfaces = tty.surfaces /\ new.leased = tty.leased /\ new.names = tty.names
        /\ new.scanned = tty.scanned /\ new.ipc = tty.ipc
        /\ new.deferred = tty.deferred /\ new.stale = tty.stale /\ new.panicked = tty.panicked
    BY <2>2, <2>3, <2>4, <2>5 DEF Tty
  <2>7. /\ There(t) = There(tty) /\ There(new) = There(tty)
        /\ \A c : (ShouldBeOff(t, c) <=> ShouldBeOff(tty, c)) /\ (ShouldBeOff(new, c) <=> ShouldBeOff(tty, c))
    BY <2>5, <2>6 DEF There, ShouldBeOff, should_disable_laptop_panels
  <2>8. Sound(t) /\ Sound(new)
    <3>1. \A c, e \in ConnectorSet : c # e => ~SameName(t, c, e) /\ ~SameName(new, c, e)
      BY <1>0, <2>5, <2>6 DEF Sound, SameName
    <3>2. Sound(t)
      BY <1>0, <2>4, <2>5, <2>7, <3>1 DEF Sound
    <3>3. Sound(new)
      BY <1>0, <2>4, <2>6, <2>7, <3>1 DEF Sound
    <3>. QED  BY <3>2, <3>3
  <2>9. Applied(t) /\ Applied(new)
    <3>1. Applied(t)
      BY <1>0, <2>5, <2>7 DEF Applied
    <3>2. Applied(new)
      BY <1>0, <2>6, <2>7 DEF Applied
    <3>. QED  BY <3>1, <3>2
  <2>10. IpcAgrees(t) /\ IpcAgrees(new)
    BY <1>0, <2>5, <2>6 DEF IpcAgrees
  <2>11. UNCHANGED <<gpus, plugged, udev, listed>> /\ dead' = dead \cap tty'.devices
    BY <1>12 DEF update_ignored_nodes_config
  <2>12. CASE ~tty.active \/ ign = tty.ignored
    <3>1. tty' = on_output_config_changed(t)
      BY <1>12, <2>1, <2>2, <2>5, <2>6, <2>12 DEF update_ignored_nodes_config
    <3>2. UpToDate(t, listed, Told)
      BY <1>0, <2>2, <2>5, <2>12 DEF UpToDate, Seen, Fresh
    <3>. QED  BY <1>9, <2>5, <2>8, <2>10, <2>11, <3>1, <3>2
  <2>13. CASE tty.active /\ ign # tty.ignored
    <3>0. ~(~t.active \/ new.ignored = t.ignored)
      BY <2>5, <2>6, <2>13
    <3>1. PICK order \in SetToSeqs(Gpus) :
            tty' = on_output_config_changed(
                     AddListed(AllHandled("remove", new, {e \in t.devices : e \in new.ignored \/ e \notin listed}, order),
                               t.devices, order))
      BY <1>12, <2>1, <2>2, <3>0, Zenon DEF update_ignored_nodes_config
    <3>2. PICK cleared, r, S :
            /\ cleared = AllHandled("remove", new, {e \in new.devices : e \in new.ignored \/ e \notin listed}, order)
            /\ r = AddListed(cleared, new.devices, order)
            /\ S = Told
      OBVIOUS
    <3>3. tty' = on_output_config_changed(r)
      BY <2>5, <2>6, <3>1, <3>2
    <3>4. /\ new.active /\ dead \subseteq new.devices /\ new.devices \ gpus \subseteq dead
          /\ new.paused = {} /\ ~new.deferred /\ new.devices \subseteq listed
          /\ \A e \in new.devices \ (dead \cup S) : Fresh(new, e)
          /\ new.ignored = compute_ignored_nodes(new)
      <4>1. new.active /\ dead \subseteq new.devices /\ new.devices \ gpus \subseteq dead
        BY <1>1, <2>6, <2>13
      <4>2. tty.paused = {} /\ ~tty.deferred /\ Seen(tty, listed, S)
        BY <1>0, <2>13, <3>2 DEF UpToDate
      <4>3. new.paused = {} /\ ~new.deferred /\ new.devices \subseteq listed
        BY <2>6, <4>2 DEF Seen
      <4>4. \A e \in new.devices \ (dead \cup S) : Fresh(new, e)
        BY <2>6, <4>2 DEF Seen, Fresh
      <4>5. new.ignored = compute_ignored_nodes(new)
        BY <2>2, <2>3, <2>6 DEF compute_ignored_nodes
      <4>. QED  BY <4>1, <4>3, <4>4, <4>5
    <3>5. /\ Sound(r) /\ Applied(r) /\ IpcAgrees(r) /\ UpToDate(r, listed, S)
          /\ r.devices \ gpus \subseteq dead
      BY <1>1, <2>8, <2>9, <2>10, <3>2, <3>4, IgnoredChanged
    <3>6. PICK n : n = on_output_config_changed(r)
      OBVIOUS
    <3>7. /\ Sound(n) /\ Applied(n) /\ IpcAgrees(n) /\ UpToDate(n, listed, S)
          /\ n.devices = r.devices
      BY <3>5, <3>6, Reconfigured
    <3>. QED  BY <1>6, <2>11, <3>2, <3>3, <3>5, <3>6, <3>7
  <2>. QED  BY <2>12, <2>13
<1>13. CASE UNCHANGED deviceVars
  <2>1. PICK r : r = tty'
    OBVIOUS
  <2>2. /\ r = tty /\ UNCHANGED <<gpus, plugged, udev, listed>> /\ dead' = dead \cap r.devices
    BY <1>1, <1>13, <2>1 DEF deviceVars, hardware
  <2>. QED  BY <1>0, <1>1, <1>6, <2>1, <2>2
<1>. QED  BY <1>2, <1>3, <1>4, <1>5, <1>7, <1>8, <1>10, <1>11, <1>12, <1>13 DEF DevicesNext

\* Outputs follow the hardware: in every state the invariant allows, no assertion has
\* failed and what is lit, lent and reported is what should be.
LEMMA InvShowsOutputs == DevicesInv => OutputsFollowHardware
<1> SUFFICES ASSUME DevicesInv PROVE OutputsFollowHardware
  OBVIOUS
<1>0. /\ Sound(tty) /\ Applied(tty) /\ IpcAgrees(tty) /\ UpToDate(tty, listed, Told)
      /\ Replays(udev, listed, gpus) /\ HardwareTypeOK /\ tty \in Tty
  BY DEF DevicesInv, Sound
<1>1. DevicesNeverPanic
  BY <1>0 DEF Sound, DevicesNeverPanic
<1>2. ASSUME tty.active, udev = <<>>, dead = {}, NEW c \in ConnectorSet
      PROVE  \/ /\ Kind[c] = "headset"
                /\ c \in tty.leased => Usable(DeviceOf[c])
                /\ Usable(DeviceOf[c]) /\ c \notin tty.off => c \in tty.leased
             \/ Kind[c] = "panel" /\ tty.stale
             \/ LET wanted == /\ Usable(DeviceOf[c])
                              /\ c \notin tty.off
                              /\ LitByLid(c)
                IN  /\ c \in tty.surfaces => wanted /\ plugged[c] # "no"
                    /\ wanted /\ plugged[c] = "ready" => c \in tty.surfaces
  <2>1. listed = gpus
    <3>1. Len(udev) = 0
      BY <1>2
    <3>. QED  BY <1>0, <3>1 DEF Replays
  <2>2. Told = {}
    BY <1>2 DEF Told
  <2>3. \A d \in Gpus : Usable(d) <=> d \in tty.devices
    BY <1>0, <1>2, <2>1 DEF Usable, UpToDate, Seen, Sound, Tty
  <2>4. \A e \in ConnectorSet : DeviceOf[e] \in tty.devices => tty.scanned[e] = plugged[e]
    BY <1>0, <1>2, <2>2 DEF UpToDate, Seen, Fresh, ConnectorsOf
  <2>5. \A e \in ConnectorSet : e \in There(tty) <=> Usable(DeviceOf[e]) /\ plugged[e] # "no"
    BY <2>3, <2>4, DevicesAssumption DEF There, ConnectorsOf
  <2>6. should_disable_laptop_panels(tty)
          <=> tty.lid /\ \E e \in ConnectorSet : Usable(DeviceOf[e]) /\ plugged[e] # "no" /\ Kind[e] # "panel"
    BY <2>5 DEF should_disable_laptop_panels, There, ConnectorsOf
  <2>7. ShouldBeOff(tty, c) <=> c \in tty.off \/ ~LitByLid(c)
    BY <2>6 DEF ShouldBeOff, LitByLid
  <2>8. /\ c \in tty.surfaces => ~ShouldBeOff(tty, c)
        /\ c \in There(tty) =>
             /\ Kind[c] = "headset" /\ c \notin tty.off => c \in tty.leased
             /\ /\ Kind[c] # "headset" /\ tty.scanned[c] # "bare"
                /\ ~ShouldBeOff(tty, c)
                /\ ~(tty.stale /\ Kind[c] = "panel")
                => c \in tty.surfaces
    BY <1>0, <1>2 DEF Applied, UpToDate
  <2>9. /\ c \in tty.surfaces => c \in There(tty) /\ Kind[c] # "headset"
        /\ c \in tty.leased => c \in There(tty)
    BY <1>0 DEF Sound
  <2>10. CASE Kind[c] = "headset"
    <3>1. plugged[c] = "ready"
      BY <1>0, <2>10 DEF HardwareTypeOK
    <3>. QED  BY <2>5, <2>8, <2>9, <2>10, <3>1
  <2>11. CASE Kind[c] # "headset" /\ ~(Kind[c] = "panel" /\ tty.stale)
    <3>1. c \in tty.surfaces => Usable(DeviceOf[c]) /\ c \notin tty.off /\ LitByLid(c) /\ plugged[c] # "no"
      BY <2>5, <2>7, <2>8, <2>9
    <3>2. Usable(DeviceOf[c]) /\ c \notin tty.off /\ LitByLid(c) /\ plugged[c] = "ready" => c \in tty.surfaces
      BY <2>3, <2>4, <2>5, <2>7, <2>8, <2>11, DevicesAssumption
    <3>. QED  BY <3>1, <3>2
  <2>. QED  BY <2>10, <2>11
<1>3. OutputsMatch
  BY <1>0, <1>2 DEF OutputsMatch, IpcAgrees
<1>. QED  BY <1>1, <1>3 DEF OutputsFollowHardware

\* Whatever is plugged in and out, suspended, ignored and configured: the TTY backend
\* fails no assertion, and shows in the end what it should.
THEOREM DevicesSafety == DevicesSpec => []OutputsFollowHardware
<1>1. DevicesInit => DevicesInv
  BY DevicesInvInit
<1>2. DevicesInv /\ [DevicesNext]_deviceVars => DevicesInv'
  BY DevicesInvNext
<1>3. DevicesInv => OutputsFollowHardware
  BY InvShowsOutputs
<1>. QED  BY <1>1, <1>2, <1>3, PTL DEF DevicesSpec
=============================================================================
