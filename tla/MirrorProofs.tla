---------------------------- MODULE MirrorProofs ----------------------------
(***************************************************************************)
(* Proof that a client of the event stream misses nothing and that the     *)
(* server's copy is the desktop after each refresh (EventStream.tla).      *)
(***************************************************************************)
EXTENDS Mirrors, SequenceTheorems, FiniteSetTheorems, WellFoundedInduction, TLAPS

----------------------------------------------------------------------------
\* Sequences of events, one after the other.

LEMMA LeastNatural ==
    ASSUME NEW T, T \subseteq Nat, T # {}
    PROVE  \E n \in T : \A m \in T : n <= m
<1>1. \E n \in T : \A m \in T : ~(<<m, n>> \in OpToRel(<, Nat))
  BY NatLessThanWellFounded, WFMin, Zenon
<1>2. PICK n \in T : \A m \in T : ~(<<m, n>> \in OpToRel(<, Nat))
  BY <1>1
<1>3. \A m \in T : ~(m < n)
  BY <1>2, Zenon DEF OpToRel
<1>. QED  BY <1>3

\* A sequence, of whatever is in it.
IsSeq(q) == q \in Seq({q[i] : i \in 1 .. Len(q)})

LEMMA SeqIsSeq ==
    ASSUME NEW S, NEW q \in Seq(S)
    PROVE  IsSeq(q)
<1>1. q \in [1 .. Len(q) -> S] /\ Len(q) \in Nat
  OBVIOUS
<1>2. PICK T : T = {q[i] : i \in 1 .. Len(q)}
  OBVIOUS
<1>3. q \in [1 .. Len(q) -> T]
  BY <1>1, <1>2
<1>4. q \in Seq(T)
  BY <1>1, <1>3
<1>. QED  BY <1>2, <1>4 DEF IsSeq

LEMMA ConcatIsSeq ==
    ASSUME NEW p, NEW q, IsSeq(p), IsSeq(q)
    PROVE  /\ IsSeq(p \o q)
           /\ Len(p) \in Nat /\ Len(q) \in Nat /\ Len(p \o q) = Len(p) + Len(q)
           /\ \A i \in 1 .. Len(p) : (p \o q)[i] = p[i]
           /\ \A i \in 1 .. Len(q) : (p \o q)[Len(p) + i] = q[i]
<1>1. PICK S : S = {p[i] : i \in 1 .. Len(p)} \cup {q[i] : i \in 1 .. Len(q)}
  OBVIOUS
<1>2. p \in Seq(S)
  <2>1. PICK T : T = {p[i] : i \in 1 .. Len(p)}
    OBVIOUS
  <2>2. p \in Seq(T) /\ T \subseteq S
    BY <1>1, <2>1 DEF IsSeq
  <2>. QED  BY <2>2
<1>3. q \in Seq(S)
  <2>1. PICK T : T = {q[i] : i \in 1 .. Len(q)}
    OBVIOUS
  <2>2. q \in Seq(T) /\ T \subseteq S
    BY <1>1, <2>1 DEF IsSeq
  <2>. QED  BY <2>2
<1>4. p \o q \in Seq(S)
  BY <1>2, <1>3
<1>5. IsSeq(p \o q)
  BY <1>4, SeqIsSeq
<1>. QED  BY <1>2, <1>3, <1>5

----------------------------------------------------------------------------
\* The states that events lead through.

AreStates(after, st, q, n) ==
    after = [i \in 0 .. n |-> IF i = 0 THEN st ELSE apply(after[i - 1], q[i])]

\* The recursive definition of them has a solution.
LEMMA StatesExist ==
    ASSUME NEW m \in Nat, NEW st, NEW q
    PROVE  \E after : AreStates(after, st, q, m)
<1>1. PICK bad : bad = {i \in Nat : ~\E after : AreStates(after, st, q, i)}
  OBVIOUS
<1>2. CASE bad = {}
  BY <1>1, <1>2
<1>3. CASE bad # {}
  <2>1. PICK n \in bad : \A i \in bad : n <= i
    BY <1>1, <1>3, LeastNatural
  <2>2. n \in Nat /\ ~\E after : AreStates(after, st, q, n)
    BY <1>1, <2>1
  <2>3. CASE n = 0
    <3>1. PICK after : after = [i \in 0 .. n |-> st]
      OBVIOUS
    <3>2. after = [i \in 0 .. n |-> IF i = 0 THEN st ELSE apply(after[i - 1], q[i])]
      BY <2>3, <3>1
    <3>. QED  BY <2>2, <3>2 DEF AreStates
  <2>4. CASE n # 0
    <3>1. n - 1 \in Nat /\ n - 1 \notin bad
      BY <2>1, <2>2, <2>4
    <3>2. PICK before : AreStates(before, st, q, n - 1)
      BY <1>1, <3>1
    <3>3. PICK last : last = apply(before[n - 1], q[n])
      OBVIOUS
    <3>4. PICK after : after = [i \in 0 .. n |-> IF i = n THEN last ELSE before[i]]
      OBVIOUS
    <3>5. ASSUME NEW i \in 0 .. n
          PROVE  after[i] = IF i = 0 THEN st ELSE apply(after[i - 1], q[i])
      <4>0. before = [j \in 0 .. n - 1 |-> IF j = 0 THEN st ELSE apply(before[j - 1], q[j])]
        BY <3>2 DEF AreStates
      <4>1. CASE i = 0
        <5>1. after[i] = before[i] /\ i \in 0 .. n - 1
          BY <2>2, <2>4, <3>4, <4>1
        <5>. QED  BY <4>0, <4>1, <5>1
      <4>2. CASE i = n
        <5>1. i - 1 \in 0 .. n /\ i - 1 # n
          BY <2>2, <2>4, <4>2
        <5>2. after[i - 1] = before[n - 1] /\ after[i] = last
          BY <3>4, <4>2, <5>1
        <5>. QED  BY <2>4, <3>3, <4>2, <5>2
      <4>3. CASE i # 0 /\ i # n
        <5>1. i \in 0 .. n - 1 /\ i - 1 \in 0 .. n /\ i - 1 # n
          BY <2>2, <4>3
        <5>2. after[i - 1] = before[i - 1] /\ after[i] = before[i]
          BY <3>4, <4>3, <5>1
        <5>3. before[i] = apply(before[i - 1], q[i])
          BY <4>0, <4>3, <5>1
        <5>. QED  BY <4>3, <5>2, <5>3
      <4>. QED  BY <4>1, <4>2, <4>3
    <3>6. after = [i \in 0 .. n |-> after[i]]
      BY <3>4
    <3>7. AreStates(after, st, q, n)
      BY <3>5, <3>6 DEF AreStates
    <3>. QED  BY <2>2, <3>7
  <2>. QED  BY <2>3, <2>4
<1>. QED  BY <1>2, <1>3

\* And only one, up to where the events are the same.
LEMMA StatesAreThese ==
    ASSUME NEW f, NEW g, NEW st, NEW p, NEW q, NEW m \in Nat, NEW n \in Nat,
           AreStates(f, st, p, m), AreStates(g, st, q, n), m <= n,
           \A i \in 1 .. m : p[i] = q[i]
    PROVE  \A k \in 0 .. m : f[k] = g[k]
<1>1. PICK bad : bad = {k \in 0 .. m : f[k] # g[k]}
  OBVIOUS
<1>2. CASE bad = {}
  BY <1>1, <1>2
<1>3. CASE bad # {}
  <2>0. bad \subseteq Nat
    BY <1>1
  <2>1. PICK k \in bad : \A j \in bad : k <= j
    BY <1>3, <2>0, LeastNatural
  <2>2. k \in 0 .. m /\ f[k] # g[k] /\ k \in 0 .. n
    BY <1>1, <2>1
  <2>3. /\ f[k] = IF k = 0 THEN st ELSE apply(f[k - 1], p[k])
        /\ g[k] = IF k = 0 THEN st ELSE apply(g[k - 1], q[k])
    BY <2>2 DEF AreStates
  <2>4. k # 0
    BY <2>2, <2>3
  <2>5. k - 1 \in 0 .. m /\ k - 1 \notin bad /\ k \in 1 .. m
    BY <2>1, <2>2, <2>4
  <2>6. f[k - 1] = g[k - 1] /\ p[k] = q[k]
    BY <1>1, <2>5
  <2>. QED  BY <2>2, <2>3, <2>4, <2>6
<1>. QED  BY <1>2, <1>3

LEMMA AppliedStates ==
    ASSUME NEW st, NEW q, Len(q) \in Nat
    PROVE  \E after : AreStates(after, st, q, Len(q)) /\ ApplyAll(st, q) = after[Len(q)]
<1>1. PICK m : m = Len(q)
  OBVIOUS
<1>2. PICK after : after = CHOOSE f : f = [i \in 0 .. m |-> IF i = 0 THEN st ELSE apply(f[i - 1], q[i])]
  OBVIOUS
<1>3. AreStates(after, st, q, m)
  <2>1. PICK some : AreStates(some, st, q, m)
    BY <1>1, StatesExist
  <2>2. some = [i \in 0 .. m |-> IF i = 0 THEN st ELSE apply(some[i - 1], q[i])]
    BY <2>1 DEF AreStates
  <2>. QED  BY <1>2, <2>2, Zenon DEF AreStates
<1>4. ApplyAll(st, q) = after[m]
  BY <1>1, <1>2, Zenon DEF ApplyAll
<1>. QED  BY <1>1, <1>3, <1>4

LEMMA ApplyNone ==
    ASSUME NEW st
    PROVE  ApplyAll(st, <<>>) = st
<1>1. PICK q : q = <<>>
  OBVIOUS
<1>2. Len(q) = 0
  BY <1>1
<1>3. PICK after : AreStates(after, st, q, 0) /\ ApplyAll(st, q) = after[0]
  BY <1>2, AppliedStates
<1>4. after[0] = st
  BY <1>3 DEF AreStates
<1>. QED  BY <1>1, <1>3, <1>4

LEMMA ApplyOne ==
    ASSUME NEW st, NEW e
    PROVE  ApplyAll(st, <<e>>) = apply(st, e)
<1>1. PICK q : q = <<e>>
  OBVIOUS
<1>2. Len(q) = 1 /\ q[1] = e
  BY <1>1
<1>3. PICK after : AreStates(after, st, q, 1) /\ ApplyAll(st, q) = after[1]
  BY <1>2, AppliedStates
<1>4. after[0] = st
  BY <1>3 DEF AreStates
<1>5. after[1] = apply(after[0], q[1])
  BY <1>3 DEF AreStates
<1>. QED  BY <1>1, <1>2, <1>3, <1>4, <1>5

LEMMA ApplyConcat ==
    ASSUME NEW st, NEW p, NEW q, IsSeq(p), IsSeq(q)
    PROVE  ApplyAll(st, p \o q) = ApplyAll(ApplyAll(st, p), q)
<1>1. PICK m, n, r : m = Len(p) /\ n = Len(q) /\ r = p \o q
  OBVIOUS
<1>2. /\ m \in Nat /\ n \in Nat /\ Len(r) = m + n
      /\ \A i \in 1 .. m : r[i] = p[i]
      /\ \A i \in 1 .. n : r[m + i] = q[i]
  BY <1>1, ConcatIsSeq
<1>3. PICK f : AreStates(f, st, p, m) /\ ApplyAll(st, p) = f[m]
  BY <1>1, <1>2, AppliedStates
<1>4. PICK h : AreStates(h, st, r, m + n) /\ ApplyAll(st, r) = h[m + n]
  <2>1. Len(r) \in Nat
    BY <1>2
  <2>2. PICK h : AreStates(h, st, r, Len(r)) /\ ApplyAll(st, r) = h[Len(r)]
    BY <2>1, AppliedStates
  <2>. QED  BY <1>2, <2>2, Zenon
<1>5. h[m] = f[m]
  BY <1>2, <1>3, <1>4, StatesAreThese
<1>6. PICK g : AreStates(g, f[m], q, n) /\ ApplyAll(f[m], q) = g[n]
  BY <1>1, <1>2, AppliedStates
<1>7. PICK k : k = [i \in 0 .. n |-> h[m + i]]
  OBVIOUS
<1>8. AreStates(k, f[m], q, n)
  <2>1. ASSUME NEW i \in 0 .. n
        PROVE  k[i] = IF i = 0 THEN f[m] ELSE apply(k[i - 1], q[i])
    <3>1. CASE i = 0
      BY <1>2, <1>5, <1>7, <3>1
    <3>2. CASE i # 0
      <4>1. i - 1 \in 0 .. n /\ m + i \in 0 .. m + n /\ m + i # 0 /\ (m + i) - 1 = m + (i - 1)
        BY <1>2, <3>2
      <4>2. h[m + i] = apply(h[m + (i - 1)], r[m + i])
        BY <1>4, <4>1 DEF AreStates
      <4>3. i \in 1 .. n
        BY <3>2
      <4>4. r[m + i] = q[i]
        BY <1>2, <4>3
      <4>. QED  BY <1>7, <3>2, <4>1, <4>2, <4>4
    <3>. QED  BY <3>1, <3>2
  <2>2. k = [i \in 0 .. n |-> k[i]]
    BY <1>7
  <2>. QED  BY <2>1, <2>2 DEF AreStates
<1>9. \A i \in 0 .. n : k[i] = g[i]
  BY <1>2, <1>6, <1>8, StatesAreThese
<1>10. h[m + n] = g[n]
  BY <1>2, <1>7, <1>9
<1>. QED  BY <1>1, <1>3, <1>4, <1>6, <1>10

----------------------------------------------------------------------------
\* Sequences of sequences of events.

AreFlat(flat, seqs, n) ==
    flat = [i \in 1 .. n |-> IF i = 1 THEN seqs[i] ELSE flat[i - 1] \o seqs[i]]

LEMMA FlatExists ==
    ASSUME NEW m \in Nat, NEW seqs
    PROVE  \E flat : AreFlat(flat, seqs, m)
<1>1. PICK bad : bad = {i \in Nat : ~\E flat : AreFlat(flat, seqs, i)}
  OBVIOUS
<1>2. CASE bad = {}
  BY <1>1, <1>2
<1>3. CASE bad # {}
  <2>1. PICK n \in bad : \A i \in bad : n <= i
    BY <1>1, <1>3, LeastNatural
  <2>2. n \in Nat /\ ~\E flat : AreFlat(flat, seqs, n)
    BY <1>1, <2>1
  <2>3. CASE n = 0
    <3>1. PICK flat : flat = [i \in 1 .. n |-> <<>>]
      OBVIOUS
    <3>2. flat = [i \in 1 .. n |-> IF i = 1 THEN seqs[i] ELSE flat[i - 1] \o seqs[i]]
      BY <2>3, <3>1
    <3>. QED  BY <2>2, <3>2 DEF AreFlat
  <2>4. CASE n # 0
    <3>1. n - 1 \in Nat /\ n - 1 \notin bad
      BY <2>1, <2>2, <2>4
    <3>2. PICK before : AreFlat(before, seqs, n - 1)
      BY <1>1, <3>1
    <3>3. PICK last : last = IF n = 1 THEN seqs[n] ELSE before[n - 1] \o seqs[n]
      OBVIOUS
    <3>4. PICK flat : flat = [i \in 1 .. n |-> IF i = n THEN last ELSE before[i]]
      OBVIOUS
    <3>5. ASSUME NEW i \in 1 .. n
          PROVE  flat[i] = IF i = 1 THEN seqs[i] ELSE flat[i - 1] \o seqs[i]
      <4>0. before = [j \in 1 .. n - 1 |-> IF j = 1 THEN seqs[j] ELSE before[j - 1] \o seqs[j]]
        BY <3>2 DEF AreFlat
      <4>1. CASE i = n /\ n = 1
        BY <3>3, <3>4, <4>1
      <4>2. CASE i = n /\ n # 1
        <5>1. i - 1 \in 1 .. n /\ i - 1 # n
          BY <2>2, <2>4, <4>2
        <5>2. flat[i - 1] = before[n - 1] /\ flat[i] = last
          BY <3>4, <4>2, <5>1
        <5>3. last = before[n - 1] \o seqs[n]
          BY <3>3, <4>2
        <5>. QED  BY <4>2, <5>2, <5>3
      <4>3. CASE i = 1 /\ i # n
        <5>1. flat[i] = before[i] /\ i \in 1 .. n - 1
          BY <2>2, <3>4, <4>3
        <5>. QED  BY <4>0, <4>3, <5>1
      <4>4. CASE i # 1 /\ i # n
        <5>1. i \in 1 .. n - 1 /\ i - 1 \in 1 .. n /\ i - 1 # n
          BY <2>2, <4>4
        <5>2. flat[i - 1] = before[i - 1] /\ flat[i] = before[i]
          BY <3>4, <4>4, <5>1
        <5>3. before[i] = before[i - 1] \o seqs[i]
          BY <4>0, <4>4, <5>1
        <5>. QED  BY <4>4, <5>2, <5>3
      <4>. QED  BY <4>1, <4>2, <4>3, <4>4
    <3>6. flat = [i \in 1 .. n |-> flat[i]]
      BY <3>4
    <3>7. AreFlat(flat, seqs, n)
      BY <3>5, <3>6 DEF AreFlat
    <3>. QED  BY <2>2, <3>7
  <2>. QED  BY <2>3, <2>4
<1>. QED  BY <1>2, <1>3

LeadThrough(after, st, seqs, n) ==
    /\ after[0] = st
    /\ \A i \in 1 .. n : after[i] = ApplyAll(after[i - 1], seqs[i])

LeadTo(st, seqs, n, last) == \E after : LeadThrough(after, st, seqs, n) /\ last = after[n]

\* Sequences of events that are flattened are applied one after the other.
LEMMA ApplyFlat ==
    ASSUME NEW n \in Nat, NEW seqs, seqs = [i \in 1 .. n |-> seqs[i]], NEW st,
           \A i \in 1 .. n : IsSeq(seqs[i])
    PROVE  /\ IsSeq(FlattenSeq(seqs))
           /\ LeadTo(st, seqs, n, ApplyAll(st, FlattenSeq(seqs)))
<1>1. Len(seqs) = n
  <2>1. PICK S : S = {seqs[i] : i \in 1 .. n}
    OBVIOUS
  <2>2. seqs \in [1 .. n -> S]
    BY <2>1
  <2>. QED  BY <2>2
<1>2. CASE n = 0
  <2>1. seqs = <<>>
    BY <1>2
  <2>2. FlattenSeq(seqs) = <<>>
    BY <1>1, <1>2, <2>1, Zenon DEF FlattenSeq
  <2>3. IsSeq(FlattenSeq(seqs))
    BY <2>2 DEF IsSeq
  <2>4. PICK after : after = [i \in {0} |-> st]
    OBVIOUS
  <2>5. after[0] = st /\ ApplyAll(st, FlattenSeq(seqs)) = after[n]
    BY <1>2, <2>2, <2>4, ApplyNone
  <2>6. LeadThrough(after, st, seqs, n)
    BY <1>2, <2>5 DEF LeadThrough
  <2>. QED  BY <2>3, <2>5, <2>6 DEF LeadTo
<1>3. CASE n # 0
  <2>1. PICK flat : flat = CHOOSE f : f = [i \in 1 .. n |-> IF i = 1 THEN seqs[i] ELSE f[i - 1] \o seqs[i]]
    OBVIOUS
  <2>2. AreFlat(flat, seqs, n)
    <3>1. PICK some : AreFlat(some, seqs, n)
      BY FlatExists
    <3>2. some = [i \in 1 .. n |-> IF i = 1 THEN seqs[i] ELSE some[i - 1] \o seqs[i]]
      BY <3>1 DEF AreFlat
    <3>. QED  BY <2>1, <3>2, Zenon DEF AreFlat
  <2>3. FlattenSeq(seqs) = flat[n]
    BY <1>1, <1>3, <2>1, Zenon DEF FlattenSeq
  <2>4. \A i \in 1 .. n : flat[i] = IF i = 1 THEN seqs[i] ELSE flat[i - 1] \o seqs[i]
    BY <2>2 DEF AreFlat
  <2>5. \A i \in 1 .. n : IsSeq(flat[i])
    <3>1. PICK bad : bad = {i \in 1 .. n : ~IsSeq(flat[i])}
      OBVIOUS
    <3>2. CASE bad = {}
      BY <3>1, <3>2
    <3>3. CASE bad # {}
      <4>1. PICK i \in bad : \A j \in bad : i <= j
        BY <3>1, <3>3, LeastNatural
      <4>2. i \in 1 .. n /\ ~IsSeq(flat[i])
        BY <3>1, <4>1
      <4>3. CASE i = 1
        BY <2>4, <4>2, <4>3
      <4>4. CASE i # 1
        <5>1. i - 1 \in 1 .. n /\ IsSeq(flat[i - 1])
          BY <3>1, <4>1, <4>2, <4>4
        <5>2. flat[i] = flat[i - 1] \o seqs[i]
          BY <2>4, <4>2, <4>4
        <5>3. IsSeq(flat[i - 1] \o seqs[i])
          BY <4>2, <5>1, ConcatIsSeq
        <5>. QED  BY <4>2, <5>2, <5>3
      <4>. QED  BY <4>3, <4>4
    <3>. QED  BY <3>2, <3>3
  <2>6. PICK after : after = [i \in 0 .. n |-> IF i = 0 THEN st ELSE ApplyAll(st, flat[i])]
    OBVIOUS
  <2>7. after[0] = st /\ after[n] = ApplyAll(st, flat[n])
    BY <1>3, <2>6
  <2>8. ASSUME NEW i \in 1 .. n
        PROVE  after[i] = ApplyAll(after[i - 1], seqs[i])
    <3>0. after[i] = ApplyAll(st, flat[i])
      BY <2>6
    <3>1. CASE i = 1
      BY <2>4, <2>7, <3>0, <3>1
    <3>2. CASE i # 1
      <4>1. i - 1 \in 1 .. n /\ after[i - 1] = ApplyAll(st, flat[i - 1])
        BY <2>6, <3>2
      <4>2. ApplyAll(st, flat[i - 1] \o seqs[i]) = ApplyAll(ApplyAll(st, flat[i - 1]), seqs[i])
        BY <2>5, <4>1, ApplyConcat
      <4>. QED  BY <2>4, <3>0, <3>2, <4>1, <4>2
    <3>. QED  BY <3>1, <3>2
  <2>9. n \in 1 .. n
    BY <1>3
  <2>10. LeadThrough(after, st, seqs, n)
    BY <2>7, <2>8 DEF LeadThrough
  <2>. QED  BY <2>3, <2>5, <2>7, <2>9, <2>10 DEF LeadTo
<1>. QED  BY <1>2, <1>3

Lists(q, n, S) ==
    /\ q \in [1 .. n -> S]
    /\ \A e \in S : \E i \in 1 .. n : q[i] = e
    /\ \A i, j \in 1 .. n : q[i] = q[j] => i = j

\* SetToSeq() lists a finite set, each of it once.
LEMMA SeqOfSet ==
    ASSUME NEW S, IsFiniteSet(S)
    PROVE  \E n \in Nat : Lists(SetToSeq(S), n, S)
<1>1. PICK n : n = Cardinality(S)
  OBVIOUS
<1>2. n \in Nat /\ ExistsBijection(1 .. n, S)
  BY <1>1, FS_CardinalityType
<1>3. PICK f : f \in Bijection(1 .. n, S)
  BY <1>2 DEF ExistsBijection
<1>4. f \in [1 .. n -> S] /\ IsInjective(f)
  BY <1>3 DEF Bijection, Injection, IsInjective
<1>5. PICK g : g = SetToSeq(S)
  OBVIOUS
<1>6. g \in [1 .. n -> S] /\ IsInjective(g)
  BY <1>1, <1>4, <1>5, Zenon DEF SetToSeq
<1>7. \A i, j \in 1 .. n : g[i] = g[j] => i = j
  BY <1>6 DEF IsInjective
<1>8. g \in Injection(1 .. n, S)
  BY <1>6 DEF Injection
<1>9. Cardinality(1 .. n) = n /\ IsFiniteSet(1 .. n)
  BY <1>2, FS_Interval
<1>10. g \in Surjection(1 .. n, S)
  BY <1>1, <1>8, <1>9, FS_Injection
<1>11. \A e \in S : \E i \in 1 .. n : g[i] = e
  BY <1>10 DEF Surjection
<1>12. Lists(g, n, S)
  BY <1>6, <1>7, <1>11 DEF Lists
<1>. QED  BY <1>2, <1>5, <1>12

----------------------------------------------------------------------------
IsState(st) ==
    /\ st = [ws |-> st.ws, win |-> st.win, kb |-> st.kb, overview |-> st.overview,
             failed |-> st.failed, casts |-> st.casts, ok |-> st.ok]
    /\ st.ok = TRUE

IsDesk(d) ==
    /\ d = [mons |-> d.mons, stray |-> d.stray, active |-> d.active, main |-> d.main,
            name |-> d.name, win |-> d.win, front |-> d.front, focus |-> d.focus,
            overview |-> d.overview, kb |-> d.kb, cast |-> d.cast]
    /\ WellArranged(d.mons) /\ d.stray \in Seq(Workspace)
    /\ d.active \in [Connected(d) -> Nat]
    /\ \A o \in Connected(d) : d.active[o] \in DOMAIN d.mons[o]
    /\ IF Connected(d) = {} THEN d.main = Nil ELSE d.main \in Connected(d)
    /\ d.win = [w \in DOMAIN d.win |-> d.win[w]] /\ DOMAIN d.win \subseteq Window
    /\ d.focus \in DOMAIN d.win \cup {Nil}
    /\ d.kb \in {0, 1}

\* A workspace is where the arrangement says.
LEMMA PlaceOf ==
    ASSUME NEW d, IsDesk(d), NEW o \in Connected(d), NEW i \in DOMAIN d.mons[o], NEW s, s = d.mons[o][i]
    PROVE  OutputOf(d, s) = o /\ WsIdx(d, s) = i /\ s \in Workspaces(d)
<1>0. /\ \A p \in Connected(d) : d.mons[p] \in Seq(Workspace)
      /\ \A p, q \in Connected(d) : \A j \in DOMAIN d.mons[p], k \in DOMAIN d.mons[q] :
            d.mons[p][j] = d.mons[q][k] => p = q /\ j = k
      /\ Connected(d) \subseteq Output
  BY DEF IsDesk, WellArranged, Connected
<1>1. s \in Range(d.mons[o])
  BY DEF Range
<1>2. \A p \in Connected(d) : s \in Range(d.mons[p]) => p = o
  <2>1. ASSUME NEW p \in Connected(d), s \in Range(d.mons[p]) PROVE p = o
    <3>1. PICK j \in DOMAIN d.mons[p] : s = d.mons[p][j]
      BY <2>1, Zenon DEF Range
    <3>. QED  BY <1>0, <3>1
  <2>. QED  BY <2>1
<1>3. OutputOf(d, s) = o
  BY <1>1, <1>2 DEF OutputOf
<1>4. o # Nil
  BY <1>0, DesktopAssumption
<1>5. WsList(d, s) = d.mons[o]
  BY <1>3, <1>4 DEF WsList
<1>6. \A j \in DOMAIN d.mons[o] : d.mons[o][j] = s => j = i
  BY <1>0
<1>7. WsIdx(d, s) = i
  BY <1>5, <1>6 DEF WsIdx
<1>8. s \in Workspaces(d)
  BY <1>1, Zenon DEF Workspaces
<1>. QED  BY <1>3, <1>7, <1>8

\* And has its place.
LEMMA HasPlace ==
    ASSUME NEW d, IsDesk(d), NEW s, OutputOf(d, s) # Nil
    PROVE  /\ OutputOf(d, s) \in Connected(d)
           /\ WsIdx(d, s) \in DOMAIN d.mons[OutputOf(d, s)]
           /\ d.mons[OutputOf(d, s)][WsIdx(d, s)] = s
<1>1. PICK o \in Connected(d) : s \in Range(d.mons[o])
  BY DEF OutputOf
<1>2. PICK i \in DOMAIN d.mons[o] : s = d.mons[o][i]
  BY <1>1, Zenon DEF Range
<1>3. OutputOf(d, s) = o /\ WsIdx(d, s) = i
  BY <1>2, PlaceOf
<1>. QED  BY <1>2, <1>3

LEMMA OneActive ==
    ASSUME NEW d, IsDesk(d), NEW s, NEW t, IsActive(d, s), IsActive(d, t), OutputOf(d, s) = OutputOf(d, t)
    PROVE  s = t
  BY HasPlace DEF IsActive

LEMMA SomeActive ==
    ASSUME NEW d, IsDesk(d), NEW o \in Connected(d)
    PROVE  \E t \in Workspaces(d) : OutputOf(d, t) = o /\ IsActive(d, t)
<1>1. d.active[o] \in DOMAIN d.mons[o]
  BY DEF IsDesk
<1>2. PICK t : t = d.mons[o][d.active[o]]
  OBVIOUS
<1>3. OutputOf(d, t) = o /\ WsIdx(d, t) = d.active[o] /\ t \in Workspaces(d)
  BY <1>1, <1>2, PlaceOf
<1>4. o # Nil
  BY DesktopAssumption DEF IsDesk, WellArranged, Connected
<1>. QED  BY <1>3, <1>4 DEF IsActive

LEMMA WorkspacesFinite ==
    ASSUME NEW d, IsDesk(d)
    PROVE  Workspaces(d) \subseteq Workspace /\ IsFiniteSet(Workspaces(d))
<1>1. \A o \in Connected(d) : Range(d.mons[o]) \subseteq Workspace
  <2>1. ASSUME NEW o \in Connected(d), NEW s \in Range(d.mons[o]) PROVE s \in Workspace
    <3>1. d.mons[o] \in Seq(Workspace)
      BY DEF IsDesk, WellArranged, Connected
    <3>2. PICK i \in DOMAIN d.mons[o] : s = d.mons[o][i]
      BY <2>1, Zenon DEF Range
    <3>. QED  BY <3>1, <3>2
  <2>. QED  BY <2>1
<1>2. Range(d.stray) \subseteq Workspace
  <2>1. ASSUME NEW s \in Range(d.stray) PROVE s \in Workspace
    <3>1. d.stray \in Seq(Workspace)
      BY DEF IsDesk
    <3>2. PICK i \in DOMAIN d.stray : s = d.stray[i]
      BY <2>1, Zenon DEF Range
    <3>. QED  BY <3>1, <3>2
  <2>. QED  BY <2>1
<1>3. Workspaces(d) \subseteq Workspace
  <2>1. ASSUME NEW s \in Workspaces(d) PROVE s \in Workspace
    <3>1. s \in Range(d.stray) \/ \E o \in Connected(d) : s \in Range(d.mons[o])
      BY <2>1, Zenon DEF Workspaces
    <3>. QED  BY <1>1, <1>2, <3>1, Zenon
  <2>. QED  BY <2>1
<1>. QED  BY <1>3, DesktopAssumption, FS_Subset

LEMMA FocusedIsActive ==
    ASSUME NEW d, IsDesk(d)
    PROVE  /\ \A s, t : IsFocused(d, s) /\ IsFocused(d, t) => s = t
           /\ Connected(d) # {} => \E s \in Workspaces(d) : IsFocused(d, s)
           /\ \A s : IsFocused(d, s) => IsActive(d, s)
<1>1. \A s, t : IsFocused(d, s) /\ IsFocused(d, t) => s = t
  BY OneActive DEF IsFocused
<1>2. ASSUME Connected(d) # {} PROVE \E s \in Workspaces(d) : IsFocused(d, s)
  <2>1. d.main \in Connected(d)
    BY <1>2 DEF IsDesk
  <2>2. PICK s \in Workspaces(d) : OutputOf(d, s) = d.main /\ IsActive(d, s)
    BY <2>1, SomeActive
  <2>. QED  BY <2>2 DEF IsFocused, IsActive
<1>3. \A s : IsFocused(d, s) => IsActive(d, s)
  BY DEF IsFocused
<1>. QED  BY <1>1, <1>2, <1>3

----------------------------------------------------------------------------
\* The workspaces.

LEMMA ApplyIf ==
    ASSUME NEW c \in BOOLEAN, NEW e, NEW u
    PROVE  /\ IsSeq(If(c, e))
           /\ ApplyAll(u, If(c, e)) = IF c THEN apply(u, e) ELSE u
<1>1. CASE c
  <2>1. If(c, e) = <<e>>
    BY <1>1 DEF If
  <2>2. <<e>> \in Seq({e})
    OBVIOUS
  <2>. QED  BY <1>1, <2>1, <2>2, SeqIsSeq, ApplyOne
<1>2. CASE ~c
  <2>1. If(c, e) = <<>>
    BY <1>2 DEF If
  <2>2. <<>> \in Seq({})
    OBVIOUS
  <2>. QED  BY <1>2, <2>1, <2>2, SeqIsSeq, ApplyNone
<1>. QED  BY <1>1, <1>2

\* The record of a workspace, up to what the events of their own tell.
IsWs(d, t, r) ==
    /\ r = [idx |-> WsIdx(d, t), name |-> d.name[t], output |-> OutputOf(d, t),
            urgent |-> r.urgent, active |-> r.active, focused |-> r.focused, window |-> r.window]
    /\ r.active \in BOOLEAN /\ r.focused \in BOOLEAN /\ r.urgent \in BOOLEAN

LEMMA WsFields ==
    ASSUME NEW d, NEW t, NEW r, IsWs(d, t, r)
    PROVE  r.output = OutputOf(d, t) /\ r.active \in BOOLEAN /\ r.focused \in BOOLEAN
  BY DEF IsWs

LEMMA WithWindow ==
    ASSUME NEW d, NEW t, NEW r, IsWs(d, t, r), NEW b, NEW z, z = [r EXCEPT !.window = b]
    PROVE  /\ IsWs(d, t, z) /\ z.window = b
           /\ z.urgent = r.urgent /\ z.active = r.active /\ z.focused = r.focused
  BY DEF IsWs

LEMMA WithUrgency ==
    ASSUME NEW d, NEW t, NEW r, IsWs(d, t, r), NEW b \in BOOLEAN, NEW z, z = [r EXCEPT !.urgent = b]
    PROVE  /\ IsWs(d, t, z) /\ z.urgent = b
           /\ z.window = r.window /\ z.active = r.active /\ z.focused = r.focused
  BY DEF IsWs

LEMMA WithActive ==
    ASSUME NEW d, NEW t, NEW r, IsWs(d, t, r), NEW b \in BOOLEAN, NEW z, z = [r EXCEPT !.active = b]
    PROVE  /\ IsWs(d, t, z) /\ z.active = b
           /\ z.window = r.window /\ z.urgent = r.urgent /\ z.focused = r.focused
  BY DEF IsWs

LEMMA WithFocus ==
    ASSUME NEW d, NEW t, NEW r, IsWs(d, t, r), NEW f \in BOOLEAN, NEW z, z = [r EXCEPT !.focused = f]
    PROVE  /\ IsWs(d, t, z) /\ z.focused = f
           /\ z.window = r.window /\ z.urgent = r.urgent /\ z.active = r.active
  BY DEF IsWs

\* The server's list of workspaces differs from the desktop only in what the events of
\* their own tell.
OldWorkspaces(st, d) ==
    /\ DOMAIN st.ws = Workspaces(d)
    /\ st.ws = [s \in DOMAIN st.ws |-> st.ws[s]]
    /\ \A s \in DOMAIN st.ws :
          /\ IsWs(d, s, st.ws[s])
          /\ st.ws[s].focused => st.ws[s].active
          /\ st.ws[s].active => OutputOf(d, s) # Nil
    /\ \A s, t \in DOMAIN st.ws :
          st.ws[s].active /\ st.ws[t].active /\ OutputOf(d, s) = OutputOf(d, t) => s = t
    /\ \A s, t \in DOMAIN st.ws : st.ws[s].focused /\ st.ws[t].focused => s = t

\* What they are once the windows of W, the urgency of U and the activation of A is told.
Telling(st, d, W, U, A, x) ==
    /\ x = [t \in DOMAIN st.ws |-> x[t]]
    /\ \A t \in DOMAIN st.ws :
          /\ IsWs(d, t, x[t])
          /\ x[t].window = IF t \in W THEN ActiveWindow(d, t) ELSE st.ws[t].window
          /\ x[t].urgent <=> IF t \in U THEN IsUrgent(d, t) ELSE st.ws[t].urgent
          /\ x[t].active <=> IF \E a \in A : OutputOf(d, a) = OutputOf(d, t) /\ IsActive(d, a)
                             THEN IsActive(d, t) ELSE st.ws[t].active
          /\ x[t].focused <=> IF \E a \in A : IsFocused(d, a)
                              THEN IsFocused(d, t) ELSE st.ws[t].focused

\* The server's copy, with its workspaces as they are told.
Having(u, x) == [u EXCEPT !.ws = x]

WsLeads(u, q, st, d, W, U, A) ==
    \E x : ApplyAll(u, q) = Having(u, x) /\ Telling(st, d, W, U, A, x)

LEMMA HavingIs ==
    ASSUME NEW u, IsState(u), NEW x, NEW y, y = Having(u, x)
    PROVE  /\ IsState(y) /\ y.ws = x
           /\ y.win = u.win /\ y.kb = u.kb /\ y.overview = u.overview
           /\ y.failed = u.failed /\ y.casts = u.casts
<1>1. y = [ws |-> x, win |-> u.win, kb |-> u.kb, overview |-> u.overview,
           failed |-> u.failed, casts |-> u.casts, ok |-> u.ok]
  BY DEF IsState, Having
<1>2. /\ y.ws = x /\ y.ok = u.ok
      /\ y.win = u.win /\ y.kb = u.kb /\ y.overview = u.overview
      /\ y.failed = u.failed /\ y.casts = u.casts
  BY <1>1
<1>3. u.ok = TRUE
  BY DEF IsState
<1>. QED  BY <1>1, <1>2, <1>3 DEF IsState

LEMMA HavingTwice ==
    ASSUME NEW u, IsState(u), NEW x, NEW y, y = Having(u, x), NEW v
    PROVE  Having(y, v) = Having(u, v)
  BY DEF IsState, Having

LEMMA HavingSame ==
    ASSUME NEW u, IsState(u)
    PROVE  Having(u, u.ws) = u
  BY DEF IsState, Having

LEMMA WindowTold ==
    ASSUME NEW st, NEW d, OldWorkspaces(st, d), NEW u, IsState(u), NEW W, NEW U, NEW A,
           Telling(st, d, W, U, A, u.ws), NEW s \in DOMAIN st.ws,
           NEW c \in BOOLEAN, c <=> st.ws[s].window # ActiveWindow(d, s),
           NEW e, e = [ev |-> "WorkspaceActiveWindowChanged", id |-> s, window |-> ActiveWindow(d, s)]
    PROVE  WsLeads(u, If(c, e), st, d, W \cup {s}, U, A)
<1>0. u.ws = [t \in DOMAIN st.ws |-> u.ws[t]] /\ IsWs(d, s, u.ws[s])
  BY DEF Telling
<1>2. CASE c
  <2>1. ApplyAll(u, If(c, e)) = apply(u, e)
    BY <1>2, ApplyIf
  <2>2. PICK x : x = [u.ws EXCEPT ![s].window = ActiveWindow(d, s)]
    OBVIOUS
  <2>3. apply(u, e) = Having(u, x)
    <3>1. apply(u, e) = [u EXCEPT !.ws[s].window = ActiveWindow(d, s)]
      BY <1>0 DEF apply, ApplyWorkspace, WorkspaceEvents
    <3>2. [u EXCEPT !.ws[s].window = ActiveWindow(d, s)] = [u EXCEPT !.ws = x]
      BY <2>2 DEF IsState
    <3>. QED  BY <3>1, <3>2, Zenon DEF Having
  <2>4. /\ x = [t \in DOMAIN st.ws |-> x[t]] /\ \A t \in DOMAIN st.ws : t # s => x[t] = u.ws[t]
        /\ x[s] = [u.ws[s] EXCEPT !.window = ActiveWindow(d, s)]
    BY <1>0, <2>2
  <2>5. /\ IsWs(d, s, x[s]) /\ x[s].window = ActiveWindow(d, s)
        /\ x[s].urgent = u.ws[s].urgent /\ x[s].active = u.ws[s].active
        /\ x[s].focused = u.ws[s].focused
    <3>1. PICK r, z, v : r = u.ws[s] /\ z = x[s] /\ v = ActiveWindow(d, s)
      OBVIOUS
    <3>2. IsWs(d, s, r) /\ z = [r EXCEPT !.window = v]
      BY <1>0, <2>4, <3>1, Zenon
    <3>3. /\ IsWs(d, s, z) /\ z.window = v
          /\ z.urgent = r.urgent /\ z.active = r.active /\ z.focused = r.focused
      BY <3>2, WithWindow
    <3>. QED  BY <3>1, <3>3, Zenon
  <2>6. Telling(st, d, W \cup {s}, U, A, x)
    BY <2>4, <2>5 DEF Telling
  <2>. QED  BY <2>1, <2>3, <2>6 DEF WsLeads
<1>3. CASE ~c
  <2>1. ApplyAll(u, If(c, e)) = u
    BY <1>3, ApplyIf
  <2>2. st.ws[s].window = ActiveWindow(d, s)
    BY <1>3
  <2>3. Telling(st, d, W \cup {s}, U, A, u.ws)
    BY <2>2 DEF Telling
  <2>4. u = Having(u, u.ws)
    BY HavingSame
  <2>. QED  BY <2>1, <2>3, <2>4 DEF WsLeads
<1>. QED  BY <1>2, <1>3

LEMMA UrgencyTold ==
    ASSUME NEW st, NEW d, OldWorkspaces(st, d), NEW u, IsState(u), NEW W, NEW U, NEW A,
           Telling(st, d, W, U, A, u.ws), NEW s \in DOMAIN st.ws,
           NEW c \in BOOLEAN, c <=> (st.ws[s].urgent # IsUrgent(d, s)),
           NEW e, e.ev = "WorkspaceUrgencyChanged", e.id = s, e.urgent = IsUrgent(d, s)
    PROVE  WsLeads(u, If(c, e), st, d, W, U \cup {s}, A)
<1>00. PICK b \in BOOLEAN : b = IsUrgent(d, s)
  BY DEF IsUrgent
<1>0. u.ws = [t \in DOMAIN st.ws |-> u.ws[t]] /\ IsWs(d, s, u.ws[s])
  BY DEF Telling
<1>2. CASE c
  <2>1. ApplyAll(u, If(c, e)) = apply(u, e)
    BY <1>2, ApplyIf
  <2>2. PICK x : x = [t \in DOMAIN u.ws |-> IF t = s THEN [u.ws[t] EXCEPT !.urgent = b] ELSE u.ws[t]]
    OBVIOUS
  <2>3. apply(u, e) = Having(u, x)
    BY <1>00, <2>2 DEF apply, ApplyWorkspace, WorkspaceEvents, Having
  <2>4. /\ x = [t \in DOMAIN st.ws |-> x[t]] /\ \A t \in DOMAIN st.ws : t # s => x[t] = u.ws[t]
        /\ x[s] = [u.ws[s] EXCEPT !.urgent = b]
    BY <1>0, <2>2
  <2>5. /\ IsWs(d, s, x[s]) /\ x[s].urgent = b
        /\ x[s].window = u.ws[s].window /\ x[s].active = u.ws[s].active
        /\ x[s].focused = u.ws[s].focused
    <3>1. PICK r, z : r = u.ws[s] /\ z = x[s]
      OBVIOUS
    <3>2. IsWs(d, s, r) /\ z = [r EXCEPT !.urgent = b]
      BY <1>0, <2>4, <3>1, Zenon
    <3>3. /\ IsWs(d, s, z) /\ z.urgent = b
          /\ z.window = r.window /\ z.active = r.active /\ z.focused = r.focused
      BY <3>2, WithUrgency
    <3>. QED  BY <3>1, <3>3, Zenon
  <2>6. Telling(st, d, W, U \cup {s}, A, x)
    <3>1. ASSUME NEW t \in DOMAIN st.ws, t # s
          PROVE  x[t].urgent <=> IF t \in U \cup {s} THEN IsUrgent(d, t) ELSE st.ws[t].urgent
      BY <2>4, <3>1 DEF Telling
    <3>2. x[s].urgent <=> IsUrgent(d, s)
      BY <1>00, <2>5
    <3>3. ASSUME NEW t \in DOMAIN st.ws
          PROVE  /\ IsWs(d, t, x[t]) /\ x[t].window = u.ws[t].window
                 /\ x[t].active = u.ws[t].active /\ x[t].focused = u.ws[t].focused
                 /\ x[t].urgent <=> IF t \in U \cup {s} THEN IsUrgent(d, t) ELSE st.ws[t].urgent
      <4>1. CASE t = s
        BY <2>5, <3>2, <4>1
      <4>2. CASE t # s
        <5>1. x[t] = u.ws[t]
          BY <2>4, <4>2
        <5>2. IsWs(d, t, u.ws[t])
          BY DEF Telling
        <5>. QED  BY <3>1, <4>2, <5>1, <5>2
      <4>. QED  BY <4>1, <4>2
    <3>4. ASSUME NEW t \in DOMAIN st.ws
          PROVE  /\ IsWs(d, t, x[t])
                 /\ x[t].window = IF t \in W THEN ActiveWindow(d, t) ELSE st.ws[t].window
                 /\ x[t].urgent <=> IF t \in U \cup {s} THEN IsUrgent(d, t) ELSE st.ws[t].urgent
                 /\ x[t].active <=> IF \E a \in A : OutputOf(d, a) = OutputOf(d, t) /\ IsActive(d, a)
                                    THEN IsActive(d, t) ELSE st.ws[t].active
                 /\ x[t].focused <=> IF \E a \in A : IsFocused(d, a)
                                     THEN IsFocused(d, t) ELSE st.ws[t].focused
      BY <3>3 DEF Telling
    <3>. QED  BY <2>4, <3>4, Zenon DEF Telling
  <2>. QED  BY <2>1, <2>3, <2>6 DEF WsLeads
<1>3. CASE ~c
  <2>1. ApplyAll(u, If(c, e)) = u
    BY <1>3, ApplyIf
  <2>2. st.ws[s].urgent <=> IsUrgent(d, s)
    BY <1>3 DEF OldWorkspaces, IsWs
  <2>3. Telling(st, d, W, U \cup {s}, A, u.ws)
    BY <2>2 DEF Telling
  <2>4. u = Having(u, u.ws)
    BY HavingSame
  <2>. QED  BY <2>1, <2>3, <2>4 DEF WsLeads
<1>. QED  BY <1>2, <1>3

\* Whichever of the two events tells of the workspace that is shown, or neither.
LEMMA ActivationTold ==
    ASSUME NEW st, NEW d, IsDesk(d), OldWorkspaces(st, d), NEW u, IsState(u), NEW W, NEW U, NEW A,
           Telling(st, d, W, U, A, u.ws), NEW s \in DOMAIN st.ws, NEW q,
           q = IF IsFocused(d, s) /\ ~st.ws[s].focused
               THEN <<[ev |-> "WorkspaceActivated", id |-> s, focused |-> TRUE]>>
               ELSE If(IsActive(d, s) /\ ~st.ws[s].active,
                       [ev |-> "WorkspaceActivated", id |-> s, focused |-> FALSE])
    PROVE  IsSeq(q) /\ WsLeads(u, q, st, d, W, U, A \cup {s})
<1>0. /\ \A t : IsActive(d, s) /\ IsActive(d, t) /\ OutputOf(d, s) = OutputOf(d, t) => s = t
      /\ \A t : IsFocused(d, s) /\ IsFocused(d, t) => s = t
      /\ IsFocused(d, s) => IsActive(d, s)
  BY OneActive, FocusedIsActive
<1>1. /\ u.ws = [t \in DOMAIN st.ws |-> u.ws[t]]
      /\ \A t \in DOMAIN st.ws : IsWs(d, t, u.ws[t])
  BY DEF Telling
<1>2. ASSUME NEW foc \in BOOLEAN, NEW e,
             e = [ev |-> "WorkspaceActivated", id |-> s, focused |-> foc],
             IsActive(d, s), foc <=> IsFocused(d, s) /\ ~st.ws[s].focused,
             IsFocused(d, s) /\ st.ws[s].focused => st.ws[s].active, ~foc => ~st.ws[s].active
      PROVE  \E x : /\ apply(u, e) = Having(u, x)
                    /\ Telling(st, d, W, U, A \cup {s}, x)
  <2>1. PICK x : x = [t \in DOMAIN u.ws |->
                 [u.ws[t] EXCEPT !.active = IF u.ws[t].output = u.ws[s].output THEN t = s ELSE @,
                                 !.focused = IF foc THEN t = s ELSE @]]
    OBVIOUS
  <2>2. apply(u, e) = Having(u, x)
    <3>1. e.ev = "WorkspaceActivated" /\ e.id = s /\ e.focused = foc /\ s \in DOMAIN u.ws
      BY <1>1, <1>2
    <3>2. PICK y : y = [t \in DOMAIN u.ws |->
                 [u.ws[t] EXCEPT !.active = IF u.ws[t].output = u.ws[e.id].output THEN t = e.id ELSE @,
                                 !.focused = IF e.focused THEN t = e.id ELSE @]]
      OBVIOUS
    <3>3. apply(u, e) = [u EXCEPT !.ws = y]
      <4>1. apply(u, e) = ApplyWorkspace(u, e)
        BY <3>1 DEF apply, WorkspaceEvents
      <4>2. e.id \in DOMAIN u.ws
        BY <3>1
      <4>3. ApplyWorkspace(u, e) = [u EXCEPT !.ws = y]
        BY <3>1, <3>2, <4>2 DEF ApplyWorkspace
      <4>. QED  BY <4>1, <4>3
    <3>4. y = x
      BY <2>1, <3>1, <3>2, Zenon
    <3>. QED  BY <3>3, <3>4, Zenon DEF Having
  <2>3. x = [t \in DOMAIN st.ws |-> x[t]]
    BY <1>1, <2>1
  <2>4. ASSUME NEW t \in DOMAIN st.ws
        PROVE  /\ IsWs(d, t, x[t])
               /\ x[t].window = u.ws[t].window /\ x[t].urgent = u.ws[t].urgent
               /\ x[t].active <=> IF OutputOf(d, t) = OutputOf(d, s) THEN t = s ELSE u.ws[t].active
               /\ x[t].focused <=> IF foc THEN t = s ELSE u.ws[t].focused
    <3>1. PICK r, z : r = u.ws[t] /\ z = x[t]
      OBVIOUS
    <3>2. /\ r.active \in BOOLEAN /\ r.focused \in BOOLEAN /\ IsWs(d, t, r)
          /\ u.ws[t].output = OutputOf(d, t) /\ u.ws[s].output = OutputOf(d, s)
      BY <1>1, <3>1, WsFields, Zenon
    <3>3. PICK b \in BOOLEAN : b = IF OutputOf(d, t) = OutputOf(d, s) THEN t = s ELSE r.active
      BY <3>2
    <3>4. PICK f \in BOOLEAN : f = IF foc THEN t = s ELSE r.focused
      BY <3>2
    <3>5. PICK y : y = [r EXCEPT !.active = b]
      OBVIOUS
    <3>6. z = [y EXCEPT !.focused = f]
      <4>1. z = [r EXCEPT !.active = b, !.focused = f]
        BY <1>1, <2>1, <3>1, <3>2, <3>3, <3>4
      <4>. QED  BY <3>5, <4>1, Zenon
    <3>7. /\ IsWs(d, t, y) /\ y.active = b
          /\ y.window = r.window /\ y.urgent = r.urgent /\ y.focused = r.focused
      BY <3>2, <3>5, WithActive
    <3>8. /\ IsWs(d, t, z) /\ z.focused = f
          /\ z.window = y.window /\ z.urgent = y.urgent /\ z.active = y.active
      BY <3>6, <3>7, WithFocus
    <3>. QED  BY <3>1, <3>3, <3>4, <3>7, <3>8
  <2>5. ASSUME NEW t \in DOMAIN st.ws
        PROVE  /\ x[t].active <=> IF \E a \in A \cup {s} : OutputOf(d, a) = OutputOf(d, t) /\ IsActive(d, a)
                                  THEN IsActive(d, t) ELSE st.ws[t].active
               /\ x[t].focused <=> IF \E a \in A \cup {s} : IsFocused(d, a)
                                   THEN IsFocused(d, t) ELSE st.ws[t].focused
    BY <1>0, <1>2, <2>4 DEF Telling, OldWorkspaces
  <2>6. Telling(st, d, W, U, A \cup {s}, x)
    BY <2>3, <2>4, <2>5 DEF Telling
  <2>. QED  BY <2>2, <2>6
<1>7. CASE IsFocused(d, s) /\ ~st.ws[s].focused
  <2>1. PICK e : e = [ev |-> "WorkspaceActivated", id |-> s, focused |-> TRUE]
    OBVIOUS
  <2>2. q = <<e>> /\ <<e>> \in Seq({e})
    <3>1. q = <<e>>
      BY <1>7, <2>1, Zenon
    <3>2. <<e>> \in Seq({e})
      OBVIOUS
    <3>. QED  BY <3>1, <3>2
  <2>3. IsSeq(q) /\ ApplyAll(u, q) = apply(u, e)
    BY <2>2, SeqIsSeq, ApplyOne
  <2>. QED  BY <1>0, <1>2, <1>7, <2>1, <2>3 DEF WsLeads
<1>8. CASE ~(IsFocused(d, s) /\ ~st.ws[s].focused) /\ IsActive(d, s) /\ ~st.ws[s].active
  <2>1. PICK e : e = [ev |-> "WorkspaceActivated", id |-> s, focused |-> FALSE]
    OBVIOUS
  <2>2. q = <<e>> /\ <<e>> \in Seq({e})
    <3>1. q = <<e>>
      BY <1>8, <2>1, Zenon DEF If
    <3>2. <<e>> \in Seq({e})
      OBVIOUS
    <3>. QED  BY <3>1, <3>2
  <2>3. IsSeq(q) /\ ApplyAll(u, q) = apply(u, e)
    BY <2>2, SeqIsSeq, ApplyOne
  <2>4. ~IsFocused(d, s)
    BY <1>8 DEF OldWorkspaces
  <2>. QED  BY <1>2, <1>8, <2>1, <2>3, <2>4 DEF WsLeads
<1>9. CASE ~(IsFocused(d, s) /\ ~st.ws[s].focused) /\ ~(IsActive(d, s) /\ ~st.ws[s].active)
  <2>1. q = <<>> /\ <<>> \in Seq({})
    BY <1>9 DEF If
  <2>2. IsSeq(q) /\ ApplyAll(u, q) = u
    BY <2>1, SeqIsSeq, ApplyNone
  <2>3. Telling(st, d, W, U, A \cup {s}, u.ws)
    BY <1>0, <1>9 DEF Telling, OldWorkspaces
  <2>4. u = Having(u, u.ws)
    BY HavingSame
  <2>. QED  BY <2>2, <2>3, <2>4 DEF WsLeads
<1>. QED  BY <1>7, <1>8, <1>9

\* All that is told of one workspace.
LEMMA WorkspaceTold ==
    ASSUME NEW st, NEW d, IsDesk(d), OldWorkspaces(st, d), NEW u, IsState(u), NEW D,
           Telling(st, d, D, D, D, u.ws), NEW s \in DOMAIN st.ws
    PROVE  /\ IsSeq(WorkspaceDiff(st, d, s))
           /\ \E x : /\ ApplyAll(u, WorkspaceDiff(st, d, s)) = Having(u, x)
                     /\ Telling(st, d, D \cup {s}, D \cup {s}, D \cup {s}, x)
<1>1. PICK b \in BOOLEAN : b = IsUrgent(d, s)
  BY DEF IsUrgent
<1>2. PICK c1 \in BOOLEAN : c1 <=> st.ws[s].window # ActiveWindow(d, s)
  OBVIOUS
<1>3. PICK c2 \in BOOLEAN : c2 <=> st.ws[s].urgent # b
  OBVIOUS
<1>4. PICK e1 : e1 = [ev |-> "WorkspaceActiveWindowChanged", id |-> s, window |-> ActiveWindow(d, s)]
  OBVIOUS
<1>5. PICK e2 : e2 = [ev |-> "WorkspaceUrgencyChanged", id |-> s, urgent |-> b]
  OBVIOUS
<1>6. PICK q : q = IF IsFocused(d, s) /\ ~st.ws[s].focused
                   THEN <<[ev |-> "WorkspaceActivated", id |-> s, focused |-> TRUE]>>
                   ELSE If(IsActive(d, s) /\ ~st.ws[s].active,
                           [ev |-> "WorkspaceActivated", id |-> s, focused |-> FALSE])
  OBVIOUS
<1>7. PICK p1, p2 : p1 = If(c1, e1) /\ p2 = If(c2, e2)
  OBVIOUS
<1>8. WorkspaceDiff(st, d, s) = (p1 \o p2) \o q
  <2>1. PICK new : new = IpcWorkspace(d, s)
    OBVIOUS
  <2>2. /\ new.window = ActiveWindow(d, s) /\ new.urgent = b
        /\ new.focused = IsFocused(d, s) /\ new.active = IsActive(d, s)
    BY <1>1, <2>1 DEF IpcWorkspace
  <2>3. If(st.ws[s].window # new.window,
           [ev |-> "WorkspaceActiveWindowChanged", id |-> s, window |-> new.window]) = p1
    BY <1>2, <1>4, <1>7, <2>2, Zenon DEF If
  <2>4. If(st.ws[s].urgent # new.urgent,
           [ev |-> "WorkspaceUrgencyChanged", id |-> s, urgent |-> new.urgent]) = p2
    BY <1>3, <1>5, <1>7, <2>2, Zenon DEF If
  <2>5. (IF new.focused /\ ~st.ws[s].focused
         THEN <<[ev |-> "WorkspaceActivated", id |-> s, focused |-> TRUE]>>
         ELSE If(new.active /\ ~st.ws[s].active,
                 [ev |-> "WorkspaceActivated", id |-> s, focused |-> FALSE])) = q
    BY <1>6, <2>2, Zenon DEF If
  <2>. QED  BY <2>1, <2>3, <2>4, <2>5, Zenon DEF WorkspaceDiff
<1>9. IsSeq(p1) /\ IsSeq(p2)
  BY <1>7, ApplyIf
<1>10. PICK x1 : ApplyAll(u, p1) = Having(u, x1) /\ Telling(st, d, D \cup {s}, D, D, x1)
  <2>1. WsLeads(u, If(c1, e1), st, d, D \cup {s}, D, D)
    BY <1>2, <1>4, WindowTold
  <2>. QED  BY <1>7, <2>1 DEF WsLeads
<1>11. PICK u1 : u1 = Having(u, x1)
  OBVIOUS
<1>12. IsState(u1) /\ u1.ws = x1 /\ \A v : Having(u1, v) = Having(u, v)
  BY <1>11, HavingIs, HavingTwice
<1>13. PICK x2 : ApplyAll(u1, p2) = Having(u1, x2) /\ Telling(st, d, D \cup {s}, D \cup {s}, D, x2)
  <2>1. IsState(u1) /\ Telling(st, d, D \cup {s}, D, D, u1.ws)
    BY <1>10, <1>12
  <2>2. b <=> IsUrgent(d, s)
    BY <1>1
  <2>3. WsLeads(u1, If(c2, e2), st, d, D \cup {s}, D \cup {s}, D)
    <3>1. e2.ev = "WorkspaceUrgencyChanged" /\ e2.id = s /\ e2.urgent = IsUrgent(d, s)
      BY <1>1, <1>5
    <3>2. c2 <=> (st.ws[s].urgent # IsUrgent(d, s))
      BY <1>1, <1>3
    <3>. QED  BY <2>1, <3>1, <3>2, UrgencyTold
  <2>. QED  BY <1>7, <2>3 DEF WsLeads
<1>14. PICK u2 : u2 = Having(u1, x2)
  OBVIOUS
<1>15. IsState(u2) /\ u2.ws = x2 /\ \A v : Having(u2, v) = Having(u1, v)
  BY <1>12, <1>14, HavingIs, HavingTwice
<1>16. IsSeq(q) /\ WsLeads(u2, q, st, d, D \cup {s}, D \cup {s}, D \cup {s})
  <2>1. Telling(st, d, D \cup {s}, D \cup {s}, D, u2.ws)
    BY <1>13, <1>15
  <2>. QED  BY <1>6, <1>15, <2>1, ActivationTold, Zenon
<1>17. PICK x : ApplyAll(u2, q) = Having(u2, x) /\ Telling(st, d, D \cup {s}, D \cup {s}, D \cup {s}, x)
  BY <1>16 DEF WsLeads
<1>18. IsSeq(p1 \o p2) /\ IsSeq((p1 \o p2) \o q)
  BY <1>9, <1>16, ConcatIsSeq
<1>19. ApplyAll(u, (p1 \o p2) \o q) = ApplyAll(u2, q)
  BY <1>9, <1>10, <1>11, <1>13, <1>14, <1>16, <1>18, ApplyConcat
<1>20. Having(u2, x) = Having(u, x)
  BY <1>12, <1>15
<1>. QED  BY <1>8, <1>17, <1>18, <1>19, <1>20

\* When all has been told the list is the desktop's.
LEMMA AllTold ==
    ASSUME NEW st, NEW d, IsDesk(d), OldWorkspaces(st, d), NEW x,
           NEW D, D = DOMAIN st.ws, Telling(st, d, D, D, D, x)
    PROVE  x = AllWorkspaces(d)
<1>1. ASSUME NEW t \in Workspaces(d) PROVE x[t] = IpcWorkspace(d, t)
  <2>1. t \in DOMAIN st.ws /\ D = Workspaces(d)
    BY DEF OldWorkspaces
  <2>2. PICK r : r = x[t]
    OBVIOUS
  <2>3. IsWs(d, t, r) /\ r.window = ActiveWindow(d, t) /\ (r.urgent <=> IsUrgent(d, t))
    BY <2>1, <2>2 DEF Telling
  <2>4. r.active <=> IsActive(d, t)
    <3>1. CASE OutputOf(d, t) = Nil
      BY <2>1, <2>2, <3>1 DEF Telling, OldWorkspaces, IsActive
    <3>2. CASE OutputOf(d, t) # Nil
      <4>1. PICK a \in Workspaces(d) : OutputOf(d, a) = OutputOf(d, t) /\ IsActive(d, a)
        BY <3>2, HasPlace, SomeActive
      <4>. QED  BY <2>1, <2>2, <4>1 DEF Telling
    <3>. QED  BY <3>1, <3>2
  <2>5. r.focused <=> IsFocused(d, t)
    <3>1. CASE Connected(d) = {}
      <4>1. \A a : OutputOf(d, a) = Nil
        BY <3>1 DEF OutputOf
      <4>2. ~IsFocused(d, t) /\ ~st.ws[t].focused
        BY <2>1, <4>1 DEF IsFocused, OldWorkspaces
      <4>. QED  BY <2>1, <2>2, <4>2 DEF Telling
    <3>2. CASE Connected(d) # {}
      <4>1. PICK a \in Workspaces(d) : IsFocused(d, a)
        BY <3>2, FocusedIsActive
      <4>. QED  BY <2>1, <2>2, <4>1 DEF Telling
    <3>. QED  BY <3>1, <3>2
  <2>6. r = [idx |-> WsIdx(d, t), name |-> d.name[t], output |-> OutputOf(d, t),
             urgent |-> r.urgent, active |-> r.active, focused |-> r.focused, window |-> r.window]
    BY <2>3 DEF IsWs
  <2>7. r.active = IsActive(d, t) /\ r.focused = IsFocused(d, t) /\ r.urgent = IsUrgent(d, t)
    BY <2>3, <2>4, <2>5 DEF IsWs, IsActive, IsFocused, IsUrgent
  <2>. QED  BY <2>2, <2>3, <2>6, <2>7, Zenon DEF IpcWorkspace
<1>2. x = [t \in Workspaces(d) |-> x[t]]
  BY DEF Telling, OldWorkspaces
<1>. QED  BY <1>1, <1>2 DEF AllWorkspaces

\* The events of each workspace, one after the other.
LEMMA EachTold ==
    ASSUME NEW st, NEW d, IsDesk(d), OldWorkspaces(st, d), NEW u, IsState(u), u.ws = st.ws,
           NEW all, all = SetToSeq(Workspaces(d)),
           NEW seqs, seqs = [i \in DOMAIN all |-> WorkspaceDiff(st, d, all[i])]
    PROVE  /\ IsSeq(FlattenSeq(seqs))
           /\ ApplyAll(u, FlattenSeq(seqs)) = Having(u, AllWorkspaces(d))
<1>0. PICK n \in Nat : Lists(all, n, Workspaces(d))
  BY WorkspacesFinite, SeqOfSet
<1>1. /\ n \in Nat
      /\ all \in [1 .. n -> Workspaces(d)]
      /\ \A e \in Workspaces(d) : \E i \in 1 .. n : all[i] = e
  BY <1>0 DEF Lists
<1>2. Workspaces(d) = DOMAIN st.ws
  BY DEF OldWorkspaces
<1>3. seqs = [i \in 1 .. n |-> seqs[i]] /\ \A i \in 1 .. n : seqs[i] = WorkspaceDiff(st, d, all[i])
  BY <1>1
<1>4. Telling(st, d, {}, {}, {}, st.ws)
  BY DEF Telling, OldWorkspaces
<1>5. \A i \in 1 .. n : IsSeq(seqs[i])
  <2>1. ASSUME NEW i \in 1 .. n PROVE IsSeq(seqs[i])
    <3>1. all[i] \in DOMAIN st.ws
      BY <1>1, <1>2
    <3>2. Telling(st, d, {}, {}, {}, u.ws)
      BY <1>4
    <3>3. IsSeq(WorkspaceDiff(st, d, all[i]))
      BY <3>1, <3>2, WorkspaceTold
    <3>. QED  BY <1>3, <3>3
  <2>. QED  BY <2>1
<1>6. PICK after : /\ after[0] = u
                   /\ \A i \in 1 .. n : after[i] = ApplyAll(after[i - 1], seqs[i])
                   /\ ApplyAll(u, FlattenSeq(seqs)) = after[n]
  <2>1. PICK after : LeadThrough(after, u, seqs, n) /\ ApplyAll(u, FlattenSeq(seqs)) = after[n]
    <3>1. LeadTo(u, seqs, n, ApplyAll(u, FlattenSeq(seqs)))
      BY <1>3, <1>5, ApplyFlat
    <3>. QED  BY <3>1 DEF LeadTo
  <2>. QED  BY <2>1 DEF LeadThrough
<1>7. PICK done : done = [i \in 0 .. n |-> {all[j] : j \in 1 .. i}]
  OBVIOUS
<1>8. PICK bad : bad = {i \in 0 .. n : ~\E x : /\ after[i] = Having(u, x)
                                               /\ Telling(st, d, done[i], done[i], done[i], x)}
  OBVIOUS
<1>9. bad = {}
  <2>1. SUFFICES ASSUME bad # {} PROVE FALSE
    OBVIOUS
  <2>2. bad \subseteq Nat
    BY <1>8
  <2>3. PICK i \in bad : \A j \in bad : i <= j
    BY <2>1, <2>2, LeastNatural
  <2>4. i \in 0 .. n
    BY <1>8, <2>3
  <2>5. CASE i = 0
    <3>1. done[0] = {}
      BY <1>7
    <3>2. after[0] = Having(u, st.ws)
      BY <1>6, HavingSame
    <3>. QED  BY <1>4, <1>8, <2>3, <2>5, <3>1, <3>2
  <2>6. CASE i # 0
    <3>1. i - 1 \in 0 .. n /\ i - 1 \notin bad /\ i \in 1 .. n
      BY <2>3, <2>4, <2>6
    <3>2. PICK x : after[i - 1] = Having(u, x) /\ Telling(st, d, done[i - 1], done[i - 1], done[i - 1], x)
      BY <1>8, <3>1
    <3>3. PICK v : v = after[i - 1]
      OBVIOUS
    <3>4. IsState(v) /\ v.ws = x /\ \A y : Having(v, y) = Having(u, y)
      BY <3>2, <3>3, HavingIs, HavingTwice
    <3>5. PICK s : s = all[i]
      OBVIOUS
    <3>6. s \in DOMAIN st.ws
      BY <1>1, <1>2, <3>1, <3>5
    <3>7. done[i] = done[i - 1] \cup {s}
      <4>1. done[i] = {all[j] : j \in 1 .. i} /\ done[i - 1] = {all[j] : j \in 1 .. i - 1}
        BY <1>7, <2>4, <3>1
      <4>2. 1 .. i = (1 .. i - 1) \cup {i}
        BY <3>1
      <4>. QED  BY <3>5, <4>1, <4>2
    <3>8. Telling(st, d, done[i - 1], done[i - 1], done[i - 1], v.ws)
      BY <3>2, <3>4
    <3>9. PICK y : /\ ApplyAll(v, WorkspaceDiff(st, d, s)) = Having(v, y)
                   /\ Telling(st, d, done[i - 1] \cup {s}, done[i - 1] \cup {s}, done[i - 1] \cup {s}, y)
      BY <3>4, <3>6, <3>8, WorkspaceTold
    <3>10. after[i] = Having(u, y) /\ Telling(st, d, done[i], done[i], done[i], y)
      BY <1>3, <1>6, <3>1, <3>3, <3>4, <3>5, <3>7, <3>9
    <3>. QED  BY <1>8, <2>3, <3>10
  <2>. QED  BY <2>5, <2>6
<1>10. n \in 0 .. n /\ n \notin bad
  BY <1>9
<1>11. PICK x : after[n] = Having(u, x) /\ Telling(st, d, done[n], done[n], done[n], x)
  BY <1>8, <1>10
<1>12. done[n] = DOMAIN st.ws
  <2>1. done[n] = {all[j] : j \in 1 .. n}
    BY <1>7, <1>10
  <2>. QED  BY <1>1, <1>2, <2>1
<1>13. x = AllWorkspaces(d)
  BY <1>11, <1>12, AllTold
<1>14. IsSeq(FlattenSeq(seqs))
  BY <1>3, <1>5, ApplyFlat
<1>. QED  BY <1>6, <1>11, <1>13, <1>14

\* The server's list is that of an earlier desktop.
LEMMA OldIsOld ==
    ASSUME NEW st, NEW d, NEW c, IsDesk(c), IsDesk(d), st.ws = AllWorkspaces(c),
           Workspaces(d) = DOMAIN st.ws,
           \A s \in Workspaces(d) : /\ st.ws[s].idx = WsIdx(d, s)
                                    /\ st.ws[s].name = d.name[s]
                                    /\ st.ws[s].output = OutputOf(d, s)
    PROVE  OldWorkspaces(st, d)
<1>1. DOMAIN st.ws = Workspaces(c) /\ st.ws = [s \in DOMAIN st.ws |-> st.ws[s]]
  BY DEF AllWorkspaces
<1>2. ASSUME NEW s \in DOMAIN st.ws
      PROVE  /\ IsWs(d, s, st.ws[s])
             /\ OutputOf(d, s) = OutputOf(c, s)
             /\ st.ws[s].active <=> IsActive(c, s)
             /\ st.ws[s].focused <=> IsFocused(c, s)
  <2>1. PICK r : r = st.ws[s]
    OBVIOUS
  <2>2. r = IpcWorkspace(c, s)
    BY <1>1, <2>1 DEF AllWorkspaces
  <2>3. r.idx = WsIdx(d, s) /\ r.name = d.name[s] /\ r.output = OutputOf(d, s)
    BY <2>1
  <2>4. /\ r.active = IsActive(c, s) /\ r.focused = IsFocused(c, s)
        /\ r.urgent = IsUrgent(c, s) /\ r.output = OutputOf(c, s)
    BY <2>2 DEF IpcWorkspace
  <2>5. /\ IsActive(c, s) \in BOOLEAN /\ IsFocused(c, s) \in BOOLEAN /\ IsUrgent(c, s) \in BOOLEAN
    BY DEF IsActive, IsFocused, IsUrgent
  <2>6. r = [idx |-> r.idx, name |-> r.name, output |-> r.output, urgent |-> r.urgent,
             active |-> r.active, focused |-> r.focused, window |-> r.window]
    BY <2>2 DEF IpcWorkspace
  <2>7. IsWs(d, s, r)
    BY <2>3, <2>4, <2>5, <2>6, Zenon DEF IsWs
  <2>. QED  BY <2>1, <2>3, <2>4, <2>7
<1>3. \A s, t \in DOMAIN st.ws :
         st.ws[s].active /\ st.ws[t].active /\ OutputOf(d, s) = OutputOf(d, t) => s = t
  BY <1>2, OneActive
<1>4. \A s, t \in DOMAIN st.ws : st.ws[s].focused /\ st.ws[t].focused => s = t
  BY <1>2, FocusedIsActive
<1>5. \A s \in DOMAIN st.ws : /\ st.ws[s].focused => st.ws[s].active
                              /\ st.ws[s].active => OutputOf(d, s) # Nil
  BY <1>2, FocusedIsActive DEF IsActive
<1>. QED  BY <1>1, <1>2, <1>3, <1>4, <1>5 DEF OldWorkspaces

LEMMA WorkspacesRefreshed ==
    ASSUME NEW st, NEW d, NEW c, IsDesk(c), IsDesk(d), st.ws = AllWorkspaces(c),
           NEW u, IsState(u), u.ws = st.ws
    PROVE  /\ IsSeq(ipc_refresh_workspaces(st, d))
           /\ ApplyAll(u, ipc_refresh_workspaces(st, d)) = Having(u, AllWorkspaces(d))
<1>1. PICK all : all = SetToSeq(Workspaces(d))
  OBVIOUS
<1>2. PICK seqs : seqs = [i \in DOMAIN all |-> WorkspaceDiff(st, d, all[i])]
  OBVIOUS
<1>3. PICK told : told <=> /\ Workspaces(d) = DOMAIN st.ws
                           /\ \A s \in Workspaces(d) : /\ s \in DOMAIN st.ws
                                                       /\ st.ws[s].idx = WsIdx(d, s)
                                                       /\ st.ws[s].name = d.name[s]
                                                       /\ st.ws[s].output = OutputOf(d, s)
  OBVIOUS
<1>4. CASE told
  <2>1. ipc_refresh_workspaces(st, d) = FlattenSeq(seqs)
    BY <1>1, <1>2, <1>3, <1>4, Zenon DEF ipc_refresh_workspaces
  <2>2. OldWorkspaces(st, d)
    BY <1>3, <1>4, OldIsOld
  <2>. QED  BY <1>1, <1>2, <2>1, <2>2, EachTold
<1>5. CASE ~told
  <2>1. PICK e : e = [ev |-> "WorkspacesChanged", workspaces |-> AllWorkspaces(d)]
    OBVIOUS
  <2>2. ipc_refresh_workspaces(st, d) = <<e>>
    BY <1>3, <1>5, <2>1, Zenon DEF ipc_refresh_workspaces
  <2>3. <<e>> \in Seq({e})
    OBVIOUS
  <2>4. IsSeq(<<e>>) /\ ApplyAll(u, <<e>>) = apply(u, e)
    BY <2>3, SeqIsSeq, ApplyOne
  <2>5. apply(u, e) = Having(u, AllWorkspaces(d))
    BY <2>1 DEF apply, ApplyWorkspace, WorkspaceEvents, Having
  <2>. QED  BY <2>2, <2>4, <2>5
<1>. QED  BY <1>4, <1>5

----------------------------------------------------------------------------
\* The windows.

\* The server's copy, with its windows as they are told.
HavingWin(u, x) == [u EXCEPT !.win = x]

LEMMA HavingWinIs ==
    ASSUME NEW u, IsState(u), NEW x, NEW y, y = HavingWin(u, x)
    PROVE  /\ IsState(y) /\ y.win = x
           /\ y.ws = u.ws /\ y.kb = u.kb /\ y.overview = u.overview
           /\ y.failed = u.failed /\ y.casts = u.casts
<1>1. y = [ws |-> u.ws, win |-> x, kb |-> u.kb, overview |-> u.overview,
           failed |-> u.failed, casts |-> u.casts, ok |-> u.ok]
  BY DEF IsState, HavingWin
<1>2. /\ y.win = x /\ y.ok = u.ok
      /\ y.ws = u.ws /\ y.kb = u.kb /\ y.overview = u.overview
      /\ y.failed = u.failed /\ y.casts = u.casts
  BY <1>1
<1>3. u.ok = TRUE
  BY DEF IsState
<1>. QED  BY <1>1, <1>2, <1>3 DEF IsState

LEMMA HavingWinTwice ==
    ASSUME NEW u, IsState(u), NEW x, NEW y, y = HavingWin(u, x), NEW v
    PROVE  HavingWin(y, v) = HavingWin(u, v)
  BY DEF IsState, HavingWin

LEMMA HavingWinSame ==
    ASSUME NEW u, IsState(u)
    PROVE  HavingWin(u, u.win) = u
  BY DEF IsState, HavingWin

\* The record of a window.
IsWin(r) ==
    /\ r = [ws |-> r.ws, info |-> r.info, layout |-> r.layout,
            urgent |-> r.urgent, ts |-> r.ts, focused |-> r.focused]
    /\ r.focused \in BOOLEAN

SameBut(r, z) ==
    /\ IsWin(z)
    /\ z.ws = r.ws /\ z.info = r.info

LEMMA WithTs ==
    ASSUME NEW r, IsWin(r), NEW b, NEW z, z = [r EXCEPT !.ts = b]
    PROVE  /\ SameBut(r, z) /\ z.ts = b
           /\ z.layout = r.layout /\ z.urgent = r.urgent /\ z.focused = r.focused
  BY DEF IsWin, SameBut

LEMMA WithWinUrgency ==
    ASSUME NEW r, IsWin(r), NEW b, NEW z, z = [r EXCEPT !.urgent = b]
    PROVE  /\ SameBut(r, z) /\ z.urgent = b
           /\ z.layout = r.layout /\ z.ts = r.ts /\ z.focused = r.focused
  BY DEF IsWin, SameBut

AnotherLayout(r, z, b) ==
    /\ SameBut(r, z) /\ z.layout = b
    /\ z.urgent = r.urgent /\ z.ts = r.ts /\ z.focused = r.focused

LEMMA WithLayout ==
    ASSUME NEW r, IsWin(r), NEW b, NEW z, z = [r EXCEPT !.layout = b]
    PROVE  AnotherLayout(r, z, b)
  BY DEF IsWin, SameBut, AnotherLayout

LEMMA WithWinFocus ==
    ASSUME NEW r, IsWin(r), NEW b \in BOOLEAN, NEW z, z = [r EXCEPT !.focused = b]
    PROVE  /\ SameBut(r, z) /\ z.focused = b
           /\ z.urgent = r.urgent /\ z.ts = r.ts /\ z.layout = r.layout
  BY DEF IsWin, SameBut

OldWindows(st) ==
    /\ st.win = [v \in DOMAIN st.win |-> st.win[v]]
    /\ \A v \in DOMAIN st.win : IsWin(st.win[v])
    /\ \A v, w \in DOMAIN st.win : st.win[v].focused /\ st.win[w].focused => v = w

\* What they are once the windows of D, the focus of F, the timestamps of T and the
\* urgency of G is told.
WinTelling(st, d, D, F, T, G, x) ==
    /\ x = [v \in DOMAIN st.win \cup D |-> x[v]]
    /\ \A v \in DOMAIN st.win \cup D :
          /\ IsWin(x[v])
          /\ x[v].ws = IF v \in D THEN d.win[v].ws ELSE st.win[v].ws
          /\ x[v].info = IF v \in D THEN d.win[v].info ELSE st.win[v].info
          /\ x[v].layout = IF v \in D /\ SentWhole(st, d, v) THEN d.win[v].shape ELSE st.win[v].layout
          /\ x[v].ts = IF v \in T THEN d.win[v].ts ELSE st.win[v].ts
          /\ x[v].urgent = IF v \in G THEN d.win[v].urgent ELSE st.win[v].urgent
          /\ x[v].focused <=> IF d.focus \in F THEN v = d.focus
                              ELSE IF v \in D /\ SentWhole(st, d, v) THEN FALSE ELSE st.win[v].focused

LEMMA IpcWindowIs ==
    ASSUME NEW d, NEW w, NEW r, r = IpcWindow(d, w)
    PROVE  /\ IsWin(r)
           /\ r.ws = d.win[w].ws /\ r.info = d.win[w].info /\ r.layout = d.win[w].shape
           /\ r.urgent = d.win[w].urgent /\ r.ts = d.win[w].ts /\ (r.focused <=> d.focus = w)
  BY DEF IpcWindow, IsWin

LEMMA WholeTold ==
    ASSUME NEW st, NEW d, OldWindows(st), NEW u, IsState(u), NEW D,
           WinTelling(st, d, D, D, D, D, u.win), NEW w, w \notin D, SentWhole(st, d, w),
           NEW e, e = [ev |-> "WindowOpenedOrChanged", id |-> w, window |-> IpcWindow(d, w)]
    PROVE  \E x : /\ apply(u, e) = HavingWin(u, x)
                  /\ WinTelling(st, d, D \cup {w}, D \cup {w}, D \cup {w}, D \cup {w}, x)
<1>1. PICK new : new = IpcWindow(d, w)
  OBVIOUS
<1>2. /\ IsWin(new)
      /\ new.ws = d.win[w].ws /\ new.info = d.win[w].info /\ new.layout = d.win[w].shape
      /\ new.urgent = d.win[w].urgent /\ new.ts = d.win[w].ts /\ (new.focused <=> d.focus = w)
  BY <1>1, IpcWindowIs
<1>3. PICK wins : wins = Inserted(u.win, w, new)
  OBVIOUS
<1>4. /\ DOMAIN wins = DOMAIN u.win \cup {w} /\ wins[w] = new
      /\ \A v \in DOMAIN u.win : v # w => wins[v] = u.win[v]
  BY <1>3 DEF Inserted
<1>5. PICK x : x = [v \in DOMAIN wins |-> IF v # w /\ new.focused
                                          THEN [wins[v] EXCEPT !.focused = FALSE] ELSE wins[v]]
  OBVIOUS
<1>6. apply(u, e) = HavingWin(u, x)
  <2>1. e.ev = "WindowOpenedOrChanged" /\ e.id = w /\ e.window = new
    BY <1>1
  <2>2. apply(u, e) = ApplyWindow(u, e)
    BY <2>1 DEF apply, WorkspaceEvents, WindowEvents
  <2>. QED  BY <1>3, <1>5, <2>1, <2>2 DEF ApplyWindow, HavingWin
<1>7. DOMAIN u.win = DOMAIN st.win \cup D
  BY DEF WinTelling
<1>8. x = [v \in DOMAIN st.win \cup (D \cup {w}) |-> x[v]] /\ x[w] = new
  BY <1>4, <1>5, <1>7
<1>9. ASSUME NEW v \in DOMAIN u.win, v # w
      PROVE  /\ SameBut(u.win[v], x[v])
             /\ x[v].layout = u.win[v].layout /\ x[v].ts = u.win[v].ts
             /\ x[v].urgent = u.win[v].urgent
             /\ x[v].focused <=> (u.win[v].focused /\ d.focus # w)
  <2>1. PICK r, z : r = u.win[v] /\ z = x[v]
    OBVIOUS
  <2>2. IsWin(r)
    BY <1>7, <2>1 DEF WinTelling
  <2>3. z = IF new.focused THEN [r EXCEPT !.focused = FALSE] ELSE r
    BY <1>4, <1>5, <1>9, <2>1
  <2>4. CASE new.focused
    <3>1. z = [r EXCEPT !.focused = FALSE]
      BY <2>3, <2>4
    <3>2. /\ SameBut(r, z) /\ z.focused = FALSE
          /\ z.urgent = r.urgent /\ z.ts = r.ts /\ z.layout = r.layout
      BY <2>2, <3>1, WithWinFocus
    <3>. QED  BY <1>2, <2>1, <2>4, <3>2
  <2>5. CASE ~new.focused
    BY <1>2, <2>1, <2>2, <2>3, <2>5 DEF SameBut
  <2>. QED  BY <2>4, <2>5
<1>10. ASSUME NEW v \in DOMAIN st.win \cup (D \cup {w})
       PROVE  /\ IsWin(x[v])
              /\ x[v].ws = IF v \in D \cup {w} THEN d.win[v].ws ELSE st.win[v].ws
              /\ x[v].info = IF v \in D \cup {w} THEN d.win[v].info ELSE st.win[v].info
              /\ x[v].layout = IF v \in D \cup {w} /\ SentWhole(st, d, v)
                               THEN d.win[v].shape ELSE st.win[v].layout
              /\ x[v].ts = IF v \in D \cup {w} THEN d.win[v].ts ELSE st.win[v].ts
              /\ x[v].urgent = IF v \in D \cup {w} THEN d.win[v].urgent ELSE st.win[v].urgent
              /\ x[v].focused <=> IF d.focus \in D \cup {w} THEN v = d.focus
                                  ELSE IF v \in D \cup {w} /\ SentWhole(st, d, v) THEN FALSE
                                  ELSE st.win[v].focused
  <2>1. CASE v = w
    BY <1>2, <1>8, <2>1
  <2>2. CASE v # w
    <3>1. v \in DOMAIN u.win
      BY <1>7, <2>2
    <3>2. /\ IsWin(x[v]) /\ x[v].ws = u.win[v].ws /\ x[v].info = u.win[v].info
      BY <1>9, <2>2, <3>1 DEF SameBut
    <3>3. /\ x[v].ws = IF v \in D THEN d.win[v].ws ELSE st.win[v].ws
          /\ x[v].info = IF v \in D THEN d.win[v].info ELSE st.win[v].info
          /\ x[v].layout = IF v \in D /\ SentWhole(st, d, v) THEN d.win[v].shape ELSE st.win[v].layout
          /\ x[v].ts = IF v \in D THEN d.win[v].ts ELSE st.win[v].ts
          /\ x[v].urgent = IF v \in D THEN d.win[v].urgent ELSE st.win[v].urgent
      <4>1. /\ u.win[v].ws = IF v \in D THEN d.win[v].ws ELSE st.win[v].ws
            /\ u.win[v].info = IF v \in D THEN d.win[v].info ELSE st.win[v].info
            /\ u.win[v].layout = IF v \in D /\ SentWhole(st, d, v) THEN d.win[v].shape ELSE st.win[v].layout
            /\ u.win[v].ts = IF v \in D THEN d.win[v].ts ELSE st.win[v].ts
            /\ u.win[v].urgent = IF v \in D THEN d.win[v].urgent ELSE st.win[v].urgent
        BY <1>7, <3>1 DEF WinTelling
      <4>2. /\ x[v].layout = u.win[v].layout /\ x[v].ts = u.win[v].ts
            /\ x[v].urgent = u.win[v].urgent
        BY <1>9, <2>2, <3>1
      <4>. QED  BY <3>2, <4>1, <4>2
    <3>4. x[v].focused <=> (u.win[v].focused /\ d.focus # w)
      BY <1>9, <2>2, <3>1
    <3>5. u.win[v].focused <=> IF d.focus \in D THEN v = d.focus
                               ELSE IF v \in D /\ SentWhole(st, d, v) THEN FALSE
                               ELSE st.win[v].focused
      BY <1>7, <3>1 DEF WinTelling
    <3>6. x[v].focused <=> IF d.focus \in D \cup {w} THEN v = d.focus
                           ELSE IF v \in D \cup {w} /\ SentWhole(st, d, v) THEN FALSE
                           ELSE st.win[v].focused
      BY <2>2, <3>4, <3>5
    <3>. QED  BY <2>2, <3>2, <3>3, <3>6
  <2>. QED  BY <2>1, <2>2
<1>11. WinTelling(st, d, D \cup {w}, D \cup {w}, D \cup {w}, D \cup {w}, x)
  BY <1>8, <1>10, Zenon DEF WinTelling
<1>. QED  BY <1>6, <1>11

\* A window that is not sent whole.
LEMMA FocusTold ==
    ASSUME NEW st, NEW d, OldWindows(st), NEW u, IsState(u), NEW D,
           WinTelling(st, d, D, D, D, D, u.win), NEW w \in DOMAIN st.win, w \notin D, ~SentWhole(st, d, w),
           NEW c \in BOOLEAN, c <=> (d.focus = w /\ ~st.win[w].focused),
           NEW e, e.ev = "WindowFocusChanged", e.id = w
    PROVE  \E x : /\ ApplyAll(u, If(c, e)) = HavingWin(u, x)
                  /\ WinTelling(st, d, D, D \cup {w}, D, D, x)
<1>1. DOMAIN u.win = DOMAIN st.win \cup D /\ u.win = [v \in DOMAIN u.win |-> u.win[v]]
  BY DEF WinTelling
<1>2. CASE c
  <2>1. ApplyAll(u, If(c, e)) = apply(u, e)
    BY <1>2, ApplyIf
  <2>2. PICK x : x = [v \in DOMAIN u.win |-> [u.win[v] EXCEPT !.focused = v = w]]
    OBVIOUS
  <2>3. apply(u, e) = HavingWin(u, x)
    BY <2>2 DEF apply, ApplyWindow, WorkspaceEvents, WindowEvents, HavingWin
  <2>4. ASSUME NEW v \in DOMAIN u.win
        PROVE  /\ SameBut(u.win[v], x[v])
               /\ x[v].urgent = u.win[v].urgent /\ x[v].ts = u.win[v].ts
               /\ x[v].layout = u.win[v].layout /\ (x[v].focused <=> v = w)
    <3>1. PICK r, z : r = u.win[v] /\ z = x[v]
      OBVIOUS
    <3>2. PICK b \in BOOLEAN : b = (v = w)
      OBVIOUS
    <3>3. IsWin(r) /\ z = [r EXCEPT !.focused = b]
      BY <1>1, <2>2, <3>1, <3>2 DEF WinTelling
    <3>4. /\ SameBut(r, z) /\ z.focused = b
          /\ z.urgent = r.urgent /\ z.ts = r.ts /\ z.layout = r.layout
      BY <3>3, WithWinFocus
    <3>. QED  BY <3>1, <3>2, <3>4
  <2>5. x = [v \in DOMAIN st.win \cup D |-> x[v]]
    BY <1>1, <2>2
  <2>6. WinTelling(st, d, D, D \cup {w}, D, D, x)
    <3>1. ASSUME NEW v \in DOMAIN st.win \cup D
          PROVE  /\ IsWin(x[v])
                 /\ x[v].ws = IF v \in D THEN d.win[v].ws ELSE st.win[v].ws
                 /\ x[v].info = IF v \in D THEN d.win[v].info ELSE st.win[v].info
                 /\ x[v].layout = IF v \in D /\ SentWhole(st, d, v) THEN d.win[v].shape ELSE st.win[v].layout
                 /\ x[v].ts = IF v \in D THEN d.win[v].ts ELSE st.win[v].ts
                 /\ x[v].urgent = IF v \in D THEN d.win[v].urgent ELSE st.win[v].urgent
      <4>1. /\ IsWin(x[v]) /\ x[v].ws = u.win[v].ws /\ x[v].info = u.win[v].info
            /\ x[v].layout = u.win[v].layout /\ x[v].ts = u.win[v].ts
            /\ x[v].urgent = u.win[v].urgent
        BY <1>1, <2>4 DEF SameBut
      <4>2. /\ u.win[v].ws = IF v \in D THEN d.win[v].ws ELSE st.win[v].ws
            /\ u.win[v].info = IF v \in D THEN d.win[v].info ELSE st.win[v].info
            /\ u.win[v].layout = IF v \in D /\ SentWhole(st, d, v) THEN d.win[v].shape ELSE st.win[v].layout
            /\ u.win[v].ts = IF v \in D THEN d.win[v].ts ELSE st.win[v].ts
            /\ u.win[v].urgent = IF v \in D THEN d.win[v].urgent ELSE st.win[v].urgent
        BY DEF WinTelling
      <4>. QED  BY <4>1, <4>2, Zenon
    <3>2. ASSUME NEW v \in DOMAIN st.win \cup D
          PROVE  x[v].focused <=> IF d.focus \in D \cup {w} THEN v = d.focus
                                  ELSE IF v \in D /\ SentWhole(st, d, v) THEN FALSE ELSE st.win[v].focused
      BY <1>1, <1>2, <2>4
    <3>. QED  BY <2>5, <3>1, <3>2, Zenon DEF WinTelling
  <2>. QED  BY <2>1, <2>3, <2>6
<1>3. CASE ~c
  <2>1. ApplyAll(u, If(c, e)) = u
    BY <1>3, ApplyIf
  <2>2. ASSUME NEW v \in DOMAIN st.win \cup D
        PROVE  u.win[v].focused <=> IF d.focus \in D \cup {w} THEN v = d.focus
                                    ELSE IF v \in D /\ SentWhole(st, d, v) THEN FALSE
                                    ELSE st.win[v].focused
    <3>1. CASE d.focus = w
      <4>1. st.win[w].focused
        BY <1>3, <3>1
      <4>2. \A t \in DOMAIN st.win : st.win[t].focused <=> t = w
        BY <4>1 DEF OldWindows, IsWin
      <4>3. v \in DOMAIN st.win \/ SentWhole(st, d, v)
        BY DEF SentWhole
      <4>. QED  BY <3>1, <4>2, <4>3 DEF WinTelling
    <3>2. CASE d.focus # w
      BY <3>2 DEF WinTelling
    <3>. QED  BY <3>1, <3>2
  <2>3. WinTelling(st, d, D, D \cup {w}, D, D, u.win)
    BY <2>2 DEF WinTelling
  <2>4. u = HavingWin(u, u.win)
    BY HavingWinSame
  <2>. QED  BY <2>1, <2>3, <2>4
<1>. QED  BY <1>2, <1>3

WinLeads(u, q, st, d, D, F, T, G) ==
    \E x : ApplyAll(u, q) = HavingWin(u, x) /\ WinTelling(st, d, D, F, T, G, x)

LEMMA TsTold ==
    ASSUME NEW st, NEW d, NEW u, IsState(u), NEW D, NEW F,
           WinTelling(st, d, D, F, D, D, u.win), NEW w \in DOMAIN st.win,
           NEW c \in BOOLEAN, c <=> (d.win[w].ts # st.win[w].ts),
           NEW e, e.ev = "WindowFocusTimestampChanged", e.id = w, e.ts = d.win[w].ts
    PROVE  WinLeads(u, If(c, e), st, d, D, F, D \cup {w}, D)
<1>1. DOMAIN u.win = DOMAIN st.win \cup D /\ u.win = [v \in DOMAIN u.win |-> u.win[v]]
  BY DEF WinTelling
<1>2. CASE c
  <2>1. ApplyAll(u, If(c, e)) = apply(u, e)
    BY <1>2, ApplyIf
  <2>2. PICK x : x = [v \in DOMAIN u.win |-> IF v = w THEN [u.win[v] EXCEPT !.ts = d.win[w].ts]
                                             ELSE u.win[v]]
    OBVIOUS
  <2>3. apply(u, e) = HavingWin(u, x)
    BY <2>2 DEF apply, ApplyWindow, WorkspaceEvents, WindowEvents, HavingWin
  <2>4. /\ SameBut(u.win[w], x[w])
        /\ x[w].urgent = u.win[w].urgent /\ x[w].ts = d.win[w].ts
        /\ x[w].layout = u.win[w].layout /\ x[w].focused = u.win[w].focused
    <3>1. PICK r, z, b : r = u.win[w] /\ z = x[w] /\ b = d.win[w].ts
      OBVIOUS
    <3>2. IsWin(r) /\ z = [r EXCEPT !.ts = b]
      BY <1>1, <2>2, <3>1 DEF WinTelling
    <3>3. /\ SameBut(r, z) /\ z.ts = b
          /\ z.layout = r.layout /\ z.urgent = r.urgent /\ z.focused = r.focused
      BY <3>2, WithTs
    <3>. QED  BY <3>1, <3>3
  <2>5. /\ x = [v \in DOMAIN st.win \cup D |-> x[v]]
        /\ \A v \in DOMAIN u.win : v # w => x[v] = u.win[v]
    BY <1>1, <2>2
  <2>6. WinTelling(st, d, D, F, D \cup {w}, D, x)
    <3>1. ASSUME NEW v \in DOMAIN st.win \cup D
          PROVE  /\ IsWin(x[v])
                 /\ x[v].ws = u.win[v].ws /\ x[v].info = u.win[v].info
                 /\ x[v].layout = u.win[v].layout /\ x[v].urgent = u.win[v].urgent
                 /\ x[v].ts = IF v \in D \cup {w} THEN d.win[v].ts ELSE st.win[v].ts
                 /\ x[v].focused = u.win[v].focused
      <4>1. CASE v = w
        BY <2>4, <4>1 DEF SameBut
      <4>2. CASE v # w
        <5>1. x[v] = u.win[v]
          BY <1>1, <2>5, <4>2
        <5>2. IsWin(u.win[v]) /\ u.win[v].ts = IF v \in D THEN d.win[v].ts ELSE st.win[v].ts
          BY DEF WinTelling
        <5>. QED  BY <4>2, <5>1, <5>2
      <4>. QED  BY <4>1, <4>2
    <3>2. ASSUME NEW v \in DOMAIN st.win \cup D
          PROVE  /\ u.win[v].ws = IF v \in D THEN d.win[v].ws ELSE st.win[v].ws
                 /\ u.win[v].info = IF v \in D THEN d.win[v].info ELSE st.win[v].info
                 /\ u.win[v].layout = IF v \in D /\ SentWhole(st, d, v) THEN d.win[v].shape
                                      ELSE st.win[v].layout
                 /\ u.win[v].urgent = IF v \in D THEN d.win[v].urgent ELSE st.win[v].urgent
                 /\ u.win[v].focused <=> IF d.focus \in F THEN v = d.focus
                                         ELSE IF v \in D /\ SentWhole(st, d, v) THEN FALSE
                                         ELSE st.win[v].focused
      BY DEF WinTelling
    <3>3. ASSUME NEW v \in DOMAIN st.win \cup D
          PROVE  /\ IsWin(x[v])
                 /\ x[v].ws = IF v \in D THEN d.win[v].ws ELSE st.win[v].ws
                 /\ x[v].info = IF v \in D THEN d.win[v].info ELSE st.win[v].info
                 /\ x[v].layout = IF v \in D /\ SentWhole(st, d, v) THEN d.win[v].shape
                                  ELSE st.win[v].layout
                 /\ x[v].ts = IF v \in D \cup {w} THEN d.win[v].ts ELSE st.win[v].ts
                 /\ x[v].urgent = IF v \in D THEN d.win[v].urgent ELSE st.win[v].urgent
                 /\ x[v].focused <=> IF d.focus \in F THEN v = d.focus
                                     ELSE IF v \in D /\ SentWhole(st, d, v) THEN FALSE
                                     ELSE st.win[v].focused
      BY <3>1, <3>2
    <3>. QED  BY <2>5, <3>3, Zenon DEF WinTelling
  <2>. QED  BY <2>1, <2>3, <2>6 DEF WinLeads
<1>3. CASE ~c
  <2>1. ApplyAll(u, If(c, e)) = u
    BY <1>3, ApplyIf
  <2>2. d.win[w].ts = st.win[w].ts
    BY <1>3
  <2>3. WinTelling(st, d, D, F, D \cup {w}, D, u.win)
    BY <2>2 DEF WinTelling
  <2>4. u = HavingWin(u, u.win)
    BY HavingWinSame
  <2>. QED  BY <2>1, <2>3, <2>4 DEF WinLeads
<1>. QED  BY <1>2, <1>3

LEMMA WinUrgencyTold ==
    ASSUME NEW st, NEW d, NEW u, IsState(u), NEW D, NEW F, NEW T,
           WinTelling(st, d, D, F, T, D, u.win), NEW w \in DOMAIN st.win,
           NEW c \in BOOLEAN, c <=> (d.win[w].urgent # st.win[w].urgent),
           NEW e, e.ev = "WindowUrgencyChanged", e.id = w, e.urgent = d.win[w].urgent
    PROVE  WinLeads(u, If(c, e), st, d, D, F, T, D \cup {w})
<1>1. DOMAIN u.win = DOMAIN st.win \cup D /\ u.win = [v \in DOMAIN u.win |-> u.win[v]]
  BY DEF WinTelling
<1>2. CASE c
  <2>1. ApplyAll(u, If(c, e)) = apply(u, e)
    BY <1>2, ApplyIf
  <2>2. PICK x : x = [v \in DOMAIN u.win |-> IF v = w THEN [u.win[v] EXCEPT !.urgent = d.win[w].urgent]
                                             ELSE u.win[v]]
    OBVIOUS
  <2>3. apply(u, e) = HavingWin(u, x)
    BY <2>2 DEF apply, ApplyWindow, WorkspaceEvents, WindowEvents, HavingWin
  <2>4. /\ SameBut(u.win[w], x[w])
        /\ x[w].urgent = d.win[w].urgent /\ x[w].ts = u.win[w].ts
        /\ x[w].layout = u.win[w].layout /\ x[w].focused = u.win[w].focused
    <3>1. PICK r, z, b : r = u.win[w] /\ z = x[w] /\ b = d.win[w].urgent
      OBVIOUS
    <3>2. IsWin(r) /\ z = [r EXCEPT !.urgent = b]
      BY <1>1, <2>2, <3>1 DEF WinTelling
    <3>3. /\ SameBut(r, z) /\ z.urgent = b
          /\ z.layout = r.layout /\ z.ts = r.ts /\ z.focused = r.focused
      BY <3>2, WithWinUrgency
    <3>. QED  BY <3>1, <3>3
  <2>5. /\ x = [v \in DOMAIN st.win \cup D |-> x[v]]
        /\ \A v \in DOMAIN u.win : v # w => x[v] = u.win[v]
    BY <1>1, <2>2
  <2>6. WinTelling(st, d, D, F, T, D \cup {w}, x)
    <3>1. ASSUME NEW v \in DOMAIN st.win \cup D
          PROVE  /\ IsWin(x[v])
                 /\ x[v].ws = u.win[v].ws /\ x[v].info = u.win[v].info
                 /\ x[v].layout = u.win[v].layout /\ x[v].ts = u.win[v].ts
                 /\ x[v].urgent = IF v \in D \cup {w} THEN d.win[v].urgent ELSE st.win[v].urgent
                 /\ x[v].focused = u.win[v].focused
      <4>1. CASE v = w
        BY <2>4, <4>1 DEF SameBut
      <4>2. CASE v # w
        <5>1. x[v] = u.win[v]
          BY <1>1, <2>5, <4>2
        <5>2. IsWin(u.win[v]) /\ u.win[v].urgent = IF v \in D THEN d.win[v].urgent ELSE st.win[v].urgent
          BY DEF WinTelling
        <5>. QED  BY <4>2, <5>1, <5>2
      <4>. QED  BY <4>1, <4>2
    <3>2. ASSUME NEW v \in DOMAIN st.win \cup D
          PROVE  /\ u.win[v].ws = IF v \in D THEN d.win[v].ws ELSE st.win[v].ws
                 /\ u.win[v].info = IF v \in D THEN d.win[v].info ELSE st.win[v].info
                 /\ u.win[v].layout = IF v \in D /\ SentWhole(st, d, v) THEN d.win[v].shape
                                      ELSE st.win[v].layout
                 /\ u.win[v].ts = IF v \in T THEN d.win[v].ts ELSE st.win[v].ts
                 /\ u.win[v].focused <=> IF d.focus \in F THEN v = d.focus
                                         ELSE IF v \in D /\ SentWhole(st, d, v) THEN FALSE
                                         ELSE st.win[v].focused
      BY DEF WinTelling
    <3>3. ASSUME NEW v \in DOMAIN st.win \cup D
          PROVE  /\ IsWin(x[v])
                 /\ x[v].ws = IF v \in D THEN d.win[v].ws ELSE st.win[v].ws
                 /\ x[v].info = IF v \in D THEN d.win[v].info ELSE st.win[v].info
                 /\ x[v].layout = IF v \in D /\ SentWhole(st, d, v) THEN d.win[v].shape
                                  ELSE st.win[v].layout
                 /\ x[v].ts = IF v \in T THEN d.win[v].ts ELSE st.win[v].ts
                 /\ x[v].urgent = IF v \in D \cup {w} THEN d.win[v].urgent ELSE st.win[v].urgent
                 /\ x[v].focused <=> IF d.focus \in F THEN v = d.focus
                                     ELSE IF v \in D /\ SentWhole(st, d, v) THEN FALSE
                                     ELSE st.win[v].focused
      BY <3>1, <3>2
    <3>. QED  BY <2>5, <3>3, Zenon DEF WinTelling
  <2>. QED  BY <2>1, <2>3, <2>6 DEF WinLeads
<1>3. CASE ~c
  <2>1. ApplyAll(u, If(c, e)) = u
    BY <1>3, ApplyIf
  <2>2. d.win[w].urgent = st.win[w].urgent
    BY <1>3
  <2>3. WinTelling(st, d, D, F, T, D \cup {w}, u.win)
    <3>1. ASSUME NEW v \in DOMAIN st.win \cup D
          PROVE  u.win[v].urgent = IF v \in D \cup {w} THEN d.win[v].urgent ELSE st.win[v].urgent
      <4>1. u.win[v].urgent = IF v \in D THEN d.win[v].urgent ELSE st.win[v].urgent
        BY DEF WinTelling
      <4>. QED  BY <2>2, <4>1
    <3>. QED  BY <3>1, Zenon DEF WinTelling
  <2>4. u = HavingWin(u, u.win)
    BY HavingWinSame
  <2>. QED  BY <2>1, <2>3, <2>4 DEF WinLeads
<1>. QED  BY <1>2, <1>3

\* All that is told of one window.
LEMMA WinTold ==
    ASSUME NEW st, NEW d, OldWindows(st), NEW u, IsState(u), NEW D,
           WinTelling(st, d, D, D, D, D, u.win), NEW w, w \notin D
    PROVE  /\ IsSeq(WindowDiff(st, d, w))
           /\ \E x : /\ ApplyAll(u, WindowDiff(st, d, w)) = HavingWin(u, x)
                     /\ WinTelling(st, d, D \cup {w}, D \cup {w}, D \cup {w}, D \cup {w}, x)
<1>1. CASE SentWhole(st, d, w)
  <2>1. PICK e : e = [ev |-> "WindowOpenedOrChanged", id |-> w, window |-> IpcWindow(d, w)]
    OBVIOUS
  <2>2. WindowDiff(st, d, w) = <<e>>
    BY <1>1, <2>1, Zenon DEF WindowDiff
  <2>3. <<e>> \in Seq({e})
    OBVIOUS
  <2>4. IsSeq(<<e>>) /\ ApplyAll(u, <<e>>) = apply(u, e)
    BY <2>3, SeqIsSeq, ApplyOne
  <2>5. \E x : /\ apply(u, e) = HavingWin(u, x)
               /\ WinTelling(st, d, D \cup {w}, D \cup {w}, D \cup {w}, D \cup {w}, x)
    BY <1>1, <2>1, WholeTold
  <2>. QED  BY <2>2, <2>4, <2>5
<1>2. CASE ~SentWhole(st, d, w)
  <2>1. w \in DOMAIN st.win /\ st.win[w].ws = d.win[w].ws /\ st.win[w].info = d.win[w].info
    BY <1>2 DEF SentWhole
  <2>2. PICK c1 \in BOOLEAN : c1 <=> (d.focus = w /\ ~st.win[w].focused)
    OBVIOUS
  <2>3. PICK c2 \in BOOLEAN : c2 <=> (d.win[w].ts # st.win[w].ts)
    OBVIOUS
  <2>4. PICK c3 \in BOOLEAN : c3 <=> (d.win[w].urgent # st.win[w].urgent)
    OBVIOUS
  <2>5. PICK e1 : e1 = [ev |-> "WindowFocusChanged", id |-> w]
    OBVIOUS
  <2>6. PICK e2 : e2 = [ev |-> "WindowFocusTimestampChanged", id |-> w, ts |-> d.win[w].ts]
    OBVIOUS
  <2>7. PICK e3 : e3 = [ev |-> "WindowUrgencyChanged", id |-> w, urgent |-> d.win[w].urgent]
    OBVIOUS
  <2>8. PICK p1, p2, p3 : p1 = If(c1, e1) /\ p2 = If(c2, e2) /\ p3 = If(c3, e3)
    OBVIOUS
  <2>9. WindowDiff(st, d, w) = (p1 \o p2) \o p3
    <3>1. PICK new : new = IpcWindow(d, w)
      OBVIOUS
    <3>2. new.ts = d.win[w].ts /\ new.urgent = d.win[w].urgent /\ (new.focused <=> d.focus = w)
      BY <3>1, IpcWindowIs
    <3>3. If(new.focused /\ ~st.win[w].focused, [ev |-> "WindowFocusChanged", id |-> w]) = p1
      BY <2>2, <2>5, <2>8, <3>2, Zenon DEF If
    <3>4. If(new.ts # st.win[w].ts,
             [ev |-> "WindowFocusTimestampChanged", id |-> w, ts |-> new.ts]) = p2
      BY <2>3, <2>6, <2>8, <3>2, Zenon DEF If
    <3>5. If(new.urgent # st.win[w].urgent,
             [ev |-> "WindowUrgencyChanged", id |-> w, urgent |-> new.urgent]) = p3
      BY <2>4, <2>7, <2>8, <3>2, Zenon DEF If
    <3>. QED  BY <1>2, <3>1, <3>3, <3>4, <3>5, Zenon DEF WindowDiff
  <2>10. IsSeq(p1) /\ IsSeq(p2) /\ IsSeq(p3)
    BY <2>8, ApplyIf
  <2>11. PICK x1 : ApplyAll(u, p1) = HavingWin(u, x1) /\ WinTelling(st, d, D, D \cup {w}, D, D, x1)
    <3>1. e1.ev = "WindowFocusChanged" /\ e1.id = w
      BY <2>5
    <3>. QED  BY <1>2, <2>1, <2>2, <2>8, <3>1, FocusTold
  <2>12. PICK u1 : u1 = HavingWin(u, x1)
    OBVIOUS
  <2>13. IsState(u1) /\ u1.win = x1 /\ \A v : HavingWin(u1, v) = HavingWin(u, v)
    BY <2>12, HavingWinIs, HavingWinTwice
  <2>14. PICK x2 : /\ ApplyAll(u1, p2) = HavingWin(u1, x2)
                   /\ WinTelling(st, d, D, D \cup {w}, D \cup {w}, D, x2)
    <3>1. e2.ev = "WindowFocusTimestampChanged" /\ e2.id = w /\ e2.ts = d.win[w].ts
      BY <2>6
    <3>2. WinTelling(st, d, D, D \cup {w}, D, D, u1.win)
      BY <2>11, <2>13
    <3>3. PICK F : F = D \cup {w}
      OBVIOUS
    <3>4. WinTelling(st, d, D, F, D, D, u1.win)
      BY <3>2, <3>3
    <3>5. WinLeads(u1, If(c2, e2), st, d, D, F, D \cup {w}, D)
      BY <2>1, <2>3, <2>13, <3>1, <3>4, TsTold
    <3>. QED  BY <2>8, <3>3, <3>5 DEF WinLeads
  <2>15. PICK u2 : u2 = HavingWin(u1, x2)
    OBVIOUS
  <2>16. IsState(u2) /\ u2.win = x2 /\ \A v : HavingWin(u2, v) = HavingWin(u1, v)
    BY <2>13, <2>15, HavingWinIs, HavingWinTwice
  <2>17. PICK x : /\ ApplyAll(u2, p3) = HavingWin(u2, x)
                  /\ WinTelling(st, d, D, D \cup {w}, D \cup {w}, D \cup {w}, x)
    <3>1. e3.ev = "WindowUrgencyChanged" /\ e3.id = w /\ e3.urgent = d.win[w].urgent
      BY <2>7
    <3>2. WinTelling(st, d, D, D \cup {w}, D \cup {w}, D, u2.win)
      BY <2>14, <2>16
    <3>3. WinLeads(u2, If(c3, e3), st, d, D, D \cup {w}, D \cup {w}, D \cup {w})
      BY <2>1, <2>4, <2>16, <3>1, <3>2, WinUrgencyTold
    <3>. QED  BY <2>8, <3>3 DEF WinLeads
  <2>18. IsSeq(p1 \o p2) /\ IsSeq((p1 \o p2) \o p3)
    BY <2>10, ConcatIsSeq
  <2>19. ApplyAll(u, (p1 \o p2) \o p3) = ApplyAll(u2, p3)
    BY <2>10, <2>11, <2>12, <2>14, <2>15, <2>18, ApplyConcat
  <2>20. HavingWin(u2, x) = HavingWin(u, x)
    BY <2>13, <2>16
  <2>21. WinTelling(st, d, D \cup {w}, D \cup {w}, D \cup {w}, D \cup {w}, x)
    <3>1. DOMAIN st.win \cup D = DOMAIN st.win \cup (D \cup {w})
      BY <2>1
    <3>. QED  BY <1>2, <2>1, <2>17, <3>1 DEF WinTelling
  <2>. QED  BY <2>9, <2>17, <2>18, <2>19, <2>20, <2>21
<1>. QED  BY <1>1, <1>2

\* The events of each window, one after the other.
LEMMA EachWindowTold ==
    ASSUME NEW st, NEW d, IsDesk(d), OldWindows(st), NEW u, IsState(u), u.win = st.win,
           NEW W, W = DOMAIN d.win, NEW all, all = SetToSeq(W),
           NEW seqs, seqs = [i \in DOMAIN all |-> WindowDiff(st, d, all[i])]
    PROVE  IsSeq(FlattenSeq(seqs)) /\ WinLeads(u, FlattenSeq(seqs), st, d, W, W, W, W)
<1>0. IsFiniteSet(W)
  BY DesktopAssumption, FS_Subset DEF IsDesk
<1>2. PICK n \in Nat : Lists(all, n, W)
  BY <1>0, SeqOfSet
<1>1. /\ n \in Nat
      /\ all \in [1 .. n -> W]
      /\ \A e \in W : \E i \in 1 .. n : all[i] = e
      /\ \A i, j \in 1 .. n : all[i] = all[j] => i = j
  BY <1>2 DEF Lists
<1>3. seqs = [i \in 1 .. n |-> seqs[i]] /\ \A i \in 1 .. n : seqs[i] = WindowDiff(st, d, all[i])
  BY <1>1
<1>4. WinTelling(st, d, {}, {}, {}, {}, st.win)
  BY DEF WinTelling, OldWindows
<1>5. \A i \in 1 .. n : IsSeq(seqs[i])
  <2>1. ASSUME NEW i \in 1 .. n PROVE IsSeq(seqs[i])
    <3>1. PICK w, D : w = all[i] /\ D = {}
      OBVIOUS
    <3>2. WinTelling(st, d, D, D, D, D, u.win) /\ w \notin D
      BY <1>4, <3>1
    <3>3. IsSeq(WindowDiff(st, d, w))
      BY <3>2, WinTold
    <3>. QED  BY <1>3, <3>1, <3>3
  <2>. QED  BY <2>1
<1>6. PICK after : /\ after[0] = u
                   /\ \A i \in 1 .. n : after[i] = ApplyAll(after[i - 1], seqs[i])
                   /\ ApplyAll(u, FlattenSeq(seqs)) = after[n]
  <2>1. PICK after : LeadThrough(after, u, seqs, n) /\ ApplyAll(u, FlattenSeq(seqs)) = after[n]
    <3>1. LeadTo(u, seqs, n, ApplyAll(u, FlattenSeq(seqs)))
      BY <1>3, <1>5, ApplyFlat
    <3>. QED  BY <3>1 DEF LeadTo
  <2>. QED  BY <2>1 DEF LeadThrough
<1>7. PICK done : done = [i \in 0 .. n |-> {all[j] : j \in 1 .. i}]
  OBVIOUS
<1>8. PICK bad : bad = {i \in 0 .. n : ~\E x : /\ after[i] = HavingWin(u, x)
                                               /\ WinTelling(st, d, done[i], done[i], done[i], done[i], x)}
  OBVIOUS
<1>9. bad = {}
  <2>1. SUFFICES ASSUME bad # {} PROVE FALSE
    OBVIOUS
  <2>2. bad \subseteq Nat
    BY <1>8
  <2>3. PICK i \in bad : \A j \in bad : i <= j
    BY <2>1, <2>2, LeastNatural
  <2>4. i \in 0 .. n
    BY <1>8, <2>3
  <2>5. CASE i = 0
    <3>1. done[0] = {}
      BY <1>7
    <3>2. after[0] = HavingWin(u, st.win)
      BY <1>6, HavingWinSame
    <3>. QED  BY <1>4, <1>8, <2>3, <2>5, <3>1, <3>2
  <2>6. CASE i # 0
    <3>1. i - 1 \in 0 .. n /\ i - 1 \notin bad /\ i \in 1 .. n
      BY <2>3, <2>4, <2>6
    <3>2. PICK D : D = done[i - 1]
      OBVIOUS
    <3>3. PICK x : after[i - 1] = HavingWin(u, x) /\ WinTelling(st, d, D, D, D, D, x)
      BY <1>8, <3>1, <3>2
    <3>4. PICK v : v = after[i - 1]
      OBVIOUS
    <3>5. IsState(v) /\ v.win = x /\ \A y : HavingWin(v, y) = HavingWin(u, y)
      BY <3>3, <3>4, HavingWinIs, HavingWinTwice
    <3>6. PICK w : w = all[i]
      OBVIOUS
    <3>7. w \notin D
      BY <1>1, <1>7, <2>4, <3>1, <3>2, <3>6
    <3>8. done[i] = D \cup {w}
      <4>1. done[i] = {all[j] : j \in 1 .. i} /\ D = {all[j] : j \in 1 .. i - 1}
        BY <1>7, <2>4, <3>1, <3>2
      <4>2. 1 .. i = (1 .. i - 1) \cup {i}
        BY <3>1
      <4>. QED  BY <3>6, <4>1, <4>2
    <3>9. WinTelling(st, d, D, D, D, D, v.win)
      BY <3>3, <3>5
    <3>10. PICK y : /\ ApplyAll(v, WindowDiff(st, d, w)) = HavingWin(v, y)
                    /\ WinTelling(st, d, D \cup {w}, D \cup {w}, D \cup {w}, D \cup {w}, y)
      BY <3>5, <3>7, <3>9, WinTold
    <3>11. /\ after[i] = HavingWin(u, y)
           /\ WinTelling(st, d, done[i], done[i], done[i], done[i], y)
      BY <1>3, <1>6, <3>1, <3>4, <3>5, <3>6, <3>8, <3>10
    <3>. QED  BY <1>8, <2>3, <3>11
  <2>. QED  BY <2>5, <2>6
<1>10. n \in 0 .. n /\ n \notin bad
  BY <1>9
<1>11. PICK x : /\ after[n] = HavingWin(u, x)
                /\ WinTelling(st, d, done[n], done[n], done[n], done[n], x)
  BY <1>8, <1>10
<1>12. done[n] = W
  <2>1. done[n] = {all[j] : j \in 1 .. n}
    BY <1>7, <1>10
  <2>. QED  BY <1>1, <2>1
<1>13. IsSeq(FlattenSeq(seqs))
  BY <1>3, <1>5, ApplyFlat
<1>. QED  BY <1>6, <1>11, <1>12, <1>13 DEF WinLeads

\* What they are once the layouts are told as well.
LaidOut(st, d, W, x) ==
    /\ x = [v \in DOMAIN st.win \cup W |-> x[v]]
    /\ \A v \in W :
          /\ IsWin(x[v])
          /\ x[v].ws = d.win[v].ws /\ x[v].info = d.win[v].info
          /\ x[v].layout = d.win[v].shape
          /\ x[v].ts = d.win[v].ts /\ x[v].urgent = d.win[v].urgent
          /\ x[v].focused <=> IF d.focus \in W THEN v = d.focus
                              ELSE ~SentWhole(st, d, v) /\ st.win[v].focused

LaysOut(u, q, st, d, W) ==
    \E x : ApplyAll(u, q) = HavingWin(u, x) /\ LaidOut(st, d, W, x)

Resized(st, d, W) == {w \in W : ~SentWhole(st, d, w) /\ st.win[w].layout # d.win[w].shape}

LEMMA LayoutsTold ==
    ASSUME NEW st, NEW d, OldWindows(st), NEW u, IsState(u), NEW W, WinTelling(st, d, W, W, W, W, u.win),
           NEW resized, resized = Resized(st, d, W),
           NEW c \in BOOLEAN, c <=> (resized # {}),
           NEW e, e.ev = "WindowLayoutsChanged", e.layouts = [w \in resized |-> d.win[w].shape]
    PROVE  LaysOut(u, If(c, e), st, d, W)
<1>1. DOMAIN u.win = DOMAIN st.win \cup W /\ u.win = [v \in DOMAIN u.win |-> u.win[v]]
  BY DEF WinTelling
<1>2. resized \subseteq W /\ \A v \in W : SentWhole(st, d, v) => v \notin resized
  BY DEF Resized
<1>3. \A v \in W \ resized : SentWhole(st, d, v) \/ st.win[v].layout = d.win[v].shape
  BY DEF Resized
<1>4. CASE c
  <2>1. ApplyAll(u, If(c, e)) = apply(u, e)
    BY <1>4, ApplyIf
  <2>2. PICK x : x = [v \in DOMAIN u.win |->
                        IF v \in DOMAIN e.layouts THEN [u.win[v] EXCEPT !.layout = e.layouts[v]]
                        ELSE u.win[v]]
    OBVIOUS
  <2>3. apply(u, e) = HavingWin(u, x)
    <3>1. DOMAIN e.layouts \subseteq DOMAIN u.win
      BY <1>1, <1>2
    <3>2. apply(u, e) = ApplyWindow(u, e)
      BY DEF apply, WorkspaceEvents, WindowEvents
    <3>. QED  BY <2>2, <3>1, <3>2 DEF ApplyWindow, HavingWin
  <2>4. ASSUME NEW v \in resized
        PROVE  /\ SameBut(u.win[v], x[v])
               /\ x[v].urgent = u.win[v].urgent /\ x[v].ts = u.win[v].ts
               /\ x[v].layout = d.win[v].shape /\ x[v].focused = u.win[v].focused
    <3>1. PICK r, z, b : r = u.win[v] /\ z = x[v] /\ b = d.win[v].shape
      OBVIOUS
    <3>2. v \in DOMAIN u.win /\ e.layouts[v] = b /\ v \in DOMAIN e.layouts
      BY <1>1, <1>2, <3>1
    <3>3. IsWin(r) /\ z = [r EXCEPT !.layout = b]
      BY <1>1, <2>2, <3>1, <3>2 DEF WinTelling
    <3>4. AnotherLayout(r, z, b)
      BY <3>3, WithLayout, Zenon
    <3>. QED  BY <3>1, <3>4 DEF AnotherLayout
  <2>5. x = [v \in DOMAIN st.win \cup W |-> x[v]]
    BY <1>1, <2>2
  <2>6. \A v \in DOMAIN u.win : v \notin resized => x[v] = u.win[v]
    BY <2>2
  <2>7. ASSUME NEW v \in W
        PROVE  /\ IsWin(x[v])
               /\ x[v].ws = u.win[v].ws /\ x[v].info = u.win[v].info
               /\ x[v].layout = d.win[v].shape
               /\ x[v].ts = u.win[v].ts /\ x[v].urgent = u.win[v].urgent
               /\ x[v].focused = u.win[v].focused
    <3>1. CASE v \in resized
      BY <2>4, <3>1 DEF SameBut
    <3>2. CASE v \notin resized
      <4>1. x[v] = u.win[v]
        BY <1>1, <2>6, <3>2
      <4>2. IsWin(u.win[v])
        BY DEF WinTelling
      <4>3. u.win[v].layout = IF SentWhole(st, d, v) THEN d.win[v].shape ELSE st.win[v].layout
        BY DEF WinTelling
      <4>. QED  BY <1>3, <3>2, <4>1, <4>2, <4>3
    <3>. QED  BY <3>1, <3>2
  <2>8. ASSUME NEW v \in W
        PROVE  /\ u.win[v].ws = d.win[v].ws /\ u.win[v].info = d.win[v].info
               /\ u.win[v].ts = d.win[v].ts /\ u.win[v].urgent = d.win[v].urgent
               /\ u.win[v].focused <=> IF d.focus \in W THEN v = d.focus
                                       ELSE ~SentWhole(st, d, v) /\ st.win[v].focused
    BY DEF WinTelling
  <2>9. LaidOut(st, d, W, x)
    <3>1. ASSUME NEW v \in W
          PROVE  /\ IsWin(x[v])
                 /\ x[v].ws = d.win[v].ws /\ x[v].info = d.win[v].info
                 /\ x[v].layout = d.win[v].shape
                 /\ x[v].ts = d.win[v].ts /\ x[v].urgent = d.win[v].urgent
                 /\ x[v].focused <=> IF d.focus \in W THEN v = d.focus
                                     ELSE ~SentWhole(st, d, v) /\ st.win[v].focused
      BY <2>7, <2>8
    <3>. QED  BY <2>5, <3>1, Zenon DEF LaidOut
  <2>. QED  BY <2>1, <2>3, <2>9 DEF LaysOut
<1>5. CASE ~c
  <2>1. ApplyAll(u, If(c, e)) = u
    BY <1>5, ApplyIf
  <2>2. \A v \in W : SentWhole(st, d, v) \/ st.win[v].layout = d.win[v].shape
    BY <1>3, <1>5
  <2>3. LaidOut(st, d, W, u.win)
    BY <1>1, <2>2 DEF LaidOut, WinTelling
  <2>4. u = HavingWin(u, u.win)
    BY HavingWinSame
  <2>. QED  BY <2>1, <2>3, <2>4 DEF LaysOut
<1>. QED  BY <1>4, <1>5

LEMMA OneClosed ==
    ASSUME NEW u, IsState(u), NEW x, NEW y, y = HavingWin(u, x), NEW w \in DOMAIN x,
           NEW e, e = [ev |-> "WindowClosed", id |-> w]
    PROVE  apply(y, e) = HavingWin(u, [v \in DOMAIN x \ {w} |-> x[v]])
<1>1. y.win = x /\ IsState(y)
  BY HavingWinIs
<1>2. PICK z : z = [v \in DOMAIN x \ {w} |-> x[v]]
  OBVIOUS
<1>3. apply(y, e) = HavingWin(y, z)
  <2>1. e.ev = "WindowClosed" /\ e.id = w
    OBVIOUS
  <2>2. apply(y, e) = ApplyWindow(y, e)
    BY <2>1 DEF apply, WorkspaceEvents, WindowEvents
  <2>. QED  BY <1>1, <1>2, <2>1, <2>2 DEF ApplyWindow, HavingWin
<1>4. HavingWin(y, z) = HavingWin(u, z)
  BY HavingWinTwice
<1>. QED  BY <1>2, <1>3, <1>4, Zenon

\* The windows that have closed, one after the other.
Closings(closed) == [i \in DOMAIN closed |-> [ev |-> "WindowClosed", id |-> closed[i]]]

Left(x, C) == [v \in DOMAIN x \ C |-> x[v]]

LEMMA ClosedTold ==
    ASSUME NEW u, IsState(u), u.win = [v \in DOMAIN u.win |-> u.win[v]],
           NEW C, IsFiniteSet(C), C \subseteq DOMAIN u.win, NEW closed, closed = SetToSeq(C),
           NEW q, q = Closings(closed)
    PROVE  IsSeq(q) /\ ApplyAll(u, q) = HavingWin(u, Left(u.win, C))
<1>0. PICK n \in Nat : Lists(closed, n, C)
  BY SeqOfSet
<1>1. /\ n \in Nat
      /\ closed \in [1 .. n -> C]
      /\ \A e \in C : \E i \in 1 .. n : closed[i] = e
      /\ \A i, j \in 1 .. n : closed[i] = closed[j] => i = j
  BY <1>0 DEF Lists
<1>2. q = [i \in 1 .. n |-> [ev |-> "WindowClosed", id |-> closed[i]]]
  BY <1>1 DEF Closings
<1>3. Len(q) = n /\ IsSeq(q)
  <2>1. PICK S : S = {q[i] : i \in 1 .. n}
    OBVIOUS
  <2>2. q \in [1 .. n -> S]
    BY <1>2, <2>1
  <2>3. q \in Seq(S) /\ Len(q) = n
    BY <2>2
  <2>. QED  BY <2>3, SeqIsSeq
<1>4. PICK after : AreStates(after, u, q, n) /\ ApplyAll(u, q) = after[n]
  <2>1. PICK after : AreStates(after, u, q, Len(q)) /\ ApplyAll(u, q) = after[Len(q)]
    BY <1>3, AppliedStates
  <2>. QED  BY <1>3, <2>1, Zenon
<1>5. /\ after[0] = u
      /\ \A i \in 1 .. n : after[i] = apply(after[i - 1], q[i])
  BY <1>4 DEF AreStates
<1>7. PICK done : done = [i \in 0 .. n |-> {closed[j] : j \in 1 .. i}]
  OBVIOUS
<1>8. PICK left : left = [i \in 0 .. n |-> [v \in DOMAIN u.win \ done[i] |-> u.win[v]]]
  OBVIOUS
<1>9. PICK bad : bad = {i \in 0 .. n : after[i] # HavingWin(u, left[i])}
  OBVIOUS
<1>10. bad = {}
  <2>1. SUFFICES ASSUME bad # {} PROVE FALSE
    OBVIOUS
  <2>2. bad \subseteq Nat
    BY <1>9
  <2>3. PICK i \in bad : \A j \in bad : i <= j
    BY <2>1, <2>2, LeastNatural
  <2>4. i \in 0 .. n
    BY <1>9, <2>3
  <2>5. CASE i = 0
    <3>1. done[0] = {}
      BY <1>7
    <3>2. left[0] = u.win
      BY <1>8, <3>1
    <3>3. after[0] = HavingWin(u, left[0])
      BY <1>5, <3>2, HavingWinSame
    <3>. QED  BY <1>9, <2>3, <2>5, <3>3
  <2>6. CASE i # 0
    <3>1. i - 1 \in 0 .. n /\ i - 1 \notin bad /\ i \in 1 .. n
      BY <2>3, <2>4, <2>6
    <3>2. PICK x, y, w, e : x = left[i - 1] /\ y = after[i - 1] /\ w = closed[i] /\ e = q[i]
      OBVIOUS
    <3>3. y = HavingWin(u, x) /\ e = [ev |-> "WindowClosed", id |-> w]
      BY <1>2, <1>9, <3>1, <3>2
    <3>4. w \notin done[i - 1] /\ w \in DOMAIN u.win
      BY <1>1, <1>7, <2>4, <3>1, <3>2
    <3>5. done[i] = done[i - 1] \cup {w}
      <4>1. done[i] = {closed[j] : j \in 1 .. i} /\ done[i - 1] = {closed[j] : j \in 1 .. i - 1}
        BY <1>7, <2>4, <3>1
      <4>2. 1 .. i = (1 .. i - 1) \cup {i}
        BY <3>1
      <4>. QED  BY <3>2, <4>1, <4>2
    <3>6. x = [v \in DOMAIN u.win \ done[i - 1] |-> u.win[v]]
      BY <1>8, <3>1, <3>2
    <3>7. w \in DOMAIN x
      BY <3>4, <3>6
    <3>8. apply(y, e) = HavingWin(u, [v \in DOMAIN x \ {w} |-> x[v]])
      BY <3>3, <3>7, OneClosed
    <3>9. [v \in DOMAIN x \ {w} |-> x[v]] = left[i]
      <4>1. left[i] = [v \in DOMAIN u.win \ done[i] |-> u.win[v]]
        BY <1>8, <2>4
      <4>2. DOMAIN x \ {w} = DOMAIN u.win \ done[i]
        BY <3>5, <3>6
      <4>. QED  BY <3>6, <4>1, <4>2
    <3>10. after[i] = HavingWin(u, left[i])
      BY <1>5, <3>1, <3>2, <3>8, <3>9
    <3>. QED  BY <1>9, <2>3, <3>10
  <2>. QED  BY <2>5, <2>6
<1>11. n \in 0 .. n /\ n \notin bad
  BY <1>10
<1>12. done[n] = C
  <2>1. done[n] = {closed[j] : j \in 1 .. n}
    BY <1>7, <1>11
  <2>. QED  BY <1>1, <2>1
<1>13. left[n] = Left(u.win, C)
  BY <1>8, <1>11, <1>12 DEF Left
<1>. QED  BY <1>3, <1>4, <1>9, <1>11, <1>13

IpcWindows(d) == [w \in DOMAIN d.win |-> IpcWindow(d, w)]

LEMMA OldWindowsAre ==
    ASSUME NEW st, NEW c, IsDesk(c), st.win = IpcWindows(c)
    PROVE  OldWindows(st) /\ IsFiniteSet(DOMAIN st.win)
<1>1. DOMAIN st.win = DOMAIN c.win /\ DOMAIN c.win \subseteq Window
  BY DEF IpcWindows, IsDesk
<1>2. IsFiniteSet(DOMAIN st.win)
  BY <1>1, DesktopAssumption, FS_Subset
<1>3. st.win = [w \in DOMAIN st.win |-> st.win[w]]
  BY DEF IpcWindows
<1>4. ASSUME NEW w \in DOMAIN st.win
      PROVE  IsWin(st.win[w]) /\ (st.win[w].focused <=> c.focus = w)
  <2>1. PICK r : r = st.win[w]
    OBVIOUS
  <2>2. r = IpcWindow(c, w)
    BY <1>1, <2>1 DEF IpcWindows
  <2>3. IsWin(r) /\ (r.focused <=> c.focus = w)
    BY <2>2, IpcWindowIs
  <2>. QED  BY <2>1, <2>3
<1>. QED  BY <1>2, <1>3, <1>4 DEF OldWindows

\* A record of a window with what the desktop says is that of the desktop.
LEMMA WinIsIpc ==
    ASSUME NEW d, NEW v, NEW r, IsWin(r), r.ws = d.win[v].ws, r.info = d.win[v].info,
           r.layout = d.win[v].shape, r.ts = d.win[v].ts, r.urgent = d.win[v].urgent,
           r.focused <=> d.focus = v
    PROVE  r = IpcWindow(d, v)
<1>1. r.focused = (d.focus = v)
  BY DEF IsWin
<1>. QED  BY <1>1, Zenon DEF IsWin, IpcWindow

LEMMA NoFocusTold ==
    ASSUME NEW st, NEW d, IsDesk(d), OldWindows(st), NEW W, W = DOMAIN d.win,
           NEW x, LaidOut(st, d, W, x), NEW u, IsState(u), u.win = Left(x, DOMAIN st.win \ W)
    PROVE  /\ IsSeq(FocusBecameNone(st, d))
           /\ ApplyAll(u, FocusBecameNone(st, d)) = HavingWin(u, IpcWindows(d))
<1>1. PICK c \in BOOLEAN : c <=> (d.focus = Nil /\ \E w \in DOMAIN st.win : st.win[w].focused)
  OBVIOUS
<1>2. PICK e : e = [ev |-> "WindowFocusChanged", id |-> Nil]
  OBVIOUS
<1>3. FocusBecameNone(st, d) = If(c, e)
  BY <1>1, <1>2, Zenon DEF FocusBecameNone, If
<1>4. Nil \notin W /\ (d.focus \in W \/ d.focus = Nil)
  BY DesktopAssumption DEF IsDesk
<1>5. /\ DOMAIN u.win = W /\ u.win = [v \in W |-> u.win[v]]
      /\ \A v \in W : u.win[v] = x[v]
  BY DEF LaidOut, Left
<1>6. ASSUME NEW v \in W
      PROVE  /\ IsWin(u.win[v])
             /\ u.win[v].ws = d.win[v].ws /\ u.win[v].info = d.win[v].info
             /\ u.win[v].layout = d.win[v].shape
             /\ u.win[v].ts = d.win[v].ts /\ u.win[v].urgent = d.win[v].urgent
             /\ u.win[v].focused <=> IF d.focus \in W THEN v = d.focus
                                     ELSE ~SentWhole(st, d, v) /\ st.win[v].focused
  BY <1>5 DEF LaidOut
<1>7. CASE c
  <2>1. ApplyAll(u, If(c, e)) = apply(u, e)
    BY <1>7, ApplyIf
  <2>2. PICK y : y = [v \in DOMAIN u.win |-> [u.win[v] EXCEPT !.focused = v = Nil]]
    OBVIOUS
  <2>3. apply(u, e) = HavingWin(u, y)
    <3>1. e.ev = "WindowFocusChanged" /\ e.id = Nil
      BY <1>2
    <3>2. apply(u, e) = ApplyWindow(u, e)
      BY <3>1 DEF apply, WorkspaceEvents, WindowEvents
    <3>. QED  BY <2>2, <3>1, <3>2 DEF ApplyWindow, HavingWin
  <2>4. ASSUME NEW v \in W PROVE y[v] = IpcWindow(d, v)
    <3>1. PICK r, z : r = u.win[v] /\ z = y[v]
      OBVIOUS
    <3>2. z = [r EXCEPT !.focused = FALSE] /\ IsWin(r)
      BY <1>4, <1>5, <1>6, <2>2, <3>1
    <3>3. /\ SameBut(r, z) /\ z.focused = FALSE
          /\ z.urgent = r.urgent /\ z.ts = r.ts /\ z.layout = r.layout
      BY <3>2, WithWinFocus
    <3>4. d.focus # v
      BY <1>1, <1>4, <1>7
    <3>5. /\ IsWin(z) /\ z.ws = d.win[v].ws /\ z.info = d.win[v].info
          /\ z.layout = d.win[v].shape /\ z.ts = d.win[v].ts /\ z.urgent = d.win[v].urgent
          /\ (z.focused <=> d.focus = v)
      BY <1>6, <3>1, <3>3, <3>4 DEF SameBut
    <3>. QED  BY <3>1, <3>5, WinIsIpc
  <2>5. y = IpcWindows(d)
    BY <1>5, <2>2, <2>4 DEF IpcWindows
  <2>. QED  BY <1>1, <1>3, <2>1, <2>3, <2>5, ApplyIf
<1>8. CASE ~c
  <2>1. ApplyAll(u, If(c, e)) = u
    BY <1>8, ApplyIf
  <2>2. ASSUME NEW v \in W PROVE u.win[v].focused <=> d.focus = v
    <3>1. CASE d.focus \in W
      BY <1>6, <3>1
    <3>2. CASE d.focus \notin W
      <4>1. d.focus = Nil /\ ~\E w \in DOMAIN st.win : st.win[w].focused
        BY <1>1, <1>4, <1>8, <3>2
      <4>2. SentWhole(st, d, v) \/ v \in DOMAIN st.win
        BY DEF SentWhole
      <4>. QED  BY <1>4, <1>6, <3>2, <4>1, <4>2
    <3>. QED  BY <3>1, <3>2
  <2>3. ASSUME NEW v \in W PROVE u.win[v] = IpcWindow(d, v)
    <3>1. PICK r : r = u.win[v]
      OBVIOUS
    <3>2. /\ IsWin(r) /\ r.ws = d.win[v].ws /\ r.info = d.win[v].info
          /\ r.layout = d.win[v].shape /\ r.ts = d.win[v].ts /\ r.urgent = d.win[v].urgent
          /\ (r.focused <=> d.focus = v)
      BY <1>6, <2>2, <3>1
    <3>. QED  BY <3>1, <3>2, WinIsIpc
  <2>4. u.win = IpcWindows(d)
    BY <1>5, <2>3 DEF IpcWindows
  <2>5. u = HavingWin(u, u.win)
    BY HavingWinSame
  <2>. QED  BY <1>1, <1>3, <2>1, <2>4, <2>5, ApplyIf
<1>. QED  BY <1>7, <1>8

LEMMA WindowsRefreshed ==
    ASSUME NEW st, NEW d, NEW c, IsDesk(c), IsDesk(d), st.win = IpcWindows(c),
           NEW u, IsState(u), u.win = st.win
    PROVE  /\ IsSeq(ipc_refresh_windows(st, d))
           /\ ApplyAll(u, ipc_refresh_windows(st, d)) = HavingWin(u, IpcWindows(d))
<1>1. OldWindows(st) /\ IsFiniteSet(DOMAIN st.win)
  BY OldWindowsAre
<1>2. PICK W : W = DOMAIN d.win
  OBVIOUS
<1>3. PICK all, C : all = SetToSeq(W) /\ C = DOMAIN st.win \ W
  OBVIOUS
<1>4. PICK seqs : seqs = [i \in DOMAIN all |-> WindowDiff(st, d, all[i])]
  OBVIOUS
<1>5. PICK resized : resized = Resized(st, d, W)
  OBVIOUS
<1>6. PICK b \in BOOLEAN : b <=> (resized # {})
  OBVIOUS
<1>7. PICK e : e = [ev |-> "WindowLayoutsChanged", layouts |-> [w \in resized |-> d.win[w].shape]]
  OBVIOUS
<1>8. PICK closed : closed = SetToSeq(C)
  OBVIOUS
<1>9. PICK p1, p2, p3, p4 : /\ p1 = FlattenSeq(seqs) /\ p2 = If(b, e)
                            /\ p3 = Closings(closed) /\ p4 = FocusBecameNone(st, d)
  OBVIOUS
<1>10. ipc_refresh_windows(st, d) = ((p1 \o p2) \o p3) \o p4
  <2>1. If(resized # {}, [ev |-> "WindowLayoutsChanged",
                          layouts |-> [w \in resized |-> d.win[w].shape]]) = p2
    BY <1>6, <1>7, <1>9, Zenon DEF If
  <2>2. [i \in DOMAIN closed |-> [ev |-> "WindowClosed", id |-> closed[i]]] = p3
    BY <1>9, Zenon DEF Closings
  <2>. QED  BY <1>2, <1>3, <1>4, <1>5, <1>8, <1>9, <2>1, <2>2, Zenon DEF ipc_refresh_windows, Resized
<1>11. IsSeq(p1) /\ WinLeads(u, p1, st, d, W, W, W, W)
  BY <1>1, <1>2, <1>3, <1>4, <1>9, EachWindowTold
<1>12. PICK x1 : ApplyAll(u, p1) = HavingWin(u, x1) /\ WinTelling(st, d, W, W, W, W, x1)
  BY <1>11 DEF WinLeads
<1>13. PICK u1 : u1 = HavingWin(u, x1)
  OBVIOUS
<1>14. IsState(u1) /\ u1.win = x1 /\ \A v : HavingWin(u1, v) = HavingWin(u, v)
  BY <1>13, HavingWinIs, HavingWinTwice
<1>15. PICK x2 : ApplyAll(u1, p2) = HavingWin(u1, x2) /\ LaidOut(st, d, W, x2)
  <2>1. e.ev = "WindowLayoutsChanged" /\ e.layouts = [w \in resized |-> d.win[w].shape]
    BY <1>7
  <2>2. WinTelling(st, d, W, W, W, W, u1.win)
    BY <1>12, <1>14
  <2>3. LaysOut(u1, If(b, e), st, d, W)
    BY <1>1, <1>5, <1>6, <1>14, <2>1, <2>2, LayoutsTold
  <2>. QED  BY <1>9, <2>3 DEF LaysOut
<1>16. PICK u2 : u2 = HavingWin(u1, x2)
  OBVIOUS
<1>17. IsState(u2) /\ u2.win = x2 /\ \A v : HavingWin(u2, v) = HavingWin(u, v)
  BY <1>14, <1>16, HavingWinIs, HavingWinTwice
<1>18. DOMAIN x2 = DOMAIN st.win \cup W /\ x2 = [v \in DOMAIN x2 |-> x2[v]]
  BY <1>15 DEF LaidOut
<1>19. IsSeq(p3) /\ ApplyAll(u2, p3) = HavingWin(u2, Left(x2, C))
  <2>1. IsFiniteSet(C) /\ C \subseteq DOMAIN u2.win /\ u2.win = [v \in DOMAIN u2.win |-> u2.win[v]]
    BY <1>1, <1>3, <1>17, <1>18, FS_Subset
  <2>2. IsSeq(p3) /\ ApplyAll(u2, p3) = HavingWin(u2, Left(u2.win, C))
    BY <1>8, <1>9, <1>17, <2>1, ClosedTold
  <2>. QED  BY <1>17, <2>2
<1>20. PICK u3 : u3 = HavingWin(u2, Left(x2, C))
  OBVIOUS
<1>21. IsState(u3) /\ u3.win = Left(x2, C) /\ \A v : HavingWin(u3, v) = HavingWin(u, v)
  BY <1>17, <1>20, HavingWinIs, HavingWinTwice
<1>22. IsSeq(p4) /\ ApplyAll(u3, p4) = HavingWin(u3, IpcWindows(d))
  <2>1. u3.win = Left(x2, DOMAIN st.win \ W)
    BY <1>3, <1>21
  <2>. QED  BY <1>1, <1>2, <1>9, <1>15, <1>21, <2>1, NoFocusTold
<1>23. IsSeq(p2)
  BY <1>9, ApplyIf
<1>24. IsSeq(p1 \o p2) /\ ApplyAll(u, p1 \o p2) = u2
  BY <1>11, <1>12, <1>13, <1>15, <1>16, <1>23, ConcatIsSeq, ApplyConcat
<1>25. IsSeq((p1 \o p2) \o p3) /\ ApplyAll(u, (p1 \o p2) \o p3) = u3
  BY <1>19, <1>20, <1>24, ConcatIsSeq, ApplyConcat
<1>26. IsSeq(((p1 \o p2) \o p3) \o p4) /\ ApplyAll(u, ((p1 \o p2) \o p3) \o p4) = HavingWin(u3, IpcWindows(d))
  BY <1>22, <1>25, ConcatIsSeq, ApplyConcat
<1>. QED  BY <1>10, <1>21, <1>26

----------------------------------------------------------------------------
\* The casts, the overview and the keyboard layout.

CastsOf(d) == IF d.cast \in {"none", "ended"} THEN <<>> ELSE <<d.cast>>

\* The server's list has one cast at most, and none that the desktop had not started.
CastsFit(st, d) ==
    /\ st.casts = <<>> \/ \E y : st.casts = <<y>>
    /\ d.cast = "none" => st.casts = <<>>
    /\ d.cast = "pending" => st.casts \in {<<>>, <<"pending">>}

\* A state that has changed in one part.
OnlyCasts(u, v, x) ==
    /\ IsState(v) /\ v.casts = x
    /\ v.ws = u.ws /\ v.win = u.win /\ v.kb = u.kb /\ v.overview = u.overview /\ v.failed = u.failed

OnlyOverview(u, v, x) ==
    /\ IsState(v) /\ v.overview = x
    /\ v.ws = u.ws /\ v.win = u.win /\ v.kb = u.kb /\ v.casts = u.casts /\ v.failed = u.failed

OnlyKeyboard(u, v, x) ==
    /\ IsState(v) /\ v.kb = x
    /\ v.ws = u.ws /\ v.win = u.win /\ v.overview = u.overview /\ v.casts = u.casts
    /\ v.failed = u.failed

LEMMA WithCasts ==
    ASSUME NEW u, IsState(u), NEW x, NEW v, v = [u EXCEPT !.casts = x]
    PROVE  OnlyCasts(u, v, x)
<1>1. v = [ws |-> u.ws, win |-> u.win, kb |-> u.kb, overview |-> u.overview,
           failed |-> u.failed, casts |-> x, ok |-> u.ok]
  BY DEF IsState
<1>2. u.ok = TRUE
  BY DEF IsState
<1>. QED  BY <1>1, <1>2 DEF OnlyCasts, IsState

LEMMA WithOverview ==
    ASSUME NEW u, IsState(u), NEW x, NEW v, v = [u EXCEPT !.overview = x]
    PROVE  OnlyOverview(u, v, x)
<1>1. v = [ws |-> u.ws, win |-> u.win, kb |-> u.kb, overview |-> x,
           failed |-> u.failed, casts |-> u.casts, ok |-> u.ok]
  BY DEF IsState
<1>2. u.ok = TRUE
  BY DEF IsState
<1>. QED  BY <1>1, <1>2 DEF OnlyOverview, IsState

LEMMA WithKeyboard ==
    ASSUME NEW u, IsState(u), NEW x, NEW v, v = [u EXCEPT !.kb = x]
    PROVE  OnlyKeyboard(u, v, x)
<1>1. v = [ws |-> u.ws, win |-> u.win, kb |-> x, overview |-> u.overview,
           failed |-> u.failed, casts |-> u.casts, ok |-> u.ok]
  BY DEF IsState
<1>2. u.ok = TRUE
  BY DEF IsState
<1>. QED  BY <1>1, <1>2 DEF OnlyKeyboard, IsState

LEMMA OneCast ==
    ASSUME NEW x, NEW casts, casts = <<>> \/ \E y : casts = <<y>>
    PROVE  Inserted(casts, 1, x) = <<x>>
<1>1. DOMAIN casts \cup {1} = {1}
  BY DEF Inserted
<1>2. Inserted(casts, 1, x) = [i \in {1} |-> x]
  BY <1>1 DEF Inserted
<1>3. [i \in {1} |-> x] = <<x>>
  <2>1. 1 .. 1 = {1}
    OBVIOUS
  <2>2. DOMAIN <<x>> = {1} /\ <<x>>[1] = x /\ <<x>> = [i \in 1 .. 1 |-> <<x>>[i]]
    BY <2>1
  <2>. QED  BY <2>1, <2>2
<1>. QED  BY <1>2, <1>3

LEMMA CastsRefreshed ==
    ASSUME NEW st, NEW d, CastsFit(st, d), NEW u, IsState(u), u.casts = st.casts
    PROVE  /\ IsSeq(ipc_refresh_casts(st, d))
           /\ OnlyCasts(u, ApplyAll(u, ipc_refresh_casts(st, d)), CastsOf(d))
<1>1. ASSUME NEW c \in BOOLEAN, NEW e, ~c => st.casts = CastsOf(d),
             c => apply(u, e) = [u EXCEPT !.casts = CastsOf(d)], ipc_refresh_casts(st, d) = If(c, e)
      PROVE  /\ IsSeq(ipc_refresh_casts(st, d))
             /\ OnlyCasts(u, ApplyAll(u, ipc_refresh_casts(st, d)), CastsOf(d))
  <2>1. IsSeq(If(c, e))
    BY ApplyIf
  <2>2. PICK v : v = ApplyAll(u, If(c, e))
    OBVIOUS
  <2>3. CASE c
    <3>1. v = apply(u, e)
      BY <2>2, <2>3, ApplyIf
    <3>2. PICK x : x = CastsOf(d)
      OBVIOUS
    <3>3. OnlyCasts(u, v, x)
      BY <1>1, <2>3, <3>1, <3>2, WithCasts
    <3>. QED  BY <1>1, <2>1, <2>2, <3>2, <3>3
  <2>4. CASE ~c
    <3>1. v = u
      BY <2>2, <2>4, ApplyIf
    <3>2. OnlyCasts(u, v, CastsOf(d))
      BY <1>1, <2>4, <3>1 DEF OnlyCasts
    <3>. QED  BY <1>1, <2>1, <2>2, <3>2
  <2>. QED  BY <2>3, <2>4
<1>2. CASE d.cast \in {"none", "ended"}
  <2>1. PICK e : e = [ev |-> "CastStopped"]
    OBVIOUS
  <2>2. PICK c \in BOOLEAN : c <=> st.casts # <<>>
    OBVIOUS
  <2>3. CastsOf(d) = <<>>
    BY <1>2 DEF CastsOf
  <2>4. ipc_refresh_casts(st, d) = If(c, e)
    BY <1>2, <2>1, <2>2, Zenon DEF ipc_refresh_casts, If
  <2>5. c => apply(u, e) = [u EXCEPT !.casts = CastsOf(d)]
    BY <2>1, <2>2, <2>3 DEF apply, ApplyOther, WorkspaceEvents, WindowEvents
  <2>. QED  BY <1>1, <2>2, <2>3, <2>4, <2>5
<1>3. CASE d.cast = "pending"
  <2>1. PICK e : e = [ev |-> "CastStartedOrChanged", cast |-> "pending"]
    OBVIOUS
  <2>2. PICK c \in BOOLEAN : c <=> st.casts = <<>>
    OBVIOUS
  <2>3. CastsOf(d) = <<"pending">>
    BY <1>3 DEF CastsOf
  <2>4. ipc_refresh_casts(st, d) = If(c, e)
    BY <1>3, <2>1, <2>2, Zenon DEF ipc_refresh_casts, If
  <2>5. c => apply(u, e) = [u EXCEPT !.casts = CastsOf(d)]
    <3>1. Inserted(u.casts, 1, "pending") = <<"pending">>
      BY OneCast DEF CastsFit
    <3>2. apply(u, e) = [u EXCEPT !.casts = Inserted(u.casts, 1, "pending")]
      BY <2>1 DEF apply, ApplyOther, WorkspaceEvents, WindowEvents
    <3>. QED  BY <2>3, <3>1, <3>2
  <2>6. ~c => st.casts = CastsOf(d)
    BY <1>3, <2>2, <2>3 DEF CastsFit
  <2>. QED  BY <1>1, <2>2, <2>4, <2>5, <2>6
<1>4. CASE d.cast \notin {"none", "ended", "pending"}
  <2>1. PICK e : e = [ev |-> "CastStartedOrChanged", cast |-> d.cast]
    OBVIOUS
  <2>2. PICK c \in BOOLEAN : c <=> (st.casts = <<>> \/ st.casts[1] # d.cast)
    OBVIOUS
  <2>3. CastsOf(d) = <<d.cast>>
    BY <1>4 DEF CastsOf
  <2>4. ipc_refresh_casts(st, d) = If(c, e)
    BY <1>4, <2>1, <2>2, Zenon DEF ipc_refresh_casts, If
  <2>5. c => apply(u, e) = [u EXCEPT !.casts = CastsOf(d)]
    <3>1. Inserted(u.casts, 1, d.cast) = <<d.cast>>
      BY OneCast DEF CastsFit
    <3>2. apply(u, e) = [u EXCEPT !.casts = Inserted(u.casts, 1, d.cast)]
      BY <2>1 DEF apply, ApplyOther, WorkspaceEvents, WindowEvents
    <3>. QED  BY <2>3, <3>1, <3>2
  <2>6. ~c => st.casts = CastsOf(d)
    BY <2>2, <2>3 DEF CastsFit
  <2>. QED  BY <1>1, <2>2, <2>4, <2>5, <2>6
<1>. QED  BY <1>2, <1>3, <1>4

LEMMA OverviewRefreshed ==
    ASSUME NEW st, NEW d, NEW u, IsState(u), u.overview = st.overview
    PROVE  /\ IsSeq(ipc_refresh_overview(st, d))
           /\ OnlyOverview(u, ApplyAll(u, ipc_refresh_overview(st, d)), d.overview)
<1>1. PICK e : e = [ev |-> "OverviewOpenedOrClosed", is_open |-> d.overview]
  OBVIOUS
<1>2. PICK c \in BOOLEAN : c <=> st.overview # d.overview
  OBVIOUS
<1>3. ipc_refresh_overview(st, d) = If(c, e)
  BY <1>1, <1>2, Zenon DEF ipc_refresh_overview, If
<1>4. PICK v, x : v = ApplyAll(u, If(c, e)) /\ x = d.overview
  OBVIOUS
<1>5. CASE c
  <2>1. v = apply(u, e)
    BY <1>4, <1>5, ApplyIf
  <2>2. apply(u, e) = [u EXCEPT !.overview = x]
    BY <1>1, <1>4 DEF apply, ApplyOther, WorkspaceEvents, WindowEvents
  <2>3. OnlyOverview(u, v, x)
    BY <2>1, <2>2, WithOverview
  <2>. QED  BY <1>3, <1>4, <2>3, ApplyIf
<1>6. CASE ~c
  <2>1. v = u
    BY <1>4, <1>6, ApplyIf
  <2>2. OnlyOverview(u, v, x)
    BY <1>2, <1>4, <1>6, <2>1 DEF OnlyOverview
  <2>. QED  BY <1>3, <1>4, <2>2, ApplyIf
<1>. QED  BY <1>5, <1>6

LEMMA KeyboardRefreshed ==
    ASSUME NEW st, NEW d, NEW u, IsState(u), u.kb = st.kb, st.kb # Nil
    PROVE  /\ IsSeq(ipc_refresh_keyboard_layout_index(st, d))
           /\ OnlyKeyboard(u, ApplyAll(u, ipc_refresh_keyboard_layout_index(st, d)), d.kb)
<1>1. PICK e : e = [ev |-> "KeyboardLayoutSwitched", idx |-> d.kb]
  OBVIOUS
<1>2. PICK c \in BOOLEAN : c <=> st.kb # d.kb
  OBVIOUS
<1>3. ipc_refresh_keyboard_layout_index(st, d) = If(c, e)
  BY <1>1, <1>2, Zenon DEF ipc_refresh_keyboard_layout_index, If
<1>4. PICK v, x : v = ApplyAll(u, If(c, e)) /\ x = d.kb
  OBVIOUS
<1>5. CASE c
  <2>1. v = apply(u, e)
    BY <1>4, <1>5, ApplyIf
  <2>2. apply(u, e) = [u EXCEPT !.kb = x]
    BY <1>1, <1>4 DEF apply, ApplyOther, WorkspaceEvents, WindowEvents
  <2>3. OnlyKeyboard(u, v, x)
    BY <2>1, <2>2, WithKeyboard
  <2>. QED  BY <1>3, <1>4, <2>3, ApplyIf
<1>6. CASE ~c
  <2>1. v = u
    BY <1>4, <1>6, ApplyIf
  <2>2. OnlyKeyboard(u, v, x)
    BY <1>2, <1>4, <1>6, <2>1 DEF OnlyKeyboard
  <2>. QED  BY <1>3, <1>4, <2>2, ApplyIf
<1>. QED  BY <1>5, <1>6

----------------------------------------------------------------------------
\* A refresh, all of it.

\* The state is what the desktop says.
Agreed(u, d) ==
    /\ u.ws = AllWorkspaces(d) /\ u.win = IpcWindows(d)
    /\ u.kb = d.kb /\ u.overview = d.overview /\ u.casts = CastsOf(d)

\* The server's copy is of an earlier desktop.
Mirrored(st, d) ==
    /\ IsState(st)
    /\ \E c : IsDesk(c) /\ st.ws = AllWorkspaces(c) /\ st.win = IpcWindows(c)
    /\ st.kb # Nil
    /\ CastsFit(st, d)

LEMMA Refreshed ==
    ASSUME NEW st, NEW d, IsDesk(d), Mirrored(st, d)
    PROVE  /\ IsSeq(IpcEvents(st, d))
           /\ IsState(ApplyAll(st, IpcEvents(st, d)))
           /\ Agreed(ApplyAll(st, IpcEvents(st, d)), d)
<1>1. PICK c : IsDesk(c) /\ st.ws = AllWorkspaces(c) /\ st.win = IpcWindows(c)
  BY DEF Mirrored
<1>2. IsState(st) /\ st.kb # Nil /\ CastsFit(st, d)
  BY DEF Mirrored
<1>3. PICK p1, p2, p3, p4, p5 :
         /\ p1 = ipc_refresh_casts(st, d) /\ p2 = ipc_refresh_workspaces(st, d)
         /\ p3 = ipc_refresh_windows(st, d) /\ p4 = ipc_refresh_overview(st, d)
         /\ p5 = ipc_refresh_keyboard_layout_index(st, d)
  OBVIOUS
<1>4. PICK u1 : u1 = ApplyAll(st, p1)
  OBVIOUS
<1>5. IsSeq(p1) /\ OnlyCasts(st, u1, CastsOf(d))
  BY <1>2, <1>3, <1>4, CastsRefreshed
<1>6. /\ IsState(u1) /\ u1.casts = CastsOf(d)
      /\ u1.ws = st.ws /\ u1.win = st.win /\ u1.kb = st.kb /\ u1.overview = st.overview
  BY <1>5 DEF OnlyCasts
<1>7. PICK x2, u2 : x2 = AllWorkspaces(d) /\ u2 = Having(u1, x2)
  OBVIOUS
<1>8. IsSeq(p2) /\ ApplyAll(u1, p2) = u2
  BY <1>1, <1>3, <1>6, <1>7, WorkspacesRefreshed
<1>9. /\ IsState(u2) /\ u2.casts = CastsOf(d) /\ u2.ws = x2
      /\ u2.win = st.win /\ u2.kb = st.kb /\ u2.overview = st.overview
  BY <1>6, <1>7, HavingIs
<1>10. PICK x3, u3 : x3 = IpcWindows(d) /\ u3 = HavingWin(u2, x3)
  OBVIOUS
<1>11. IsSeq(p3) /\ ApplyAll(u2, p3) = u3
  BY <1>1, <1>3, <1>9, <1>10, WindowsRefreshed
<1>12. /\ IsState(u3) /\ u3.casts = CastsOf(d) /\ u3.ws = x2 /\ u3.win = x3
       /\ u3.kb = st.kb /\ u3.overview = st.overview
  BY <1>9, <1>10, HavingWinIs
<1>13. PICK u4 : u4 = ApplyAll(u3, p4)
  OBVIOUS
<1>14. IsSeq(p4) /\ OnlyOverview(u3, u4, d.overview)
  BY <1>3, <1>12, <1>13, OverviewRefreshed
<1>15. /\ IsState(u4) /\ u4.casts = CastsOf(d) /\ u4.ws = x2 /\ u4.win = x3
       /\ u4.kb = st.kb /\ u4.overview = d.overview
  BY <1>12, <1>14 DEF OnlyOverview
<1>16. PICK u5 : u5 = ApplyAll(u4, p5)
  OBVIOUS
<1>17. IsSeq(p5) /\ OnlyKeyboard(u4, u5, d.kb)
  BY <1>2, <1>3, <1>15, <1>16, KeyboardRefreshed
<1>18. /\ IsState(u5) /\ u5.casts = CastsOf(d) /\ u5.ws = x2 /\ u5.win = x3
       /\ u5.kb = d.kb /\ u5.overview = d.overview
  BY <1>15, <1>17 DEF OnlyKeyboard
<1>19. IsSeq(p1 \o p2) /\ ApplyAll(st, p1 \o p2) = u2
  BY <1>4, <1>5, <1>8, ConcatIsSeq, ApplyConcat
<1>20. IsSeq((p1 \o p2) \o p3) /\ ApplyAll(st, (p1 \o p2) \o p3) = u3
  BY <1>11, <1>19, ConcatIsSeq, ApplyConcat
<1>21. IsSeq(((p1 \o p2) \o p3) \o p4) /\ ApplyAll(st, ((p1 \o p2) \o p3) \o p4) = u4
  BY <1>13, <1>14, <1>20, ConcatIsSeq, ApplyConcat
<1>22. IsSeq((((p1 \o p2) \o p3) \o p4) \o p5) /\ ApplyAll(st, (((p1 \o p2) \o p3) \o p4) \o p5) = u5
  BY <1>16, <1>17, <1>21, ConcatIsSeq, ApplyConcat
<1>23. IpcEvents(st, d) = (((p1 \o p2) \o p3) \o p4) \o p5
  BY <1>3, Zenon DEF IpcEvents
<1>24. Agreed(u5, d)
  BY <1>7, <1>10, <1>18 DEF Agreed
<1>. QED  BY <1>18, <1>22, <1>23, <1>24

----------------------------------------------------------------------------
\* A client that subscribes.

\* Events that each replace a part of the state.
LEMMA WithWs ==
    ASSUME NEW u, IsState(u), NEW x, NEW v, v = [u EXCEPT !.ws = x]
    PROVE  /\ IsState(v) /\ v.ws = x /\ v.win = u.win /\ v.kb = u.kb
           /\ v.overview = u.overview /\ v.failed = u.failed /\ v.casts = u.casts
  BY HavingIs DEF Having

LEMMA WithFailed ==
    ASSUME NEW u, IsState(u), NEW x, NEW v, v = [u EXCEPT !.failed = x]
    PROVE  /\ IsState(v) /\ v.failed = x /\ v.ws = u.ws /\ v.win = u.win /\ v.kb = u.kb
           /\ v.overview = u.overview /\ v.casts = u.casts
<1>1. v = [ws |-> u.ws, win |-> u.win, kb |-> u.kb, overview |-> u.overview,
           failed |-> x, casts |-> u.casts, ok |-> u.ok]
  BY DEF IsState
<1>2. u.ok = TRUE
  BY DEF IsState
<1>. QED  BY <1>1, <1>2 DEF IsState

LEMMA SingleEvent ==
    ASSUME NEW u, NEW q, IsSeq(q), NEW e, NEW v, NEW r, ApplyAll(r, q) = u, v = apply(u, e)
    PROVE  IsSeq(q \o <<e>>) /\ ApplyAll(r, q \o <<e>>) = v
<1>1. <<e>> \in Seq({e})
  OBVIOUS
<1>2. IsSeq(<<e>>) /\ ApplyAll(u, <<e>>) = v
  BY <1>1, SeqIsSeq, ApplyOne
<1>. QED  BY <1>2, ConcatIsSeq, ApplyConcat

LEMMA TwoTuple ==
    ASSUME NEW a, NEW b
    PROVE  <<a>> \o <<b>> = <<a, b>>
<1>1. PICK S : S = {a, b}
  OBVIOUS
<1>2. PICK p, q, r : p = <<a>> /\ q = <<b>> /\ r = p \o q
  OBVIOUS
<1>3. p \in Seq(S) /\ q \in Seq(S) /\ Len(p) = 1 /\ Len(q) = 1 /\ p[1] = a /\ q[1] = b
  BY <1>1, <1>2
<1>4. r \in Seq(S) /\ Len(r) = 2 /\ r[1] = a /\ r[2] = b
  BY <1>2, <1>3, ConcatProperties
<1>5. PICK t : t = <<a, b>>
  OBVIOUS
<1>6. t \in Seq(S) /\ Len(t) = 2 /\ t[1] = a /\ t[2] = b
  BY <1>1, <1>5
<1>7. \A i \in 1 .. Len(r) : r[i] = t[i]
  BY <1>4, <1>6
<1>8. r = t
  BY <1>4, <1>6, <1>7, SeqEqual
<1>. QED  BY <1>2, <1>5, <1>8

LEMMA ThreeTuple ==
    ASSUME NEW a, NEW b, NEW c
    PROVE  <<a, b>> \o <<c>> = <<a, b, c>>
<1>1. PICK S : S = {a, b, c}
  OBVIOUS
<1>2. PICK p, q, r : p = <<a, b>> /\ q = <<c>> /\ r = p \o q
  OBVIOUS
<1>3. /\ p \in Seq(S) /\ q \in Seq(S) /\ Len(p) = 2 /\ Len(q) = 1
      /\ p[1] = a /\ p[2] = b /\ q[1] = c
  BY <1>1, <1>2
<1>4. r \in Seq(S) /\ Len(r) = 3 /\ r[1] = a /\ r[2] = b /\ r[3] = c
  BY <1>2, <1>3, ConcatProperties
<1>5. PICK t : t = <<a, b, c>>
  OBVIOUS
<1>6. t \in Seq(S) /\ Len(t) = 3 /\ t[1] = a /\ t[2] = b /\ t[3] = c
  BY <1>1, <1>5
<1>7. \A i \in 1 .. Len(r) : r[i] = t[i]
  BY <1>4, <1>6
<1>8. r = t
  BY <1>4, <1>6, <1>7, SeqEqual
<1>. QED  BY <1>2, <1>5, <1>8

\* The events of replicate() make the state they are taken from.
LEMMA Replicated ==
    ASSUME NEW st, IsState(st), st.kb # Nil
    PROVE  IsSeq(replicate(st)) /\ ApplyAll(DefaultState, replicate(st)) = st
<1>1. PICK e1, e2, e3, e4, e5, e6 :
         /\ e1 = [ev |-> "WorkspacesChanged", workspaces |-> st.ws]
         /\ e2 = [ev |-> "WindowsChanged", windows |-> st.win]
         /\ e3 = [ev |-> "KeyboardLayoutsChanged", idx |-> st.kb]
         /\ e4 = [ev |-> "OverviewOpenedOrClosed", is_open |-> st.overview]
         /\ e5 = [ev |-> "ConfigLoaded", failed |-> st.failed]
         /\ e6 = [ev |-> "CastsChanged", casts |-> st.casts]
  OBVIOUS
<1>2. PICK u0 : u0 = DefaultState
  OBVIOUS
<1>3. IsState(u0)
  BY <1>2 DEF DefaultState, IsState
<1>4. PICK u1 : u1 = apply(u0, e1)
  OBVIOUS
<1>5. u1 = [u0 EXCEPT !.ws = st.ws]
  BY <1>1, <1>4 DEF apply, ApplyWorkspace, WorkspaceEvents
<1>6. IsState(u1) /\ u1.ws = st.ws
  BY <1>3, <1>5, WithWs
<1>7. PICK u2 : u2 = apply(u1, e2)
  OBVIOUS
<1>8. u2 = HavingWin(u1, st.win)
  BY <1>1, <1>7 DEF apply, ApplyWindow, WorkspaceEvents, WindowEvents, HavingWin
<1>9. IsState(u2) /\ u2.ws = st.ws /\ u2.win = st.win
  BY <1>6, <1>8, HavingWinIs
<1>10. PICK u3 : u3 = apply(u2, e3)
  OBVIOUS
<1>11. u3 = [u2 EXCEPT !.kb = st.kb]
  BY <1>1, <1>10 DEF apply, ApplyOther, WorkspaceEvents, WindowEvents
<1>12. OnlyKeyboard(u2, u3, st.kb)
  BY <1>9, <1>11, WithKeyboard
<1>13. IsState(u3) /\ u3.ws = st.ws /\ u3.win = st.win /\ u3.kb = st.kb
  BY <1>9, <1>12 DEF OnlyKeyboard
<1>14. PICK u4 : u4 = apply(u3, e4)
  OBVIOUS
<1>15. u4 = [u3 EXCEPT !.overview = st.overview]
  BY <1>1, <1>14 DEF apply, ApplyOther, WorkspaceEvents, WindowEvents
<1>16. OnlyOverview(u3, u4, st.overview)
  BY <1>13, <1>15, WithOverview
<1>17. /\ IsState(u4) /\ u4.ws = st.ws /\ u4.win = st.win /\ u4.kb = st.kb
       /\ u4.overview = st.overview
  BY <1>13, <1>16 DEF OnlyOverview
<1>18. PICK u5 : u5 = apply(u4, e5)
  OBVIOUS
<1>19. u5 = [u4 EXCEPT !.failed = st.failed]
  BY <1>1, <1>18 DEF apply, ApplyOther, WorkspaceEvents, WindowEvents
<1>20. /\ IsState(u5) /\ u5.ws = st.ws /\ u5.win = st.win /\ u5.kb = st.kb
       /\ u5.overview = st.overview /\ u5.failed = st.failed
  BY <1>17, <1>19, WithFailed
<1>21. PICK u6 : u6 = apply(u5, e6)
  OBVIOUS
<1>22. u6 = [u5 EXCEPT !.casts = st.casts]
  BY <1>1, <1>21 DEF apply, ApplyOther, WorkspaceEvents, WindowEvents
<1>23. OnlyCasts(u5, u6, st.casts)
  BY <1>20, <1>22, WithCasts
<1>24. u6 = st
  BY <1>20, <1>23 DEF OnlyCasts, IsState
<1>25. <<>> \in Seq({}) /\ <<e1>> \in Seq({e1})
  OBVIOUS
<1>26. IsSeq(<<e1>>) /\ ApplyAll(u0, <<e1>>) = u1
  BY <1>4, <1>25, SeqIsSeq, ApplyOne
<1>27. IsSeq(<<e1>> \o <<e2>>) /\ ApplyAll(u0, <<e1>> \o <<e2>>) = u2
  BY <1>7, <1>26, SingleEvent
<1>28. IsSeq((<<e1>> \o <<e2>>) \o <<e3>>) /\ ApplyAll(u0, (<<e1>> \o <<e2>>) \o <<e3>>) = u3
  BY <1>10, <1>27, SingleEvent
<1>29. PICK q3 : q3 = (<<e1>> \o <<e2>>) \o <<e3>>
  OBVIOUS
<1>30. IsSeq(q3 \o <<e4>>) /\ ApplyAll(u0, q3 \o <<e4>>) = u4
  BY <1>14, <1>28, <1>29, SingleEvent
<1>31. IsSeq((q3 \o <<e4>>) \o <<e5>>) /\ ApplyAll(u0, (q3 \o <<e4>>) \o <<e5>>) = u5
  BY <1>18, <1>30, SingleEvent
<1>32. /\ IsSeq(((q3 \o <<e4>>) \o <<e5>>) \o <<e6>>)
       /\ ApplyAll(u0, ((q3 \o <<e4>>) \o <<e5>>) \o <<e6>>) = u6
  BY <1>21, <1>31, SingleEvent
<1>33. replicate(st) = ((q3 \o <<e4>>) \o <<e5>>) \o <<e6>>
  <2>1. replicate(st) = (<<e1, e2>> \o <<e3>>) \o <<e4, e5, e6>>
    BY <1>1, Zenon DEF replicate
  <2>2. <<e1, e2>> = <<e1>> \o <<e2>>
    BY TwoTuple
  <2>3. <<e4, e5, e6>> = (<<e4>> \o <<e5>>) \o <<e6>>
    <3>1. <<e4>> \o <<e5>> = <<e4, e5>>
      BY TwoTuple
    <3>2. <<e4, e5>> \o <<e6>> = <<e4, e5, e6>>
      BY ThreeTuple
    <3>. QED  BY <3>1, <3>2
  <2>4. q3 \o ((<<e4>> \o <<e5>>) \o <<e6>>) = ((q3 \o <<e4>>) \o <<e5>>) \o <<e6>>
    <3>1. PICK S : S = {e1, e2, e3, e4, e5, e6}
      OBVIOUS
    <3>2. q3 \in Seq(S) /\ <<e4>> \in Seq(S) /\ <<e5>> \in Seq(S) /\ <<e6>> \in Seq(S)
      BY <1>29, <3>1
    <3>. QED  BY <3>2, ConcatAssociative
  <2>. QED  BY <1>29, <2>1, <2>2, <2>3, <2>4
<1>. QED  BY <1>2, <1>24, <1>32, <1>33

----------------------------------------------------------------------------
\* The steps of the desktop.

GoodMons(mons, stray, active, main) ==
    /\ WellArranged(mons) /\ stray \in Seq(Workspace)
    /\ active \in [DOMAIN mons -> Nat]
    /\ \A o \in DOMAIN mons : active[o] \in DOMAIN mons[o]
    /\ IF DOMAIN mons = {} THEN main = Nil ELSE main \in DOMAIN mons

GoodWins(win, focus) ==
    /\ win = [w \in DOMAIN win |-> win[w]] /\ DOMAIN win \subseteq Window
    /\ focus \in DOMAIN win \cup {Nil}

Desk(mons, stray, active, main, name, win, front, focus, overview, kb, cast) ==
    [mons |-> mons, stray |-> stray, active |-> active, main |-> main, name |-> name,
     win |-> win, front |-> front, focus |-> focus, overview |-> overview, kb |-> kb,
     cast |-> cast]

LEMMA MakesDesk ==
    ASSUME NEW mons, NEW stray, NEW active, NEW main, NEW name, NEW win, NEW front, NEW focus,
           NEW overview, NEW kb \in {0, 1}, NEW cast,
           GoodMons(mons, stray, active, main), GoodWins(win, focus),
           NEW d, d = Desk(mons, stray, active, main, name, win, front, focus, overview, kb, cast)
    PROVE  /\ IsDesk(d) /\ d.cast = cast /\ d.mons = mons /\ d.win = win
           /\ d.focus = focus /\ d.kb = kb
<1>1. /\ d.mons = mons /\ d.stray = stray /\ d.active = active /\ d.main = main
      /\ d.name = name /\ d.win = win /\ d.front = front /\ d.focus = focus
      /\ d.overview = overview /\ d.kb = kb /\ d.cast = cast
  BY DEF Desk
<1>2. GoodMons(d.mons, d.stray, d.active, d.main) /\ GoodWins(d.win, d.focus)
  BY <1>1
<1>3. d = [mons |-> d.mons, stray |-> d.stray, active |-> d.active, main |-> d.main,
           name |-> d.name, win |-> d.win, front |-> d.front, focus |-> d.focus,
           overview |-> d.overview, kb |-> d.kb, cast |-> d.cast]
  BY <1>1, Zenon DEF Desk
<1>4. d.kb \in {0, 1}
  BY <1>1
<1>. QED  BY <1>1, <1>2, <1>3, <1>4, Zenon DEF IsDesk, GoodMons, GoodWins, Connected

LEMMA DeskIs ==
    ASSUME NEW d, IsDesk(d)
    PROVE  /\ d = Desk(d.mons, d.stray, d.active, d.main, d.name, d.win, d.front, d.focus,
                       d.overview, d.kb, d.cast)
           /\ GoodMons(d.mons, d.stray, d.active, d.main)
           /\ GoodWins(d.win, d.focus) /\ d.kb \in {0, 1}
  BY Zenon DEF IsDesk, Desk, GoodMons, GoodWins, Connected

LEMMA DeskRecord ==
    ASSUME NEW d, IsDesk(d)
    PROVE  d = [mons |-> d.mons, stray |-> d.stray, active |-> d.active, main |-> d.main,
                name |-> d.name, win |-> d.win, front |-> d.front, focus |-> d.focus,
                overview |-> d.overview, kb |-> d.kb, cast |-> d.cast]
  BY Zenon DEF IsDesk

\* The desktop with its workspaces, or its windows, changed.
Arranged(d, mons, stray, active, main, name) ==
    [mons |-> mons, stray |-> stray, active |-> active, main |-> main, name |-> name,
     win |-> d.win, front |-> d.front, focus |-> d.focus, overview |-> d.overview,
     kb |-> d.kb, cast |-> d.cast]

Windowed(d, win, front, focus) ==
    [mons |-> d.mons, stray |-> d.stray, active |-> d.active, main |-> d.main, name |-> d.name,
     win |-> win, front |-> front, focus |-> focus, overview |-> d.overview,
     kb |-> d.kb, cast |-> d.cast]

LEMMA ArrangedIs ==
    ASSUME NEW d, IsDesk(d), NEW mons, NEW stray, NEW active, NEW main, NEW name,
           GoodMons(mons, stray, active, main),
           NEW e, e = Arranged(d, mons, stray, active, main, name)
    PROVE  IsDesk(e) /\ e.cast = d.cast
<1>1. e = Desk(mons, stray, active, main, name, d.win, d.front, d.focus, d.overview, d.kb, d.cast)
  BY Zenon DEF Arranged, Desk
<1>. QED  BY <1>1, DeskIs, MakesDesk

LEMMA WindowedIs ==
    ASSUME NEW d, IsDesk(d), NEW win, NEW front, NEW focus, GoodWins(win, focus),
           NEW e, e = Windowed(d, win, front, focus)
    PROVE  IsDesk(e) /\ e.cast = d.cast
<1>1. e = Desk(d.mons, d.stray, d.active, d.main, d.name, win, front, focus, d.overview, d.kb, d.cast)
  BY Zenon DEF Windowed, Desk
<1>. QED  BY <1>1, DeskIs, MakesDesk

\* A step of the desktop that leaves the casts alone.
KeepsDesk == IsDesk(desk') /\ desk'.cast = desk.cast /\ dirty' = TRUE

LEMMA ChangeKeeps ==
    ASSUME NEW d, IsDesk(d), d.cast = desk.cast, Change(d)
    PROVE  KeepsDesk
  BY Zenon DEF Change, KeepsDesk

LEMMA FirstActive ==
    ASSUME NEW mons, WellArranged(mons), NEW stray \in Seq(Workspace),
           NEW m \in (IF DOMAIN mons = {} THEN {Nil} ELSE DOMAIN mons)
    PROVE  GoodMons(mons, stray, [o \in DOMAIN mons |-> 1], m)
<1>1. ASSUME NEW o \in DOMAIN mons PROVE 1 \in DOMAIN mons[o]
  <2>1. mons[o] \in Seq(Workspace) /\ mons[o] # <<>>
    BY DEF WellArranged
  <2>. QED  BY <2>1
<1>2. [o \in DOMAIN mons |-> 1] \in [DOMAIN mons -> Nat]
  OBVIOUS
<1>3. IF DOMAIN mons = {} THEN m = Nil ELSE m \in DOMAIN mons
  OBVIOUS
<1>. QED  BY <1>1, <1>2, <1>3 DEF GoodMons

LEMMA RearrangeKeeps ==
    ASSUME IsDesk(desk), Rearrange
    PROVE  KeepsDesk
<1>1. PICK a \in Arrangements :
        LET kept == Range(a.stray) \cup UNION {Range(a.mons[o]) : o \in DOMAIN a.mons}
        IN  \E m \in (IF DOMAIN a.mons = {} THEN {Nil} ELSE DOMAIN a.mons) :
                Change([desk EXCEPT !.mons = a.mons, !.stray = a.stray, !.main = m,
                                    !.active = [o \in DOMAIN a.mons |-> 1],
                                    !.name = [s \in Workspace |-> IF s \in kept THEN @[s] ELSE Nil]])
  BY Zenon DEF Rearrange
<1>2. PICK kept : kept = Range(a.stray) \cup UNION {Range(a.mons[o]) : o \in DOMAIN a.mons}
  OBVIOUS
<1>3. PICK m \in (IF DOMAIN a.mons = {} THEN {Nil} ELSE DOMAIN a.mons) :
        Change([desk EXCEPT !.mons = a.mons, !.stray = a.stray, !.main = m,
                            !.active = [o \in DOMAIN a.mons |-> 1],
                            !.name = [s \in Workspace |-> IF s \in kept THEN @[s] ELSE Nil]])
  BY <1>1, <1>2, Zenon
<1>4. PICK active, name : /\ active = [o \in DOMAIN a.mons |-> 1]
                          /\ name = [s \in Workspace |-> IF s \in kept THEN desk.name[s] ELSE Nil]
  OBVIOUS
<1>5. PICK d : d = [desk EXCEPT !.mons = a.mons, !.stray = a.stray, !.main = m,
                                !.active = active, !.name = name]
  OBVIOUS
<1>6. Change(d)
  BY <1>3, <1>4, <1>5
<1>7. WellArranged(a.mons) /\ a.stray \in Seq(Workspace)
  BY DesktopAssumption
<1>8. GoodMons(a.mons, a.stray, active, m)
  BY <1>3, <1>4, <1>7, FirstActive
<1>9. d = Arranged(desk, a.mons, a.stray, active, m, name)
  <2>1. PICK x, y, z : x = a.mons /\ y = a.stray /\ z = m
    OBVIOUS
  <2>2. d = [desk EXCEPT !.mons = x, !.stray = y, !.main = z, !.active = active, !.name = name]
    BY <1>5, <2>1
  <2>3. d = Arranged(desk, x, y, active, z, name)
    <3>1. desk = [mons |-> desk.mons, stray |-> desk.stray, active |-> desk.active, main |-> desk.main,
                  name |-> desk.name, win |-> desk.win, front |-> desk.front, focus |-> desk.focus,
                  overview |-> desk.overview, kb |-> desk.kb, cast |-> desk.cast]
      BY DeskRecord
    <3>2. d = [mons |-> x, stray |-> y, active |-> active, main |-> z,
               name |-> name, win |-> desk.win, front |-> desk.front, focus |-> desk.focus,
               overview |-> desk.overview, kb |-> desk.kb, cast |-> desk.cast]
      BY <2>2, <3>1
    <3>. QED  BY <3>2, Zenon DEF Arranged
  <2>. QED  BY <2>1, <2>3
<1>10. IsDesk(d) /\ d.cast = desk.cast
  BY <1>8, <1>9, ArrangedIs
<1>. QED  BY <1>6, <1>10, ChangeKeeps

LEMMA SwitchToKeeps ==
    ASSUME IsDesk(desk), SwitchTo
    PROVE  KeepsDesk
<1>0. GoodMons(desk.mons, desk.stray, desk.active, desk.main)
  BY DeskIs
<1>1. ASSUME NEW o \in Connected(desk), NEW i \in DOMAIN desk.mons[o],
             Change([desk EXCEPT !.active[o] = i])
      PROVE  KeepsDesk
  <2>1. PICK active : active = [desk.active EXCEPT ![o] = i]
    OBVIOUS
  <2>2. PICK d : d = [desk EXCEPT !.active[o] = i]
    OBVIOUS
  <2>3. d = Arranged(desk, desk.mons, desk.stray, active, desk.main, desk.name)
    BY <2>1, <2>2, DeskRecord DEF Arranged
  <2>4. i \in Nat
    <3>1. desk.mons[o] \in Seq(Workspace)
      BY <1>0 DEF GoodMons, WellArranged, Connected
    <3>. QED  BY <3>1
  <2>5. GoodMons(desk.mons, desk.stray, active, desk.main)
    <3>1. active \in [DOMAIN desk.mons -> Nat]
      BY <1>0, <2>1, <2>4 DEF GoodMons
    <3>2. \A p \in DOMAIN desk.mons : active[p] \in DOMAIN desk.mons[p]
      BY <1>0, <2>1 DEF GoodMons
    <3>. QED  BY <1>0, <3>1, <3>2 DEF GoodMons
  <2>6. IsDesk(d) /\ d.cast = desk.cast
    BY <2>3, <2>5, ArrangedIs
  <2>. QED  BY <1>1, <2>2, <2>6, ChangeKeeps
<1>2. ASSUME NEW o \in Connected(desk), Change([desk EXCEPT !.main = o])
      PROVE  KeepsDesk
  <2>1. PICK d : d = [desk EXCEPT !.main = o]
    OBVIOUS
  <2>2. d = Arranged(desk, desk.mons, desk.stray, desk.active, o, desk.name)
    BY <2>1, DeskRecord DEF Arranged
  <2>3. GoodMons(desk.mons, desk.stray, desk.active, o)
    BY <1>0 DEF GoodMons, Connected
  <2>4. IsDesk(d) /\ d.cast = desk.cast
    BY <2>2, <2>3, ArrangedIs
  <2>. QED  BY <1>2, <2>1, <2>4, ChangeKeeps
<1>. QED  BY <1>1, <1>2, Zenon DEF SwitchTo

LEMMA RenameKeeps ==
    ASSUME IsDesk(desk), Rename
    PROVE  KeepsDesk
<1>1. PICK s, n : Change([desk EXCEPT !.name[s] = n])
  BY Zenon DEF Rename
<1>2. PICK name : name = [desk.name EXCEPT ![s] = n]
  OBVIOUS
<1>3. PICK d : d = [desk EXCEPT !.name[s] = n]
  OBVIOUS
<1>4. d = Arranged(desk, desk.mons, desk.stray, desk.active, desk.main, name)
  BY <1>2, <1>3, DeskRecord DEF Arranged
<1>5. IsDesk(d) /\ d.cast = desk.cast
  BY <1>4, DeskIs, ArrangedIs
<1>. QED  BY <1>1, <1>3, <1>5, ChangeKeeps

LEMMA OpenWindowKeeps ==
    ASSUME IsDesk(desk), OpenWindow
    PROVE  KeepsDesk
<1>0. PICK w \in Window \ DOMAIN desk.win :
        \E s : Change([desk EXCEPT !.win = Inserted(@, w, NewWindow(s))])
  BY Zenon DEF OpenWindow
<1>1. PICK s : Change([desk EXCEPT !.win = Inserted(@, w, NewWindow(s))])
  BY <1>0
<1>2. PICK win : win = Inserted(desk.win, w, NewWindow(s))
  OBVIOUS
<1>3. PICK d : d = [desk EXCEPT !.win = win]
  OBVIOUS
<1>4. Change(d)
  BY <1>1, <1>2, <1>3
<1>5. d = Windowed(desk, win, desk.front, desk.focus)
  BY <1>3, DeskRecord DEF Windowed
<1>6. GoodWins(win, desk.focus)
  <2>1. win = [v \in DOMAIN win |-> win[v]] /\ DOMAIN win = DOMAIN desk.win \cup {w}
    BY <1>2 DEF Inserted
  <2>2. GoodWins(desk.win, desk.focus)
    BY DeskIs
  <2>. QED  BY <2>1, <2>2 DEF GoodWins
<1>7. IsDesk(d) /\ d.cast = desk.cast
  BY <1>5, <1>6, WindowedIs
<1>. QED  BY <1>4, <1>7, ChangeKeeps

LEMMA CloseWindowKeeps ==
    ASSUME IsDesk(desk), CloseWindow
    PROVE  KeepsDesk
<1>1. PICK w \in DOMAIN desk.win :
        Change([desk EXCEPT !.win = [v \in DOMAIN @ \ {w} |-> @[v]],
                            !.focus = IF @ = w THEN Nil ELSE @,
                            !.front = IF @ = w THEN Nil ELSE @])
  BY Zenon DEF CloseWindow
<1>2. PICK win, focus, front : /\ win = [v \in DOMAIN desk.win \ {w} |-> desk.win[v]]
                               /\ focus = (IF desk.focus = w THEN Nil ELSE desk.focus)
                               /\ front = (IF desk.front = w THEN Nil ELSE desk.front)
  OBVIOUS
<1>3. PICK d : d = [desk EXCEPT !.win = win, !.focus = focus, !.front = front]
  OBVIOUS
<1>4. Change(d)
  BY <1>1, <1>2, <1>3
<1>5. d = Windowed(desk, win, front, focus)
  <2>1. desk = [mons |-> desk.mons, stray |-> desk.stray, active |-> desk.active, main |-> desk.main,
                name |-> desk.name, win |-> desk.win, front |-> desk.front, focus |-> desk.focus,
                overview |-> desk.overview, kb |-> desk.kb, cast |-> desk.cast]
    BY DeskRecord
  <2>2. d = [mons |-> desk.mons, stray |-> desk.stray, active |-> desk.active, main |-> desk.main,
             name |-> desk.name, win |-> win, front |-> front, focus |-> focus,
             overview |-> desk.overview, kb |-> desk.kb, cast |-> desk.cast]
    BY <1>3, <2>1
  <2>. QED  BY <2>2, Zenon DEF Windowed
<1>6. GoodWins(win, focus)
  <2>1. win = [v \in DOMAIN win |-> win[v]] /\ DOMAIN win = DOMAIN desk.win \ {w}
    BY <1>2
  <2>2. GoodWins(desk.win, desk.focus)
    BY DeskIs
  <2>. QED  BY <1>2, <2>1, <2>2 DEF GoodWins
<1>7. IsDesk(d) /\ d.cast = desk.cast
  BY <1>5, <1>6, WindowedIs
<1>. QED  BY <1>4, <1>7, ChangeKeeps

\* A change to one of the windows there are.
LEMMA WindowChangeKeeps ==
    ASSUME IsDesk(desk), NEW w, NEW x, NEW win, win = [desk.win EXCEPT ![w] = x],
           NEW d, d = [desk EXCEPT !.win = win], Change(d)
    PROVE  KeepsDesk
<1>1. d = Windowed(desk, win, desk.front, desk.focus)
  BY DeskRecord DEF Windowed
<1>2. GoodWins(win, desk.focus)
  <2>1. GoodWins(desk.win, desk.focus)
    BY DeskIs
  <2>. QED  BY <2>1 DEF GoodWins
<1>3. IsDesk(d) /\ d.cast = desk.cast
  BY <1>1, <1>2, WindowedIs
<1>. QED  BY <1>3, ChangeKeeps

LEMMA FocusWindowKeeps ==
    ASSUME IsDesk(desk), FocusWindow
    PROVE  KeepsDesk
<1>1. PICK w \in DOMAIN desk.win \cup {Nil} :
        Change([desk EXCEPT !.focus = w, !.front = IF w = Nil THEN @ ELSE w])
  BY Zenon DEF FocusWindow
<1>2. PICK front : front = (IF w = Nil THEN desk.front ELSE w)
  OBVIOUS
<1>3. PICK d : d = [desk EXCEPT !.focus = w, !.front = front]
  OBVIOUS
<1>4. Change(d)
  BY <1>1, <1>2, <1>3
<1>5. d = Windowed(desk, desk.win, front, w)
  <2>1. desk = [mons |-> desk.mons, stray |-> desk.stray, active |-> desk.active, main |-> desk.main,
                name |-> desk.name, win |-> desk.win, front |-> desk.front, focus |-> desk.focus,
                overview |-> desk.overview, kb |-> desk.kb, cast |-> desk.cast]
    BY DeskRecord
  <2>2. d = [mons |-> desk.mons, stray |-> desk.stray, active |-> desk.active, main |-> desk.main,
             name |-> desk.name, win |-> desk.win, front |-> front, focus |-> w,
             overview |-> desk.overview, kb |-> desk.kb, cast |-> desk.cast]
    BY <1>3, <2>1
  <2>. QED  BY <2>2, Zenon DEF Windowed
<1>6. GoodWins(desk.win, w)
  BY DeskIs DEF GoodWins
<1>7. IsDesk(d) /\ d.cast = desk.cast
  BY <1>5, <1>6, WindowedIs
<1>. QED  BY <1>4, <1>7, ChangeKeeps

\* The desktop with what it shows and casts changed.
Toggled(d, overview, kb, cast) ==
    [mons |-> d.mons, stray |-> d.stray, active |-> d.active, main |-> d.main, name |-> d.name,
     win |-> d.win, front |-> d.front, focus |-> d.focus, overview |-> overview,
     kb |-> kb, cast |-> cast]

LEMMA ToggledIs ==
    ASSUME NEW d, IsDesk(d), NEW overview, NEW kb \in {0, 1}, NEW cast,
           NEW e, e = Toggled(d, overview, kb, cast)
    PROVE  IsDesk(e) /\ e.cast = cast
<1>1. e = Desk(d.mons, d.stray, d.active, d.main, d.name, d.win, d.front, d.focus, overview, kb, cast)
  BY Zenon DEF Toggled, Desk
<1>. QED  BY <1>1, DeskIs, MakesDesk

LEMMA MoveWindowKeeps ==
    ASSUME IsDesk(desk), MoveWindow
    PROVE  KeepsDesk
<1>1. PICK w, s : Change([desk EXCEPT !.win[w].ws = s])
  BY Zenon DEF MoveWindow
<1>2. PICK x : x = [desk.win[w] EXCEPT !.ws = s]
  OBVIOUS
<1>3. PICK win : win = [desk.win EXCEPT ![w] = x]
  OBVIOUS
<1>4. PICK d : d = [desk EXCEPT !.win = win]
  OBVIOUS
<1>5. Change(d)
  BY <1>1, <1>2, <1>3, <1>4
<1>6. KeepsDesk
  BY <1>3, <1>4, <1>5, WindowChangeKeeps
<1>. QED  BY <1>6

LEMMA AlterWindowKeeps ==
    ASSUME IsDesk(desk), AlterWindow
    PROVE  KeepsDesk
<1>1. PICK w \in DOMAIN desk.win :
        \/ Change([desk EXCEPT !.win[w].info = 1 - @])
        \/ Change([desk EXCEPT !.win[w].shape = 1 - @])
        \/ Change([desk EXCEPT !.win[w].urgent = ~@])
        \/ Change([desk EXCEPT !.win[w].ts = 1 - @])
  BY Zenon DEF AlterWindow
<1>2. ASSUME NEW x, Change([desk EXCEPT !.win = [desk.win EXCEPT ![w] = x]])
      PROVE  KeepsDesk
  <2>1. PICK win : win = [desk.win EXCEPT ![w] = x]
    OBVIOUS
  <2>2. PICK d : d = [desk EXCEPT !.win = win]
    OBVIOUS
  <2>3. Change(d)
    BY <1>2, <2>1, <2>2
  <2>. QED  BY <2>1, <2>2, <2>3, WindowChangeKeeps
<1>3. CASE Change([desk EXCEPT !.win[w].info = 1 - @])
  <2>1. PICK x : x = [desk.win[w] EXCEPT !.info = 1 - @]
    OBVIOUS
  <2>2. Change([desk EXCEPT !.win = [desk.win EXCEPT ![w] = x]])
    BY <1>3, <2>1
  <2>. QED  BY <1>2, <2>2, Zenon
<1>4. CASE Change([desk EXCEPT !.win[w].shape = 1 - @])
  <2>1. PICK x : x = [desk.win[w] EXCEPT !.shape = 1 - @]
    OBVIOUS
  <2>2. Change([desk EXCEPT !.win = [desk.win EXCEPT ![w] = x]])
    BY <1>4, <2>1
  <2>. QED  BY <1>2, <2>2, Zenon
<1>5. CASE Change([desk EXCEPT !.win[w].urgent = ~@])
  <2>1. PICK x : x = [desk.win[w] EXCEPT !.urgent = ~@]
    OBVIOUS
  <2>2. Change([desk EXCEPT !.win = [desk.win EXCEPT ![w] = x]])
    BY <1>5, <2>1
  <2>. QED  BY <1>2, <2>2, Zenon
<1>6. CASE Change([desk EXCEPT !.win[w].ts = 1 - @])
  <2>1. PICK x : x = [desk.win[w] EXCEPT !.ts = 1 - @]
    OBVIOUS
  <2>2. Change([desk EXCEPT !.win = [desk.win EXCEPT ![w] = x]])
    BY <1>6, <2>1
  <2>. QED  BY <1>2, <2>2, Zenon
<1>. QED  BY <1>1, <1>3, <1>4, <1>5, <1>6, Zenon

LEMMA ToggleKeeps ==
    ASSUME IsDesk(desk), CastsFit(server, desk), Toggle
    PROVE  IsDesk(desk') /\ CastsFit(server, desk') /\ dirty' = TRUE
<1>0. desk.kb \in {0, 1}
  BY DeskIs
<1>1. ASSUME NEW overview, NEW kb \in {0, 1}, NEW cast, NEW d, Change(d),
             d = Toggled(desk, overview, kb, cast),
             \/ cast = desk.cast
             \/ cast = "pending" /\ desk.cast = "none"
             \/ cast \in {"casting", "paused", "ended"}
      PROVE  IsDesk(desk') /\ CastsFit(server, desk') /\ dirty' = TRUE
  <2>1. IsDesk(d) /\ d.cast = cast
    BY <1>1, ToggledIs
  <2>2. CastsFit(server, d)
    <3>1. CASE cast = desk.cast
      BY <2>1, <3>1 DEF CastsFit
    <3>2. CASE cast = "pending" /\ desk.cast = "none"
      BY <2>1, <3>2 DEF CastsFit
    <3>3. CASE cast \in {"casting", "paused", "ended"}
      BY <2>1, <3>3 DEF CastsFit
    <3>. QED  BY <1>1, <3>1, <3>2, <3>3
  <2>3. desk' = d /\ dirty' = TRUE
    BY <1>1 DEF Change
  <2>. QED  BY <2>1, <2>2, <2>3
<1>2. CASE Change([desk EXCEPT !.overview = ~@])
  <2>1. PICK x : x = ~desk.overview
    OBVIOUS
  <2>2. PICK d : d = [desk EXCEPT !.overview = x]
    OBVIOUS
  <2>3. d = Toggled(desk, x, desk.kb, desk.cast)
    BY <2>2, DeskRecord DEF Toggled
  <2>4. Change(d)
    BY <1>2, <2>1, <2>2
  <2>. QED  BY <1>0, <1>1, <2>3, <2>4, Zenon
<1>3. CASE Change([desk EXCEPT !.kb = 1 - @])
  <2>1. PICK x : x = 1 - desk.kb
    OBVIOUS
  <2>2. PICK d : d = [desk EXCEPT !.kb = x]
    OBVIOUS
  <2>3. d = Toggled(desk, desk.overview, x, desk.cast)
    BY <2>2, DeskRecord DEF Toggled
  <2>4. Change(d)
    BY <1>3, <2>1, <2>2
  <2>5. x \in {0, 1}
    BY <1>0, <2>1
  <2>. QED  BY <1>1, <2>3, <2>4, <2>5, Zenon
<1>4. CASE \E c \in {"pending", "casting", "paused", "ended"} :
             /\ desk.cast # "ended"
             /\ c = "pending" => desk.cast = "none"
             /\ Change([desk EXCEPT !.cast = c])
  <2>1. PICK c \in {"pending", "casting", "paused", "ended"} :
             /\ c = "pending" => desk.cast = "none"
             /\ Change([desk EXCEPT !.cast = c])
    BY <1>4, Zenon
  <2>2. PICK d : d = [desk EXCEPT !.cast = c]
    OBVIOUS
  <2>3. d = Toggled(desk, desk.overview, desk.kb, c)
    BY <2>2, DeskRecord DEF Toggled
  <2>4. Change(d)
    BY <2>1, <2>2
  <2>5. (c = "pending" /\ desk.cast = "none") \/ c \in {"casting", "paused", "ended"}
    BY <2>1
  <2>. QED  BY <1>0, <1>1, <2>3, <2>4, <2>5, Zenon
<1>. QED  BY <1>2, <1>3, <1>4, Zenon DEF Toggle

\* What the bar and the panel ask for.
LEMMA ActivateKeeps ==
    ASSUME NEW d, IsDesk(d), NEW s, NEW e, e = ActivateWorkspace(d, s)
    PROVE  IsDesk(e) /\ e.cast = d.cast /\ e.win = d.win
<1>1. CASE s \notin Workspaces(d) \/ OutputOf(d, s) = Nil
  BY <1>1 DEF ActivateWorkspace
<1>2. CASE ~(s \notin Workspaces(d) \/ OutputOf(d, s) = Nil)
  <2>1. PICK o, i : o = OutputOf(d, s) /\ i = WsIdx(d, s)
    OBVIOUS
  <2>2. o \in Connected(d) /\ i \in DOMAIN d.mons[o]
    BY <1>2, <2>1, HasPlace
  <2>3. e = [d EXCEPT !.main = o, !.active[o] = i]
    BY <1>2, <2>1 DEF ActivateWorkspace
  <2>4. PICK active : active = [d.active EXCEPT ![o] = i]
    OBVIOUS
  <2>5. e = Arranged(d, d.mons, d.stray, active, o, d.name)
    <3>1. e = [d EXCEPT !.main = o, !.active = active]
      BY <2>3, <2>4, DeskRecord
    <3>2. d = [mons |-> d.mons, stray |-> d.stray, active |-> d.active, main |-> d.main,
               name |-> d.name, win |-> d.win, front |-> d.front, focus |-> d.focus,
               overview |-> d.overview, kb |-> d.kb, cast |-> d.cast]
      BY DeskRecord
    <3>3. e = [mons |-> d.mons, stray |-> d.stray, active |-> active, main |-> o,
               name |-> d.name, win |-> d.win, front |-> d.front, focus |-> d.focus,
               overview |-> d.overview, kb |-> d.kb, cast |-> d.cast]
      BY <3>1, <3>2
    <3>. QED  BY <3>3, Zenon DEF Arranged
  <2>6. GoodMons(d.mons, d.stray, d.active, d.main)
    BY DeskIs
  <2>7. i \in Nat
    <3>1. d.mons[o] \in Seq(Workspace)
      BY <2>2, <2>6 DEF GoodMons, WellArranged, Connected
    <3>. QED  BY <2>2, <3>1
  <2>8. GoodMons(d.mons, d.stray, active, o)
    <3>1. active \in [DOMAIN d.mons -> Nat]
      BY <2>4, <2>6, <2>7 DEF GoodMons
    <3>2. \A p \in DOMAIN d.mons : active[p] \in DOMAIN d.mons[p]
      BY <2>2, <2>4, <2>6 DEF GoodMons
    <3>. QED  BY <2>2, <2>6, <3>1, <3>2 DEF GoodMons, Connected
  <2>9. IsDesk(e) /\ e.cast = d.cast
    BY <2>5, <2>8, ArrangedIs
  <2>10. e.win = d.win
    BY <2>5 DEF Arranged
  <2>. QED  BY <2>9, <2>10
<1>. QED  BY <1>1, <1>2

LEMMA ActivateToplevelKeeps ==
    ASSUME IsDesk(desk), ActivateToplevel
    PROVE  KeepsDesk
<1>1. PICK w \in DOMAIN desk.win :
        Change(LET s == desk.win[w].ws
                   d == IF s = Nil THEN desk ELSE ActivateWorkspace(desk, s)
               IN  [d EXCEPT !.focus = w, !.front = w])
  BY Zenon DEF ActivateToplevel
<1>2. PICK s : s = desk.win[w].ws
  OBVIOUS
<1>3. PICK d : d = (IF s = Nil THEN desk ELSE ActivateWorkspace(desk, s))
  OBVIOUS
<1>4. PICK e : e = [d EXCEPT !.focus = w, !.front = w]
  OBVIOUS
<1>5. Change(e)
  BY <1>1, <1>2, <1>3, <1>4, Zenon
<1>6. IsDesk(d) /\ d.cast = desk.cast /\ d.win = desk.win
  BY <1>3, ActivateKeeps
<1>7. e = Windowed(d, d.win, w, w)
  <2>1. d = [mons |-> d.mons, stray |-> d.stray, active |-> d.active, main |-> d.main,
             name |-> d.name, win |-> d.win, front |-> d.front, focus |-> d.focus,
             overview |-> d.overview, kb |-> d.kb, cast |-> d.cast]
    BY <1>6, DeskRecord
  <2>2. e = [mons |-> d.mons, stray |-> d.stray, active |-> d.active, main |-> d.main,
             name |-> d.name, win |-> d.win, front |-> w, focus |-> w,
             overview |-> d.overview, kb |-> d.kb, cast |-> d.cast]
    BY <1>4, <2>1
  <2>. QED  BY <2>2, Zenon DEF Windowed
<1>8. GoodWins(d.win, w)
  BY <1>6, DeskIs DEF GoodWins
<1>9. IsDesk(e) /\ e.cast = desk.cast
  BY <1>6, <1>7, <1>8, WindowedIs
<1>. QED  BY <1>5, <1>9, ChangeKeeps

LEMMA SeqDomain ==
    ASSUME NEW S, NEW q \in Seq(S)
    PROVE  Len(q) \in Nat /\ DOMAIN q = 1 .. Len(q)
  OBVIOUS

LEMMA RemoveAtIs ==
    ASSUME NEW S, NEW q \in Seq(S), NEW i \in 1 .. Len(q), NEW r, r = RemoveAt(q, i)
    PROVE  /\ r \in Seq(S) /\ Len(r) = Len(q) - 1
           /\ \A j \in 1 .. Len(r) : r[j] = IF j < i THEN q[j] ELSE q[j + 1]
<1>1. PICK a, b : a = SubSeq(q, 1, i - 1) /\ b = SubSeq(q, i + 1, Len(q))
  OBVIOUS
<1>2. a \in Seq(S) /\ Len(a) = i - 1 /\ \A j \in 1 .. i - 1 : a[j] = q[j]
  BY <1>1
<1>3. b \in Seq(S) /\ Len(b) = Len(q) - i /\ \A j \in 1 .. Len(q) - i : b[j] = q[i + j]
  BY <1>1
<1>4. r = a \o b
  BY <1>1 DEF RemoveAt
<1>5. r \in Seq(S) /\ Len(r) = Len(q) - 1
  <2>1. r \in Seq(S) /\ Len(r) = Len(a) + Len(b)
    BY <1>2, <1>3, <1>4, ConcatProperties
  <2>2. Len(q) \in Nat
    OBVIOUS
  <2>. QED  BY <1>2, <1>3, <2>1, <2>2
<1>6. \A j \in 1 .. Len(r) : r[j] = IF j <= Len(a) THEN a[j] ELSE b[j - Len(a)]
  BY <1>2, <1>3, <1>4, <1>5, ConcatProperties
<1>7. ASSUME NEW j \in 1 .. Len(r) PROVE r[j] = IF j < i THEN q[j] ELSE q[j + 1]
  <2>1. CASE j < i
    BY <1>2, <1>6, <2>1
  <2>2. CASE ~(j < i)
    <3>1. j - (i - 1) \in 1 .. Len(q) - i /\ i + (j - (i - 1)) = j + 1
      BY <1>5, <2>2
    <3>. QED  BY <1>2, <1>3, <1>6, <2>2, <3>1
  <2>. QED  BY <2>1, <2>2
<1>. QED  BY <1>5, <1>7

Inserts(S, q, i, s, r) ==
    /\ r \in Seq(S) /\ Len(r) = Len(q) + 1
    /\ \A j \in 1 .. Len(r) : r[j] = IF j < i THEN q[j] ELSE IF j = i THEN s ELSE q[j - 1]

LEMMA InsertAtIs ==
    ASSUME NEW S, NEW q \in Seq(S), NEW i \in Nat, 1 <= i, i <= Len(q) + 1, NEW s \in S,
           NEW r, r = InsertAt(q, i, s)
    PROVE  Inserts(S, q, i, s, r)
<1>1. PICK a, b, c : a = SubSeq(q, 1, i - 1) /\ b = <<s>> /\ c = SubSeq(q, i, Len(q))
  OBVIOUS
<1>2. a \in Seq(S) /\ Len(a) = i - 1 /\ \A j \in 1 .. i - 1 : a[j] = q[j]
  BY <1>1
<1>3. b \in Seq(S) /\ Len(b) = 1 /\ b[1] = s
  BY <1>1
<1>4. c \in Seq(S) /\ Len(c) = Len(q) - (i - 1) /\ \A j \in 1 .. Len(q) - (i - 1) : c[j] = q[(i - 1) + j]
  BY <1>1
<1>5. PICK ab : ab = a \o b
  OBVIOUS
<1>6. ab \in Seq(S) /\ Len(ab) = i /\ \A j \in 1 .. i : ab[j] = IF j < i THEN q[j] ELSE s
  <2>1. /\ ab \in Seq(S) /\ Len(ab) = Len(a) + Len(b)
        /\ \A j \in 1 .. Len(a) + Len(b) : ab[j] = IF j <= Len(a) THEN a[j] ELSE b[j - Len(a)]
    BY <1>2, <1>3, <1>5, ConcatProperties
  <2>2. Len(a) + Len(b) = i
    BY <1>2, <1>3
  <2>3. ASSUME NEW j \in 1 .. i PROVE ab[j] = IF j < i THEN q[j] ELSE s
    <3>1. CASE j < i
      <4>1. j <= Len(a) /\ j \in 1 .. i - 1
        BY <1>2, <3>1
      <4>. QED  BY <1>2, <2>1, <2>2, <3>1, <4>1
    <3>2. CASE ~(j < i)
      <4>1. ~(j <= Len(a)) /\ j - Len(a) = 1
        BY <1>2, <3>2
      <4>. QED  BY <1>3, <2>1, <2>2, <3>2, <4>1
    <3>. QED  BY <3>1, <3>2
  <2>. QED  BY <2>1, <2>2, <2>3
<1>7. r = ab \o c
  BY <1>1, <1>5 DEF InsertAt
<1>8. r \in Seq(S) /\ Len(r) = Len(q) + 1
  BY <1>4, <1>6, <1>7, ConcatProperties
<1>9. \A j \in 1 .. Len(r) : r[j] = IF j <= i THEN ab[j] ELSE c[j - i]
  BY <1>4, <1>6, <1>7, <1>8, ConcatProperties
<1>10. ASSUME NEW j \in 1 .. Len(r)
       PROVE  r[j] = IF j < i THEN q[j] ELSE IF j = i THEN s ELSE q[j - 1]
  <2>1. CASE j <= i
    BY <1>6, <1>9, <2>1
  <2>2. CASE ~(j <= i)
    <3>1. j - i \in 1 .. Len(q) - (i - 1) /\ (i - 1) + (j - i) = j - 1
      BY <1>8, <2>2
    <3>. QED  BY <1>4, <1>9, <2>2, <3>1
  <2>. QED  BY <2>1, <2>2
<1>. QED  BY <1>8, <1>10 DEF Inserts

\* Where a workspace was before one at i of p went to at of o.
Before(mons, p, i, o, at, q, j) ==
    IF q = o THEN IF j < at THEN <<o, j>> ELSE IF j = at THEN <<p, i>> ELSE <<o, j - 1>>
    ELSE IF q = p /\ ~(j < i) THEN <<p, j + 1>> ELSE <<q, j>>

MovedTo(mons, p, o, x, y) ==
    [q \in DOMAIN mons |-> IF q = o THEN y ELSE IF q = p THEN x ELSE mons[q]]

HasMoved(mons, p, o, new) ==
    /\ WellArranged(new)
    /\ Len(new[p]) = Len(mons[p]) - 1 /\ Len(new[o]) = Len(mons[o]) + 1
    /\ Len(mons[p]) \in Nat /\ Len(mons[o]) \in Nat
    /\ DOMAIN mons[p] = 1 .. Len(mons[p]) /\ DOMAIN mons[o] = 1 .. Len(mons[o])
    /\ DOMAIN new[p] = 1 .. Len(new[p]) /\ DOMAIN new[o] = 1 .. Len(new[o])

\* A workspace moved from a monitor to another is on no other, and on it once.
LEMMA MovedIsArranged ==
    ASSUME NEW mons, WellArranged(mons), NEW p \in DOMAIN mons, NEW o \in DOMAIN mons, p # o,
           NEW i \in DOMAIN mons[p], NEW at \in Nat, 1 <= at, at <= Len(mons[o]) + 1,
           NEW x, x = RemoveAt(mons[p], i), x # <<>>,
           NEW y, y = InsertAt(mons[o], at, mons[p][i]),
           NEW new, new = MovedTo(mons, p, o, x, y)
    PROVE  HasMoved(mons, p, o, new)
<1>1. /\ \A q \in DOMAIN mons : mons[q] \in Seq(Workspace) /\ mons[q] # <<>>
      /\ DOMAIN mons \subseteq Output
      /\ \A q, r \in DOMAIN mons : \A j \in DOMAIN mons[q], k \in DOMAIN mons[r] :
            mons[q][j] = mons[r][k] => q = r /\ j = k
  BY DEF WellArranged
<1>2. PICK a, b, s : a = mons[p] /\ b = mons[o] /\ s = mons[p][i]
  OBVIOUS
<1>3. /\ a \in Seq(Workspace) /\ b \in Seq(Workspace) /\ i \in 1 .. Len(a)
      /\ at \in Nat /\ 1 <= at /\ at <= Len(b) + 1
      /\ s = a[i]
  BY <1>1, <1>2
<1>4. s \in Workspace
  BY <1>3
<1>5. /\ x \in Seq(Workspace) /\ Len(x) = Len(a) - 1
      /\ \A j \in 1 .. Len(x) : x[j] = IF j < i THEN a[j] ELSE a[j + 1]
  BY <1>2, <1>3, RemoveAtIs
<1>6. /\ y \in Seq(Workspace) /\ Len(y) = Len(b) + 1
      /\ \A j \in 1 .. Len(y) : y[j] = IF j < at THEN b[j] ELSE IF j = at THEN s ELSE b[j - 1]
  <2>1. y = InsertAt(b, at, s)
    BY <1>2
  <2>2. Inserts(Workspace, b, at, s, y)
    BY <1>3, <1>4, <2>1, InsertAtIs
  <2>. QED  BY <2>2 DEF Inserts
<1>7. y # <<>>
  BY <1>3, <1>6
<1>8. /\ new[p] = x /\ new[o] = y /\ DOMAIN new = DOMAIN mons
      /\ new = [q \in DOMAIN mons |-> IF q = o THEN y ELSE IF q = p THEN x ELSE mons[q]]
      /\ \A q \in DOMAIN mons : q # o /\ q # p => new[q] = mons[q]
  BY DEF MovedTo
<1>9. /\ Len(a) \in Nat /\ Len(b) \in Nat /\ DOMAIN a = 1 .. Len(a) /\ DOMAIN b = 1 .. Len(b)
      /\ Len(x) \in Nat /\ Len(y) \in Nat /\ DOMAIN x = 1 .. Len(x) /\ DOMAIN y = 1 .. Len(y)
  BY <1>3, <1>5, <1>6, SeqDomain, Zenon
<1>10. \A q \in DOMAIN new : new[q] \in Seq(Workspace) \ {<<>>}
  BY <1>1, <1>5, <1>6, <1>7, <1>8
<1>11. ASSUME NEW q \in DOMAIN new, NEW j \in DOMAIN new[q]
       PROVE  \E c \in DOMAIN mons : \E k \in DOMAIN mons[c] :
                  Before(mons, p, i, o, at, q, j) = <<c, k>> /\ new[q][j] = mons[c][k]
  <2>1. CASE q = o
    <3>1. j \in 1 .. Len(y) /\ new[q][j] = y[j]
      BY <1>8, <1>9, <2>1
    <3>2. CASE j < at
      <4>1. j \in DOMAIN b /\ y[j] = b[j]
        BY <1>3, <1>6, <1>9, <3>1, <3>2
      <4>2. Before(mons, p, i, o, at, q, j) = <<o, j>>
        BY <2>1, <3>2 DEF Before
      <4>. QED  BY <1>2, <3>1, <4>1, <4>2
    <3>3. CASE j = at
      <4>1. y[j] = s
        BY <1>3, <1>6, <1>9, <3>1, <3>3
      <4>2. Before(mons, p, i, o, at, q, j) = <<p, i>>
        BY <1>3, <1>9, <2>1, <3>3 DEF Before
      <4>. QED  BY <1>2, <3>1, <4>1, <4>2
    <3>4. CASE ~(j < at) /\ j # at
      <4>1. j - 1 \in DOMAIN b /\ y[j] = b[j - 1]
        BY <1>3, <1>6, <1>9, <3>1, <3>4
      <4>2. Before(mons, p, i, o, at, q, j) = <<o, j - 1>>
        BY <2>1, <3>4 DEF Before
      <4>. QED  BY <1>2, <3>1, <4>1, <4>2
    <3>. QED  BY <3>2, <3>3, <3>4
  <2>2. CASE q = p
    <3>1. j \in 1 .. Len(x) /\ new[q][j] = x[j]
      BY <1>8, <1>9, <2>2
    <3>2. CASE j < i
      <4>1. j \in DOMAIN a /\ x[j] = a[j]
        BY <1>3, <1>5, <1>9, <3>1, <3>2
      <4>2. Before(mons, p, i, o, at, q, j) = <<p, j>>
        BY <2>2, <3>2 DEF Before
      <4>. QED  BY <1>2, <3>1, <4>1, <4>2
    <3>3. CASE ~(j < i)
      <4>1. j + 1 \in DOMAIN a /\ x[j] = a[j + 1]
        BY <1>3, <1>5, <1>9, <3>1, <3>3
      <4>2. Before(mons, p, i, o, at, q, j) = <<p, j + 1>>
        BY <2>2, <3>3 DEF Before
      <4>. QED  BY <1>2, <3>1, <4>1, <4>2
    <3>. QED  BY <3>2, <3>3
  <2>3. CASE q # o /\ q # p
    <3>1. new[q] = mons[q] /\ q \in DOMAIN mons
      BY <1>8, <2>3
    <3>2. Before(mons, p, i, o, at, q, j) = <<q, j>>
      BY <2>3 DEF Before
    <3>. QED  BY <3>1, <3>2
  <2>. QED  BY <2>1, <2>2, <2>3
<1>12. ASSUME NEW q \in DOMAIN new, NEW j \in DOMAIN new[q], NEW r \in DOMAIN new, NEW k \in DOMAIN new[r],
              Before(mons, p, i, o, at, q, j) = Before(mons, p, i, o, at, r, k)
       PROVE  q = r /\ j = k
  <2>1. j \in Int /\ k \in Int /\ i \in Int /\ at \in Int
    BY <1>3, <1>9, <1>10
  <2>2. \A g, h, g2, h2 : <<g, h>> = <<g2, h2>> => g = g2 /\ h = h2
    OBVIOUS
  <2>. QED  BY <1>12, <2>1, <2>2 DEF Before
<1>13. ASSUME NEW q \in DOMAIN new, NEW r \in DOMAIN new, NEW j \in DOMAIN new[q], NEW k \in DOMAIN new[r],
              new[q][j] = new[r][k]
       PROVE  q = r /\ j = k
  <2>1. PICK c \in DOMAIN mons : \E l \in DOMAIN mons[c] :
            Before(mons, p, i, o, at, q, j) = <<c, l>> /\ new[q][j] = mons[c][l]
    BY <1>11
  <2>2. PICK l \in DOMAIN mons[c] :
            Before(mons, p, i, o, at, q, j) = <<c, l>> /\ new[q][j] = mons[c][l]
    BY <2>1
  <2>3. PICK d \in DOMAIN mons : \E m \in DOMAIN mons[d] :
            Before(mons, p, i, o, at, r, k) = <<d, m>> /\ new[r][k] = mons[d][m]
    BY <1>11
  <2>4. PICK m \in DOMAIN mons[d] :
            Before(mons, p, i, o, at, r, k) = <<d, m>> /\ new[r][k] = mons[d][m]
    BY <2>3
  <2>5. c = d /\ l = m
    <3>1. mons[c][l] = mons[d][m]
      BY <1>13, <2>2, <2>4
    <3>2. \A q2, r2 \in DOMAIN mons : \A j2 \in DOMAIN mons[q2], k2 \in DOMAIN mons[r2] :
              mons[q2][j2] = mons[r2][k2] => q2 = r2 /\ j2 = k2
      BY <1>1, Zenon
    <3>3. mons[c][l] = mons[d][m] => c = d /\ l = m
      BY <3>2, SMTT(30)
    <3>. QED  BY <3>1, <3>3
  <2>. QED  BY <1>12, <2>2, <2>4, <2>5
<1>14. WellArranged(new)
  BY <1>1, <1>8, <1>10, <1>13, Zenon DEF WellArranged
<1>. QED  BY <1>2, <1>5, <1>6, <1>8, <1>9, <1>14 DEF HasMoved

LEMMA AssignKeeps ==
    ASSUME NEW d, IsDesk(d), NEW s, NEW o \in Connected(d), NEW e, e = AssignWorkspace(d, s, o),
           \A p \in Connected(e) : e.mons[p] # <<>>
    PROVE  IsDesk(e) /\ e.cast = d.cast
<1>0. CASE s \notin Workspaces(d) \/ OutputOf(d, s) \in {Nil, o}
  BY <1>0 DEF AssignWorkspace
<1>. SUFFICES ASSUME ~(s \notin Workspaces(d) \/ OutputOf(d, s) \in {Nil, o})
              PROVE  IsDesk(e) /\ e.cast = d.cast
  BY <1>0
<1>1. GoodMons(d.mons, d.stray, d.active, d.main)
  BY DeskIs
<1>2. PICK p, i, act : p = OutputOf(d, s) /\ i = WsIdx(d, s) /\ act = d.active[o]
  OBVIOUS
<1>3. p \in DOMAIN d.mons /\ o \in DOMAIN d.mons /\ i \in DOMAIN d.mons[p] /\ d.mons[p][i] = s /\ p # o
  BY <1>2, HasPlace DEF Connected
<1>4. PICK at : at = (IF act + 1 = Len(d.mons[o]) + 1 THEN act ELSE act + 1)
  OBVIOUS
<1>5. PICK takes \in BOOLEAN : takes <=> IsFocused(d, s)
  OBVIOUS
<1>6. PICK x, y : x = RemoveAt(d.mons[p], i) /\ y = InsertAt(d.mons[o], at, s)
  OBVIOUS
<1>7. PICK mons, moved, main :
         /\ mons = [d.mons EXCEPT ![p] = RemoveAt(@, i), ![o] = InsertAt(@, at, s)]
         /\ moved = [d.active EXCEPT
                        ![p] = IF i <= @ /\ @ > 1 THEN @ - 1 ELSE @,
                        ![o] = IF takes THEN at ELSE IF at <= @ THEN @ + 1 ELSE @]
         /\ main = (IF takes THEN o ELSE d.main)
  OBVIOUS
<1>8. e = [d EXCEPT !.mons = mons, !.active = moved, !.main = IF takes THEN o ELSE @]
  BY <1>2, <1>4, <1>5, <1>7, Zenon DEF AssignWorkspace
<1>9. e = Arranged(d, mons, d.stray, moved, main, d.name)
  <2>1. d = [mons |-> d.mons, stray |-> d.stray, active |-> d.active, main |-> d.main,
             name |-> d.name, win |-> d.win, front |-> d.front, focus |-> d.focus,
             overview |-> d.overview, kb |-> d.kb, cast |-> d.cast]
    BY DeskRecord
  <2>2. e = [d EXCEPT !.mons = mons, !.active = moved, !.main = main]
    BY <1>7, <1>8
  <2>3. e = [mons |-> mons, stray |-> d.stray, active |-> moved, main |-> main,
             name |-> d.name, win |-> d.win, front |-> d.front, focus |-> d.focus,
             overview |-> d.overview, kb |-> d.kb, cast |-> d.cast]
    BY <2>1, <2>2
  <2>. QED  BY <2>3, Zenon DEF Arranged
<1>10. /\ DOMAIN mons = DOMAIN d.mons /\ mons[p] = x /\ mons[o] = y
       /\ \A q \in DOMAIN d.mons : q # o /\ q # p => mons[q] = d.mons[q]
       /\ mons = MovedTo(d.mons, p, o, x, y)
  <2>1. \A q \in DOMAIN d.mons : mons[q] = IF q = o THEN y ELSE IF q = p THEN x ELSE d.mons[q]
    BY <1>3, <1>6, <1>7
  <2>2. mons = [q \in DOMAIN d.mons |-> mons[q]]
    BY <1>7
  <2>. QED  BY <1>3, <2>1, <2>2 DEF MovedTo
<1>11. x # <<>>
  BY <1>3, <1>9, <1>10 DEF Arranged, Connected
<1>12. /\ act \in Nat /\ act >= 1 /\ act <= Len(d.mons[o]) /\ Len(d.mons[o]) \in Nat
       /\ at \in Nat /\ 1 <= at /\ at <= Len(d.mons[o]) + 1
  <2>1. act \in Nat /\ act \in DOMAIN d.mons[o] /\ d.mons[o] \in Seq(Workspace)
    BY <1>1, <1>2, <1>3 DEF GoodMons, WellArranged
  <2>2. act >= 1 /\ act <= Len(d.mons[o]) /\ Len(d.mons[o]) \in Nat
    BY <2>1
  <2>. QED  BY <1>4, <2>1, <2>2
<1>13. /\ WellArranged(mons)
       /\ Len(mons[p]) = Len(d.mons[p]) - 1 /\ Len(mons[o]) = Len(d.mons[o]) + 1
       /\ Len(d.mons[p]) \in Nat /\ Len(d.mons[o]) \in Nat
       /\ DOMAIN d.mons[p] = 1 .. Len(d.mons[p]) /\ DOMAIN d.mons[o] = 1 .. Len(d.mons[o])
       /\ DOMAIN mons[p] = 1 .. Len(mons[p]) /\ DOMAIN mons[o] = 1 .. Len(mons[o])
  <2>1. WellArranged(d.mons)
    BY <1>1 DEF GoodMons
  <2>2. y = InsertAt(d.mons[o], at, d.mons[p][i])
    BY <1>3, <1>6
  <2>3. HasMoved(d.mons, p, o, mons)
    BY <1>3, <1>6, <1>10, <1>11, <1>12, <2>1, <2>2, MovedIsArranged
  <2>. QED  BY <2>3 DEF HasMoved
<1>14. PICK b : b = d.active[p]
  OBVIOUS
<1>15. b \in Nat /\ b \in DOMAIN d.mons[p]
  BY <1>1, <1>3, <1>14 DEF GoodMons
<1>16. /\ moved[p] = IF i <= b /\ b > 1 THEN b - 1 ELSE b
       /\ moved[o] = IF takes THEN at ELSE IF at <= act THEN act + 1 ELSE act
       /\ \A q \in DOMAIN d.mons : q # o /\ q # p => moved[q] = d.active[q]
       /\ DOMAIN moved = DOMAIN d.mons /\ moved = [q \in DOMAIN moved |-> moved[q]]
  <2>1. d.active = [q \in DOMAIN d.mons |-> d.active[q]] /\ DOMAIN d.active = DOMAIN d.mons
    BY <1>1 DEF GoodMons
  <2>. QED  BY <1>2, <1>3, <1>7, <1>14, <2>1
<1>17. Len(mons[p]) >= 1
  <2>1. mons[p] \in Seq(Workspace) /\ mons[p] # <<>>
    BY <1>3, <1>10, <1>13 DEF WellArranged
  <2>. QED  BY <2>1
<1>18. moved[p] \in Nat /\ moved[p] \in DOMAIN mons[p]
  BY <1>3, <1>13, <1>15, <1>16, <1>17
<1>19. moved[o] \in Nat /\ moved[o] \in DOMAIN mons[o]
  BY <1>12, <1>13, <1>16
<1>20. \A q \in DOMAIN mons : moved[q] \in Nat /\ moved[q] \in DOMAIN mons[q]
  <2>1. ASSUME NEW q \in DOMAIN d.mons, q # o, q # p
        PROVE  moved[q] \in Nat /\ moved[q] \in DOMAIN mons[q]
    BY <1>1, <1>10, <1>16, <2>1 DEF GoodMons
  <2>. QED  BY <1>10, <1>18, <1>19, <2>1
<1>21. moved \in [DOMAIN mons -> Nat]
  BY <1>10, <1>16, <1>20
<1>22. main \in DOMAIN mons /\ DOMAIN mons # {}
  <2>1. d.main \in DOMAIN d.mons
    BY <1>1, <1>3 DEF GoodMons
  <2>. QED  BY <1>3, <1>7, <1>10, <2>1
<1>23. GoodMons(mons, d.stray, moved, main)
  BY <1>1, <1>13, <1>20, <1>21, <1>22 DEF GoodMons
<1>. QED  BY <1>9, <1>23, ArrangedIs

----------------------------------------------------------------------------
\* The actions of a bar, one after the other.

PerformIf(kind, d, a) == IF a.do = kind THEN Perform(d, a) ELSE d

ArePerformed(after, kind, d, q, n) ==
    after = [i \in 0 .. n |-> IF i = 0 THEN d ELSE PerformIf(kind, after[i - 1], q[i])]

LEMMA PerformedExist ==
    ASSUME NEW m \in Nat, NEW kind, NEW d, NEW q
    PROVE  \E after : ArePerformed(after, kind, d, q, m)
<1>1. PICK bad : bad = {i \in Nat : ~\E after : ArePerformed(after, kind, d, q, i)}
  OBVIOUS
<1>2. CASE bad = {}
  BY <1>1, <1>2
<1>3. CASE bad # {}
  <2>1. PICK n \in bad : \A i \in bad : n <= i
    BY <1>1, <1>3, LeastNatural
  <2>2. n \in Nat /\ ~\E after : ArePerformed(after, kind, d, q, n)
    BY <1>1, <2>1
  <2>3. CASE n = 0
    <3>1. PICK after : after = [i \in 0 .. n |-> d]
      OBVIOUS
    <3>2. after = [i \in 0 .. n |-> IF i = 0 THEN d ELSE PerformIf(kind, after[i - 1], q[i])]
      BY <2>3, <3>1
    <3>. QED  BY <2>2, <3>2 DEF ArePerformed
  <2>4. CASE n # 0
    <3>1. n - 1 \in Nat /\ n - 1 \notin bad
      BY <2>1, <2>2, <2>4
    <3>2. PICK before : ArePerformed(before, kind, d, q, n - 1)
      BY <1>1, <3>1
    <3>3. PICK last : last = PerformIf(kind, before[n - 1], q[n])
      OBVIOUS
    <3>4. PICK after : after = [i \in 0 .. n |-> IF i = n THEN last ELSE before[i]]
      OBVIOUS
    <3>5. ASSUME NEW i \in 0 .. n
          PROVE  after[i] = IF i = 0 THEN d ELSE PerformIf(kind, after[i - 1], q[i])
      <4>0. before = [j \in 0 .. n - 1 |-> IF j = 0 THEN d ELSE PerformIf(kind, before[j - 1], q[j])]
        BY <3>2 DEF ArePerformed
      <4>1. CASE i = 0
        <5>1. after[i] = before[i] /\ i \in 0 .. n - 1
          BY <2>2, <2>4, <3>4, <4>1
        <5>. QED  BY <4>0, <4>1, <5>1
      <4>2. CASE i = n
        <5>1. i - 1 \in 0 .. n /\ i - 1 # n
          BY <2>2, <2>4, <4>2
        <5>2. after[i - 1] = before[n - 1] /\ after[i] = last
          BY <3>4, <4>2, <5>1
        <5>. QED  BY <2>4, <3>3, <4>2, <5>2
      <4>3. CASE i # 0 /\ i # n
        <5>1. i \in 0 .. n - 1 /\ i - 1 \in 0 .. n /\ i - 1 # n
          BY <2>2, <4>3
        <5>2. after[i - 1] = before[i - 1] /\ after[i] = before[i]
          BY <3>4, <4>3, <5>1
        <5>3. before[i] = PerformIf(kind, before[i - 1], q[i])
          BY <4>0, <4>3, <5>1
        <5>. QED  BY <4>3, <5>2, <5>3
      <4>. QED  BY <4>1, <4>2, <4>3
    <3>6. after = [i \in 0 .. n |-> after[i]]
      BY <3>4
    <3>7. ArePerformed(after, kind, d, q, n)
      BY <3>5, <3>6 DEF ArePerformed
    <3>. QED  BY <2>2, <3>7
  <2>. QED  BY <2>3, <2>4
<1>. QED  BY <1>2, <1>3

LEMMA PerformedIs ==
    ASSUME NEW kind, NEW d, Len(actions) \in Nat
    PROVE  ArePerformed(Performed(kind, d), kind, d, actions, Len(actions))
<1>1. PICK m, q : m = Len(actions) /\ q = actions
  OBVIOUS
<1>2. PICK after : after = CHOOSE f : f = [i \in 0 .. m |->
                               IF i = 0 THEN d ELSE PerformIf(kind, f[i - 1], q[i])]
  OBVIOUS
<1>3. ArePerformed(after, kind, d, q, m)
  <2>1. PICK some : ArePerformed(some, kind, d, q, m)
    BY <1>1, PerformedExist
  <2>2. some = [i \in 0 .. m |-> IF i = 0 THEN d ELSE PerformIf(kind, some[i - 1], q[i])]
    BY <2>1 DEF ArePerformed
  <2>. QED  BY <1>2, <2>2, Zenon DEF ArePerformed
<1>4. Performed(kind, d) = after
  BY <1>1, <1>2, Zenon DEF Performed, PerformIf
<1>. QED  BY <1>1, <1>3, <1>4

\* Nothing that is asked for spoils the desktop, where the monitors keep a workspace.
LEMMA PerformKeeps ==
    ASSUME NEW d, IsDesk(d), NEW kind, NEW a, NEW e, e = PerformIf(kind, d, a),
           a.do = kind /\ kind # "activate" => \A p \in Connected(e) : e.mons[p] # <<>>
    PROVE  IsDesk(e) /\ e.cast = d.cast
<1>1. CASE a.do # kind
  BY <1>1 DEF PerformIf
<1>2. CASE a.do = kind
  <2>1. e = Perform(d, a)
    BY <1>2 DEF PerformIf
  <2>2. CASE a.do = "activate"
    <3>1. e = ActivateWorkspace(d, a.ws)
      BY <2>1, <2>2 DEF Perform
    <3>. QED  BY <3>1, ActivateKeeps
  <2>3. CASE a.do # "activate" /\ a.output \notin Connected(d)
    <3>1. e = d
      BY <2>1, <2>3 DEF Perform
    <3>. QED  BY <3>1
  <2>4. CASE a.do # "activate" /\ a.output \in Connected(d)
    <3>1. e = AssignWorkspace(d, a.ws, a.output)
      BY <2>1, <2>4 DEF Perform
    <3>2. \A p \in Connected(e) : e.mons[p] # <<>>
      BY <1>2, <2>4
    <3>. QED  BY <2>4, <3>1, <3>2, AssignKeeps
  <2>. QED  BY <2>2, <2>3, <2>4
<1>. QED  BY <1>1, <1>2

LEMMA PerformedKeep ==
    ASSUME NEW kind, NEW d, IsDesk(d), Len(actions) \in Nat, NEW f, f = Performed(kind, d),
           kind # "activate" => \A i \in 0 .. Len(actions) : \A o \in Connected(f[i]) : f[i].mons[o] # <<>>
    PROVE  DOMAIN f = 0 .. Len(actions) /\ \A i \in 0 .. Len(actions) : IsDesk(f[i]) /\ f[i].cast = d.cast
<1>1. PICK m, q : m = Len(actions) /\ q = actions
  OBVIOUS
<1>2. f = [i \in 0 .. m |-> IF i = 0 THEN d ELSE PerformIf(kind, f[i - 1], q[i])]
  BY <1>1, PerformedIs DEF ArePerformed
<1>3. PICK bad : bad = {i \in 0 .. m : ~(IsDesk(f[i]) /\ f[i].cast = d.cast)}
  OBVIOUS
<1>4. bad = {}
  <2>1. SUFFICES ASSUME bad # {} PROVE FALSE
    OBVIOUS
  <2>2. bad \subseteq Nat
    BY <1>1, <1>3
  <2>3. PICK n \in bad : \A i \in bad : n <= i
    BY <2>1, <2>2, LeastNatural
  <2>4. n \in 0 .. m /\ ~(IsDesk(f[n]) /\ f[n].cast = d.cast)
    BY <1>3
  <2>5. n # 0
    <3>1. n = 0 => f[n] = d
      BY <1>2, <2>4
    <3>. QED  BY <2>4, <3>1
  <2>6. n - 1 \in 0 .. m /\ n - 1 \notin bad
    BY <1>1, <2>3, <2>4, <2>5
  <2>7. IsDesk(f[n - 1]) /\ f[n - 1].cast = d.cast
    BY <1>3, <2>6
  <2>8. PICK b, e, a : b = f[n - 1] /\ e = f[n] /\ a = q[n]
    OBVIOUS
  <2>9. e = PerformIf(kind, b, a)
    BY <1>2, <2>4, <2>5, <2>8
  <2>10. kind # "activate" => \A p \in Connected(e) : e.mons[p] # <<>>
    BY <1>1, <2>4, <2>8
  <2>11. IsDesk(e) /\ e.cast = b.cast
    BY <2>7, <2>8, <2>9, <2>10, PerformKeeps
  <2>. QED  BY <2>4, <2>7, <2>8, <2>11
<1>5. DOMAIN f = 0 .. m
  BY <1>2
<1>. QED  BY <1>1, <1>3, <1>4, <1>5

----------------------------------------------------------------------------
(***************************************************************************)
(* The invariant.  The server's copy is that of a desktop there was, with  *)
(* a cast at most, and after a refresh of the desktop there is; what a     *)
(* client has applied and what waits for it make up the server's copy.     *)
(***************************************************************************)
StreamIsRecord == stream # Nil => stream = [q |-> stream.q, open |-> stream.open]

StreamLeadsToServer ==
    stream # Nil /\ stream.open => IsSeq(stream.q) /\ ApplyAll(replica, stream.q) = server

ActionsInOrder == actions # Nil => IsSeq(actions)

MirrorInv ==
    /\ IsDesk(desk)
    /\ Mirrored(server, desk)
    /\ ~dirty => Agreed(server, desk)
    /\ StreamIsRecord /\ StreamLeadsToServer
    /\ ActionsInOrder

\* A step of the desktop.
LEMMA DeskMoves ==
    ASSUME MirrorInv, IsDesk(desk'), CastsFit(server, desk'), dirty' = TRUE, UNCHANGED ipcVars,
           ActionsInOrder'
    PROVE  MirrorInv'
<1>1. server' = server /\ stream' = stream /\ replica' = replica
  BY DEF ipcVars
<1>2. StreamIsRecord' /\ StreamLeadsToServer'
  BY <1>1 DEF MirrorInv, StreamIsRecord, StreamLeadsToServer
<1>3. Mirrored(server', desk')
  BY <1>1 DEF MirrorInv, Mirrored
<1>. QED  BY <1>2, <1>3 DEF MirrorInv

\* A step that is about neither the desktop nor the event stream.
LEMMA QuietStep ==
    ASSUME MirrorInv, desk' = desk, dirty' = dirty, UNCHANGED ipcVars, ActionsInOrder'
    PROVE  MirrorInv'
<1>1. server' = server /\ stream' = stream /\ replica' = replica
  BY DEF ipcVars
<1>2. StreamIsRecord' /\ StreamLeadsToServer'
  BY <1>1 DEF MirrorInv, StreamIsRecord, StreamLeadsToServer
<1>. QED  BY <1>1, <1>2 DEF MirrorInv

\* What is sent reaches the client, or it is disconnected.
LEMMA EventsSent ==
    ASSUME StreamIsRecord, StreamLeadsToServer, NEW events, IsSeq(events),
           server' = ApplyAll(server, events), SendEvents(events)
    PROVE  StreamIsRecord' /\ StreamLeadsToServer'
<1>1. PICK fits \in BOOLEAN : fits <=> Len(stream.q) + Len(events) <= BufferSize
  OBVIOUS
<1>2. /\ stream' = IF stream = Nil \/ events = <<>> THEN stream
                   ELSE IF ~stream.open \/ ~fits THEN Nil
                   ELSE [stream EXCEPT !.q = @ \o events]
      /\ replica' = IF stream # Nil /\ stream.open /\ events # <<>> /\ ~fits THEN Nil ELSE replica
  BY <1>1 DEF SendEvents
<1>3. CASE stream = Nil
  BY <1>2, <1>3 DEF StreamIsRecord, StreamLeadsToServer
<1>4. CASE stream # Nil /\ events = <<>>
  <2>1. stream' = stream /\ replica' = replica
    BY <1>2, <1>4
  <2>2. server' = server
    BY <1>4, ApplyNone
  <2>. QED  BY <2>1, <2>2 DEF StreamIsRecord, StreamLeadsToServer
<1>5. CASE stream # Nil /\ events # <<>> /\ (~stream.open \/ ~fits)
  <2>1. stream' = Nil
    BY <1>2, <1>5
  <2>. QED  BY <2>1 DEF StreamIsRecord, StreamLeadsToServer
<1>6. CASE stream # Nil /\ events # <<>> /\ stream.open /\ fits
  <2>1. PICK q : q = stream.q
    OBVIOUS
  <2>2. stream = [q |-> q, open |-> stream.open] /\ IsSeq(q) /\ ApplyAll(replica, q) = server
    BY <1>6, <2>1 DEF StreamIsRecord, StreamLeadsToServer
  <2>3. stream' = [stream EXCEPT !.q = @ \o events] /\ replica' = replica
    BY <1>2, <1>6
  <2>4. stream' = [q |-> q \o events, open |-> stream.open]
    <3>1. PICK x, z, t : x = stream /\ z = stream.open /\ t = q \o events
      OBVIOUS
    <3>2. x = [q |-> q, open |-> z]
      BY <2>2, <3>1
    <3>3. [x EXCEPT !.q = t] = [q |-> t, open |-> z]
      BY <3>2
    <3>4. stream' = [x EXCEPT !.q = t]
      BY <2>1, <2>3, <3>1
    <3>. QED  BY <3>1, <3>3, <3>4
  <2>5. IsSeq(q \o events) /\ ApplyAll(replica', q \o events) = server'
    BY <2>2, <2>3, ConcatIsSeq, ApplyConcat
  <2>. QED  BY <2>4, <2>5 DEF StreamIsRecord, StreamLeadsToServer
<1>. QED  BY <1>3, <1>4, <1>5, <1>6

LEMMA EmptyIsSeq == IsSeq(<<>>)
<1>1. <<>> \in Seq({})
  OBVIOUS
<1>. QED  BY <1>1, SeqIsSeq

LEMMA AppendIsSeq ==
    ASSUME NEW q, IsSeq(q), NEW e
    PROVE  IsSeq(Append(q, e))
<1>1. PICK S : S = {q[i] : i \in 1 .. Len(q)}
  OBVIOUS
<1>2. PICK T : T = S \cup {e}
  OBVIOUS
<1>3. q \in Seq(S)
  BY <1>1 DEF IsSeq
<1>4. q \in Seq(T) /\ e \in T
  BY <1>2, <1>3
<1>5. Append(q, e) \in Seq(T)
  BY <1>4, AppendProperties
<1>. QED  BY <1>5, SeqIsSeq

LEMMA SubscribeKeeps ==
    ASSUME MirrorInv, Subscribe, ActionsInOrder'
    PROVE  MirrorInv'
<1>1. /\ stream' = [q |-> replicate(server), open |-> TRUE] /\ replica' = DefaultState
      /\ server' = server /\ desk' = desk /\ dirty' = dirty
  BY DEF Subscribe, deskVars
<1>2. IsState(server) /\ server.kb # Nil
  BY DEF MirrorInv, Mirrored
<1>3. IsSeq(replicate(server)) /\ ApplyAll(DefaultState, replicate(server)) = server
  BY <1>2, Replicated
<1>4. StreamIsRecord' /\ StreamLeadsToServer'
  BY <1>1, <1>3 DEF StreamIsRecord, StreamLeadsToServer
<1>. QED  BY <1>1, <1>4 DEF MirrorInv

LEMMA ReadEventsKeeps ==
    ASSUME MirrorInv, ReadEvents, ActionsInOrder'
    PROVE  MirrorInv'
<1>1. /\ stream # Nil /\ stream.open
      /\ replica' = ApplyAll(replica, stream.q) /\ stream' = [stream EXCEPT !.q = <<>>]
      /\ server' = server /\ desk' = desk /\ dirty' = dirty
  BY DEF ReadEvents, deskVars
<1>2. StreamIsRecord /\ StreamLeadsToServer
  BY DEF MirrorInv
<1>3. stream' = [q |-> <<>>, open |-> stream.open]
  BY <1>1, <1>2 DEF StreamIsRecord
<1>4. replica' = server'
  BY <1>1, <1>2 DEF StreamLeadsToServer
<1>5. ApplyAll(replica', <<>>) = server'
  BY <1>4, ApplyNone
<1>6. StreamIsRecord' /\ StreamLeadsToServer'
  BY <1>3, <1>5, EmptyIsSeq DEF StreamIsRecord, StreamLeadsToServer
<1>. QED  BY <1>1, <1>6 DEF MirrorInv

LEMMA HangupKeeps ==
    ASSUME MirrorInv, Hangup, ActionsInOrder'
    PROVE  MirrorInv'
<1>1. /\ stream' = [q |-> <<>>, open |-> FALSE]
      /\ server' = server /\ desk' = desk /\ dirty' = dirty
  BY DEF Hangup, deskVars
<1>2. StreamIsRecord' /\ StreamLeadsToServer'
  BY <1>1 DEF StreamIsRecord, StreamLeadsToServer
<1>. QED  BY <1>1, <1>2 DEF MirrorInv

LEMMA ConfigLoadedKeeps ==
    ASSUME MirrorInv, ConfigLoaded, ActionsInOrder'
    PROVE  MirrorInv'
<1>1. PICK x, e : x = ~server.failed /\ e = [ev |-> "ConfigLoaded", failed |-> x]
  OBVIOUS
<1>2. /\ server' = apply(server, e) /\ SendEvents(<<e>>)
      /\ desk' = desk /\ dirty' = TRUE
  BY <1>1, Zenon DEF ConfigLoaded
<1>3. apply(server, e) = [server EXCEPT !.failed = x]
  BY <1>1 DEF apply, ApplyOther, WorkspaceEvents, WindowEvents
<1>4. IsState(server) /\ StreamIsRecord /\ StreamLeadsToServer /\ IsDesk(desk)
  BY DEF MirrorInv, Mirrored
<1>5. PICK v : v = apply(server, e)
  OBVIOUS
<1>6. /\ IsState(v) /\ v.ws = server.ws /\ v.win = server.win /\ v.kb = server.kb
      /\ v.casts = server.casts
  BY <1>3, <1>4, <1>5, WithFailed
<1>7. Mirrored(v, desk)
  BY <1>6 DEF MirrorInv, Mirrored, CastsFit
<1>8. <<e>> \in Seq({e})
  OBVIOUS
<1>9. IsSeq(<<e>>) /\ ApplyAll(server, <<e>>) = v
  BY <1>5, <1>8, SeqIsSeq, ApplyOne
<1>10. StreamIsRecord' /\ StreamLeadsToServer'
  BY <1>2, <1>4, <1>5, <1>9, EventsSent
<1>. QED  BY <1>2, <1>4, <1>5, <1>7, <1>10 DEF MirrorInv

LEMMA RefreshKeeps ==
    ASSUME MirrorInv, Refresh
    PROVE  MirrorInv'
<1>1. PICK events : events = IpcEvents(server, desk)
  OBVIOUS
<1>2. /\ server' = ApplyAll(server, events) /\ SendEvents(events)
      /\ desk' = desk /\ actions' = actions
  BY <1>1, Zenon DEF Refresh, IpcRefresh, HandlesRefresh
<1>3. IsDesk(desk) /\ Mirrored(server, desk) /\ StreamIsRecord /\ StreamLeadsToServer /\ ActionsInOrder
  BY DEF MirrorInv
<1>4. PICK v : v = ApplyAll(server, events)
  OBVIOUS
<1>5. IsSeq(events) /\ IsState(v) /\ Agreed(v, desk)
  BY <1>1, <1>3, <1>4, Refreshed
<1>6. Mirrored(v, desk)
  <2>1. desk.kb # Nil
    BY <1>3, DeskIs, DesktopAssumption
  <2>2. CastsFit(v, desk)
    <3>1. v.casts = CastsOf(desk)
      BY <1>5 DEF Agreed
    <3>. QED  BY <3>1 DEF CastsFit, CastsOf
  <2>. QED  BY <1>3, <1>5, <2>1, <2>2 DEF Mirrored, Agreed
<1>7. StreamIsRecord' /\ StreamLeadsToServer'
  BY <1>2, <1>3, <1>5, EventsSent
<1>8. ActionsInOrder'
  BY <1>2, <1>3 DEF ActionsInOrder
<1>. QED  BY <1>2, <1>3, <1>4, <1>5, <1>6, <1>7, <1>8 DEF MirrorInv

LEMMA CommitKeeps ==
    ASSUME MirrorInv, Commit, UNCHANGED ipcVars
    PROVE  MirrorInv'
<1>1. IsDesk(desk) /\ CastsFit(server, desk) /\ Len(actions) \in Nat
  <2>1. actions # Nil
    BY DEF Commit
  <2>2. IsSeq(actions)
    BY <2>1 DEF MirrorInv, ActionsInOrder
  <2>3. Len(actions) \in Nat
    BY <2>2, ConcatIsSeq
  <2>. QED  BY <2>3 DEF MirrorInv, Mirrored
<1>2. ActionsInOrder'
  <2>1. actions' = <<>>
    BY DEF Commit
  <2>. QED  BY <2>1, EmptyIsSeq DEF ActionsInOrder
<1>3. CASE \E i \in DOMAIN actions : Panics(desk, actions[i])
  <2>1. desk' = desk /\ dirty' = dirty
    BY <1>3, Zenon DEF Commit, deskVars
  <2>. QED  BY <1>2, <2>1, QuietStep
<1>4. CASE ~\E i \in DOMAIN actions : Panics(desk, actions[i])
  <2>1. PICK f : f = Performed("assign", desk)
    OBVIOUS
  <2>2. /\ \A i \in DOMAIN f : \A o \in Connected(f[i]) : f[i].mons[o] # <<>>
        /\ desk' = Performed("activate", f[Len(actions)])[Len(actions)]
        /\ dirty' = TRUE
    BY <1>4, <2>1, Zenon DEF Commit
  <2>3. DOMAIN f = 0 .. Len(actions)
    BY <1>1, <2>1, PerformedIs DEF ArePerformed
  <2>4. \A i \in 0 .. Len(actions) : IsDesk(f[i]) /\ f[i].cast = desk.cast
    BY <1>1, <2>1, <2>2, <2>3, PerformedKeep
  <2>5. PICK d, g : d = f[Len(actions)] /\ g = Performed("activate", d)
    OBVIOUS
  <2>6. Len(actions) \in 0 .. Len(actions)
    BY <1>1
  <2>7. IsDesk(d) /\ d.cast = desk.cast
    BY <2>4, <2>5, <2>6
  <2>8. \A i \in 0 .. Len(actions) : IsDesk(g[i]) /\ g[i].cast = d.cast
    BY <1>1, <2>5, <2>7, PerformedKeep
  <2>9. IsDesk(desk') /\ desk'.cast = desk.cast
    BY <2>2, <2>5, <2>6, <2>7, <2>8
  <2>10. CastsFit(server, desk')
    BY <1>1, <2>9 DEF CastsFit
  <2>. QED  BY <1>2, <2>2, <2>9, <2>10, DeskMoves
<1>. QED  BY <1>3, <1>4

LEMMA HandlesKeep ==
    ASSUME MirrorInv, HandlesStep, UNCHANGED ipcVars
    PROVE  MirrorInv'
<1>0. ActionsInOrder
  BY DEF MirrorInv
<1>1. CASE StopBar
  <2>1. desk' = desk /\ dirty' = dirty /\ actions' = Nil
    BY <1>1 DEF StopBar
  <2>. QED  BY <2>1, QuietStep DEF ActionsInOrder
<1>2. CASE DestroyHandle
  <2>1. desk' = desk /\ dirty' = dirty /\ actions' = actions
    BY <1>2 DEF DestroyHandle
  <2>. QED  BY <1>0, <2>1, QuietStep DEF ActionsInOrder
<1>3. CASE RequestAction
  <2>1. desk' = desk /\ dirty' = dirty /\ actions # Nil /\ \E a : actions' = Append(actions, a)
    BY <1>3, Zenon DEF RequestAction, deskVars
  <2>2. IsSeq(actions')
    BY <1>0, <2>1, AppendIsSeq DEF ActionsInOrder
  <2>. QED  BY <2>1, <2>2, QuietStep DEF ActionsInOrder
<1>4. CASE Commit
  BY <1>4, CommitKeeps
<1>5. CASE StopPanel
  <2>1. desk' = desk /\ dirty' = dirty /\ actions' = actions
    BY <1>5 DEF StopPanel
  <2>. QED  BY <1>0, <2>1, QuietStep DEF ActionsInOrder
<1>6. CASE DestroyToplevel
  <2>1. desk' = desk /\ dirty' = dirty /\ actions' = actions
    BY <1>6 DEF DestroyToplevel
  <2>. QED  BY <1>0, <2>1, QuietStep DEF ActionsInOrder
<1>. QED  BY <1>1, <1>2, <1>3, <1>4, <1>5, <1>6, Zenon DEF HandlesStep

LEMMA DeskStepKeeps ==
    ASSUME MirrorInv, DeskStep, UNCHANGED ipcVars, actions' = actions
    PROVE  MirrorInv'
<1>1. IsDesk(desk) /\ CastsFit(server, desk)
  BY DEF MirrorInv, Mirrored
<1>2. ActionsInOrder'
  BY DEF MirrorInv, ActionsInOrder
<1>3. CASE Toggle
  BY <1>1, <1>2, <1>3, ToggleKeeps, DeskMoves
<1>4. ASSUME ~Toggle PROVE KeepsDesk
  BY <1>1, <1>4, RearrangeKeeps, SwitchToKeeps, RenameKeeps, OpenWindowKeeps, CloseWindowKeeps,
     MoveWindowKeeps, AlterWindowKeeps, FocusWindowKeeps, Zenon DEF DeskStep
<1>5. ASSUME KeepsDesk PROVE MirrorInv'
  <2>1. IsDesk(desk') /\ desk'.cast = desk.cast /\ dirty' = TRUE
    BY <1>5, Zenon DEF KeepsDesk
  <2>2. CastsFit(server, desk')
    BY <1>1, <2>1 DEF CastsFit
  <2>. QED  BY <1>2, <2>1, <2>2, DeskMoves
<1>. QED  BY <1>3, <1>4, <1>5

LEMMA InvNext ==
    ASSUME MirrorInv, [MirrorsNext]_vars
    PROVE  MirrorInv'
<1>0. IsDesk(desk) /\ CastsFit(server, desk) /\ ActionsInOrder
  BY DEF MirrorInv, Mirrored
<1>1. CASE DeskStep /\ UNCHANGED <<ipcVars, handleVars>>
  <2>1. UNCHANGED ipcVars /\ actions' = actions
    BY <1>1 DEF handleVars
  <2>. QED  BY <1>1, <2>1, DeskStepKeeps
<1>2. CASE GlobalRemoved
  <2>1. desk' = desk /\ dirty' = TRUE /\ UNCHANGED ipcVars
    BY <1>2, Zenon DEF GlobalRemoved, ForgetGlobal
  <2>2. ActionsInOrder'
    <3>1. PICK o : actions' = IF actions = Nil THEN Nil
                      ELSE [i \in DOMAIN actions |->
                               IF actions[i].output = o THEN [actions[i] EXCEPT !.output = Nil]
                               ELSE actions[i]]
      BY <1>2, Zenon DEF GlobalRemoved
    <3>2. CASE actions = Nil
      BY <3>1, <3>2 DEF ActionsInOrder
    <3>3. CASE actions # Nil
      <4>1. IsSeq(actions)
        BY <1>0, <3>3 DEF ActionsInOrder
      <4>2. Len(actions) \in Nat /\ DOMAIN actions = 1 .. Len(actions)
        BY <4>1, SeqDomain DEF IsSeq
      <4>3. actions' = [i \in 1 .. Len(actions) |->
                           IF actions[i].output = o THEN [actions[i] EXCEPT !.output = Nil]
                           ELSE actions[i]]
        BY <3>1, <3>3, <4>2
      <4>4. IsSeq(actions')
        <5>1. PICK q, n : q = actions' /\ n = Len(actions)
          OBVIOUS
        <5>2. PICK T : T = {q[i] : i \in 1 .. n}
          OBVIOUS
        <5>3. q \in [1 .. n -> T]
          BY <4>3, <5>1, <5>2
        <5>4. q \in Seq(T)
          BY <4>2, <5>1, <5>3
        <5>. QED  BY <5>1, <5>4, SeqIsSeq
      <4>. QED  BY <4>4 DEF ActionsInOrder
    <3>. QED  BY <3>2, <3>3
  <2>3. IsDesk(desk') /\ CastsFit(server, desk')
    BY <1>0, <2>1
  <2>. QED  BY <2>1, <2>2, <2>3, DeskMoves
<1>3. CASE ConfigLoaded /\ UNCHANGED handleVars
  <2>1. ActionsInOrder'
    BY <1>0, <1>3 DEF handleVars, ActionsInOrder
  <2>. QED  BY <1>3, <2>1, ConfigLoadedKeeps
<1>4. CASE Connect
  <2>1. CASE Subscribe /\ UNCHANGED handleVars
    <3>1. ActionsInOrder'
      BY <1>0, <2>1 DEF handleVars, ActionsInOrder
    <3>. QED  BY <2>1, <3>1, SubscribeKeeps
  <2>2. CASE BindBar /\ UNCHANGED ipcVars
    <3>1. desk' = desk /\ dirty' = dirty /\ actions' = <<>>
      BY <2>2 DEF BindBar, deskVars
    <3>. QED  BY <2>2, <3>1, EmptyIsSeq, QuietStep DEF ActionsInOrder
  <2>3. CASE BindPanel /\ UNCHANGED ipcVars
    <3>1. desk' = desk /\ dirty' = dirty /\ actions' = actions
      BY <2>3 DEF BindPanel, deskVars
    <3>. QED  BY <1>0, <2>3, <3>1, QuietStep DEF ActionsInOrder
  <2>. QED  BY <1>4, <2>1, <2>2, <2>3, Zenon DEF Connect
<1>5. CASE IpcStep /\ UNCHANGED handleVars
  <2>1. ActionsInOrder'
    BY <1>0, <1>5 DEF handleVars, ActionsInOrder
  <2>. QED  BY <1>5, <2>1, ReadEventsKeeps, HangupKeeps, Zenon DEF IpcStep
<1>6. CASE HandlesStep /\ UNCHANGED ipcVars
  BY <1>6, HandlesKeep
<1>7. CASE ActivateToplevel /\ UNCHANGED ipcVars
  <2>1. IsDesk(desk') /\ desk'.cast = desk.cast /\ dirty' = TRUE
    BY <1>0, <1>7, ActivateToplevelKeeps DEF KeepsDesk
  <2>2. actions' = actions
    BY <1>7 DEF ActivateToplevel, handleVars
  <2>3. CastsFit(server, desk') /\ ActionsInOrder'
    BY <1>0, <2>1, <2>2 DEF CastsFit, ActionsInOrder
  <2>. QED  BY <1>7, <2>1, <2>3, DeskMoves
<1>8. CASE Refresh
  BY <1>8, RefreshKeeps
<1>9. CASE UNCHANGED vars
  <2>1. desk' = desk /\ dirty' = dirty /\ UNCHANGED ipcVars /\ actions' = actions
    BY <1>9 DEF vars, deskVars, handleVars
  <2>. QED  BY <1>0, <2>1, QuietStep DEF ActionsInOrder
<1>. QED  BY <1>1, <1>2, <1>3, <1>4, <1>5, <1>6, <1>7, <1>8, <1>9, Zenon DEF MirrorsNext

\* The server's copy begins as that of a desktop with nothing on it.
LEMMA NothingThere ==
    \E c : IsDesk(c) /\ <<>> = AllWorkspaces(c) /\ <<>> = IpcWindows(c)
<1>1. PICK none : none = <<>>
  OBVIOUS
<1>2. DOMAIN none = {} /\ none \in Seq(Workspace) /\ none = [x \in {} |-> none[x]]
  BY <1>1
<1>3. PICK c, shut, cast : /\ c = Desk(none, none, none, Nil, none, none, Nil, Nil, shut, 0, cast)
                           /\ shut = FALSE /\ cast = "none"
  OBVIOUS
<1>4. GoodMons(none, none, none, Nil)
  <2>1. WellArranged(none)
    BY <1>2 DEF WellArranged
  <2>2. none \in [DOMAIN none -> Nat]
    BY <1>2
  <2>. QED  BY <1>2, <2>1, <2>2 DEF GoodMons
<1>5. GoodWins(none, Nil)
  BY <1>2 DEF GoodWins
<1>6. 0 \in {0, 1}
  OBVIOUS
<1>7. IsDesk(c) /\ c.mons = none /\ c.win = none
  BY <1>3, <1>4, <1>5, <1>6, MakesDesk
<1>8. c.stray = none
  BY <1>3 DEF Desk
<1>9. Workspaces(c) = {}
  <2>1. Range(c.stray) = {}
    BY <1>2, <1>8 DEF Range
  <2>2. Connected(c) = {}
    BY <1>2, <1>7 DEF Connected
  <2>3. UNION {Range(c.mons[o]) : o \in Connected(c)} = {}
    BY <2>2
  <2>. QED  BY <2>1, <2>3, Zenon DEF Workspaces
<1>10. <<>> = AllWorkspaces(c)
  <2>1. AllWorkspaces(c) = [s \in {} |-> IpcWorkspace(c, s)]
    BY <1>9 DEF AllWorkspaces
  <2>. QED  BY <2>1
<1>11. <<>> = IpcWindows(c)
  <2>1. IpcWindows(c) = [w \in {} |-> IpcWindow(c, w)]
    BY <1>2, <1>7 DEF IpcWindows
  <2>. QED  BY <2>1
<1>. QED  BY <1>7, <1>10, <1>11

LEMMA InvInit ==
    ASSUME MirrorsInit
    PROVE  MirrorInv
<1>1. PICK a \in Arrangements, wins \in {{}, Window} : \E o \in DOMAIN a.mons :
        desk = [mons |-> a.mons, stray |-> a.stray,
                active |-> [p \in DOMAIN a.mons |-> 1], main |-> o,
                name |-> [s \in Workspace |-> Nil],
                win |-> [w \in wins |-> NewWindow(a.mons[o][1])], front |-> Nil, focus |-> Nil,
                overview |-> FALSE, kb |-> 0, cast |-> "none"]
  BY Zenon DEF MirrorsInit, DeskInit
<1>2. PICK m \in DOMAIN a.mons :
        desk = [mons |-> a.mons, stray |-> a.stray,
                active |-> [p \in DOMAIN a.mons |-> 1], main |-> m,
                name |-> [s \in Workspace |-> Nil],
                win |-> [w \in wins |-> NewWindow(a.mons[m][1])], front |-> Nil, focus |-> Nil,
                overview |-> FALSE, kb |-> 0, cast |-> "none"]
  BY <1>1
<1>3. PICK active, name, win, shut, cast :
        /\ active = [p \in DOMAIN a.mons |-> 1]
        /\ name = [s \in Workspace |-> Nil]
        /\ win = [w \in wins |-> NewWindow(a.mons[m][1])]
        /\ shut = FALSE /\ cast = "none"
  OBVIOUS
<1>4. desk = Desk(a.mons, a.stray, active, m, name, win, Nil, Nil, shut, 0, cast)
  <2>1. desk = [mons |-> a.mons, stray |-> a.stray, active |-> active, main |-> m, name |-> name,
                win |-> win, front |-> Nil, focus |-> Nil,
                overview |-> shut, kb |-> 0, cast |-> cast]
    BY <1>2, <1>3
  <2>. QED  BY <2>1, Zenon DEF Desk
<1>5. GoodMons(a.mons, a.stray, active, m)
  <2>1. WellArranged(a.mons) /\ a.stray \in Seq(Workspace)
    BY DesktopAssumption
  <2>2. active = [o \in DOMAIN a.mons |-> 1]
    BY <1>3
  <2>3. PICK mons, stray : mons = a.mons /\ stray = a.stray
    OBVIOUS
  <2>4. GoodMons(mons, stray, [o \in DOMAIN mons |-> 1], m)
    <3>1. m \in (IF DOMAIN mons = {} THEN {Nil} ELSE DOMAIN mons)
      BY <1>2, <2>3
    <3>. QED  BY <2>1, <2>3, <3>1, FirstActive
  <2>. QED  BY <2>2, <2>3, <2>4
<1>6. GoodWins(win, Nil)
  <2>1. DOMAIN win = wins /\ win = [w \in DOMAIN win |-> win[w]]
    BY <1>3
  <2>2. wins \subseteq Window
    OBVIOUS
  <2>. QED  BY <2>1, <2>2 DEF GoodWins
<1>7. IsDesk(desk) /\ desk.cast = "none"
  <2>1. 0 \in {0, 1}
    OBVIOUS
  <2>. QED  BY <1>3, <1>4, <1>5, <1>6, <2>1, MakesDesk
<1>8. server = [DefaultState EXCEPT !.kb = 0] /\ stream = Nil /\ actions = Nil
  BY DEF MirrorsInit, IpcInit, HandlesInit
<1>9. dirty = TRUE
  BY DEF MirrorsInit, DeskInit
<1>10. server = [ws |-> <<>>, win |-> <<>>, kb |-> 0, overview |-> FALSE, failed |-> FALSE,
                 casts |-> <<>>, ok |-> TRUE]
  BY <1>8 DEF DefaultState
<1>11. Mirrored(server, desk)
  <2>1. IsState(server) /\ server.ws = <<>> /\ server.win = <<>> /\ server.kb = 0 /\ server.casts = <<>>
    BY <1>10 DEF IsState
  <2>2. server.kb # Nil
    BY <2>1, DesktopAssumption
  <2>3. CastsFit(server, desk)
    BY <2>1 DEF CastsFit
  <2>. QED  BY <2>1, <2>2, <2>3, NothingThere DEF Mirrored
<1>. QED  BY <1>7, <1>8, <1>9, <1>11
          DEF MirrorInv, StreamIsRecord, StreamLeadsToServer, ActionsInOrder

LEMMA InvImplies ==
    ASSUME MirrorInv
    PROVE  StreamsAgree
<1>1. stream # Nil /\ stream.open => ApplyAll(replica, stream.q) = server
  BY DEF MirrorInv, StreamLeadsToServer
<1>2. server.ok
  BY DEF MirrorInv, Mirrored, IsState
<1>3. ASSUME ~dirty
      PROVE  /\ server.ws = AllWorkspaces(desk)
             /\ server.win = [w \in DOMAIN desk.win |-> IpcWindow(desk, w)]
             /\ server.kb = desk.kb
             /\ server.overview = desk.overview
             /\ server.casts = IF desk.cast \in {"none", "ended"} THEN <<>> ELSE <<desk.cast>>
  BY <1>3, Zenon DEF MirrorInv, Agreed, IpcWindows, CastsOf
<1>. QED  BY <1>1, <1>2, <1>3, Zenon DEF StreamsAgree

(***************************************************************************)
(* The copy of the server is the desktop after each refresh, no event      *)
(* fails to apply to it, and the copy of a client that is on the list of   *)
(* streams is the server's once it has read what waits for it, however     *)
(* many windows, workspaces and outputs there are and however they change  *)
(* within a turn of the event loop (ipc/server.rs:113, sol-ipc/src/        *)
(* state.rs:113).                                                          *)
(***************************************************************************)
THEOREM MirrorSafety == MirrorsSpec => []StreamsAgree
<1>1. MirrorsInit => MirrorInv
  BY InvInit
<1>2. MirrorInv /\ [MirrorsNext]_vars => MirrorInv'
  BY InvNext
<1>3. MirrorInv => StreamsAgree
  BY InvImplies
<1>. QED  BY <1>1, <1>2, <1>3, PTL DEF MirrorsSpec
=============================================================================
