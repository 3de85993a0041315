----------------------------- MODULE VFSProofs -----------------------------
(***************************************************************************)
(* Proofs about VFS.                                                       *)
(***************************************************************************)
EXTENDS VFS, SequenceTheorems, FiniteSetTheorems, WellFoundedInduction, TLAPS

-----------------------------------------------------------------------------
(* Induction, for a set of numbers, and what the recursive functions are.  *)

\* A set of numbers with 0 and the successors of its members is all of them.
LEMMA SetInduction ==
    ASSUME NEW S, 0 \in S, \A n \in Nat : n \in S => n + 1 \in S
    PROVE  Nat \subseteq S
<1>1. SUFFICES ASSUME NEW T, T = Nat \ S, T # {} PROVE FALSE
  OBVIOUS
<1>2. PICK R : R = OpToRel(<, Nat)
  OBVIOUS
<1>3. IsWellFoundedOn(R, Nat)
  BY <1>2, NatLessThanWellFounded
<1>4. PICK x \in T : \A y \in T : ~(<<y, x>> \in R)
  BY <1>1, <1>3, WFMin
<1>5. x \in Nat /\ x # 0 /\ x - 1 \in Nat /\ x - 1 < x
  BY <1>1
<1>6. \A y, z \in Nat : y < z => <<y, z>> \in R
  BY <1>2, Zenon DEF OpToRel
<1>7. x - 1 \in S
  BY <1>1, <1>4, <1>5, <1>6
<1>8. QED
  BY <1>1, <1>5, <1>7

\* The same up to a bound.
LEMMA BoundedInduction ==
    ASSUME NEW S, NEW N \in Nat, 0 \in S, \A n \in 0 .. N - 1 : n \in S => n + 1 \in S
    PROVE  0 .. N \subseteq S
<1>1. PICK T : T = {n \in Nat : n <= N => n \in S}
  OBVIOUS
<1>2. 0 \in T
  BY <1>1
<1>3. \A n \in Nat : n \in T => n + 1 \in T
  BY <1>1
<1>4. Nat \subseteq T
  BY <1>2, <1>3, SetInduction
<1>5. QED
  BY <1>1, <1>4

\* The states that a list of writes goes through.
LEMMA RunTrace ==
    ASSUME NEW s, NEW writes, Len(writes) \in Nat
    PROVE  \E f : /\ f[0] = s /\ f[Len(writes)] = Run(s, writes)
                  /\ \A n \in 1 .. Len(writes) : f[n] = Step(f[n - 1], writes[n])
<1>1. PICK N \in Nat : N = Len(writes)
  OBVIOUS
<1>2. PICK T : T = {n \in 0 .. N : \E g : g = [k \in 0 .. n |->
                        IF k = 0 THEN s ELSE Step(g[k - 1], writes[k])]}
  OBVIOUS
<1>3. 0 \in T
  <2>1. PICK g : g = [k \in 0 .. 0 |-> s]
    OBVIOUS
  <2>2. g = [k \in 0 .. 0 |-> IF k = 0 THEN s ELSE Step(g[k - 1], writes[k])]
    BY <2>1
  <2>3. QED
    BY <1>2, <2>2
<1>4. \A n \in 0 .. N - 1 : n \in T => n + 1 \in T
  <2>1. SUFFICES ASSUME NEW n \in 0 .. N - 1, n \in T PROVE n + 1 \in T
    OBVIOUS
  <2>2. PICK g : g = [k \in 0 .. n |-> IF k = 0 THEN s ELSE Step(g[k - 1], writes[k])]
    BY <1>2, <2>1
  <2>3. PICK h : h = [k \in 0 .. n + 1 |->
                         IF k <= n THEN g[k] ELSE Step(g[n], writes[n + 1])]
    OBVIOUS
  <2>4. h = [k \in 0 .. n + 1 |-> IF k = 0 THEN s ELSE Step(h[k - 1], writes[k])]
    BY <2>2, <2>3
  <2>5. QED
    BY <1>2, <2>4
<1>5. 0 .. N \subseteq T
  BY <1>3, <1>4, BoundedInduction
<1>6. PICK g : g = [k \in 0 .. N |-> IF k = 0 THEN s ELSE Step(g[k - 1], writes[k])]
  BY <1>2, <1>5
<1>7. \E f : f = [n \in 0 .. Len(writes) |-> IF n = 0 THEN s ELSE Step(f[n - 1], writes[n])]
  BY <1>1, <1>6
<1> DEFINE upto[n \in 0 .. Len(writes)] == IF n = 0 THEN s ELSE Step(upto[n - 1], writes[n])
<1>8. upto = [n \in 0 .. Len(writes) |-> IF n = 0 THEN s ELSE Step(upto[n - 1], writes[n])]
  BY <1>7, Zenon
<1>9. Run(s, writes) = upto[Len(writes)]
  BY Zenon DEF Run
<1> HIDE DEF upto
<1>10. QED
  BY <1>1, <1>8, <1>9

\* The steps of Only.
LEMMA OnlyTrace ==
    ASSUME NEW vs, NEW keep, Len(vs) \in Nat
    PROVE  \E f : /\ f[0] = <<>> /\ f[Len(vs)] = Only(vs, keep)
                  /\ \A n \in 1 .. Len(vs) :
                        f[n] = IF vs[n] \in keep THEN Append(f[n - 1], vs[n]) ELSE f[n - 1]
<1> DEFINE Add(e, v) == IF v \in keep THEN Append(e, v) ELSE e
<1>0. \A e, v : Add(e, v) = IF v \in keep THEN Append(e, v) ELSE e
  OBVIOUS
<1> HIDE DEF Add
<1>1. PICK N \in Nat : N = Len(vs)
  OBVIOUS
<1>2. PICK T : T = {n \in 0 .. N : \E g : g = [k \in 0 .. n |->
                        IF k = 0 THEN <<>> ELSE Add(g[k - 1], vs[k])]}
  OBVIOUS
<1>3. 0 \in T
  <2>1. PICK g : g = [k \in 0 .. 0 |-> <<>>]
    OBVIOUS
  <2>2. g = [k \in 0 .. 0 |-> IF k = 0 THEN <<>> ELSE Add(g[k - 1], vs[k])]
    BY <2>1
  <2>3. QED
    BY <1>2, <2>2
<1>4. \A n \in 0 .. N - 1 : n \in T => n + 1 \in T
  <2>1. SUFFICES ASSUME NEW n \in 0 .. N - 1, n \in T PROVE n + 1 \in T
    OBVIOUS
  <2>2. PICK g : g = [k \in 0 .. n |-> IF k = 0 THEN <<>> ELSE Add(g[k - 1], vs[k])]
    BY <1>2, <2>1
  <2>3. PICK h : h = [k \in 0 .. n + 1 |-> IF k <= n THEN g[k] ELSE Add(g[n], vs[n + 1])]
    OBVIOUS
  <2>4. h = [k \in 0 .. n + 1 |-> IF k = 0 THEN <<>> ELSE Add(h[k - 1], vs[k])]
    BY <2>2, <2>3
  <2>5. QED
    BY <1>2, <2>4
<1>5. 0 .. N \subseteq T
  BY <1>3, <1>4, BoundedInduction
<1>6. PICK g : g = [k \in 0 .. N |-> IF k = 0 THEN <<>> ELSE Add(g[k - 1], vs[k])]
  BY <1>2, <1>5
<1>7. \E f : f = [n \in 0 .. Len(vs) |->
                   IF n = 0 THEN <<>>
                   ELSE IF vs[n] \in keep THEN Append(f[n - 1], vs[n]) ELSE f[n - 1]]
  BY <1>1, <1>6, Zenon DEF Add
<1> DEFINE upto[n \in 0 .. Len(vs)] ==
               IF n = 0 THEN <<>>
               ELSE IF vs[n] \in keep THEN Append(upto[n - 1], vs[n]) ELSE upto[n - 1]
<1>8. upto = [n \in 0 .. Len(vs) |->
                   IF n = 0 THEN <<>>
                   ELSE IF vs[n] \in keep THEN Append(upto[n - 1], vs[n]) ELSE upto[n - 1]]
  BY <1>7, Zenon
<1>9. Only(vs, keep) = upto[Len(vs)]
  BY Zenon DEF Only
<1> HIDE DEF upto
<1>10. PICK f : f = upto
  OBVIOUS
<1>11. f[0] = <<>> /\ f[N] = Only(vs, keep)
  BY <1>1, <1>8, <1>9, <1>10
<1>a. \A n \in 1 .. N : n \in 0 .. N /\ n # 0
  OBVIOUS
<1>12. \A n \in 1 .. N : f[n] = IF vs[n] \in keep THEN Append(f[n - 1], vs[n]) ELSE f[n - 1]
  BY <1>1, <1>8, <1>10, <1>a, Zenon
<1>13. QED
  BY <1>1, <1>11, <1>12, Zenon

\* What walk finds, one level after the other.
LEMMA UnderTrace ==
    ASSUME NEW D, NEW id, Cardinality(DOMAIN D) \in Nat
    PROVE  \E f : /\ f[0] = {} /\ f[Cardinality(DOMAIN D)] = Under(D, id)
                  /\ \A n \in 1 .. Cardinality(DOMAIN D) :
                        f[n] = {x \in DOMAIN D : D[x].parent \in f[n - 1] \cup {id}}
<1> DEFINE Below(e) == {x \in DOMAIN D : D[x].parent \in e \cup {id}}
<1>0. \A e : Below(e) = {x \in DOMAIN D : D[x].parent \in e \cup {id}}
  OBVIOUS
<1> HIDE DEF Below
<1>a. PICK nil : nil = {}
  OBVIOUS
<1>1. PICK N \in Nat : N = Cardinality(DOMAIN D)
  OBVIOUS
<1>2. PICK T : T = {n \in 0 .. N : \E g : g = [k \in 0 .. n |->
                        IF k = 0 THEN nil ELSE Below(g[k - 1])]}
  OBVIOUS
<1>3. 0 \in T
  <2>1. PICK g : g = [k \in 0 .. 0 |-> nil]
    OBVIOUS
  <2>2. g = [k \in 0 .. 0 |-> IF k = 0 THEN nil ELSE Below(g[k - 1])]
    BY <2>1
  <2>3. QED
    BY <1>2, <2>2
<1>4. \A n \in 0 .. N - 1 : n \in T => n + 1 \in T
  <2>1. SUFFICES ASSUME NEW n \in 0 .. N - 1, n \in T PROVE n + 1 \in T
    OBVIOUS
  <2>2. PICK g : g = [k \in 0 .. n |-> IF k = 0 THEN nil ELSE Below(g[k - 1])]
    BY <1>2, <2>1
  <2>3. PICK h : h = [k \in 0 .. n + 1 |-> IF k <= n THEN g[k] ELSE Below(g[n])]
    OBVIOUS
  <2>4. h = [k \in 0 .. n + 1 |-> IF k = 0 THEN nil ELSE Below(h[k - 1])]
    BY <2>2, <2>3
  <2>5. QED
    BY <1>2, <2>4
<1>5. 0 .. N \subseteq T
  BY <1>3, <1>4, BoundedInduction
<1>6. PICK g : g = [k \in 0 .. N |-> IF k = 0 THEN nil ELSE Below(g[k - 1])]
  BY <1>2, <1>5
<1>b. \A n \in 1 .. N : n \in 0 .. N /\ n # 0
  OBVIOUS
<1>7. \E f : f = [k \in 0 .. Cardinality(DOMAIN D) |->
                   IF k = 0 THEN {}
                   ELSE {x \in DOMAIN D : D[x].parent \in f[k - 1] \cup {id}}]
  <2>1. \A k \in 0 .. N :
            (IF k = 0 THEN nil ELSE Below(g[k - 1]))
            = IF k = 0 THEN {} ELSE {x \in DOMAIN D : D[x].parent \in g[k - 1] \cup {id}}
    BY <1>0, <1>a, Zenon
  <2>2. g = [k \in 0 .. N |->
                   IF k = 0 THEN {} ELSE {x \in DOMAIN D : D[x].parent \in g[k - 1] \cup {id}}]
    BY <1>6, <2>1, Zenon
  <2>3. QED
    BY <1>1, <2>2, Zenon
<1> DEFINE found[k \in 0 .. Cardinality(DOMAIN D)] ==
               IF k = 0 THEN {}
               ELSE {x \in DOMAIN D : D[x].parent \in found[k - 1] \cup {id}}
<1>8. found = [k \in 0 .. Cardinality(DOMAIN D) |->
                   IF k = 0 THEN {}
                   ELSE {x \in DOMAIN D : D[x].parent \in found[k - 1] \cup {id}}]
  BY <1>7, Zenon
<1>9. Under(D, id) = found[Cardinality(DOMAIN D)]
  BY Zenon DEF Under
<1> HIDE DEF found
<1>10. PICK f : f = found
  OBVIOUS
<1>11. f[0] = {} /\ f[N] = Under(D, id)
  BY <1>1, <1>8, <1>9, <1>10
<1>12. \A n \in 1 .. N : f[n] = {x \in DOMAIN D : D[x].parent \in f[n - 1] \cup {id}}
  BY <1>1, <1>8, <1>10, <1>b, Zenon
<1>13. QED
  BY <1>1, <1>11, <1>12, Zenon

\* No two versions are of the same object.
Distinct(vs) ==
    \A i, j \in DOMAIN vs : vs[i].file = vs[j].file /\ vs[i].obj = vs[j].obj => i = j

\* Only keeps the members of the set, and never brings in a version twice.
LEMMA OnlyElements ==
    ASSUME NEW S, NEW vs \in Seq(S), NEW keep
    PROVE  /\ Only(vs, keep) \in Seq(S)
           /\ ToSet(Only(vs, keep)) = ToSet(vs) \cap keep
           /\ Distinct(vs) => Distinct(Only(vs, keep))
<1>1. PICK N \in Nat : N = Len(vs)
  OBVIOUS
<1>2. PICK f : /\ f[0] = <<>> /\ f[N] = Only(vs, keep)
               /\ \A n \in 1 .. N :
                     f[n] = IF vs[n] \in keep THEN Append(f[n - 1], vs[n]) ELSE f[n - 1]
  BY <1>1, OnlyTrace
<1> DEFINE From(n) ==
      /\ f[n] \in Seq(S)
      /\ \A i \in 1 .. Len(f[n]) : \E j \in 1 .. n : vs[j] = f[n][i] /\ vs[j] \in keep
      /\ \A j \in 1 .. n : vs[j] \in keep => \E i \in 1 .. Len(f[n]) : f[n][i] = vs[j]
      /\ Distinct(vs) => \A i, j \in 1 .. Len(f[n]) :
             f[n][i].file = f[n][j].file /\ f[n][i].obj = f[n][j].obj => i = j
<1>3. From(0)
  BY <1>2
<1>4. \A n \in 0 .. N - 1 : From(n) => From(n + 1)
  <2>1. SUFFICES ASSUME NEW n \in 0 .. N - 1, From(n) PROVE From(n + 1)
    OBVIOUS
  <2>a. n + 1 \in 1 .. N /\ (n + 1) - 1 = n
    OBVIOUS
  <2>b. f[n + 1] = IF vs[n + 1] \in keep THEN Append(f[n], vs[n + 1]) ELSE f[n]
    BY <1>2, <2>a
  <2>c. PICK g : g = f[n]
    OBVIOUS
  <2>d. /\ g \in Seq(S)
        /\ \A i \in 1 .. Len(g) : \E j \in 1 .. n : vs[j] = g[i] /\ vs[j] \in keep
        /\ \A j \in 1 .. n : vs[j] \in keep => \E i \in 1 .. Len(g) : g[i] = vs[j]
        /\ Distinct(vs) => \A i, j \in 1 .. Len(g) :
               g[i].file = g[j].file /\ g[i].obj = g[j].obj => i = j
    BY <2>1, <2>c, Zenon
  <2>e. \A j \in 1 .. n + 1 : j \in 1 .. n \/ j = n + 1
    OBVIOUS
  <2>f. 1 .. n \subseteq 1 .. n + 1
    OBVIOUS
  <2>2. CASE vs[n + 1] \notin keep
    <3>1. f[n + 1] = g
      BY <2>b, <2>c, <2>2, Zenon
    <3>2. \A i \in 1 .. Len(g) : \E j \in 1 .. n + 1 : vs[j] = g[i] /\ vs[j] \in keep
      BY <2>d, <2>f, Zenon
    <3>3. \A j \in 1 .. n + 1 : vs[j] \in keep => \E i \in 1 .. Len(g) : g[i] = vs[j]
      BY <2>2, <2>d, <2>e, Zenon
    <3>4. QED
      BY <2>d, <3>1, <3>2, <3>3, Zenon
  <2>3. CASE vs[n + 1] \in keep
    <3>1. f[n + 1] = Append(g, vs[n + 1])
      BY <2>b, <2>c, <2>3, Zenon
    <3>3. PICK h : h = f[n + 1]
      OBVIOUS
    <3>4. vs[n + 1] \in S /\ g \in Seq(S) /\ h = Append(g, vs[n + 1])
      BY <1>1, <2>a, <2>d, <3>1, <3>3
    <3>5. /\ h \in Seq(S) /\ Len(h) = Len(g) + 1 /\ h[Len(g) + 1] = vs[n + 1]
          /\ \A i \in 1 .. Len(g) : h[i] = g[i]
      BY <3>4
    <3>6. Distinct(vs) => \A i, j \in 1 .. N : vs[i].file = vs[j].file /\ vs[i].obj = vs[j].obj => i = j
      BY <1>1 DEF Distinct
    <3>e. 1 .. Len(g) \subseteq 1 .. Len(h) /\ Len(g) + 1 \in 1 .. Len(h) /\ n + 1 \in 1 .. n + 1
      BY <2>a, <3>4, <3>5
    <3>f. \A i \in 1 .. Len(h) : i \in 1 .. Len(g) \/ i = Len(g) + 1
      BY <3>4, <3>5
    <3>a. \A i \in 1 .. Len(h) : \E j \in 1 .. n + 1 : vs[j] = h[i] /\ vs[j] \in keep
      <4>1. SUFFICES ASSUME NEW i \in 1 .. Len(h)
                     PROVE  \E j \in 1 .. n + 1 : vs[j] = h[i] /\ vs[j] \in keep
        OBVIOUS
      <4>2. CASE i \in 1 .. Len(g)
        <5>1. PICK j \in 1 .. n : vs[j] = g[i] /\ vs[j] \in keep
          BY <2>d, <4>2
        <5>2. h[i] = g[i] /\ j \in 1 .. n + 1
          BY <2>f, <3>5, <4>2
        <5>3. QED
          BY <5>1, <5>2
      <4>3. CASE i = Len(g) + 1
        BY <2>3, <3>5, <3>e, <4>3, Zenon
      <4>4. QED
        BY <3>f, <4>2, <4>3
    <3>b. \A j \in 1 .. n + 1 : vs[j] \in keep => \E i \in 1 .. Len(h) : h[i] = vs[j]
      <4>1. SUFFICES ASSUME NEW j \in 1 .. n + 1, vs[j] \in keep
                     PROVE  \E i \in 1 .. Len(h) : h[i] = vs[j]
        OBVIOUS
      <4>2. CASE j \in 1 .. n
        <5>1. PICK i \in 1 .. Len(g) : g[i] = vs[j]
          BY <2>d, <4>1, <4>2
        <5>2. h[i] = g[i] /\ i \in 1 .. Len(h)
          BY <3>5, <3>e
        <5>3. QED
          BY <5>1, <5>2
      <4>3. CASE j = n + 1
        BY <3>5, <3>e, <4>3, Zenon
      <4>4. QED
        BY <2>e, <4>2, <4>3
    <3>c. Distinct(vs) => \A i, j \in 1 .. Len(h) :
             h[i].file = h[j].file /\ h[i].obj = h[j].obj => i = j
      <4>1. SUFFICES ASSUME Distinct(vs), NEW i \in 1 .. Len(h), NEW j \in 1 .. Len(h),
                            h[i].file = h[j].file, h[i].obj = h[j].obj
                     PROVE  i = j
        OBVIOUS
      <4>2. \A k \in 1 .. Len(g) : ~(g[k].file = vs[n + 1].file /\ g[k].obj = vs[n + 1].obj)
        <5>1. SUFFICES ASSUME NEW k \in 1 .. Len(g),
                              g[k].file = vs[n + 1].file, g[k].obj = vs[n + 1].obj
                       PROVE  FALSE
          OBVIOUS
        <5>2. PICK l \in 1 .. n : vs[l] = g[k]
          BY <2>d
        <5>3. l \in 1 .. N /\ l # n + 1
          BY <1>1
        <5>4. QED
          BY <2>a, <3>6, <4>1, <5>1, <5>2, <5>3
      <4>3. \A k, l \in 1 .. Len(g) : g[k].file = g[l].file /\ g[k].obj = g[l].obj => k = l
        BY <2>d, <4>1, Zenon
      <4>4. CASE i \in 1 .. Len(g) /\ j \in 1 .. Len(g)
        BY <3>5, <4>1, <4>3, <4>4
      <4>5. CASE i = Len(g) + 1 /\ j \in 1 .. Len(g)
        BY <3>5, <4>1, <4>2, <4>5
      <4>6. CASE i \in 1 .. Len(g) /\ j = Len(g) + 1
        BY <3>5, <4>1, <4>2, <4>6
      <4>7. QED
        BY <3>f, <4>4, <4>5, <4>6
    <3>7. QED
      BY <3>3, <3>5, <3>a, <3>b, <3>c, Zenon
  <2>4. QED
    BY <2>2, <2>3
<1> HIDE DEF From
<1>5. PICK T : T = {n \in 0 .. N : From(n)}
  OBVIOUS
<1>6. 0 \in T /\ \A n \in 0 .. N - 1 : n \in T => n + 1 \in T
  BY <1>3, <1>4, <1>5
<1>7. 0 .. N \subseteq T
  BY <1>6, BoundedInduction
<1>8. From(N)
  BY <1>5, <1>7
<1>9. PICK o : o = Only(vs, keep)
  OBVIOUS
<1>10. /\ o \in Seq(S)
       /\ \A i \in 1 .. Len(o) : \E j \in 1 .. N : vs[j] = o[i] /\ vs[j] \in keep
       /\ \A j \in 1 .. N : vs[j] \in keep => \E i \in 1 .. Len(o) : o[i] = vs[j]
       /\ Distinct(vs) => \A i, j \in 1 .. Len(o) :
             o[i].file = o[j].file /\ o[i].obj = o[j].obj => i = j
  BY <1>2, <1>8, <1>9 DEF From
<1>11. DOMAIN o = 1 .. Len(o) /\ DOMAIN vs = 1 .. N
  BY <1>1, <1>10
<1>12. ToSet(o) = ToSet(vs) \cap keep
  <2>1. ASSUME NEW e \in ToSet(o) PROVE e \in ToSet(vs) \cap keep
    <3>1. PICK i \in 1 .. Len(o) : e = o[i]
      BY <1>11 DEF ToSet
    <3>2. PICK j \in 1 .. N : vs[j] = o[i] /\ vs[j] \in keep
      BY <1>10
    <3>3. QED
      BY <1>11, <3>1, <3>2 DEF ToSet
  <2>2. ASSUME NEW e \in ToSet(vs) \cap keep PROVE e \in ToSet(o)
    <3>1. PICK j \in 1 .. N : e = vs[j]
      BY <1>11 DEF ToSet
    <3>2. PICK i \in 1 .. Len(o) : o[i] = vs[j]
      BY <1>10, <3>1
    <3>3. QED
      BY <1>11, <3>1, <3>2 DEF ToSet
  <2>3. QED
    BY <2>1, <2>2
<1>13. QED
  BY <1>9, <1>10, <1>11, <1>12 DEF Distinct

\* Everything that walk finds below a directory has its parent there, or is in it.
LEMMA UnderClosed ==
    ASSUME NEW D, IsFiniteSet(DOMAIN D), NEW id
    PROVE  /\ Under(D, id) \subseteq DOMAIN D
           /\ \A x \in Under(D, id) : D[x].parent \in Under(D, id) \cup {id}
<1>1. PICK N \in Nat : N = Cardinality(DOMAIN D)
  BY FS_CardinalityType
<1>2. PICK f : /\ f[0] = {} /\ f[N] = Under(D, id)
               /\ \A n \in 1 .. N : f[n] = {x \in DOMAIN D : D[x].parent \in f[n - 1] \cup {id}}
  BY <1>1, UnderTrace
<1> DEFINE Grows(n) == f[n] \subseteq DOMAIN D /\ (n < N => f[n] \subseteq f[n + 1])
<1>3. Grows(0)
  BY <1>2
<1>4. \A n \in 0 .. N - 1 : Grows(n) => Grows(n + 1)
  <2>1. SUFFICES ASSUME NEW n \in 0 .. N - 1, Grows(n) PROVE Grows(n + 1)
    OBVIOUS
  <2>2. f[n + 1] = {x \in DOMAIN D : D[x].parent \in f[n] \cup {id}} /\ n < N
    BY <1>2
  <2>3. n + 1 < N => f[n + 2] = {x \in DOMAIN D : D[x].parent \in f[n + 1] \cup {id}}
    <3>1. SUFFICES ASSUME n + 1 < N
                   PROVE f[n + 2] = {x \in DOMAIN D : D[x].parent \in f[n + 1] \cup {id}}
      OBVIOUS
    <3>2. n + 2 \in 1 .. N /\ (n + 2) - 1 = n + 1
      BY <3>1
    <3>3. QED
      BY <1>2, <3>2
  <2>4. (n + 1) + 1 = n + 2
    OBVIOUS
  <2>5. QED
    BY <2>1, <2>2, <2>3, <2>4
<1> HIDE DEF Grows
<1>5. PICK T : T = {n \in 0 .. N : Grows(n)}
  OBVIOUS
<1>6. 0 \in T /\ \A n \in 0 .. N - 1 : n \in T => n + 1 \in T
  BY <1>3, <1>4, <1>5
<1>7. 0 .. N \subseteq T
  BY <1>6, BoundedInduction
<1>8. f[N] \subseteq DOMAIN D
  BY <1>5, <1>7 DEF Grows
<1>9. CASE N = 0
  BY <1>2, <1>9
<1>10. CASE N # 0
  <2>a. N - 1 \in 0 .. N /\ N - 1 < N /\ (N - 1) + 1 = N
    BY <1>10
  <2>1. f[N - 1] \subseteq f[N]
    BY <1>5, <1>7, <2>a DEF Grows
  <2>2. f[N] = {x \in DOMAIN D : D[x].parent \in f[N - 1] \cup {id}}
    BY <1>2, <1>10
  <2>3. QED
    BY <1>2, <1>8, <2>1, <2>2
<1>11. QED
  BY <1>9, <1>10

-----------------------------------------------------------------------------
(* The inductive invariant of the documents and of what requests have      *)
(* read.                                                                   *)

ObjId == {0, 1} \cup Request
Version == [file : Id, obj : ObjId, by : Request \cup {None}]

IsSeq(s) == s \in Seq(ToSet(s))
IsName(n) == IsSeq(n) /\ n # <<>>
IsPath(p) == IsSeq(p) /\ \A i \in 1 .. Len(p) : IsName(p[i])

IsDoc(d) ==
    d = [kind |-> d.kind, parent |-> d.parent, name |-> d.name, path |-> d.path,
         trashed |-> d.trashed, obj |-> d.obj, restore |-> d.restore, rev |-> d.rev]

\* A document of CouchDB, or one that a request will write there.
GoodDoc(d) ==
    /\ IsDoc(d)
    /\ d.parent \in Id /\ IsName(d.name) /\ IsPath(d.path)
    /\ d.trashed \in BOOLEAN /\ d.rev \in Nat \ {0}
    /\ d.restore = None \/ IsPath(d.restore)
    /\ \/ d.kind = "dir" /\ d.obj = None
       \/ d.kind = "file" /\ d.obj \in ObjId

IsRoot(d) == IsDoc(d) /\ d.kind = "dir" /\ d.parent = None /\ d.path = <<>> /\ d.obj = None
             /\ d.trashed \in BOOLEAN /\ d.rev \in Nat \ {0}

DocsOK(D) ==
    /\ IsFiniteSet(DOMAIN D) /\ DOMAIN D \subseteq Id
    /\ Root \in DOMAIN D /\ IsRoot(D[Root])
    /\ Trash \in DOMAIN D /\ D[Trash].parent = Root /\ D[Trash].kind = "dir"
    /\ \A x \in DOMAIN D \ {Root} : GoodDoc(D[x])

Names(D) ==
    \A x, y \in DOMAIN D : D[x].parent = D[y].parent /\ D[x].name = D[y].name => x = y

IsReq(q) ==
    q = [op |-> q.op, id |-> q.id, snap |-> q.snap, at |-> q.at, todo |-> q.todo,
         ver |-> q.ver, new |-> q.new]

\* The document that a request has read, and what it knows of the last one.
HasSnap(q) == q.snap.kind # "none"
SnapOK(q) ==
    GoodDoc(q.snap) /\ q.id \in Id \ {Root} /\ (q.id = Trash => q.snap.kind = "dir")
Agrees(D, q) ==
    HasSnap(q) /\ q.id \in DOMAIN D =>
        /\ q.snap.rev <= D[q.id].rev
        /\ q.snap.rev = D[q.id].rev => D[q.id] = q.snap

SameFile(d, e) == d.kind = e.kind /\ d.obj = e.obj

\* What each kind of request has read and will write.
OpOK(r, q) ==
    \/ q = Unread \/ q = Over
    \/ q.op = "clearversions" /\ q.snap = NoDoc
    \/ /\ q.op = "mkdir" /\ q.snap = NoDoc /\ q.id = r
       /\ GoodDoc(q.new) /\ q.new.rev = 1 /\ q.new.kind = "dir"
    \/ /\ q.op = "patch" /\ SnapOK(q) /\ q.id # Trash
       /\ GoodDoc(q.new) /\ q.new.rev = q.snap.rev + 1 /\ SameFile(q.snap, q.new)
    \/ /\ q.op \in {"trash", "restore"} /\ SnapOK(q) /\ q.id # Trash
       /\ GoodDoc(q.new) /\ q.new.rev = q.snap.rev /\ SameFile(q.snap, q.new)
       /\ q.op = "restore" => q.at.id \in Id /\ IsPath(q.at.path) /\ IsPath(q.todo)
    \/ /\ q.op \in {"upload", "stored"}
       /\ GoodDoc(q.new) /\ q.new.kind = "file" /\ q.new.obj = r
       /\ \/ q.snap = NoDoc /\ q.id = r /\ q.new.rev = 1
          \/ /\ SnapOK(q) /\ q.snap.kind = "file" /\ q.new.rev = q.snap.rev + 1
             /\ SamePlace(q.snap, q.new)
    \/ /\ q.op = "copy" /\ SnapOK(q) /\ q.snap.kind = "file"
       /\ GoodDoc(q.new) /\ q.new.kind = "file" /\ q.new.obj = r /\ q.new.rev = 1
    \/ q.op \in {"destroy", "clean"} /\ SnapOK(q)
    \/ /\ q.op \in {"revert", "cleanversion"} /\ SnapOK(q) /\ q.snap.kind = "file"
       /\ q.ver \in Version /\ q.ver.file = q.id

ReqOK(r, q) == IsReq(q) /\ q.id \in Id \cup {None} /\ OpOK(r, q)

\* The ids of the documents that request r, which is at q, may still create.
Unborn(r, q) ==
    (IF q.op \in {"none", "mkdir", "upload", "stored", "copy"} THEN {r} ELSE {})
    \cup {x \in MadeId : x[1] = r /\ (q.op = "none" \/ (q.op = "restore" /\ x[2] <= Len(q.todo)))}

JournalOK(j) ==
    /\ j = [files |-> j.files, objs |-> j.objs]
    /\ j.files \subseteq Id /\ j.objs \subseteq j.files \X ObjId

\* The ids that documents have had, as far as the state tells.
Known(D, vs, js, rq) ==
    DOMAIN D \cup {v.file : v \in ToSet(vs)} \cup (UNION {j.files : j \in js})
    \cup {rq[r].id : r \in {x \in Request : HasSnap(rq[x])}}

StoreOK(os, vs, js) ==
    /\ os \subseteq Id \X ObjId /\ vs \in Seq(Version) /\ \A j \in js : JournalOK(j)

VInv ==
    /\ DocsOK(docs) /\ Names(docs)
    /\ StoreOK(objects, versions, journals)
    /\ DOMAIN req = Request
    /\ \A r \in Request : ReqOK(r, req[r]) /\ Agrees(docs, req[r])
    /\ \A r \in Request : Unborn(r, req[r]) \cap Known(docs, versions, journals, req) = {}
    /\ stale \in BOOLEAN /\ cut \in BOOLEAN /\ midway \in BOOLEAN

\* The internal ids of the objects that documents, versions, journals and requests name.
Used(D, vs, js, rq) ==
    {D[x].obj : x \in DOMAIN D} \cup {v.obj : v \in ToSet(vs)}
    \cup {o[2] : o \in UNION {j.objs : j \in js}}
    \cup {rq[x].snap.obj : x \in {y \in Request : HasSnap(rq[y])}}
    \cup {rq[x].ver.obj : x \in {y \in Request : rq[y].op \in {"revert", "cleanversion"}}}

\* The requests whose object is still their own.
Pending == {"none", "upload", "stored", "copy"}

\* The contents of the files and of the versions are there, and no version has the
\* object of its file: to clean a version does not touch the file.
Backed(D, os, vs) ==
    /\ \A x \in DOMAIN D : D[x].kind = "file" => <<x, D[x].obj>> \in os
    /\ \A v \in ToSet(vs) : <<v.file, v.obj>> \in os
    /\ \A v \in ToSet(vs) : IsFile(D, v.file) => D[v.file].obj # v.obj

\* The inductive invariant of the contents.
CInv ==
    /\ Distinct(versions)
    /\ \A j \in journals : j.files \cap DOMAIN docs = {}
    /\ \A r \in Request : req[r].op = "stored" => <<req[r].id, r>> \in objects
    /\ \A r \in Request : req[r].op \in Pending => r \notin Used(docs, versions, journals, req)
    /\ midway \/ Backed(docs, objects, versions)

\* What a step keeps: the second invariant needs the first one.
Kept == VInv' /\ (CInv => CInv')

-----------------------------------------------------------------------------
(* Names and paths.                                                        *)

\* A sequence over some set is one over its own elements.
LEMMA SeqIs ==
    ASSUME NEW S, NEW s \in Seq(S) PROVE IsSeq(s) /\ Len(s) \in Nat /\ DOMAIN s = 1 .. Len(s)
<1>1. Len(s) \in Nat /\ DOMAIN s = 1 .. Len(s)
  OBVIOUS
<1>2. PICK T : T = ToSet(s)
  OBVIOUS
<1>3. \A i \in 1 .. Len(s) : s[i] \in T
  BY <1>1, <1>2, Zenon DEF ToSet
<1>4. s = [i \in 1 .. Len(s) |-> s[i]]
  OBVIOUS
<1>5. s \in Seq(T)
  BY <1>1, <1>3, <1>4
<1>6. QED
  BY <1>1, <1>2, <1>5 DEF IsSeq

LEMMA SeqFacts ==
    ASSUME NEW s, IsSeq(s)
    PROVE  /\ Len(s) \in Nat /\ DOMAIN s = 1 .. Len(s)
           /\ \E S : s \in Seq(S)
  BY SeqIs DEF IsSeq

\* A name stays one with a suffix, and without it.
LEMMA NameAppend ==
    ASSUME NEW n, IsSeq(n), NEW e PROVE IsName(Append(n, e))
<1>1. PICK S : n \in Seq(S)
  BY SeqFacts
<1>2. PICK T : T = S \cup {e}
  OBVIOUS
<1>3. n \in Seq(T) /\ e \in T
  BY <1>1, <1>2
<1>4. PICK a : a = Append(n, e)
  OBVIOUS
<1>5. a \in Seq(T) /\ Len(a) = Len(n) + 1 /\ Len(n) \in Nat
  BY <1>3, <1>4
<1>6. a # <<>>
  BY <1>5, EmptySeq
<1>7. QED
  BY <1>4, <1>5, <1>6, SeqIs DEF IsName

LEMMA NameOf ==
    ASSUME NEW e PROVE IsName(<<e>>)
<1>1. <<e>> \in Seq({e}) /\ <<e>> # <<>>
  OBVIOUS
<1>2. QED
  BY <1>1, SeqIs DEF IsName

LEMMA NameStrip ==
    ASSUME NEW n, IsName(n) PROVE IsName(Strip(n))
<1>1. PICK S : n \in Seq(S)
  BY SeqFacts DEF IsName
<1>2. CASE Len(n) > 1
  <2>1. PICK a : a = Front(n)
    OBVIOUS
  <2>2. a = SubSeq(n, 1, Len(n) - 1)
    BY <2>1 DEF Front
  <2>3. a \in Seq(S) /\ Len(a) = Len(n) - 1
    BY <1>1, <1>2, <2>2
  <2>4. a # <<>>
    BY <1>1, <1>2, <2>3, EmptySeq
  <2>5. QED
    BY <1>2, <2>1, <2>3, <2>4, SeqIs DEF IsName, Strip
<1>3. CASE ~(Len(n) > 1)
  BY <1>3 DEF Strip
<1>4. QED
  BY <1>2, <1>3

LEMMA NameFree ==
    ASSUME NEW D, NEW parent, NEW n, IsName(n) PROVE IsName(Free(D, parent, n))
<1>1. IsSeq(n)
  BY DEF IsName
<1>2. PICK k : k = CHOOSE i \in 1 .. Cardinality(DOMAIN D) : ~Taken(D, parent, Append(n, i))
  OBVIOUS
<1>3. IsName(Append(n, k))
  BY <1>1, NameAppend
<1>4. Free(D, parent, n) \in {n, Append(n, k)}
  BY <1>2, Zenon DEF Free
<1>5. QED
  BY <1>3, <1>4

LEMMA PathEmpty == IsPath(<<>>)
<1>1. PICK e : e = <<>>
  OBVIOUS
<1>2. e \in Seq({}) /\ Len(e) = 0
  BY <1>1, EmptySeq
<1>3. IsSeq(e)
  BY <1>2, SeqIs
<1>4. QED
  BY <1>1, <1>2, <1>3 DEF IsPath

LEMMA PathAppend ==
    ASSUME NEW p, IsPath(p), NEW n, IsName(n) PROVE IsPath(Append(p, n))
<1>1. PICK S : p \in Seq(S)
  BY SeqFacts DEF IsPath
<1>2. PICK T : T = S \cup {n}
  OBVIOUS
<1>3. p \in Seq(T) /\ n \in T
  BY <1>1, <1>2
<1>4. PICK a : a = Append(p, n)
  OBVIOUS
<1>5. /\ a \in Seq(T) /\ Len(a) = Len(p) + 1
      /\ \A i \in 1 .. Len(a) : (i \in 1 .. Len(p) /\ a[i] = p[i]) \/ a[i] = n
  BY <1>3, <1>4
<1>6. QED
  BY <1>4, <1>5, SeqIs DEF IsPath

LEMMA PathConcat ==
    ASSUME NEW p, IsPath(p), NEW q, IsPath(q) PROVE IsPath(p \o q)
<1>1. PICK S : p \in Seq(S)
  BY SeqFacts DEF IsPath
<1>2. PICK U : q \in Seq(U)
  BY SeqFacts DEF IsPath
<1>3. PICK T : T = S \cup U
  OBVIOUS
<1>4. p \in Seq(T) /\ q \in Seq(T)
  BY <1>1, <1>2, <1>3
<1>5. PICK a : a = p \o q
  OBVIOUS
<1>6. /\ a \in Seq(T) /\ Len(a) = Len(p) + Len(q)
      /\ \A i \in 1 .. Len(a) :
            \/ i \in 1 .. Len(p) /\ a[i] = p[i]
            \/ i - Len(p) \in 1 .. Len(q) /\ a[i] = q[i - Len(p)]
  <2>1. Len(p) \in Nat /\ Len(q) \in Nat
    BY <1>4
  <2>2. /\ a \in Seq(T) /\ Len(a) = Len(p) + Len(q)
        /\ \A i \in 1 .. Len(p) + Len(q) : a[i] = IF i <= Len(p) THEN p[i] ELSE q[i - Len(p)]
    BY <1>4, <1>5, ConcatProperties
  <2>3. ASSUME NEW i \in 1 .. Len(p) + Len(q)
        PROVE  \/ i \in 1 .. Len(p) /\ a[i] = p[i]
               \/ i - Len(p) \in 1 .. Len(q) /\ a[i] = q[i - Len(p)]
    <3>1. CASE i <= Len(p)
      BY <2>1, <2>2, <3>1
    <3>2. CASE ~(i <= Len(p))
      BY <2>1, <2>2, <3>2
    <3>3. QED
      BY <3>1, <3>2
  <2>4. QED
    BY <2>2, <2>3
<1>7. QED
  BY <1>5, <1>6, SeqIs DEF IsPath

LEMMA PathSub ==
    ASSUME NEW p, IsPath(p), NEW m \in Nat \ {0}, NEW n \in Int, n <= Len(p)
    PROVE  IsPath(SubSeq(p, m, n))
<1>1. PICK S : p \in Seq(S)
  BY SeqFacts DEF IsPath
<1>2. PICK a : a = SubSeq(p, m, n)
  OBVIOUS
<1>3. CASE n < m
  <2>1. a = <<>>
    BY <1>1, <1>2, <1>3
  <2>2. QED
    BY <1>2, <2>1, PathEmpty
<1>4. CASE m <= n
  <2>1. a \in Seq(S) /\ Len(a) = n - m + 1
        /\ \A i \in 1 .. Len(a) : a[i] = p[m + i - 1] /\ m + i - 1 \in 1 .. Len(p)
    BY <1>1, <1>2, <1>4
  <2>2. QED
    BY <1>2, <2>1, SeqIs DEF IsPath
<1>5. QED
  BY <1>3, <1>4

-----------------------------------------------------------------------------
(* The effect of one write.                                                *)

IsState(s) == s = [docs |-> s.docs, objs |-> s.objs, vers |-> s.vers, jobs |-> s.jobs, ok |-> s.ok]
              /\ s.ok \in BOOLEAN

PutIn(D, id, doc) == [x \in DOMAIN D \cup {id} |-> IF x = id THEN doc ELSE D[x]]

\* t is s, but for the documents.
SameStore(s, t) == t.objs = s.objs /\ t.vers = s.vers /\ t.jobs = s.jobs

LEMMA NowIsState == IsState(Now) /\ Now.ok /\ Now.docs = docs /\ Now.objs = objects
                    /\ Now.vers = versions /\ Now.jobs = journals
  BY DEF IsState, Now

LEMMA StepStopped ==
    ASSUME NEW s, ~s.ok, NEW w PROVE Step(s, w) = s
  BY DEF Step

LEMMA StepPut ==
    ASSUME NEW s, IsState(s), s.ok, NEW id, NEW doc, NEW t, t = Step(s, Put(id, doc))
    PROVE  /\ IsState(t) /\ SameStore(s, t)
           /\ \/ ~t.ok /\ t.docs = s.docs /\ Rev(s.docs, id) + 1 # doc.rev
              \/ t.ok /\ t.docs = PutIn(s.docs, id, doc) /\ Rev(s.docs, id) + 1 = doc.rev
<1>1. PICK w : w = Put(id, doc)
  OBVIOUS
<1>2. w.do = "put" /\ w.id = id /\ w.doc = doc
  BY <1>1 DEF Put
<1>3. Refused(s, w) = (Rev(s.docs, id) + 1 # doc.rev)
  BY <1>2 DEF Refused
<1>4. Written(s, w) = [s EXCEPT !.docs = PutIn(s.docs, id, doc)]
  BY <1>2 DEF Written, PutIn
<1> HIDE DEF PutIn
<1>5. t = IF Rev(s.docs, id) + 1 # doc.rev THEN [s EXCEPT !.ok = FALSE]
          ELSE [s EXCEPT !.docs = PutIn(s.docs, id, doc)]
  BY <1>1, <1>3, <1>4 DEF Step
<1>6. QED
  BY <1>5 DEF IsState, SameStore

LEMMA StepDelete ==
    ASSUME NEW s, IsState(s), s.ok, NEW id, NEW rev, NEW t, t = Step(s, Delete(id, rev))
    PROVE  /\ IsState(t) /\ SameStore(s, t)
           /\ \/ ~t.ok /\ t.docs = s.docs /\ Rev(s.docs, id) # rev
              \/ t.ok /\ t.docs = Without(s.docs, {id}) /\ Rev(s.docs, id) = rev
<1>1. PICK w : w = Delete(id, rev)
  OBVIOUS
<1>2. w.do = "delete" /\ w.id = id /\ w.rev = rev
  BY <1>1 DEF Delete
<1>3. Refused(s, w) = (Rev(s.docs, id) # rev)
  BY <1>2 DEF Refused
<1>4. Written(s, w) = [s EXCEPT !.docs = Without(s.docs, {id})]
  BY <1>2 DEF Written
<1>5. t = IF Rev(s.docs, id) # rev THEN [s EXCEPT !.ok = FALSE]
          ELSE [s EXCEPT !.docs = Without(s.docs, {id})]
  BY <1>1, <1>3, <1>4 DEF Step
<1>6. QED
  BY <1>5 DEF IsState, SameStore

LEMMA StepBatch ==
    ASSUME NEW s, IsState(s), s.ok, NEW D, NEW t, t = Step(s, BatchDelete(D))
    PROVE  /\ IsState(t) /\ SameStore(s, t) /\ t.ok
           /\ t.docs = Without(s.docs, {x \in DOMAIN D : Rev(s.docs, x) = D[x].rev})
<1>1. PICK w : w = BatchDelete(D)
  OBVIOUS
<1>2. w.do = "batch" /\ w.of = D
  BY <1>1 DEF BatchDelete
<1>3. Refused(s, w) = FALSE
  BY <1>2 DEF Refused
<1>4. PICK gone : gone = {x \in DOMAIN D : Rev(s.docs, x) = D[x].rev}
  OBVIOUS
<1>5. Written(s, w) = [s EXCEPT !.docs = Without(s.docs, gone)]
  BY <1>2, <1>4 DEF Written
<1>6. t = [s EXCEPT !.docs = Without(s.docs, gone)]
  BY <1>1, <1>3, <1>5 DEF Step
<1>7. QED
  BY <1>4, <1>6 DEF IsState, SameStore

\* The versions vs have one of the object of v.
HasObject(vs, v) == \E i \in DOMAIN vs : vs[i].file = v.file /\ vs[i].obj = v.obj

-----------------------------------------------------------------------------
(* What a write may change of the documents it does not replace.           *)

\* e is d, or d after changes of its path and its trashed flag.
KeptDoc(d, e) ==
    /\ e.parent = d.parent /\ e.name = d.name /\ e.kind = d.kind /\ e.obj = d.obj
    /\ e.rev \in Nat /\ d.rev \in Nat /\ d.rev <= e.rev /\ (e.rev = d.rev => e = d)
    /\ GoodDoc(d) => GoodDoc(e)
    /\ IsRoot(d) => IsRoot(e)

KeptAll(D, E) == DOMAIN E = DOMAIN D /\ \A x \in DOMAIN D : KeptDoc(D[x], E[x])

LEMMA KeptDocSame ==
    ASSUME NEW d, d.rev \in Nat PROVE KeptDoc(d, d)
  BY DEF KeptDoc

LEMMA KeptDocTrans ==
    ASSUME NEW d, NEW e, NEW g, KeptDoc(d, e), KeptDoc(e, g) PROVE KeptDoc(d, g)
<1>1. /\ g.parent = d.parent /\ g.name = d.name /\ g.kind = d.kind /\ g.obj = d.obj
      /\ g.rev \in Nat /\ d.rev \in Nat /\ d.rev <= g.rev
  BY DEF KeptDoc
<1>2. g.rev = d.rev => g = d
  BY DEF KeptDoc
<1>3. (GoodDoc(d) => GoodDoc(g)) /\ (IsRoot(d) => IsRoot(g))
  BY DEF KeptDoc
<1>4. QED
  BY <1>1, <1>2, <1>3 DEF KeptDoc

LEMMA DocRev ==
    ASSUME NEW D, DocsOK(D), NEW x \in DOMAIN D PROVE D[x].rev \in Nat \ {0} /\ IsDoc(D[x])
  BY DEF DocsOK, GoodDoc, IsRoot

LEMMA KeptRefl ==
    ASSUME NEW D, DocsOK(D) PROVE KeptAll(D, D)
  BY DocRev, KeptDocSame DEF KeptAll

LEMMA KeptTrans ==
    ASSUME NEW D, NEW E, NEW G, KeptAll(D, E), KeptAll(E, G) PROVE KeptAll(D, G)
<1>1. DOMAIN G = DOMAIN D /\ DOMAIN E = DOMAIN D
  BY DEF KeptAll
<1>2. \A x \in DOMAIN D : KeptDoc(D[x], G[x])
  BY <1>1, KeptDocTrans DEF KeptAll
<1>3. QED
  BY <1>1, <1>2 DEF KeptAll

LEMMA KeptDocsOK ==
    ASSUME NEW D, NEW E, DocsOK(D), KeptAll(D, E) PROVE DocsOK(E)
<1>1. DOMAIN E = DOMAIN D
  BY DEF KeptAll
<1>2. \A x \in DOMAIN D \ {Root} : GoodDoc(E[x])
  BY DEF KeptAll, KeptDoc, DocsOK
<1>3. IsRoot(E[Root])
  BY DEF KeptAll, KeptDoc, DocsOK
<1>4. E[Trash].parent = Root /\ E[Trash].kind = "dir"
  BY DEF KeptAll, KeptDoc, DocsOK
<1>5. QED
  BY <1>1, <1>2, <1>3, <1>4 DEF DocsOK

\* A document with another trashed flag, or another path, and a new revision.
LEMMA TrashedDoc ==
    ASSUME NEW d, d.rev \in Nat \ {0}, IsDoc(d), NEW trashed \in BOOLEAN,
           NEW e, e = [d EXCEPT !.trashed = trashed, !.rev = @ + 1]
    PROVE  KeptDoc(d, e)
<1>1. /\ IsDoc(e) /\ e.parent = d.parent /\ e.name = d.name /\ e.kind = d.kind /\ e.obj = d.obj
      /\ e.path = d.path /\ e.restore = d.restore /\ e.trashed = trashed /\ e.rev = d.rev + 1
  BY DEF IsDoc
<1>2. e.rev \in Nat \ {0} /\ d.rev <= e.rev /\ e.rev # d.rev
  BY <1>1
<1>3. GoodDoc(d) => GoodDoc(e)
  BY <1>1, <1>2 DEF GoodDoc
<1>4. IsRoot(d) => IsRoot(e)
  BY <1>1, <1>2 DEF IsRoot
<1>5. QED
  BY <1>1, <1>2, <1>3, <1>4 DEF KeptDoc

LEMMA MovedDoc ==
    ASSUME NEW d, d.rev \in Nat \ {0}, IsDoc(d), NEW path, GoodDoc(d) => IsPath(path), ~IsRoot(d),
           NEW e, e = [d EXCEPT !.path = path, !.rev = @ + 1]
    PROVE  KeptDoc(d, e)
<1>1. /\ IsDoc(e) /\ e.parent = d.parent /\ e.name = d.name /\ e.kind = d.kind /\ e.obj = d.obj
      /\ e.path = path /\ e.restore = d.restore /\ e.trashed = d.trashed /\ e.rev = d.rev + 1
  BY DEF IsDoc
<1>2. e.rev \in Nat \ {0} /\ d.rev <= e.rev /\ e.rev # d.rev
  BY <1>1
<1>3. GoodDoc(d) => GoodDoc(e)
  BY <1>1, <1>2 DEF GoodDoc
<1>4. QED
  BY <1>1, <1>2, <1>3 DEF KeptDoc

LEMMA WithTrashedKeeps ==
    ASSUME NEW D, DocsOK(D), NEW id, NEW trashed \in BOOLEAN
    PROVE  KeptAll(D, WithTrashed(D, id, trashed))
<1>1. PICK E : E = WithTrashed(D, id, trashed)
  OBVIOUS
<1>2. PICK U : U = Under(D, id)
  OBVIOUS
<1>3. /\ DOMAIN E = DOMAIN D
      /\ \A x \in DOMAIN D :
            E[x] \in {D[x], [D[x] EXCEPT !.trashed = trashed, !.rev = @ + 1]}
  BY <1>1 DEF WithTrashed
<1>4. ASSUME NEW x \in DOMAIN D PROVE KeptDoc(D[x], E[x])
  <2>1. PICK d : d = D[x]
    OBVIOUS
  <2>2. d.rev \in Nat \ {0} /\ IsDoc(d)
    BY <2>1, DocRev
  <2>3. CASE E[x] = d
    BY <2>1, <2>2, <2>3, KeptDocSame
  <2>4. CASE E[x] = [d EXCEPT !.trashed = trashed, !.rev = @ + 1]
    BY <2>1, <2>2, <2>4, TrashedDoc
  <2>5. QED
    BY <1>3, <2>1, <2>3, <2>4
<1>5. QED
  BY <1>1, <1>3, <1>4 DEF KeptAll

LEMMA NoRootMove ==
    ASSUME NEW from, IsPath(from), NEW d, IsRoot(d) PROVE ~IsStrictPrefix(from, d.path)
<1>1. d.path = <<>>
  BY DEF IsRoot
<1>2. Len(from) \in Nat
  BY SeqFacts DEF IsPath
<1>3. PICK S : from \in Seq(S)
  BY SeqFacts DEF IsPath
<1>4. Len(from) = 0 => from = <<>>
  BY <1>3
<1>5. IsStrictPrefix(from, <<>>) => Len(from) <= Len(<<>>) /\ from # <<>>
  BY DEF IsStrictPrefix, IsPrefix
<1>6. Len(<<>>) = 0
  BY EmptySeq
<1>7. QED
  BY <1>1, <1>2, <1>4, <1>5, <1>6

LEMMA MovedKeeps ==
    ASSUME NEW D, DocsOK(D), NEW from, IsPath(from), NEW to, IsPath(to)
    PROVE  KeptAll(D, Moved(D, from, to))
<1>1. PICK E : E = Moved(D, from, to)
  OBVIOUS
<1> DEFINE Path(d) == to \o SubSeq(d.path, Len(from) + 1, Len(d.path))
<1>2. /\ DOMAIN E = DOMAIN D
      /\ \A x \in DOMAIN D :
            \/ E[x] = D[x]
            \/ IsStrictPrefix(from, D[x].path) /\ E[x] = [D[x] EXCEPT !.path = Path(D[x]), !.rev = @ + 1]
  BY <1>1 DEF Moved
<1>3. \A d : GoodDoc(d) => IsPath(Path(d))
  <2>1. SUFFICES ASSUME NEW d, IsPath(d.path) PROVE IsPath(Path(d))
    BY DEF GoodDoc
  <2>2. Len(from) + 1 \in Nat \ {0} /\ Len(d.path) \in Int /\ Len(d.path) <= Len(d.path)
    BY <2>1, SeqFacts DEF IsPath
  <2>3. PICK m, n : m = Len(from) + 1 /\ n = Len(d.path)
    OBVIOUS
  <2>4. IsPath(SubSeq(d.path, m, n))
    BY <2>1, <2>2, <2>3, PathSub
  <2>5. QED
    BY <2>3, <2>4, PathConcat
<1> HIDE DEF Path
<1>4. ASSUME NEW x \in DOMAIN D PROVE KeptDoc(D[x], E[x])
  <2>1. PICK d : d = D[x]
    OBVIOUS
  <2>2. d.rev \in Nat \ {0} /\ IsDoc(d)
    BY <2>1, DocRev
  <2>3. CASE E[x] = d
    BY <2>1, <2>2, <2>3, KeptDocSame
  <2>4. CASE IsStrictPrefix(from, d.path) /\ E[x] = [d EXCEPT !.path = Path(d), !.rev = @ + 1]
    <3>1. ~IsRoot(d)
      BY <2>4, NoRootMove
    <3>2. GoodDoc(d) => IsPath(Path(d))
      BY <1>3
    <3>3. PICK p : p = Path(d)
      OBVIOUS
    <3>4. QED
      BY <2>1, <2>2, <2>4, <3>1, <3>2, <3>3, MovedDoc
  <2>5. QED
    BY <1>2, <2>1, <2>3, <2>4
<1>5. QED
  BY <1>1, <1>2, <1>4 DEF KeptAll

-----------------------------------------------------------------------------
(* A list of writes.                                                       *)

\* f holds the states after 0, 1, ... N of the writes.
Trace(f, N, writes) ==
    f[0] = Now /\ \A n \in 1 .. N : f[n] = Step(f[n - 1], writes[n])

\* The writes that do not replace or delete a document.
Plain(w) ==
    \/ w.do \in {"check", "store", "erase", "version", "unversion", "unversions", "push"}
    \/ w.do = "set" /\ w.trashed \in BOOLEAN
    \/ w.do = "move" /\ IsPath(w.from) /\ IsPath(w.to)

LEMMA WrittenState ==
    ASSUME NEW s, IsState(s), NEW w PROVE IsState(Written(s, w)) /\ Written(s, w).ok = s.ok
<1>1. CASE w.do = "put"
  <2>1. PICK D : Written(s, w) = [s EXCEPT !.docs = D]
    BY <1>1 DEF Written
  <2>2. QED
    BY <2>1 DEF IsState
<1>2. CASE w.do = "delete"
  <2>1. PICK D : Written(s, w) = [s EXCEPT !.docs = D]
    BY <1>2 DEF Written
  <2>2. QED
    BY <2>1 DEF IsState
<1>3. CASE w.do = "batch"
  <2>1. PICK D : Written(s, w) = [s EXCEPT !.docs = D]
    BY <1>3 DEF Written
  <2>2. QED
    BY <2>1 DEF IsState
<1>4. CASE w.do = "set"
  <2>1. PICK D : Written(s, w) = [s EXCEPT !.docs = D]
    BY <1>4 DEF Written
  <2>2. QED
    BY <2>1 DEF IsState
<1>5. CASE w.do = "move"
  <2>1. PICK D : Written(s, w) = [s EXCEPT !.docs = D]
    BY <1>5 DEF Written
  <2>2. QED
    BY <2>1 DEF IsState
<1>6. CASE w.do = "store" \/ w.do = "erase"
  <2>1. PICK D : Written(s, w) = [s EXCEPT !.objs = D]
    BY <1>6 DEF Written
  <2>2. QED
    BY <2>1 DEF IsState
<1>7. CASE w.do = "version"
  <2>1. PICK D : Written(s, w) = [s EXCEPT !.vers = D]
    BY <1>7 DEF Written
  <2>2. QED
    BY <2>1 DEF IsState
<1>8. CASE w.do = "unversion" \/ w.do = "unversions"
  <2>1. PICK D : Written(s, w) = [s EXCEPT !.vers = D]
    BY <1>8 DEF Written
  <2>2. QED
    BY <2>1 DEF IsState
<1>9. CASE w.do = "push"
  <2>1. PICK D : Written(s, w) = [s EXCEPT !.jobs = D]
    BY <1>9 DEF Written
  <2>2. QED
    BY <2>1 DEF IsState
<1>10. CASE w.do \notin {"put", "delete", "batch", "set", "move", "store", "erase", "version",
                         "unversion", "unversions", "push"}
  <2>1. Written(s, w) = s
    BY <1>10 DEF Written
  <2>2. QED
    BY <2>1
<1>11. QED
  BY <1>1, <1>2, <1>3, <1>4, <1>5, <1>6, <1>7, <1>8, <1>9, <1>10

LEMMA StepState ==
    ASSUME NEW s, IsState(s), NEW w PROVE IsState(Step(s, w)) /\ (Step(s, w).ok => s.ok)
<1>1. PICK t : t = [s EXCEPT !.ok = FALSE]
  OBVIOUS
<1>2. IsState(t) /\ t.ok = FALSE
  BY <1>1 DEF IsState
<1>3. IsState(Written(s, w)) /\ Written(s, w).ok = s.ok
  BY WrittenState
<1>4. Step(s, w) \in {s, t, Written(s, w)}
  BY <1>1, Zenon DEF Step
<1>5. QED
  BY <1>2, <1>3, <1>4

LEMMA PlainKeeps ==
    ASSUME NEW s, IsState(s), DocsOK(s.docs), NEW w, Plain(w), NEW t, t = Step(s, w)
    PROVE  KeptAll(s.docs, t.docs) /\ (t.ok /\ w.do = "check" => w.holds)
<1>1. KeptAll(s.docs, s.docs)
  BY KeptRefl
<1>2. [s EXCEPT !.ok = FALSE].docs = s.docs /\ [s EXCEPT !.ok = FALSE].ok = FALSE
  BY DEF IsState
<1>3. t \in {s, [s EXCEPT !.ok = FALSE], Written(s, w)}
  BY Zenon DEF Step
<1>4. CASE w.do = "set"
  <2>1. Written(s, w) = [s EXCEPT !.docs = WithTrashed(s.docs, w.id, w.trashed)]
    BY <1>4 DEF Written
  <2>2. PICK D : D = WithTrashed(s.docs, w.id, w.trashed)
    OBVIOUS
  <2>3. Written(s, w).docs = D
    BY <2>1, <2>2 DEF IsState
  <2>4. w.trashed \in BOOLEAN
    BY <1>4 DEF Plain
  <2>5. KeptAll(s.docs, D)
    BY <2>2, <2>4, WithTrashedKeeps
  <2>6. QED
    BY <1>1, <1>2, <1>3, <1>4, <2>3, <2>5
<1>5. CASE w.do = "move"
  <2>1. Written(s, w) = [s EXCEPT !.docs = Moved(s.docs, w.from, w.to)]
    BY <1>5 DEF Written
  <2>2. PICK D : D = Moved(s.docs, w.from, w.to)
    OBVIOUS
  <2>3. Written(s, w).docs = D
    BY <2>1, <2>2 DEF IsState
  <2>4. IsPath(w.from) /\ IsPath(w.to)
    BY <1>5 DEF Plain
  <2>5. KeptAll(s.docs, D)
    BY <2>2, <2>4, MovedKeeps
  <2>6. QED
    BY <1>1, <1>2, <1>3, <1>5, <2>3, <2>5
<1>6. CASE w.do = "check"
  <2>1. Refused(s, w) = ~w.holds /\ Written(s, w) = s
    BY <1>6 DEF Refused, Written
  <2>2. t = IF ~s.ok THEN s ELSE IF ~w.holds THEN [s EXCEPT !.ok = FALSE] ELSE s
    BY <2>1 DEF Step
  <2>3. QED
    BY <1>1, <1>2, <2>2
<1>7. CASE w.do \in {"store", "erase", "version", "unversion", "unversions", "push"}
  <2>1. Written(s, w).docs = s.docs
    <3>1. CASE w.do = "store"
      <4>1. PICK D : Written(s, w) = [s EXCEPT !.objs = D]
        BY <3>1 DEF Written
      <4>2. QED
        BY <4>1 DEF IsState
    <3>2. CASE w.do = "erase"
      <4>1. PICK D : Written(s, w) = [s EXCEPT !.objs = D]
        BY <3>2 DEF Written
      <4>2. QED
        BY <4>1 DEF IsState
    <3>3. CASE w.do \in {"version", "unversion", "unversions"}
      <4>1. PICK D : Written(s, w) = [s EXCEPT !.vers = D]
        BY <3>3 DEF Written
      <4>2. QED
        BY <4>1 DEF IsState
    <3>4. CASE w.do = "push"
      <4>1. PICK D : Written(s, w) = [s EXCEPT !.jobs = D]
        BY <3>4 DEF Written
      <4>2. QED
        BY <4>1 DEF IsState
    <3>5. QED
      BY <1>7, <3>1, <3>2, <3>3, <3>4
  <2>2. QED
    BY <1>1, <1>2, <1>3, <1>7, <2>1
<1>8. QED
  BY <1>4, <1>5, <1>6, <1>7 DEF Plain

\* The documents G come from D, with the document id replaced by doc.
PutOver(D, id, doc, G) ==
    /\ DOMAIN G = DOMAIN D \cup {id}
    /\ \A x \in DOMAIN D \ {id} : KeptDoc(D[x], G[x])
    /\ KeptDoc(doc, G[id])
    /\ IF id \in DOMAIN D THEN D[id].rev < doc.rev ELSE doc.rev = 1

LEMMA PutOverDocsOK ==
    ASSUME NEW D, DocsOK(D), NEW id \in Id \ {Root, Trash}, NEW doc, GoodDoc(doc),
           NEW G, PutOver(D, id, doc, G)
    PROVE  DocsOK(G)
<1>1. DOMAIN G = DOMAIN D \cup {id} /\ IsFiniteSet(DOMAIN D)
  BY DEF PutOver, DocsOK
<1>2. IsFiniteSet(DOMAIN G)
  BY <1>1, FS_AddElement
<1>3. \A x \in DOMAIN G \ {Root} : GoodDoc(G[x])
  BY <1>1 DEF DocsOK, PutOver, KeptDoc
<1>4. Root \in DOMAIN D /\ Trash \in DOMAIN D
  BY DEF DocsOK
<1>5. KeptDoc(D[Root], G[Root]) /\ KeptDoc(D[Trash], G[Trash])
  BY <1>4 DEF PutOver
<1>6. IsRoot(G[Root]) /\ G[Trash].parent = Root /\ G[Trash].kind = "dir"
  BY <1>5 DEF DocsOK, KeptDoc
<1>7. QED
  BY <1>1, <1>2, <1>3, <1>4, <1>6 DEF DocsOK

\* The first accepted Put of a section, after writes that keep the documents.
LEMMA PutAccepted ==
    ASSUME NEW D, DocsOK(D), NEW E, KeptAll(D, E), NEW id, NEW doc, GoodDoc(doc),
           Rev(E, id) + 1 = doc.rev
    PROVE  PutOver(D, id, doc, PutIn(E, id, doc))
<1>1. DOMAIN E = DOMAIN D /\ \A x \in DOMAIN D : KeptDoc(D[x], E[x])
  BY DEF KeptAll
<1>2. PICK G : G = PutIn(E, id, doc)
  OBVIOUS
<1>3. /\ DOMAIN G = DOMAIN D \cup {id} /\ G[id] = doc
      /\ \A x \in DOMAIN D \ {id} : G[x] = E[x]
  BY <1>1, <1>2 DEF PutIn
<1>4. doc.rev \in Nat
  BY DEF GoodDoc
<1>5. KeptDoc(doc, G[id])
  BY <1>3, <1>4, KeptDocSame
<1>6. \A x \in DOMAIN D \ {id} : KeptDoc(D[x], G[x])
  BY <1>1, <1>3
<1>7. IF id \in DOMAIN D THEN D[id].rev < doc.rev ELSE doc.rev = 1
  <2>1. CASE id \in DOMAIN D
    <3>1. E[id].rev + 1 = doc.rev
      BY <1>1, <2>1 DEF Rev
    <3>2. D[id].rev \in Nat /\ E[id].rev \in Nat /\ D[id].rev <= E[id].rev
      BY <1>1, <2>1 DEF KeptDoc
    <3>3. QED
      BY <2>1, <3>1, <3>2, <1>4
  <2>2. CASE id \notin DOMAIN D
    BY <1>1, <2>2 DEF Rev
  <2>3. QED
    BY <2>1, <2>2
<1>8. QED
  BY <1>2, <1>3, <1>5, <1>6, <1>7 DEF PutOver

LEMMA PutOverKept ==
    ASSUME NEW D, NEW id, NEW doc, NEW G, PutOver(D, id, doc, G), NEW H, KeptAll(G, H)
    PROVE  PutOver(D, id, doc, H)
<1>1. DOMAIN H = DOMAIN G /\ DOMAIN G = DOMAIN D \cup {id}
  BY DEF KeptAll, PutOver
<1>2. \A x \in DOMAIN D \ {id} : KeptDoc(D[x], H[x])
  BY <1>1, KeptDocTrans DEF KeptAll, PutOver
<1>3. KeptDoc(doc, H[id])
  BY <1>1, KeptDocTrans DEF KeptAll, PutOver
<1>4. QED
  BY <1>1, <1>2, <1>3 DEF PutOver

\* The checks that come before a write of the list hold.
Passed(writes, p) == \A m \in 1 .. p - 1 : writes[m].do = "check" => writes[m].holds

\* The documents after a list of writes with at most one Put.
LEMMA PutTrace ==
    ASSUME DocsOK(docs), NEW N \in Nat, NEW writes, NEW f, Trace(f, N, writes),
           NEW id \in Id \ {Root, Trash}, NEW doc, GoodDoc(doc),
           \A n \in 1 .. N : Plain(writes[n]) \/ writes[n] = Put(id, doc)
    PROVE  \A n \in 0 .. N :
               /\ IsState(f[n]) /\ DocsOK(f[n].docs)
               /\ f[n].ok => Passed(writes, n + 1)
               /\ \/ KeptAll(docs, f[n].docs)
                  \/ /\ PutOver(docs, id, doc, f[n].docs)
                     /\ \E p \in 1 .. n : writes[p] = Put(id, doc) /\ Passed(writes, p)
<1> DEFINE Good(n) ==
               /\ IsState(f[n]) /\ DocsOK(f[n].docs)
               /\ f[n].ok => Passed(writes, n + 1)
               /\ \/ KeptAll(docs, f[n].docs)
                  \/ /\ PutOver(docs, id, doc, f[n].docs)
                     /\ \E p \in 1 .. n : writes[p] = Put(id, doc) /\ Passed(writes, p)
<1>1. Good(0)
  <2>1. f[0] = Now
    BY DEF Trace
  <2>2. IsState(f[0]) /\ f[0].docs = docs
    BY <2>1, NowIsState
  <2>3. Passed(writes, 0 + 1)
    BY DEF Passed
  <2>4. QED
    BY <2>2, <2>3, KeptRefl
<1>2. \A n \in 0 .. N - 1 : Good(n) => Good(n + 1)
  <2>1. SUFFICES ASSUME NEW n \in 0 .. N - 1, Good(n) PROVE Good(n + 1)
    OBVIOUS
  <2>2. n + 1 \in 1 .. N /\ (n + 1) - 1 = n /\ 1 .. n \subseteq 1 .. n + 1 /\ n + 1 \in 1 .. n + 1
    OBVIOUS
  <2>3. PICK s, t, w : s = f[n] /\ t = f[n + 1] /\ w = writes[n + 1]
    OBVIOUS
  <2>4. t = Step(s, w)
    BY <2>2, <2>3 DEF Trace
  <2>5. /\ IsState(s) /\ DocsOK(s.docs) /\ (s.ok => Passed(writes, n + 1))
        /\ \/ KeptAll(docs, s.docs)
           \/ /\ PutOver(docs, id, doc, s.docs)
              /\ \E p \in 1 .. n : writes[p] = Put(id, doc) /\ Passed(writes, p)
    BY <2>1, <2>3
  <2>6. IsState(t) /\ (t.ok => s.ok)
    BY <2>4, <2>5, StepState
  <2>7. (t.ok /\ w.do = "check" => w.holds) => (t.ok => Passed(writes, (n + 1) + 1))
    <3>1. SUFFICES ASSUME t.ok, w.do = "check" => w.holds PROVE Passed(writes, (n + 1) + 1)
      OBVIOUS
    <3>2. Passed(writes, n + 1)
      BY <2>5, <2>6, <3>1
    <3>3. \A m \in 1 .. ((n + 1) + 1) - 1 : m \in 1 .. (n + 1) - 1 \/ m = n + 1
      OBVIOUS
    <3>4. QED
      BY <2>3, <3>1, <3>2, <3>3 DEF Passed
  <2>8. CASE Plain(w)
    <3>1. KeptAll(s.docs, t.docs) /\ (t.ok /\ w.do = "check" => w.holds)
      BY <2>4, <2>5, <2>8, PlainKeeps
    <3>2. DocsOK(t.docs)
      BY <2>5, <3>1, KeptDocsOK
    <3>3. CASE KeptAll(docs, s.docs)
      <4>1. KeptAll(docs, t.docs)
        BY <3>1, <3>3, KeptTrans
      <4>2. QED
        BY <2>3, <2>6, <2>7, <3>1, <3>2, <4>1
    <3>4. CASE /\ PutOver(docs, id, doc, s.docs)
               /\ \E p \in 1 .. n : writes[p] = Put(id, doc) /\ Passed(writes, p)
      <4>1. PutOver(docs, id, doc, t.docs)
        BY <3>1, <3>4, PutOverKept
      <4>2. \E p \in 1 .. n + 1 : writes[p] = Put(id, doc) /\ Passed(writes, p)
        BY <2>2, <3>4
      <4>3. QED
        BY <2>3, <2>6, <2>7, <3>1, <3>2, <4>1, <4>2
    <3>5. QED
      BY <2>5, <3>3, <3>4
  <2>9. CASE w = Put(id, doc)
    <3>1. w.do = "put"
      BY <2>9 DEF Put
    <3>2. t.ok => Passed(writes, (n + 1) + 1)
      BY <2>7, <3>1
    <3>3. CASE t.docs = s.docs
      <4>1. \/ KeptAll(docs, s.docs)
            \/ /\ PutOver(docs, id, doc, s.docs)
               /\ \E p \in 1 .. n + 1 : writes[p] = Put(id, doc) /\ Passed(writes, p)
        BY <2>2, <2>5
      <4>2. QED
        BY <2>3, <2>5, <2>6, <3>2, <3>3, <4>1
    <3>4. CASE t.docs # s.docs
      <4>1. s.ok
        BY <2>4, <3>4, StepStopped
      <4>2. t.docs = PutIn(s.docs, id, doc) /\ Rev(s.docs, id) + 1 = doc.rev
        BY <2>4, <2>5, <2>9, <3>4, <4>1, StepPut
      <4>3. ~PutOver(docs, id, doc, s.docs)
        <5>1. SUFFICES ASSUME PutOver(docs, id, doc, s.docs) PROVE FALSE
          OBVIOUS
        <5>2. id \in DOMAIN s.docs /\ KeptDoc(doc, s.docs[id])
          BY <5>1 DEF PutOver
        <5>3. Rev(s.docs, id) = s.docs[id].rev /\ doc.rev \in Nat /\ s.docs[id].rev \in Nat
              /\ doc.rev <= s.docs[id].rev
          BY <5>2 DEF Rev, KeptDoc
        <5>4. QED
          BY <4>2, <5>3
      <4>4. KeptAll(docs, s.docs)
        BY <2>5, <4>3
      <4>5. PutOver(docs, id, doc, t.docs)
        BY <4>2, <4>4, PutAccepted
      <4>6. DocsOK(t.docs)
        BY <4>5, PutOverDocsOK
      <4>7. \E p \in 1 .. n + 1 : writes[p] = Put(id, doc) /\ Passed(writes, p)
        BY <2>2, <2>3, <2>5, <2>9, <4>1
      <4>8. QED
        BY <2>3, <2>6, <3>2, <4>5, <4>6, <4>7
    <3>5. QED
      BY <3>3, <3>4
  <2>10. QED
    BY <2>2, <2>3, <2>8, <2>9
<1> HIDE DEF Good
<1>3. PICK T : T = {n \in 0 .. N : Good(n)}
  OBVIOUS
<1>4. 0 \in T /\ \A n \in 0 .. N - 1 : n \in T => n + 1 \in T
  BY <1>1, <1>2, <1>3
<1>5. 0 .. N \subseteq T
  BY <1>4, BoundedInduction
<1>6. \A n \in 0 .. N : Good(n)
  BY <1>3, <1>5
<1>7. QED
  BY <1>6 DEF Good

-----------------------------------------------------------------------------
(* What a section leaves.                                                  *)

LEMMA AfterTrace ==
    ASSUME NEW W, NEW writes \in Seq(W), NEW undo
    PROVE  \E f : /\ Trace(f, Len(writes), writes)
                  /\ After(writes, undo) = IF f[Len(writes)].ok THEN f[Len(writes)]
                                           ELSE [Written(f[Len(writes)], undo) EXCEPT !.ok = FALSE]
<1>1. Len(writes) \in Nat
  OBVIOUS
<1>2. PICK f : /\ f[0] = Now /\ f[Len(writes)] = Run(Now, writes)
               /\ \A n \in 1 .. Len(writes) : f[n] = Step(f[n - 1], writes[n])
  BY <1>1, RunTrace
<1>3. QED
  BY <1>2, Zenon DEF After, Trace

LEMMA TraceState ==
    ASSUME NEW N \in Nat, NEW writes, NEW f, Trace(f, N, writes)
    PROVE  \A n \in 0 .. N : IsState(f[n])
<1>1. PICK T : T = {n \in 0 .. N : IsState(f[n])}
  OBVIOUS
<1>2. 0 \in T
  BY <1>1, NowIsState DEF Trace
<1>3. \A n \in 0 .. N - 1 : n \in T => n + 1 \in T
  <2>1. SUFFICES ASSUME NEW n \in 0 .. N - 1, n \in T PROVE n + 1 \in T
    OBVIOUS
  <2>2. n + 1 \in 1 .. N /\ (n + 1) - 1 = n /\ n + 1 \in 0 .. N
    OBVIOUS
  <2>3. f[n + 1] = Step(f[n], writes[n + 1])
    BY <2>2 DEF Trace
  <2>4. QED
    BY <1>1, <2>1, <2>2, <2>3, StepState
<1>4. 0 .. N \subseteq T
  BY <1>2, <1>3, BoundedInduction
<1>5. QED
  BY <1>1, <1>4

\* A section ends after all of its writes, or one of them is refused and the undo is
\* done, or the process dies after some of them.
Outcome(f, N, writes, undo, s) ==
    /\ Trace(f, N, writes)
    /\ \/ N = Len(writes) /\ f[N].ok /\ s = f[N]
       \/ N = Len(writes) /\ ~f[N].ok /\ s = Written(f[N], undo)
       \/ N \in 1 .. Len(writes) - 1 /\ cut' = TRUE /\ s = f[N]

\* The variables become those of s.
Holds(s) == docs' = s.docs /\ objects' = s.objs /\ versions' = s.vers /\ journals' = s.jobs

LEMMA AfterEnds ==
    ASSUME NEW W, NEW writes \in Seq(W), NEW undo, Becomes(After(writes, undo))
    PROVE  \E f, s : /\ Trace(f, Len(writes), writes) /\ Holds(s) /\ IsState(s)
                     /\ f[Len(writes)].ok = After(writes, undo).ok
                     /\ IF f[Len(writes)].ok THEN s = f[Len(writes)]
                        ELSE s = Written(f[Len(writes)], undo)
<1>1. PICK f : /\ Trace(f, Len(writes), writes)
               /\ After(writes, undo) = IF f[Len(writes)].ok THEN f[Len(writes)]
                                        ELSE [Written(f[Len(writes)], undo) EXCEPT !.ok = FALSE]
  BY AfterTrace
<1>2. Len(writes) \in Nat /\ Len(writes) \in 0 .. Len(writes)
  OBVIOUS
<1>3. PICK e : e = f[Len(writes)]
  OBVIOUS
<1>4. IsState(e)
  BY <1>1, <1>2, <1>3, TraceState
<1>5. CASE e.ok
  BY <1>1, <1>3, <1>4, <1>5 DEF Becomes, Holds
<1>6. CASE ~e.ok
  <2>1. PICK s : s = Written(e, undo)
    OBVIOUS
  <2>2. IsState(s)
    BY <1>4, <2>1, WrittenState
  <2>3. PICK u : u = [s EXCEPT !.ok = FALSE]
    OBVIOUS
  <2>4. u.docs = s.docs /\ u.objs = s.objs /\ u.vers = s.vers /\ u.jobs = s.jobs /\ u.ok = FALSE
    BY <2>2, <2>3 DEF IsState
  <2>5. After(writes, undo) = u
    BY <1>1, <1>3, <1>6, <2>1, <2>3
  <2>6. Holds(s)
    BY <2>4, <2>5 DEF Becomes, Holds
  <2>7. QED
    BY <1>1, <1>3, <1>4, <1>6, <2>1, <2>2, <2>4, <2>5, <2>6 DEF IsState
<1>7. QED
  BY <1>5, <1>6

LEMMA EndsOutcome ==
    ASSUME NEW W, NEW writes \in Seq(W), NEW undo, NEW r, NEW next, Ends(r, writes, undo, next)
    PROVE  \E f, s : /\ Outcome(f, Len(writes), writes, undo, s) /\ Holds(s) /\ IsState(s)
                     /\ req' = [req EXCEPT ![r] = IF f[Len(writes)].ok THEN next ELSE Over]
                     /\ cut' = cut
                     /\ midway' = (midway \/ (req[r].op = "revert" /\ f[Len(writes)].ok
                                              /\ ~HasVersion(versions, req[r].ver)))
                     /\ stale' = (stale \/ (s.docs # docs /\ Outdated(req[r])))
<1>1. PICK e : e = After(writes, undo)
  OBVIOUS
<1>2. /\ Becomes(e) /\ req' = [req EXCEPT ![r] = IF e.ok THEN next ELSE Over]
      /\ stale' = (stale \/ (e.docs # docs /\ Outdated(req[r])))
      /\ midway' = (midway \/ (req[r].op = "revert" /\ e.ok /\ ~HasVersion(versions, req[r].ver)))
      /\ cut' = cut
  BY <1>1 DEF Ends
<1>3. PICK f, s : /\ Trace(f, Len(writes), writes) /\ Holds(s) /\ IsState(s)
                  /\ f[Len(writes)].ok = e.ok
                  /\ IF f[Len(writes)].ok THEN s = f[Len(writes)]
                     ELSE s = Written(f[Len(writes)], undo)
  BY <1>1, <1>2, AfterEnds
<1>4. s.docs = e.docs
  BY <1>2, <1>3 DEF Becomes, Holds
<1>5. Outcome(f, Len(writes), writes, undo, s)
  BY <1>3 DEF Outcome
<1>6. QED
  BY <1>2, <1>3, <1>4, <1>5

LEMMA DiesOutcome ==
    ASSUME NEW W, NEW writes \in Seq(W), NEW undo, NEW r, Dies(r, writes)
    PROVE  \E N \in 1 .. Len(writes) - 1 : \E f, s :
               /\ Outcome(f, N, writes, undo, s) /\ Holds(s) /\ IsState(s)
               /\ req' = [req EXCEPT ![r] = Over] /\ cut' = TRUE
               /\ midway' = (midway \/ req[r].op = "revert") /\ stale' = stale
<1>1. PICK N \in 1 .. Len(writes) - 1 :
        /\ Becomes(After(SubSeq(writes, 1, N), Nothing))
        /\ req' = [req EXCEPT ![r] = Over]
        /\ cut' = TRUE /\ midway' = (midway \/ req[r].op = "revert") /\ UNCHANGED stale
  BY DEF Dies
<1>2. PICK sub : sub = SubSeq(writes, 1, N)
  OBVIOUS
<1>3. sub \in Seq(W) /\ Len(sub) = N /\ \A n \in 1 .. N : sub[n] = writes[n]
  BY <1>2
<1>4. PICK f, s : /\ Trace(f, Len(sub), sub) /\ Holds(s) /\ IsState(s)
                  /\ IF f[Len(sub)].ok THEN s = f[Len(sub)] ELSE s = Written(f[Len(sub)], Nothing)
  BY <1>1, <1>2, <1>3, AfterEnds
<1>5. Written(f[N], Nothing) = f[N]
  BY DEF Written, Nothing, Check
<1>6. s = f[N]
  BY <1>3, <1>4, <1>5
<1>7. Trace(f, N, writes)
  BY <1>3, <1>4 DEF Trace
<1>8. Outcome(f, N, writes, undo, s)
  BY <1>1, <1>6, <1>7 DEF Outcome
<1>9. QED
  BY <1>1, <1>4, <1>8

LEMMA SectionOutcome ==
    ASSUME NEW W, NEW writes \in Seq(W), NEW undo, NEW r, Section(r, writes, undo), VInv
    PROVE  \E N \in 0 .. Len(writes) : \E f, s :
               /\ Outcome(f, N, writes, undo, s) /\ Holds(s) /\ IsState(s)
               /\ req' = [req EXCEPT ![r] = Over]
               /\ stale' \in BOOLEAN /\ cut' \in BOOLEAN /\ midway' \in BOOLEAN
<1>1. stale \in BOOLEAN /\ cut \in BOOLEAN /\ midway \in BOOLEAN
  BY DEF VInv
<1>2. Len(writes) \in Nat
  OBVIOUS
<1>3. CASE Ends(r, writes, undo, Over)
  <2>1. PICK f, s : /\ Outcome(f, Len(writes), writes, undo, s) /\ Holds(s) /\ IsState(s)
                    /\ req' = [req EXCEPT ![r] = IF f[Len(writes)].ok THEN Over ELSE Over]
                    /\ cut' = cut
                    /\ midway' = (midway \/ (req[r].op = "revert" /\ f[Len(writes)].ok
                                             /\ ~HasVersion(versions, req[r].ver)))
                    /\ stale' = (stale \/ (s.docs # docs /\ Outdated(req[r])))
    BY <1>3, EndsOutcome
  <2>2. req' = [req EXCEPT ![r] = Over]
    BY <2>1
  <2>3. stale' \in BOOLEAN /\ cut' \in BOOLEAN /\ midway' \in BOOLEAN
    BY <1>1, <2>1
  <2>4. Len(writes) \in 0 .. Len(writes)
    BY <1>2
  <2>5. QED
    BY <2>1, <2>2, <2>3, <2>4
<1>4. CASE Dies(r, writes)
  <2>1. PICK N \in 1 .. Len(writes) - 1 : \E f, s :
               /\ Outcome(f, N, writes, undo, s) /\ Holds(s) /\ IsState(s)
               /\ req' = [req EXCEPT ![r] = Over] /\ cut' = TRUE
               /\ midway' = (midway \/ req[r].op = "revert") /\ stale' = stale
    BY <1>4, DiesOutcome
  <2>2. stale' \in BOOLEAN /\ cut' \in BOOLEAN /\ midway' \in BOOLEAN
    BY <1>1, <2>1
  <2>3. N \in 0 .. Len(writes)
    BY <1>2
  <2>4. QED
    BY <2>1, <2>2, <2>3
<1>5. QED
  BY <1>3, <1>4 DEF Section

\* The undo of an upload, of a copy or of a revert does not change the documents.
LEMMA UndoKeeps ==
    ASSUME NEW s, IsState(s), NEW w, w.do \in {"check", "erase", "unversions"}
    PROVE  Written(s, w).docs = s.docs
<1>1. CASE w.do = "check"
  BY <1>1 DEF Written
<1>2. CASE w.do = "erase"
  <2>1. PICK D : Written(s, w) = [s EXCEPT !.objs = D]
    BY <1>2 DEF Written
  <2>2. QED
    BY <2>1 DEF IsState
<1>3. CASE w.do = "unversions"
  <2>1. PICK D : Written(s, w) = [s EXCEPT !.vers = D]
    BY <1>3 DEF Written
  <2>2. QED
    BY <2>1 DEF IsState
<1>4. QED
  BY <1>1, <1>2, <1>3

\* The documents after a section with at most one Put.
LEMMA PutSection ==
    ASSUME DocsOK(docs), NEW W, NEW writes \in Seq(W), NEW undo, NEW N \in 0 .. Len(writes),
           NEW f, NEW s, Outcome(f, N, writes, undo, s),
           undo.do \in {"check", "erase", "unversions"},
           NEW id \in Id \ {Root, Trash}, NEW doc, GoodDoc(doc),
           \A n \in 1 .. Len(writes) : Plain(writes[n]) \/ writes[n] = Put(id, doc)
    PROVE  /\ DocsOK(s.docs)
           /\ \/ KeptAll(docs, s.docs)
              \/ /\ PutOver(docs, id, doc, s.docs)
                 /\ \E p \in 1 .. Len(writes) : writes[p] = Put(id, doc) /\ Passed(writes, p)
<1>1. Trace(f, N, writes) /\ (s = f[N] \/ s = Written(f[N], undo))
  BY DEF Outcome
<1>2. Len(writes) \in Nat /\ N \in Nat /\ N \in 0 .. N /\ 1 .. N \subseteq 1 .. Len(writes)
  OBVIOUS
<1>3. \A n \in 1 .. N : Plain(writes[n]) \/ writes[n] = Put(id, doc)
  BY <1>2
<1>4. /\ IsState(f[N]) /\ DocsOK(f[N].docs)
      /\ \/ KeptAll(docs, f[N].docs)
         \/ /\ PutOver(docs, id, doc, f[N].docs)
            /\ \E p \in 1 .. N : writes[p] = Put(id, doc) /\ Passed(writes, p)
  BY <1>1, <1>2, <1>3, PutTrace
<1>5. s.docs = f[N].docs
  BY <1>1, <1>4, UndoKeeps
<1>6. QED
  BY <1>2, <1>4, <1>5

-----------------------------------------------------------------------------
(* The invariant after a change of the documents.                          *)

LEMMA KeptNames ==
    ASSUME NEW D, Names(D), NEW G, DOMAIN G \subseteq DOMAIN D,
           \A x \in DOMAIN G : KeptDoc(D[x], G[x])
    PROVE  Names(G)
  BY DEF Names, KeptDoc

LEMMA PutNames ==
    ASSUME NEW D, Names(D), NEW id, NEW doc, NEW G, PutOver(D, id, doc, G),
           \A x \in DOMAIN D \ {id} : ~(D[x].parent = doc.parent /\ D[x].name = doc.name)
    PROVE  Names(G)
<1>1. DOMAIN G = DOMAIN D \cup {id}
  BY DEF PutOver
<1>2. \A x \in DOMAIN D \ {id} : G[x].parent = D[x].parent /\ G[x].name = D[x].name
  BY DEF PutOver, KeptDoc
<1>3. G[id].parent = doc.parent /\ G[id].name = doc.name
  BY DEF PutOver, KeptDoc
<1>4. QED
  BY <1>1, <1>2, <1>3 DEF Names

LEMMA SnapRev ==
    ASSUME NEW r, NEW q, ReqOK(r, q), HasSnap(q)
    PROVE  SnapOK(q) /\ q.snap.rev \in Nat \ {0} /\ q.id \in Id \ {Root}
<1>1. SnapOK(q)
  BY DEF ReqOK, OpOK, HasSnap, NoDoc, Unread, Over, Reading
<1>2. QED
  BY <1>1 DEF SnapOK, GoodDoc

LEMMA KeptAgrees ==
    ASSUME NEW D, NEW r, NEW q, ReqOK(r, q), Agrees(D, q), NEW G, DOMAIN G \subseteq DOMAIN D,
           \A x \in DOMAIN G : KeptDoc(D[x], G[x])
    PROVE  Agrees(G, q)
<1>1. SUFFICES ASSUME HasSnap(q), q.id \in DOMAIN G
               PROVE  /\ q.snap.rev <= G[q.id].rev
                      /\ q.snap.rev = G[q.id].rev => G[q.id] = q.snap
  BY DEF Agrees
<1>2. q.snap.rev \in Nat
  BY <1>1, SnapRev
<1>3. PICK d, g : d = D[q.id] /\ g = G[q.id]
  OBVIOUS
<1>4. q.snap.rev <= d.rev /\ (q.snap.rev = d.rev => d = q.snap)
  BY <1>1, <1>3 DEF Agrees
<1>5. g.rev \in Nat /\ d.rev \in Nat /\ d.rev <= g.rev /\ (g.rev = d.rev => g = d)
  BY <1>1, <1>3 DEF KeptDoc
<1>6. QED
  BY <1>2, <1>3, <1>4, <1>5

LEMMA PutAgrees ==
    ASSUME NEW D, DocsOK(D), NEW r, NEW q, ReqOK(r, q), Agrees(D, q), NEW id, NEW doc, NEW G,
           PutOver(D, id, doc, G), HasSnap(q) /\ q.id = id => id \in DOMAIN D
    PROVE  Agrees(G, q)
<1>1. SUFFICES ASSUME HasSnap(q), q.id \in DOMAIN G
               PROVE  /\ q.snap.rev <= G[q.id].rev
                      /\ q.snap.rev = G[q.id].rev => G[q.id] = q.snap
  BY DEF Agrees
<1>2. q.snap.rev \in Nat
  BY <1>1, SnapRev
<1>3. PICK d, g : d = D[q.id] /\ g = G[q.id]
  OBVIOUS
<1>a. q.id \in DOMAIN D
  BY <1>1 DEF PutOver
<1>4. q.snap.rev <= d.rev /\ (q.snap.rev = d.rev => d = q.snap)
  BY <1>1, <1>3, <1>a DEF Agrees
<1>5. CASE q.id = id
  <2>1. g.rev \in Nat /\ doc.rev \in Nat /\ doc.rev <= g.rev
    BY <1>3, <1>5 DEF PutOver, KeptDoc
  <2>2. d.rev < doc.rev
    BY <1>3, <1>5, <1>a DEF PutOver
  <2>3. d.rev \in Nat
    BY <1>3, <1>a, DocRev
  <2>4. q.snap.rev < g.rev
    BY <1>2, <1>4, <2>1, <2>2, <2>3
  <2>5. QED
    BY <1>2, <1>3, <2>1, <2>4
<1>6. CASE q.id # id
  <2>1. g.rev \in Nat /\ d.rev \in Nat /\ d.rev <= g.rev /\ (g.rev = d.rev => g = d)
    BY <1>3, <1>6, <1>a DEF PutOver, KeptDoc
  <2>2. QED
    BY <1>2, <1>3, <1>4, <2>1
<1>7. QED
  BY <1>5, <1>6

\* A document that is written over with the revision that follows the one of the
\* request: this is the document that the request has read.
LEMMA PutIsFresh ==
    ASSUME NEW D, DocsOK(D), NEW r, NEW q, ReqOK(r, q), Agrees(D, q), HasSnap(q), NEW doc, NEW G,
           PutOver(D, q.id, doc, G), doc.rev = q.snap.rev + 1
    PROVE  q.id \in DOMAIN D /\ D[q.id] = q.snap
<1>1. q.snap.rev \in Nat \ {0}
  BY SnapRev
<1>2. q.id \in DOMAIN D
  BY <1>1 DEF PutOver
<1>3. D[q.id].rev < q.snap.rev + 1
  BY <1>2 DEF PutOver
<1>4. D[q.id].rev \in Nat
  BY <1>2, DocRev
<1>5. q.snap.rev = D[q.id].rev
  BY <1>1, <1>2, <1>3, <1>4 DEF Agrees
<1>6. QED
  BY <1>2, <1>5 DEF Agrees

\* Two requests never create the same id.
LEMMA UnbornApart ==
    ASSUME NEW r \in Request, NEW y \in Request, r # y, NEW p, NEW q
    PROVE  Unborn(r, p) \cap Unborn(y, q) = {}
<1>1. SUFFICES ASSUME NEW x \in Unborn(r, p), x \in Unborn(y, q) PROVE FALSE
  OBVIOUS
<1>2. x = r \/ (x \in MadeId /\ x[1] = r)
  BY DEF Unborn
<1>3. x = y \/ (x \in MadeId /\ x[1] = y)
  BY <1>1 DEF Unborn
<1>4. r \notin MadeId /\ y \notin MadeId
  BY VFSAssumption
<1>5. QED
  BY <1>2, <1>3, <1>4

LEMMA KnownParts ==
    ASSUME NEW D, NEW vs, NEW js, NEW rq, NEW K
    PROVE  /\ DOMAIN D \subseteq Known(D, vs, js, rq)
           /\ {v.file : v \in ToSet(vs)} \subseteq Known(D, vs, js, rq)
           /\ UNION {j.files : j \in js} \subseteq Known(D, vs, js, rq)
           /\ \A x \in Request : HasSnap(rq[x]) => rq[x].id \in Known(D, vs, js, rq)
           /\ (/\ DOMAIN D \subseteq K /\ {v.file : v \in ToSet(vs)} \subseteq K
               /\ UNION {j.files : j \in js} \subseteq K
               /\ \A x \in Request : HasSnap(rq[x]) => rq[x].id \in K)
              => Known(D, vs, js, rq) \subseteq K
<1> DEFINE V == {v.file : v \in ToSet(vs)}
           J == UNION {j.files : j \in js}
           R == {rq[r].id : r \in {x \in Request : HasSnap(rq[x])}}
<1>1. V = {v.file : v \in ToSet(vs)} /\ J = UNION {j.files : j \in js}
  OBVIOUS
<1>3. Known(D, vs, js, rq) = DOMAIN D \cup V \cup J \cup R
  BY Zenon DEF Known
<1>4. \A x \in Request : HasSnap(rq[x]) => rq[x].id \in R
  OBVIOUS
<1>5. (\A x \in Request : HasSnap(rq[x]) => rq[x].id \in K) => R \subseteq K
  OBVIOUS
<1> HIDE DEF V, J, R
<1>6. QED
  <2>1. PICK N : N = Known(D, vs, js, rq)
    OBVIOUS
  <2>2. N = DOMAIN D \cup V \cup J \cup R
    BY <1>3, <2>1
  <2>3. DOMAIN D \subseteq N /\ V \subseteq N /\ J \subseteq N
    BY <2>2
  <2>4. \A x \in Request : HasSnap(rq[x]) => rq[x].id \in N
    BY <1>4, <2>2
  <2>5. (/\ DOMAIN D \subseteq K /\ V \subseteq K /\ J \subseteq K
         /\ \A x \in Request : HasSnap(rq[x]) => rq[x].id \in K) => N \subseteq K
    BY <1>5, <2>2
  <2>6. QED
    BY <1>1, <2>1, <2>3, <2>4, <2>5, Zenon

\* A step of request r that changes what it has read to q, and may create the ids of B.
LEMMA Preserve ==
    ASSUME VInv, NEW r \in Request, NEW q, NEW B,
           req' = [req EXCEPT ![r] = q], ReqOK(r, q),
           DocsOK(docs'), Names(docs'), Agrees(docs', q),
           \A x \in Request : Agrees(docs', req[x]),
           StoreOK(objects', versions', journals'),
           B \subseteq Unborn(r, req[r]), Unborn(r, q) \subseteq Unborn(r, req[r]) \ B,
           DOMAIN docs' \subseteq DOMAIN docs \cup B,
           {v.file : v \in ToSet(versions')} \subseteq Known(docs, versions, journals, req) \cup B,
           UNION {j.files : j \in journals'} \subseteq Known(docs, versions, journals, req) \cup B,
           HasSnap(q) => q.id \in Known(docs, versions, journals, req) \cup B,
           stale' \in BOOLEAN, cut' \in BOOLEAN, midway' \in BOOLEAN
    PROVE  VInv'
<1>1. DOMAIN req = Request
  BY DEF VInv
<1>2. DOMAIN req' = Request /\ req'[r] = q /\ \A x \in Request \ {r} : req'[x] = req[x]
  BY <1>1
<1>3. ASSUME NEW x \in Request PROVE ReqOK(x, req'[x]) /\ Agrees(docs', req'[x])
  BY <1>2 DEF VInv
<1>4. PICK K : K = Known(docs, versions, journals, req)
  OBVIOUS
<1>5. PICK L : L = Known(docs', versions', journals', req')
  OBVIOUS
<1>6. \A x \in Request : HasSnap(req'[x]) => req'[x].id \in K \cup B
  <2>1. SUFFICES ASSUME NEW x \in Request, HasSnap(req'[x]) PROVE req'[x].id \in K \cup B
    OBVIOUS
  <2>2. CASE x = r
    BY <1>2, <1>4, <2>1, <2>2
  <2>3. CASE x # r
    <3>1. req'[x] = req[x]
      BY <1>2, <2>3
    <3>2. req[x].id \in K
      BY <1>4, <2>1, <3>1, KnownParts
    <3>3. QED
      BY <3>1, <3>2
  <2>4. QED
    BY <2>2, <2>3
<1>7. DOMAIN docs \subseteq K
  BY <1>4, KnownParts
<1>8. L \subseteq K \cup B
  BY <1>4, <1>5, <1>6, <1>7, KnownParts
<1>9. ASSUME NEW x \in Request PROVE Unborn(x, req'[x]) \cap L = {}
  <2>1. Unborn(x, req[x]) \cap K = {}
    BY <1>4 DEF VInv
  <2>2. CASE x = r
    BY <1>2, <1>8, <2>1, <2>2
  <2>3. CASE x # r
    <3>1. Unborn(x, req[x]) \cap Unborn(r, req[r]) = {}
      BY <2>3, UnbornApart
    <3>2. req'[x] = req[x]
      BY <1>2, <2>3
    <3>3. QED
      BY <1>8, <2>1, <3>1, <3>2
  <2>4. QED
    BY <2>2, <2>3
<1>10. \A x \in Request : Unborn(x, req'[x]) \cap Known(docs', versions', journals', req') = {}
  BY <1>5, <1>9
<1>11. QED
  BY <1>2, <1>3, <1>10 DEF VInv

\* A request that only reads.
LEMMA PreserveReads ==
    ASSUME VInv, NEW r \in Request, NEW q, Asks(r, q), ReqOK(r, q), Agrees(docs, q),
           Unborn(r, q) \subseteq Unborn(r, req[r]),
           HasSnap(q) => (q.id \in DOMAIN docs \/ (q.id = req[r].id /\ HasSnap(req[r])))
    PROVE  VInv'
<1>1. /\ req' = [req EXCEPT ![r] = q] /\ docs' = docs /\ objects' = objects /\ versions' = versions
      /\ journals' = journals /\ stale' = stale /\ cut' = cut /\ midway' = midway
  BY DEF Asks, data, ghosts
<1>2. /\ DocsOK(docs) /\ Names(docs) /\ StoreOK(objects, versions, journals)
      /\ \A x \in Request : Agrees(docs, req[x])
      /\ stale \in BOOLEAN /\ cut \in BOOLEAN /\ midway \in BOOLEAN
  BY DEF VInv
<1>3. PICK K : K = Known(docs, versions, journals, req)
  OBVIOUS
<1>4. /\ {v.file : v \in ToSet(versions)} \subseteq K /\ UNION {j.files : j \in journals} \subseteq K
      /\ DOMAIN docs \subseteq K
      /\ HasSnap(req[r]) => req[r].id \in K
  BY <1>3, KnownParts
<1>5. PICK B : B = {}
  OBVIOUS
<1>6. B \subseteq Unborn(r, req[r]) /\ Unborn(r, q) \subseteq Unborn(r, req[r]) \ B
  BY <1>5
<1>7. /\ DOMAIN docs \subseteq DOMAIN docs \cup B /\ {v.file : v \in ToSet(versions)} \subseteq K \cup B
      /\ UNION {j.files : j \in journals} \subseteq K \cup B /\ (HasSnap(q) => q.id \in K \cup B)
  BY <1>4
<1>8. QED
  BY <1>1, <1>2, <1>3, <1>6, <1>7, Preserve

LEMMA UsedParts ==
    ASSUME NEW D, NEW vs, NEW js, NEW rq, NEW U
    PROVE  /\ \A x \in DOMAIN D : D[x].obj \in Used(D, vs, js, rq)
           /\ \A v \in ToSet(vs) : v.obj \in Used(D, vs, js, rq)
           /\ \A j \in js : \A o \in j.objs : o[2] \in Used(D, vs, js, rq)
           /\ \A x \in Request : HasSnap(rq[x]) => rq[x].snap.obj \in Used(D, vs, js, rq)
           /\ \A x \in Request : rq[x].op \in {"revert", "cleanversion"} =>
                                  rq[x].ver.obj \in Used(D, vs, js, rq)
           /\ (/\ \A x \in DOMAIN D : D[x].obj \in U
               /\ \A v \in ToSet(vs) : v.obj \in U
               /\ \A j \in js : \A o \in j.objs : o[2] \in U
               /\ \A x \in Request : HasSnap(rq[x]) => rq[x].snap.obj \in U
               /\ \A x \in Request : rq[x].op \in {"revert", "cleanversion"} => rq[x].ver.obj \in U)
              => Used(D, vs, js, rq) \subseteq U
<1>1. PICK A, B, C, E, F :
        /\ A = {D[x].obj : x \in DOMAIN D} /\ B = {v.obj : v \in ToSet(vs)}
        /\ C = {o[2] : o \in UNION {j.objs : j \in js}}
        /\ E = {rq[x].snap.obj : x \in {y \in Request : HasSnap(rq[y])}}
        /\ F = {rq[x].ver.obj : x \in {y \in Request : rq[y].op \in {"revert", "cleanversion"}}}
  OBVIOUS
<1>2. PICK N : N = Used(D, vs, js, rq)
  OBVIOUS
<1>3. N = A \cup B \cup C \cup E \cup F
  BY <1>1, <1>2, Zenon DEF Used
<1>4. (\A x \in DOMAIN D : D[x].obj \in A) /\ ((\A x \in DOMAIN D : D[x].obj \in U) => A \subseteq U)
  BY <1>1
<1>5. (\A v \in ToSet(vs) : v.obj \in B) /\ ((\A v \in ToSet(vs) : v.obj \in U) => B \subseteq U)
  BY <1>1
<1>6. /\ \A j \in js : \A o \in j.objs : o[2] \in C
      /\ (\A j \in js : \A o \in j.objs : o[2] \in U) => C \subseteq U
  BY <1>1
<1>7. /\ \A x \in Request : HasSnap(rq[x]) => rq[x].snap.obj \in E
      /\ (\A x \in Request : HasSnap(rq[x]) => rq[x].snap.obj \in U) => E \subseteq U
  BY <1>1
<1>8. /\ \A x \in Request : rq[x].op \in {"revert", "cleanversion"} => rq[x].ver.obj \in F
      /\ (\A x \in Request : rq[x].op \in {"revert", "cleanversion"} => rq[x].ver.obj \in U)
         => F \subseteq U
  BY <1>1
<1>9. A \subseteq N /\ B \subseteq N /\ C \subseteq N /\ E \subseteq N /\ F \subseteq N
      /\ (A \subseteq U /\ B \subseteq U /\ C \subseteq U /\ E \subseteq U /\ F \subseteq U => N \subseteq U)
  BY <1>3
<1>10. QED
  <2>1. /\ \A x \in DOMAIN D : D[x].obj \in N
        /\ \A v \in ToSet(vs) : v.obj \in N
        /\ \A j \in js : \A o \in j.objs : o[2] \in N
        /\ \A x \in Request : HasSnap(rq[x]) => rq[x].snap.obj \in N
        /\ \A x \in Request : rq[x].op \in {"revert", "cleanversion"} => rq[x].ver.obj \in N
    BY <1>4, <1>5, <1>6, <1>7, <1>8, <1>9
  <2>2. QED
    BY <1>2, <1>4, <1>5, <1>6, <1>7, <1>8, <1>9, <2>1, Zenon

\* A step of request r that goes to q, and names no other objects than those of U: the
\* objects that the other requests have stored are still theirs.
LEMMA Carry ==
    ASSUME VInv, CInv, NEW r \in Request, NEW q, req' = [req EXCEPT ![r] = q],
           NEW G, G \subseteq {r, None}, NEW U, U = Used(docs, versions, journals, req) \cup G,
           Distinct(versions'), \A j \in journals' : j.files \cap DOMAIN docs' = {},
           \A x \in DOMAIN docs' : docs'[x].obj \in U, \A v \in ToSet(versions') : v.obj \in U,
           \A j \in journals' : \A o \in j.objs : o[2] \in U,
           HasSnap(q) => q.snap.obj \in U,
           q.op \in {"revert", "cleanversion"} => q.ver.obj \in U,
           q.op \in Pending => req[r].op \in Pending /\ G = {},
           \A o \in objects : o[2] \notin U => o \in objects',
           q.op = "stored" => <<q.id, r>> \in objects',
           midway' \/ Backed(docs', objects', versions')
    PROVE  CInv'
<1>1. DOMAIN req = Request
  BY DEF VInv
<1>2. DOMAIN req' = Request /\ req'[r] = q /\ \A x \in Request \ {r} : req'[x] = req[x]
  BY <1>1
<1>3. PICK N, L : N = Used(docs, versions, journals, req) /\ L = Used(docs', versions', journals', req')
  OBVIOUS
<1>4. L \subseteq U
  <2>1. \A x \in Request : HasSnap(req'[x]) => req'[x].snap.obj \in U
    <3>1. \A x \in Request : HasSnap(req[x]) => req[x].snap.obj \in N
      BY <1>3, UsedParts
    <3>2. QED
      BY <1>2, <1>3, <3>1
  <2>2. \A x \in Request : req'[x].op \in {"revert", "cleanversion"} => req'[x].ver.obj \in U
    <3>1. \A x \in Request : req[x].op \in {"revert", "cleanversion"} => req[x].ver.obj \in N
      BY <1>3, UsedParts
    <3>2. QED
      BY <1>2, <1>3, <3>1
  <2>3. PICK D, vs, js, rq : D = docs' /\ vs = versions' /\ js = journals' /\ rq = req'
    OBVIOUS
  <2>4. /\ \A x \in DOMAIN D : D[x].obj \in U
        /\ \A v \in ToSet(vs) : v.obj \in U
        /\ \A j \in js : \A o \in j.objs : o[2] \in U
        /\ \A x \in Request : HasSnap(rq[x]) => rq[x].snap.obj \in U
        /\ \A x \in Request : rq[x].op \in {"revert", "cleanversion"} => rq[x].ver.obj \in U
    BY <2>1, <2>2, <2>3
  <2>5. Used(D, vs, js, rq) \subseteq U
    BY <2>4, UsedParts
  <2>6. QED
    BY <1>3, <2>3, <2>5
<1>5. \A x \in Request : req[x].op \in Pending => x \notin N
  BY <1>3 DEF CInv
<1>6. ASSUME NEW x \in Request, req'[x].op \in Pending PROVE x \notin U
  <2>1. x # None
    BY VFSAssumption
  <2>2. CASE x = r
    BY <1>2, <1>3, <1>5, <1>6, <2>2
  <2>3. CASE x # r
    BY <1>2, <1>3, <1>5, <1>6, <2>1, <2>3
  <2>4. QED
    BY <2>2, <2>3
<1>7. ASSUME NEW x \in Request, req'[x].op = "stored" PROVE <<req'[x].id, x>> \in objects'
  <2>1. CASE x = r
    BY <1>2, <1>7, <2>1
  <2>2. CASE x # r
    <3>1. req'[x] = req[x]
      BY <1>2, <2>2
    <3>2. x \notin U
      BY <1>6, <1>7 DEF Pending
    <3>3. PICK o : o = <<req[x].id, x>>
      OBVIOUS
    <3>4. o \in objects /\ o[2] = x
      BY <1>7, <3>1, <3>3 DEF CInv
    <3>5. QED
      BY <3>1, <3>2, <3>3, <3>4
  <2>3. QED
    BY <2>1, <2>2
<1>8. \A x \in Request : req'[x].op \in Pending => x \notin L
  BY <1>4, <1>6
<1>9. QED
  BY <1>3, <1>7, <1>8 DEF CInv

\* A request that only reads: what it has read is named elsewhere.
LEMMA ReadsContent ==
    ASSUME VInv, CInv, NEW r \in Request, NEW q, Asks(r, q), q.op # "stored",
           q.op \in Pending => req[r].op \in Pending,
           NEW U, U = Used(docs, versions, journals, req), HasSnap(q) => q.snap.obj \in U,
           q.op \in {"revert", "cleanversion"} => q.ver.obj \in U
    PROVE  CInv'
<1>1. /\ req' = [req EXCEPT ![r] = q] /\ docs' = docs /\ objects' = objects /\ versions' = versions
      /\ journals' = journals /\ midway' = midway
  BY DEF Asks, data, ghosts
<1>2. PICK G : G = {}
  OBVIOUS
<1>3. U = Used(docs, versions, journals, req) \cup G /\ G \subseteq {r, None}
  BY <1>2
<1>4. /\ \A x \in DOMAIN docs' : docs'[x].obj \in U
      /\ \A v \in ToSet(versions') : v.obj \in U
      /\ \A j \in journals' : \A o \in j.objs : o[2] \in U
  BY <1>1, UsedParts
<1>5. Distinct(versions') /\ \A j \in journals' : j.files \cap DOMAIN docs' = {}
  BY <1>1 DEF CInv
<1>6. midway' \/ Backed(docs', objects', versions')
  BY <1>1 DEF CInv
<1>7. \A o \in objects : o[2] \notin U => o \in objects'
  BY <1>1
<1>8. /\ q.op \in Pending => req[r].op \in Pending /\ G = {}
      /\ q.op = "stored" => <<q.id, r>> \in objects'
  BY <1>2
<1>9. QED
  BY <1>1, <1>3, <1>4, <1>5, <1>6, <1>7, <1>8, Carry

-----------------------------------------------------------------------------
(* The documents that requests read and prepare.                           *)

LEMMA DirDocGood ==
    ASSUME NEW parent \in Id, NEW name, IsName(name), NEW path, IsPath(path),
           NEW e, e = DirDoc(parent, name, path)
    PROVE  GoodDoc(e) /\ e.kind = "dir" /\ e.rev = 1 /\ e.parent = parent /\ e.name = name
           /\ e.path = path
<1>1. /\ IsDoc(e) /\ e.kind = "dir" /\ e.parent = parent /\ e.name = name /\ e.path = path
      /\ e.trashed = FALSE /\ e.obj = None /\ e.restore = None /\ e.rev = 1
  BY DEF DirDoc, IsDoc
<1>a. e.rev \in Nat \ {0}
  BY <1>1
<1>b. e.trashed \in BOOLEAN
  <2>1. e.trashed = FALSE
    BY <1>1, Zenon
  <2>2. FALSE \in BOOLEAN
    OBVIOUS
  <2>3. QED
    BY <2>1, <2>2, Zenon
<1>3. e.parent \in Id /\ IsName(e.name) /\ IsPath(e.path)
  BY <1>1
<1>4. GoodDoc(e)
  BY <1>1, <1>a, <1>b, <1>3 DEF GoodDoc
<1>5. QED
  BY <1>1, <1>4

LEMMA FileDocGood ==
    ASSUME NEW parent \in Id, NEW name, IsName(name), NEW obj \in ObjId,
           NEW e, e = FileDoc(parent, name, obj)
    PROVE  GoodDoc(e) /\ e.kind = "file" /\ e.rev = 1 /\ e.parent = parent /\ e.name = name
           /\ e.obj = obj
<1>1. /\ IsDoc(e) /\ e.kind = "file" /\ e.parent = parent /\ e.name = name /\ e.path = <<>>
      /\ e.trashed = FALSE /\ e.obj = obj /\ e.restore = None /\ e.rev = 1
  BY DEF FileDoc, IsDoc
<1>a. e.rev \in Nat \ {0}
  BY <1>1
<1>b. e.trashed \in BOOLEAN
  <2>1. e.trashed = FALSE
    BY <1>1, Zenon
  <2>2. FALSE \in BOOLEAN
    OBVIOUS
  <2>3. QED
    BY <2>1, <2>2, Zenon
<1>3. e.parent \in Id /\ IsName(e.name) /\ IsPath(e.path) /\ e.obj \in ObjId
  BY <1>1, PathEmpty, Zenon
<1>4. GoodDoc(e)
  BY <1>1, <1>a, <1>b, <1>3 DEF GoodDoc
<1>5. QED
  BY <1>1, <1>4

LEMMA PlacedGood ==
    ASSUME NEW doc, GoodDoc(doc), NEW parent \in Id, NEW name, IsName(name),
           NEW path, doc.kind = "dir" => IsPath(path), NEW e, e = Placed(doc, parent, name, path)
    PROVE  /\ GoodDoc(e) /\ e.rev = doc.rev + 1 /\ e.parent = parent /\ e.name = name
           /\ SameFile(doc, e) /\ (doc.kind = "dir" => e.path = path) /\ e.trashed = doc.trashed
           /\ e.restore = doc.restore /\ (doc.kind = "file" => e.path = doc.path)
<1>1. IsDoc(doc) /\ doc.rev \in Nat \ {0} /\ doc.kind \in {"dir", "file"}
  BY DEF GoodDoc
<1>2. PICK p : p = IF doc.kind = "dir" THEN path ELSE doc.path
  OBVIOUS
<1>3. e = [doc EXCEPT !.parent = parent, !.name = name, !.rev = @ + 1, !.path = p]
  BY <1>2 DEF Placed
<1>4. /\ IsDoc(e) /\ e.kind = doc.kind /\ e.parent = parent /\ e.name = name /\ e.path = p
      /\ e.trashed = doc.trashed /\ e.obj = doc.obj /\ e.restore = doc.restore /\ e.rev = doc.rev + 1
  BY <1>1, <1>3 DEF IsDoc
<1>5. IsPath(p)
  BY <1>2 DEF GoodDoc
<1>6. GoodDoc(e)
  BY <1>1, <1>4, <1>5 DEF GoodDoc
<1>7. QED
  BY <1>1, <1>2, <1>4, <1>6 DEF SameFile

LEMMA DocPath ==
    ASSUME NEW D, DocsOK(D), NEW x \in DOMAIN D PROVE IsPath(D[x].path)
  BY PathEmpty DEF DocsOK, GoodDoc, IsRoot

\* The documents that clients may move, trash, restore or destroy.
LEMMA ItemDoc ==
    ASSUME DocsOK(docs), NEW x \in Dirs \cup Files
    PROVE  x \in DOMAIN docs /\ x \in Id \ {Root, Trash} /\ GoodDoc(docs[x])
<1>1. x \in DOMAIN docs
  BY DEF Dirs, Files
<1>2. docs[Root].kind = "dir" /\ docs[Trash].kind = "dir"
  BY DEF DocsOK, IsRoot
<1>3. x \notin {Root, Trash}
  BY <1>2 DEF Dirs, Files, IsFile
<1>4. QED
  BY <1>1, <1>3 DEF DocsOK

LEMMA ItemPath ==
    ASSUME DocsOK(docs), NEW x \in Dirs \cup Files PROVE IsPath(PathOf(x))
<1>1. x \in DOMAIN docs /\ GoodDoc(docs[x])
  BY ItemDoc
<1>2. CASE docs[x].kind = "dir"
  BY <1>1, <1>2, DocPath DEF PathOf
<1>3. CASE docs[x].kind # "dir"
  <2>1. docs[x].parent \in DOMAIN docs
    BY <1>3 DEF Dirs, Files, IsDir
  <2>2. IsPath(docs[docs[x].parent].path) /\ IsName(docs[x].name)
    BY <1>1, <2>1, DocPath DEF GoodDoc
  <2>3. IsPath(Append(docs[docs[x].parent].path, docs[x].name))
    BY <2>2, PathAppend
  <2>4. QED
    BY <1>3, <2>3 DEF PathOf, PathIn
<1>4. QED
  BY <1>2, <1>3

LEMMA PathFront ==
    ASSUME NEW p, IsPath(p) PROVE IsPath(Front(p))
<1>1. Len(p) \in Nat
  BY SeqFacts DEF IsPath
<1>2. PICK n : n = Len(p) - 1
  OBVIOUS
<1>3. n \in Int /\ n <= Len(p)
  BY <1>1, <1>2
<1>4. IsPath(SubSeq(p, 1, n))
  BY <1>3, PathSub
<1>5. QED
  BY <1>2, <1>4 DEF Front

LEMMA IdleUnborn ==
    ASSUME NEW r, NEW p, p.op = "none", NEW q PROVE Unborn(r, q) \subseteq Unborn(r, p)
  BY DEF Unborn

\* A new request has read the last version of a document, or none.
LEMMA AsksOK ==
    ASSUME VInv, NEW r \in Request, Idle(r), NEW q, Asks(r, q), ReqOK(r, q),
           HasSnap(q) => q.id \in DOMAIN docs /\ q.snap = docs[q.id],
           q.op # "stored", q.op \in {"revert", "cleanversion"} => q.ver \in ToSet(versions)
    PROVE  Kept
<1>1. Unborn(r, q) \subseteq Unborn(r, req[r])
  BY IdleUnborn DEF Idle
<1>2. HasSnap(q) => q.snap.rev \in Nat
  BY SnapRev
<1>3. Agrees(docs, q)
  BY <1>2 DEF Agrees
<1>4. VInv'
  BY <1>1, <1>3, PreserveReads
<1>5. ASSUME CInv PROVE CInv'
  <2>1. PICK U : U = Used(docs, versions, journals, req)
    OBVIOUS
  <2>2. HasSnap(q) => q.snap.obj \in U
    BY <2>1, UsedParts
  <2>3. q.op \in {"revert", "cleanversion"} => q.ver.obj \in U
    BY <2>1, UsedParts
  <2>4. req[r].op \in Pending
    BY DEF Idle, Pending
  <2>5. QED
    BY <1>5, <2>1, <2>2, <2>3, <2>4, ReadsContent
<1>6. QED
  BY <1>4, <1>5 DEF Kept

LEMMA IdInId == \A r \in Request : r \in Id /\ r \in ObjId /\ r # Root /\ r # Trash
  BY VFSAssumption DEF Id, ObjId, FirstId

-----------------------------------------------------------------------------
(* Every request that is received keeps the invariant.                     *)

LEMMA PlaceDir ==
    ASSUME DocsOK(docs), NEW d \in Place
    PROVE  d \in DOMAIN docs /\ d \in Id /\ IsPath(docs[d].path)
  BY DocPath DEF Place, DocsOK

LEMMA CreateDirAsked ==
    ASSUME VInv, NEW r \in Request, AsksCreateDir(r) PROVE Kept
<1>1. DocsOK(docs) /\ Idle(r)
  BY DEF VInv, AsksCreateDir
<1>2. PICK d \in Place, n \in Name :
         Asks(r, [Reading("mkdir", r, NoDoc) EXCEPT
                     !.at = Reads(d), !.new = DirDoc(d, <<n>>, Append(docs[d].path, <<n>>))])
  BY DEF AsksCreateDir
<1>3. PICK p : p = Append(docs[d].path, <<n>>)
  OBVIOUS
<1>4. PICK e : e = DirDoc(d, <<n>>, p)
  OBVIOUS
<1>5. PICK a : a = Reads(d)
  OBVIOUS
<1>6. PICK q : q = [Reading("mkdir", r, NoDoc) EXCEPT !.at = a, !.new = e]
  OBVIOUS
<1>7. Asks(r, q)
  BY <1>2, <1>3, <1>4, <1>5, <1>6
<1>8. IsName(<<n>>) /\ IsPath(p) /\ d \in Id
  BY <1>1, <1>3, PlaceDir, NameOf, PathAppend
<1>9. GoodDoc(e) /\ e.kind = "dir" /\ e.rev = 1
  BY <1>4, <1>8, DirDocGood
<1>10. IsReq(q) /\ q.op = "mkdir" /\ q.id = r /\ q.snap = NoDoc /\ q.new = e
  BY <1>6 DEF Reading, IsReq
<1>11. ReqOK(r, q)
  BY <1>9, <1>10, IdInId DEF ReqOK, OpOK
<1>12. ~HasSnap(q)
  BY <1>10 DEF HasSnap, NoDoc
<1>13. QED
  BY <1>1, <1>7, <1>10, <1>11, <1>12, AsksOK

LEMMA PatchAsked ==
    ASSUME VInv, NEW r \in Request, AsksPatch(r) PROVE Kept
<1>1. DocsOK(docs) /\ Idle(r)
  BY DEF VInv, AsksPatch
<1>2. PICK x \in Dirs \cup Files :
         \E d \in Place \cup {docs[x].parent}, n \in {<<m>> : m \in Name} \cup {docs[x].name} :
             Asks(r, [Reading("patch", x, docs[x]) EXCEPT
                         !.at = IF d = docs[x].parent THEN None ELSE Reads(d),
                         !.new = Placed(docs[x], d, n, Append(
                             IF d = docs[x].parent THEN Front(docs[x].path) ELSE docs[d].path, n))])
  BY Zenon DEF AsksPatch
<1>3. PICK d \in Place \cup {docs[x].parent}, n \in {<<m>> : m \in Name} \cup {docs[x].name} :
             Asks(r, [Reading("patch", x, docs[x]) EXCEPT
                         !.at = IF d = docs[x].parent THEN None ELSE Reads(d),
                         !.new = Placed(docs[x], d, n, Append(
                             IF d = docs[x].parent THEN Front(docs[x].path) ELSE docs[d].path, n))])
  BY <1>2
<1>4. PICK old : old = docs[x]
  OBVIOUS
<1>5. PICK f : f = IF d = old.parent THEN Front(old.path) ELSE docs[d].path
  OBVIOUS
<1>6. PICK p : p = Append(f, n)
  OBVIOUS
<1>7. PICK e : e = Placed(old, d, n, p)
  OBVIOUS
<1>8. PICK a : a = IF d = old.parent THEN None ELSE Reads(d)
  OBVIOUS
<1>9. PICK q : q = [Reading("patch", x, old) EXCEPT !.at = a, !.new = e]
  OBVIOUS
<1>10. Asks(r, q)
  BY <1>3, <1>4, <1>5, <1>6, <1>7, <1>8, <1>9
<1>11. x \in DOMAIN docs /\ x \in Id \ {Root, Trash} /\ GoodDoc(old)
  BY <1>1, <1>4, ItemDoc
<1>12. IsName(n)
  <2>1. CASE n = old.name
    BY <1>11, <2>1 DEF GoodDoc
  <2>2. CASE n \in {<<m>> : m \in Name}
    BY <2>2, NameOf
  <2>3. QED
    BY <1>4, <2>1, <2>2
<1>13. d \in Id /\ IsPath(f)
  <2>1. CASE d = old.parent
    BY <1>5, <1>11, <2>1, PathFront DEF GoodDoc
  <2>2. CASE d # old.parent
    BY <1>1, <1>4, <1>5, <2>2, PlaceDir
  <2>3. QED
    BY <2>1, <2>2
<1>14. IsPath(p)
  BY <1>6, <1>12, <1>13, PathAppend
<1>15. GoodDoc(e) /\ e.rev = old.rev + 1 /\ SameFile(old, e)
  BY <1>7, <1>11, <1>12, <1>13, <1>14, PlacedGood
<1>16. IsReq(q) /\ q.op = "patch" /\ q.id = x /\ q.snap = old /\ q.new = e
  BY <1>9 DEF Reading, IsReq
<1>17. ReqOK(r, q)
  BY <1>11, <1>15, <1>16 DEF ReqOK, OpOK, SnapOK
<1>18. QED
  BY <1>1, <1>4, <1>10, <1>11, <1>16, <1>17, AsksOK

\* A document for the trash, or back from it, before its new place is known.
LEMMA RestoringDoc ==
    ASSUME NEW d, GoodDoc(d), NEW restore, restore = None \/ IsPath(restore), NEW trashed \in BOOLEAN,
           NEW e, e = [d EXCEPT !.restore = restore, !.trashed = trashed]
    PROVE  GoodDoc(e) /\ e.rev = d.rev /\ SameFile(d, e)
<1>1. IsDoc(d)
  BY DEF GoodDoc
<1>2. /\ IsDoc(e) /\ e.parent = d.parent /\ e.name = d.name /\ e.kind = d.kind /\ e.obj = d.obj
      /\ e.path = d.path /\ e.restore = restore /\ e.trashed = trashed /\ e.rev = d.rev
  BY <1>1 DEF IsDoc
<1>3. QED
  BY <1>2 DEF GoodDoc, SameFile

LEMMA TrashAsked ==
    ASSUME VInv, NEW r \in Request, AsksTrash(r) PROVE Kept
<1>1. DocsOK(docs) /\ Idle(r)
  BY DEF VInv, AsksTrash
<1>2. PICK x \in Dirs \cup Files :
         Asks(r, [Reading("trash", x, docs[x]) EXCEPT
                     !.new = [docs[x] EXCEPT !.restore = Front(PathOf(x)),
                                             !.trashed = docs[x].kind = "file"]])
  BY DEF AsksTrash
<1>3. PICK old, p, t : old = docs[x] /\ p = Front(PathOf(x)) /\ t = (docs[x].kind = "file")
  OBVIOUS
<1>a. t \in BOOLEAN
  BY <1>3
<1>4. PICK e : e = [old EXCEPT !.restore = p, !.trashed = t]
  OBVIOUS
<1>5. PICK q : q = [Reading("trash", x, old) EXCEPT !.new = e]
  OBVIOUS
<1>6. Asks(r, q)
  BY <1>2, <1>3, <1>4, <1>5
<1>7. x \in DOMAIN docs /\ x \in Id \ {Root, Trash} /\ GoodDoc(old)
  BY <1>1, <1>3, ItemDoc
<1>8. IsPath(p)
  BY <1>1, <1>3, ItemPath, PathFront
<1>9. GoodDoc(e) /\ e.rev = old.rev /\ SameFile(old, e)
  BY <1>4, <1>7, <1>8, <1>a, RestoringDoc
<1>10. IsReq(q) /\ q.op = "trash" /\ q.id = x /\ q.snap = old /\ q.new = e
  BY <1>5 DEF Reading, IsReq
<1>11. ReqOK(r, q)
  BY <1>7, <1>9, <1>10 DEF ReqOK, OpOK, SnapOK
<1>12. QED
  BY <1>1, <1>3, <1>6, <1>7, <1>10, <1>11, AsksOK

LEMMA RestorePathIs ==
    ASSUME DocsOK(docs), NEW x \in Dirs \cup Files,
           NEW t \in IF docs[x].restore = None /\ Len(PathOf(x)) > 2
                     THEN DirsAt(docs, SubSeq(PathOf(x), 1, 2)) ELSE {x}
    PROVE  IsPath(RestorePath(docs[x], PathOf(x), docs[t]))
<1>1. PICK d, p, top : d = docs[x] /\ p = PathOf(x) /\ top = docs[t]
  OBVIOUS
<1>2. GoodDoc(d) /\ IsPath(p)
  BY <1>1, ItemDoc, ItemPath
<1>3. CASE d.restore # None
  BY <1>1, <1>2, <1>3 DEF RestorePath, GoodDoc
<1>4. CASE d.restore = None /\ Len(p) > 2 /\ top.restore # None
  <2>1. t \in DirsAt(docs, SubSeq(p, 1, 2))
    BY <1>1, <1>4
  <2>2. Len(p) \in Nat /\ p \in Seq(ToSet(p))
    BY <1>2, SeqFacts DEF IsPath, IsSeq
  <2>3. PICK two : two = SubSeq(p, 1, 2)
    OBVIOUS
  <2>4. Len(two) = 2
    BY <1>4, <2>2, <2>3
  <2>5. two # <<>>
    BY <2>4, EmptySeq
  <2>6. t \in DOMAIN docs /\ docs[t].path = two
    BY <2>1, <2>3 DEF DirsAt
  <2>7. t # Root
    BY <2>5, <2>6 DEF DocsOK, IsRoot
  <2>8. GoodDoc(top)
    BY <1>1, <2>6, <2>7 DEF DocsOK
  <2>9. IsPath(top.restore) /\ IsName(top.name)
    BY <1>4, <2>8 DEF GoodDoc
  <2>10. PICK n : n = Len(p) - 1
    OBVIOUS
  <2>11. IsPath(SubSeq(p, 3, n))
    BY <1>2, <2>2, <2>10, PathSub
  <2>12. PICK one : one = <<top.name>>
    OBVIOUS
  <2>a. PICK nil : nil = <<>>
    OBVIOUS
  <2>b. IsPath(nil)
    BY <2>a, PathEmpty
  <2>c. one = Append(nil, top.name)
    BY <2>12, <2>a
  <2>13. IsPath(one)
    BY <2>9, <2>b, <2>c, PathAppend
  <2>14. PICK e : e = SubSeq(p, 3, n)
    OBVIOUS
  <2>15. PICK g : g = top.restore \o one
    OBVIOUS
  <2>16. IsPath(g)
    BY <2>9, <2>13, <2>15, PathConcat
  <2>17. IsPath(g \o e)
    BY <2>11, <2>14, <2>16, PathConcat
  <2>18. RestorePath(d, p, top) = g \o e
    BY <1>4, <2>10, <2>12, <2>14, <2>15 DEF RestorePath
  <2>19. QED
    BY <1>1, <2>17, <2>18
<1>5. CASE d.restore = None /\ ~(Len(p) > 2 /\ top.restore # None)
  BY <1>1, <1>5, PathEmpty DEF RestorePath
<1>6. QED
  BY <1>3, <1>4, <1>5

LEMMA RestoreAsked ==
    ASSUME VInv, NEW r \in Request, AsksRestore(r) PROVE Kept
<1>1. DocsOK(docs) /\ Idle(r)
  BY DEF VInv, AsksRestore
<1>2. PICK x \in Dirs \cup Files :
         \E t \in IF docs[x].restore = None /\ Len(PathOf(x)) > 2
                  THEN DirsAt(docs, SubSeq(PathOf(x), 1, 2)) ELSE {x} :
            LET path == RestorePath(docs[x], PathOf(x), docs[t]) IN
            \E k \in 0 .. Len(path) : \E d \in DirsAt(docs, SubSeq(path, 1, k)) :
                      Asks(r, [Reading("restore", x, docs[x]) EXCEPT
                                  !.at = Reads(d), !.todo = SubSeq(path, k + 1, Len(path)),
                                  !.new = [docs[x] EXCEPT !.restore = None,
                                                          !.trashed = FALSE]])
  BY Zenon DEF AsksRestore
<1>3. PICK t \in IF docs[x].restore = None /\ Len(PathOf(x)) > 2
                 THEN DirsAt(docs, SubSeq(PathOf(x), 1, 2)) ELSE {x} :
            LET path == RestorePath(docs[x], PathOf(x), docs[t]) IN
            \E k \in 0 .. Len(path) : \E d \in DirsAt(docs, SubSeq(path, 1, k)) :
                      Asks(r, [Reading("restore", x, docs[x]) EXCEPT
                                  !.at = Reads(d), !.todo = SubSeq(path, k + 1, Len(path)),
                                  !.new = [docs[x] EXCEPT !.restore = None,
                                                          !.trashed = FALSE]])
  BY <1>2, Zenon
<1>4. PICK path : path = RestorePath(docs[x], PathOf(x), docs[t])
  OBVIOUS
<1>5. IsPath(path)
  BY <1>1, <1>4, RestorePathIs
<1>6. PICK k \in 0 .. Len(path) : \E d \in DirsAt(docs, SubSeq(path, 1, k)) :
                      Asks(r, [Reading("restore", x, docs[x]) EXCEPT
                                  !.at = Reads(d), !.todo = SubSeq(path, k + 1, Len(path)),
                                  !.new = [docs[x] EXCEPT !.restore = None,
                                                          !.trashed = FALSE]])
  BY <1>3, <1>4, Zenon
<1>7. PICK d \in DirsAt(docs, SubSeq(path, 1, k)) :
                      Asks(r, [Reading("restore", x, docs[x]) EXCEPT
                                  !.at = Reads(d), !.todo = SubSeq(path, k + 1, Len(path)),
                                  !.new = [docs[x] EXCEPT !.restore = None,
                                                          !.trashed = FALSE]])
  BY <1>6, Zenon
<1>8. PICK old, a, todo : old = docs[x] /\ a = Reads(d) /\ todo = SubSeq(path, k + 1, Len(path))
  OBVIOUS
<1>9. PICK e : e = [old EXCEPT !.restore = None, !.trashed = FALSE]
  OBVIOUS
<1>10. PICK q : q = [Reading("restore", x, old) EXCEPT !.at = a, !.todo = todo, !.new = e]
  OBVIOUS
<1>11. Asks(r, q)
  BY <1>7, <1>8, <1>9, <1>10, Zenon
<1>12. x \in DOMAIN docs /\ x \in Id \ {Root, Trash} /\ GoodDoc(old)
  BY <1>1, <1>8, ItemDoc
<1>13. GoodDoc(e) /\ e.rev = old.rev /\ SameFile(old, e)
  <2>1. FALSE \in BOOLEAN
    OBVIOUS
  <2>2. QED
    BY <1>9, <1>12, <2>1, RestoringDoc
<1>14. d \in DOMAIN docs
  BY DEF DirsAt
<1>15. a.id = d /\ a.path = docs[d].path /\ d \in Id /\ IsPath(docs[d].path)
  BY <1>1, <1>8, <1>14, DocPath DEF Reads, DocsOK
<1>16. IsPath(todo)
  <2>1. Len(path) \in Nat
    BY <1>5, SeqFacts DEF IsPath
  <2>2. PICK m, n : m = k + 1 /\ n = Len(path)
    OBVIOUS
  <2>3. m \in Nat \ {0} /\ n \in Int /\ n <= Len(path)
    BY <2>1, <2>2
  <2>4. QED
    BY <1>5, <1>8, <2>2, <2>3, PathSub
<1>17. IsReq(q) /\ q.op = "restore" /\ q.id = x /\ q.snap = old /\ q.new = e /\ q.at = a
       /\ q.todo = todo
  BY <1>10 DEF Reading, IsReq
<1>18. ReqOK(r, q)
  BY <1>12, <1>13, <1>15, <1>16, <1>17 DEF ReqOK, OpOK, SnapOK
<1>19. QED
  BY <1>1, <1>8, <1>11, <1>12, <1>17, <1>18, AsksOK

\* The clients' files, and where they are.
LEMMA FileItem ==
    ASSUME DocsOK(docs), NEW f \in Files
    PROVE  /\ f \in DOMAIN docs /\ f \in Id \ {Root, Trash} /\ GoodDoc(docs[f])
           /\ docs[f].kind = "file"
<1>1. f \in Dirs \cup Files
  OBVIOUS
<1>2. docs[f].kind = "file"
  BY DEF Files, IsFile
<1>3. QED
  BY <1>1, <1>2, ItemDoc

LEMMA UploadAsked ==
    ASSUME VInv, NEW r \in Request, AsksUpload(r) PROVE Kept
<1>1. DocsOK(docs) /\ Idle(r)
  BY DEF VInv, AsksUpload
<1>2. CASE \E d \in Place, n \in Name :
             Asks(r, [Reading("upload", r, NoDoc) EXCEPT
                            !.at = Reads(d),
                            !.new = FileDoc(d, <<n>>, r)])
  <2>1. PICK d \in Place, n \in Name :
             Asks(r, [Reading("upload", r, NoDoc) EXCEPT
                            !.at = Reads(d),
                            !.new = FileDoc(d, <<n>>, r)])
    BY <1>2
  <2>2. PICK e, a : e = FileDoc(d, <<n>>, r) /\ a = Reads(d)
    OBVIOUS
  <2>3. PICK q : q = [Reading("upload", r, NoDoc) EXCEPT !.at = a, !.new = e]
    OBVIOUS
  <2>4. Asks(r, q)
    BY <2>1, <2>2, <2>3
  <2>5. IsName(<<n>>) /\ d \in Id
    BY <1>1, PlaceDir, NameOf
  <2>6. GoodDoc(e) /\ e.kind = "file" /\ e.rev = 1 /\ e.obj = r
    BY <2>2, <2>5, FileDocGood, IdInId
  <2>7. IsReq(q) /\ q.op = "upload" /\ q.id = r /\ q.snap = NoDoc /\ q.new = e
    BY <2>3 DEF Reading, IsReq
  <2>8. ReqOK(r, q)
    BY <2>6, <2>7, IdInId DEF ReqOK, OpOK
  <2>9. ~HasSnap(q)
    BY <2>7 DEF HasSnap, NoDoc
  <2>10. QED
    BY <1>1, <2>4, <2>7, <2>8, <2>9, AsksOK
<1>3. CASE \E f \in Files :
             Asks(r, [Reading("upload", f, docs[f]) EXCEPT
                            !.new = [FileDoc(docs[f].parent, docs[f].name, r) EXCEPT
                                         !.rev = docs[f].rev + 1]])
  <2>1. PICK f \in Files :
             Asks(r, [Reading("upload", f, docs[f]) EXCEPT
                            !.new = [FileDoc(docs[f].parent, docs[f].name, r) EXCEPT
                                         !.rev = docs[f].rev + 1]])
    BY <1>3
  <2>2. PICK old : old = docs[f]
    OBVIOUS
  <2>3. PICK g : g = FileDoc(old.parent, old.name, r)
    OBVIOUS
  <2>4. PICK e : e = [g EXCEPT !.rev = old.rev + 1]
    OBVIOUS
  <2>5. PICK q : q = [Reading("upload", f, old) EXCEPT !.new = e]
    OBVIOUS
  <2>6. Asks(r, q)
    BY <2>1, <2>2, <2>3, <2>4, <2>5
  <2>7. f \in DOMAIN docs /\ f \in Id \ {Root, Trash} /\ GoodDoc(old) /\ old.kind = "file"
    BY <1>1, <2>2, FileItem
  <2>8. GoodDoc(g) /\ g.kind = "file" /\ g.obj = r /\ g.parent = old.parent /\ g.name = old.name
    BY <2>3, <2>7, FileDocGood, IdInId DEF GoodDoc
  <2>9. old.rev \in Nat
    BY <2>7 DEF GoodDoc
  <2>10. /\ IsDoc(e) /\ e.parent = g.parent /\ e.name = g.name /\ e.kind = g.kind /\ e.obj = g.obj
         /\ e.path = g.path /\ e.restore = g.restore /\ e.trashed = g.trashed /\ e.rev = old.rev + 1
    <3>1. IsDoc(g)
      BY <2>8 DEF GoodDoc
    <3>2. QED
      BY <2>4, <3>1 DEF IsDoc
  <2>11. GoodDoc(e)
    BY <2>8, <2>9, <2>10 DEF GoodDoc
  <2>12. IsReq(q) /\ q.op = "upload" /\ q.id = f /\ q.snap = old /\ q.new = e
    BY <2>5 DEF Reading, IsReq
  <2>13. ReqOK(r, q)
    BY <2>7, <2>8, <2>10, <2>11, <2>12 DEF ReqOK, OpOK, SnapOK, SamePlace
  <2>14. QED
    BY <1>1, <2>2, <2>6, <2>7, <2>12, <2>13, AsksOK
<1>4. QED
  BY <1>2, <1>3, Zenon DEF AsksUpload

LEMMA CopyAsked ==
    ASSUME VInv, NEW r \in Request, AsksCopy(r) PROVE Kept
<1>1. DocsOK(docs) /\ Idle(r)
  BY DEF VInv, AsksCopy
<1>2. PICK f \in Files, d \in Place, n \in Name :
           Asks(r, [Reading("copy", f, docs[f]) EXCEPT
                          !.at = Reads(d),
                          !.new = FileDoc(d, <<n>>, r)])
  BY DEF AsksCopy
<1>3. PICK old, e, a : old = docs[f] /\ e = FileDoc(d, <<n>>, r) /\ a = Reads(d)
  OBVIOUS
<1>4. PICK q : q = [Reading("copy", f, old) EXCEPT !.at = a, !.new = e]
  OBVIOUS
<1>5. Asks(r, q)
  BY <1>2, <1>3, <1>4
<1>6. f \in DOMAIN docs /\ f \in Id \ {Root, Trash} /\ GoodDoc(old) /\ old.kind = "file"
  BY <1>1, <1>3, FileItem
<1>7. IsName(<<n>>) /\ d \in Id
  BY <1>1, PlaceDir, NameOf
<1>8. GoodDoc(e) /\ e.kind = "file" /\ e.rev = 1 /\ e.obj = r
  BY <1>3, <1>7, FileDocGood, IdInId
<1>9. IsReq(q) /\ q.op = "copy" /\ q.id = f /\ q.snap = old /\ q.new = e
  BY <1>4 DEF Reading, IsReq
<1>10. ReqOK(r, q)
  BY <1>6, <1>8, <1>9 DEF ReqOK, OpOK, SnapOK
<1>11. QED
  BY <1>1, <1>3, <1>5, <1>6, <1>9, <1>10, AsksOK

LEMMA DestroyAsked ==
    ASSUME VInv, NEW r \in Request, AsksDestroy(r) PROVE Kept
<1>1. DocsOK(docs) /\ Idle(r)
  BY DEF VInv, AsksDestroy
<1>2. PICK op \in {"destroy", "clean"}, x \in Files \cup Dirs \cup {Trash} :
         Asks(r, Reading(op, x, docs[x]))
  BY DEF AsksDestroy
<1>3. PICK q : q = Reading(op, x, docs[x])
  OBVIOUS
<1>4. x \in DOMAIN docs /\ x \in Id \ {Root} /\ GoodDoc(docs[x]) /\ (x = Trash => docs[x].kind = "dir")
  <2>1. CASE x = Trash
    <3>1. Trash # Root
      BY VFSAssumption
    <3>2. QED
      BY <1>1, <2>1, <3>1 DEF DocsOK
  <2>2. CASE x # Trash
    BY <1>1, <2>2, ItemDoc
  <2>3. QED
    BY <2>1, <2>2
<1>5. IsReq(q) /\ q.op = op /\ q.id = x /\ q.snap = docs[x]
  BY <1>3 DEF Reading, IsReq
<1>6. ReqOK(r, q)
  BY <1>4, <1>5 DEF ReqOK, OpOK, SnapOK
<1>7. QED
  BY <1>1, <1>2, <1>3, <1>4, <1>5, <1>6, AsksOK

LEMMA VersionAsked ==
    ASSUME VInv, NEW r \in Request, AsksVersion(r) PROVE Kept
<1>1. DocsOK(docs) /\ Idle(r) /\ versions \in Seq(Version)
  BY DEF VInv, AsksVersion, StoreOK
<1>2. PICK i \in DOMAIN versions, op \in {"revert", "cleanversion"} :
         /\ versions[i].file \in Files
         /\ Asks(r, [Reading(op, versions[i].file, docs[versions[i].file]) EXCEPT
                          !.ver = versions[i]])
  BY DEF AsksVersion
<1>3. PICK v, f, old : v = versions[i] /\ f = v.file /\ old = docs[f]
  OBVIOUS
<1>4. PICK q : q = [Reading(op, f, old) EXCEPT !.ver = v]
  OBVIOUS
<1>5. Asks(r, q) /\ f \in Files
  BY <1>2, <1>3, <1>4
<1>6. f \in DOMAIN docs /\ f \in Id \ {Root, Trash} /\ GoodDoc(old) /\ old.kind = "file"
  BY <1>1, <1>3, <1>5, FileItem
<1>7. v \in Version
  BY <1>1, <1>3
<1>8. IsReq(q) /\ q.op = op /\ q.id = f /\ q.snap = old /\ q.ver = v
  BY <1>4 DEF Reading, IsReq
<1>9. ReqOK(r, q)
  BY <1>3, <1>6, <1>7, <1>8 DEF ReqOK, OpOK, SnapOK
<1>10. q.op # "stored" /\ q.ver \in ToSet(versions)
  BY <1>2, <1>3, <1>8 DEF ToSet
<1>11. QED
  BY <1>1, <1>3, <1>5, <1>6, <1>8, <1>9, <1>10, AsksOK

LEMMA ClearAsked ==
    ASSUME VInv, NEW r \in Request, Idle(r), Asks(r, Reading("clearversions", None, NoDoc))
    PROVE  Kept
<1>1. PICK q : q = Reading("clearversions", None, NoDoc)
  OBVIOUS
<1>2. IsReq(q) /\ q.op = "clearversions" /\ q.id = None /\ q.snap = NoDoc
  BY <1>1 DEF Reading, IsReq
<1>3. ReqOK(r, q) /\ ~HasSnap(q)
  BY <1>2 DEF ReqOK, OpOK, HasSnap, NoDoc
<1>4. QED
  BY <1>1, <1>2, <1>3, AsksOK

\* A step of request r that does not change the documents, the versions and the journals.
LEMMA KeepsDocs ==
    ASSUME VInv, NEW r \in Request, NEW q,
           req' = [req EXCEPT ![r] = q], ReqOK(r, q), Agrees(docs, q),
           HasSnap(q) => HasSnap(req[r]) /\ q.id = req[r].id,
           Unborn(r, q) \subseteq Unborn(r, req[r]),
           docs' = docs, versions' = versions, journals' = journals,
           objects' \subseteq Id \X ObjId,
           stale' \in BOOLEAN, cut' \in BOOLEAN, midway' \in BOOLEAN
    PROVE  VInv'
<1>1. /\ DocsOK(docs) /\ Names(docs) /\ StoreOK(objects, versions, journals)
      /\ \A x \in Request : Agrees(docs, req[x])
  BY DEF VInv
<1>2. StoreOK(objects', versions', journals')
  BY <1>1 DEF StoreOK
<1>3. PICK K : K = Known(docs, versions, journals, req)
  OBVIOUS
<1>4. /\ {v.file : v \in ToSet(versions)} \subseteq K /\ UNION {j.files : j \in journals} \subseteq K
      /\ DOMAIN docs \subseteq K
      /\ HasSnap(req[r]) => req[r].id \in K
  BY <1>3, KnownParts
<1>5. PICK B : B = {}
  OBVIOUS
<1>6. B \subseteq Unborn(r, req[r]) /\ Unborn(r, q) \subseteq Unborn(r, req[r]) \ B
  BY <1>5
<1>7. /\ DOMAIN docs \subseteq DOMAIN docs \cup B /\ {v.file : v \in ToSet(versions)} \subseteq K \cup B
      /\ UNION {j.files : j \in journals} \subseteq K \cup B /\ (HasSnap(q) => q.id \in K \cup B)
  BY <1>4
<1>8. QED
  BY <1>1, <1>2, <1>3, <1>6, <1>7, Preserve

LEMMA OverOK ==
    ASSUME NEW r, NEW D
    PROVE  ReqOK(r, Over) /\ ~HasSnap(Over) /\ Agrees(D, Over) /\ Unborn(r, Over) = {}
<1>1. Over.op = "over" /\ Over.snap = NoDoc /\ Over.id = None /\ IsReq(Over)
  BY DEF Over, Reading, IsReq
<1>2. ~HasSnap(Over)
  BY <1>1 DEF HasSnap, NoDoc
<1>3. QED
  BY <1>1, <1>2 DEF ReqOK, OpOK, Agrees, Unborn

\* The object that an upload stores is its own.
LEMMA UploadFacts ==
    ASSUME NEW r \in Request, NEW q, ReqOK(r, q), q.op \in {"upload", "stored"}
    PROVE  /\ IsReq(q) /\ q.id \in Id \ {Root, Trash} /\ ObjectOf(q, r) \in Id \X ObjId
           /\ GoodDoc(q.new) /\ q.new.kind = "file" /\ q.new.obj = r
           /\ \/ q.snap = NoDoc /\ q.id = r /\ q.new.rev = 1
              \/ /\ SnapOK(q) /\ q.snap.kind = "file" /\ q.new.rev = q.snap.rev + 1
                 /\ SamePlace(q.snap, q.new)
<1>1. q # Unread /\ q # Over
  BY DEF Unread, Over, Reading
<1>2. /\ GoodDoc(q.new) /\ q.new.kind = "file" /\ q.new.obj = r
      /\ \/ q.snap = NoDoc /\ q.id = r /\ q.new.rev = 1
         \/ /\ SnapOK(q) /\ q.snap.kind = "file" /\ q.new.rev = q.snap.rev + 1
            /\ SamePlace(q.snap, q.new)
  BY <1>1 DEF ReqOK, OpOK
<1>3. IsReq(q)
  BY DEF ReqOK
<1>4. q.id \in Id \ {Root, Trash}
  BY <1>2, IdInId DEF SnapOK
<1>5. QED
  BY <1>2, <1>3, <1>4, IdInId DEF ObjectOf

LEMMA ObjectStored ==
    ASSUME VInv, NEW r \in Request, StoreObject(r) PROVE Kept
<1>1. PICK p : p = req[r]
  OBVIOUS
<1>2. PICK q : q = [p EXCEPT !.op = "stored"]
  OBVIOUS
<1>3. ReqOK(r, p) /\ Agrees(docs, p) /\ p.op = "upload" /\ DOMAIN req = Request
  BY <1>1 DEF VInv, StoreObject, Ready
<1>4. /\ IsReq(p) /\ p.id \in Id \ {Root, Trash} /\ ObjectOf(p, r) \in Id \X ObjId
      /\ GoodDoc(p.new) /\ p.new.kind = "file" /\ p.new.obj = r
      /\ \/ p.snap = NoDoc /\ p.id = r /\ p.new.rev = 1
         \/ /\ SnapOK(p) /\ p.snap.kind = "file" /\ p.new.rev = p.snap.rev + 1
            /\ SamePlace(p.snap, p.new)
  BY <1>3, UploadFacts
<1>5. IsReq(q) /\ q.op = "stored" /\ q.id = p.id /\ q.snap = p.snap /\ q.new = p.new
  BY <1>2, <1>4 DEF IsReq
<1>6. ReqOK(r, q)
  BY <1>4, <1>5 DEF ReqOK, OpOK, SnapOK
<1>7. Agrees(docs, q) /\ (HasSnap(q) => HasSnap(p))
  BY <1>3, <1>5 DEF Agrees, HasSnap
<1>8. Unborn(r, q) \subseteq Unborn(r, p)
  BY <1>3, <1>5 DEF Unborn
<1>9. /\ req' = [req EXCEPT ![r] = q] /\ docs' = docs /\ objects' = objects \cup {ObjectOf(p, r)}
      /\ versions' = versions /\ journals' = journals
      /\ stale' = stale /\ cut' = cut /\ midway' = midway
  BY <1>1, <1>2, <1>3 DEF StoreObject, ghosts
<1>10. /\ objects' \subseteq Id \X ObjId
       /\ stale' \in BOOLEAN /\ cut' \in BOOLEAN /\ midway' \in BOOLEAN
  BY <1>4, <1>9 DEF VInv, StoreOK
<1>11. VInv'
  BY <1>1, <1>5, <1>6, <1>7, <1>8, <1>9, <1>10, KeepsDocs
<1>12. ASSUME CInv PROVE CInv'
  <2>1. PICK U, G : G = {} /\ U = Used(docs, versions, journals, req) \cup G
    OBVIOUS
  <2>2. /\ \A x \in DOMAIN docs' : docs'[x].obj \in U
        /\ \A v \in ToSet(versions') : v.obj \in U
        /\ \A j \in journals' : \A o \in j.objs : o[2] \in U
        /\ HasSnap(p) => p.snap.obj \in U
    BY <1>1, <1>9, <2>1, UsedParts
  <2>3. Distinct(versions') /\ \A j \in journals' : j.files \cap DOMAIN docs' = {}
    BY <1>9, <1>12 DEF CInv
  <2>4. ObjectOf(p, r) = <<q.id, r>> /\ objects \subseteq objects' /\ ObjectOf(p, r) \in objects'
    BY <1>5, <1>9 DEF ObjectOf
  <2>5. midway' \/ Backed(docs', objects', versions')
    BY <1>9, <1>12, <2>4 DEF CInv, Backed
  <2>6. /\ q.op \in Pending => req[r].op \in Pending /\ G = {}
        /\ q.op \in {"revert", "cleanversion"} => q.ver.obj \in U
        /\ q.op = "stored" => <<q.id, r>> \in objects'
        /\ HasSnap(q) => q.snap.obj \in U
        /\ G \subseteq {r, None} /\ \A o \in objects : o[2] \notin U => o \in objects'
    BY <1>1, <1>3, <1>5, <1>7, <2>1, <2>2, <2>4 DEF Pending
  <2>7. req' = [req EXCEPT ![r] = q]
    BY <1>9
  <2>8. QED
    BY <1>12, <2>1, <2>2, <2>3, <2>5, <2>6, <2>7, Carry
<1>13. QED
  BY <1>11, <1>12 DEF Kept

LEMMA UploadAborted ==
    ASSUME VInv, NEW r \in Request, AbortUpload(r) PROVE Kept
<1>1. StoreOK(objects, versions, journals) /\ stale \in BOOLEAN /\ cut \in BOOLEAN /\ midway \in BOOLEAN
  BY DEF VInv
<1>2. /\ req' = [req EXCEPT ![r] = Over] /\ docs' = docs /\ objects' \subseteq objects
      /\ versions' = versions /\ journals' = journals
      /\ stale' = stale /\ cut' = cut /\ midway' = midway
  BY DEF AbortUpload, ghosts
<1>3. objects' \subseteq Id \X ObjId
  BY <1>1, <1>2 DEF StoreOK
<1>4. ReqOK(r, Over) /\ ~HasSnap(Over) /\ Agrees(docs, Over) /\ Unborn(r, Over) = {}
  BY OverOK
<1>5. VInv'
  BY <1>1, <1>2, <1>3, <1>4, KeepsDocs
<1>6. ASSUME CInv PROVE CInv'
  <2>1. PICK N, U, G : /\ N = Used(docs, versions, journals, req)
                       /\ G = {r, None} /\ U = Used(docs, versions, journals, req) \cup G
    OBVIOUS
  <2>2. /\ \A x \in DOMAIN docs : docs[x].obj \in N
        /\ \A v \in ToSet(versions) : v.obj \in N
        /\ \A j \in journals : \A o \in j.objs : o[2] \in N
    BY <2>1, UsedParts
  <2>3. r \notin N
    BY <1>6, <2>1 DEF CInv, Pending, AbortUpload, Ready
  <2>4. PICK o : o = ObjectOf(req[r], r)
    OBVIOUS
  <2>5. objects' = objects \ {o} /\ o[2] = r
    BY <2>4 DEF AbortUpload, ObjectOf
  <2>6. Distinct(versions') /\ \A j \in journals' : j.files \cap DOMAIN docs' = {}
    BY <1>2, <1>6 DEF CInv
  <2>7. midway' \/ Backed(docs', objects', versions')
    <3>1. SUFFICES ASSUME ~midway PROVE Backed(docs, objects \ {o}, versions)
      BY <1>2, <2>5
    <3>2. Backed(docs, objects, versions)
      BY <1>6, <3>1 DEF CInv
    <3>3. \A x \in DOMAIN docs : <<x, docs[x].obj>> # o
      BY <2>2, <2>3, <2>5
    <3>4. \A v \in ToSet(versions) : <<v.file, v.obj>> # o
      BY <2>2, <2>3, <2>5
    <3>5. QED
      BY <3>2, <3>3, <3>4 DEF Backed
  <2>8. /\ \A x \in DOMAIN docs' : docs'[x].obj \in U
        /\ \A v \in ToSet(versions') : v.obj \in U
        /\ \A j \in journals' : \A i \in j.objs : i[2] \in U
        /\ \A i \in objects : i[2] \notin U => i \in objects'
    BY <1>2, <2>1, <2>2, <2>5
  <2>9. PICK q : q = Over
    OBVIOUS
  <2>10. q.op = "over" /\ ~HasSnap(q) /\ req' = [req EXCEPT ![r] = q]
    BY <1>2, <1>4, <2>9 DEF Over, Reading
  <2>11. /\ q.op \in Pending => req[r].op \in Pending /\ G = {}
         /\ q.op \in {"revert", "cleanversion"} => q.ver.obj \in U
         /\ q.op = "stored" => <<q.id, r>> \in objects'
         /\ HasSnap(q) => q.snap.obj \in U
         /\ G \subseteq {r, None}
    BY <2>1, <2>10 DEF Pending
  <2>12. QED
    BY <1>6, <2>1, <2>6, <2>7, <2>8, <2>10, <2>11, Carry
<1>7. QED
  BY <1>5, <1>6 DEF Kept

-----------------------------------------------------------------------------
(* The objects, versions and journals after a section.                     *)

\* A state whose versions and journals are of the files of K.
StoreIn(s, K) ==
    /\ StoreOK(s.objs, s.vers, s.jobs)
    /\ \A v \in ToSet(s.vers) : v.file \in K
    /\ \A j \in s.jobs : j.files \subseteq K

\* What a write brings into the store.
Stores(w, K) ==
    /\ w.do = "store" => w.obj \in Id \X ObjId
    /\ w.do = "version" => w.ver \in Version /\ w.ver.file \in K
    /\ w.do = "push" => JournalOK(w.journal) /\ w.journal.files \subseteq K

LEMMA StoreWritten ==
    ASSUME NEW s, IsState(s), NEW K, StoreIn(s, K), NEW w, Stores(w, K)
    PROVE  StoreIn(Written(s, w), K)
<1>1. s.vers \in Seq(Version) /\ s.objs \subseteq Id \X ObjId
  BY DEF StoreIn, StoreOK
<1>2. CASE w.do \in {"put", "delete", "batch", "set", "move"}
  <2>1. \E D : Written(s, w) = [s EXCEPT !.docs = D]
    BY <1>2 DEF Written
  <2>2. PICK D : Written(s, w) = [s EXCEPT !.docs = D]
    BY <2>1
  <2>3. PICK t : t = [s EXCEPT !.docs = D]
    OBVIOUS
  <2>4. SameStore(s, t)
    BY <2>3 DEF IsState, SameStore
  <2>5. QED
    BY <2>2, <2>3, <2>4 DEF SameStore, StoreIn
<1>3. CASE w.do \in {"store", "erase"}
  <2>1. PICK O : /\ O \subseteq Id \X ObjId
                 /\ Written(s, w) = [s EXCEPT !.objs = O]
    <3>1. CASE w.do = "store"
      <4>1. Written(s, w) = [s EXCEPT !.objs = s.objs \cup {w.obj}]
        BY <3>1 DEF Written
      <4>2. s.objs \cup {w.obj} \subseteq Id \X ObjId
        BY <1>1, <3>1 DEF Stores
      <4>3. QED
        BY <4>1, <4>2
    <3>2. CASE w.do = "erase"
      <4>1. Written(s, w) = [s EXCEPT !.objs = s.objs \ w.of]
        BY <3>2 DEF Written
      <4>2. s.objs \ w.of \subseteq Id \X ObjId
        BY <1>1
      <4>3. QED
        BY <4>1, <4>2
    <3>3. QED
      BY <1>3, <3>1, <3>2
  <2>2. PICK t : t = [s EXCEPT !.objs = O]
    OBVIOUS
  <2>3. t.objs = O /\ t.vers = s.vers /\ t.jobs = s.jobs
    BY <2>2 DEF IsState
  <2>4. QED
    BY <2>1, <2>2, <2>3 DEF StoreIn, StoreOK
<1>4. CASE w.do = "version"
  <2>1. PICK v : v = w.ver
    OBVIOUS
  <2>2. v \in Version /\ v.file \in K
    BY <1>4, <2>1 DEF Stores
  <2>3. PICK vs : vs = Append(s.vers, v)
    OBVIOUS
  <2>4. vs \in Seq(Version) /\ Len(vs) = Len(s.vers) + 1 /\ DOMAIN vs = 1 .. Len(vs)
        /\ DOMAIN s.vers = 1 .. Len(s.vers)
        /\ \A i \in 1 .. Len(vs) : (i \in 1 .. Len(s.vers) /\ vs[i] = s.vers[i]) \/ vs[i] = v
    BY <1>1, <2>2, <2>3
  <2>5. \A u \in ToSet(vs) : u = v \/ u \in ToSet(s.vers)
    BY <2>4 DEF ToSet
  <2>6. PICK t : t = [s EXCEPT !.vers = vs]
    OBVIOUS
  <2>7. t.objs = s.objs /\ t.vers = vs /\ t.jobs = s.jobs
    BY <2>6 DEF IsState
  <2>8. Written(s, w) = t
    BY <1>4, <2>1, <2>3, <2>6 DEF Written
  <2>9. QED
    BY <2>2, <2>4, <2>5, <2>7, <2>8 DEF StoreIn, StoreOK
<1>5. CASE w.do \in {"unversion", "unversions"}
  <2>1. PICK keep : Written(s, w) = [s EXCEPT !.vers = Only(s.vers, keep)]
    BY <1>5 DEF Written
  <2>2. PICK vs : vs = Only(s.vers, keep)
    OBVIOUS
  <2>3. vs \in Seq(Version) /\ ToSet(vs) \subseteq ToSet(s.vers)
    BY <1>1, <2>2, OnlyElements
  <2>4. PICK t : t = [s EXCEPT !.vers = vs]
    OBVIOUS
  <2>5. t.objs = s.objs /\ t.vers = vs /\ t.jobs = s.jobs
    BY <2>4 DEF IsState
  <2>6. QED
    BY <2>1, <2>2, <2>3, <2>4, <2>5 DEF StoreIn, StoreOK
<1>6. CASE w.do = "push"
  <2>1. PICK js : js = s.jobs \cup {w.journal}
    OBVIOUS
  <2>2. PICK t : t = [s EXCEPT !.jobs = js]
    OBVIOUS
  <2>3. Written(s, w) = t
    BY <1>6, <2>1, <2>2 DEF Written
  <2>4. t.objs = s.objs /\ t.vers = s.vers /\ t.jobs = js
    BY <2>2 DEF IsState
  <2>5. JournalOK(w.journal) /\ w.journal.files \subseteq K
    BY <1>6 DEF Stores
  <2>6. QED
    BY <2>1, <2>3, <2>4, <2>5 DEF StoreIn, StoreOK
<1>7. CASE w.do \notin {"put", "delete", "batch", "set", "move", "store", "erase", "version",
                        "unversion", "unversions", "push"}
  <2>1. Written(s, w) = s
    BY <1>7 DEF Written
  <2>2. QED
    BY <2>1
<1>8. QED
  BY <1>2, <1>3, <1>4, <1>5, <1>6, <1>7

LEMMA StoreStep ==
    ASSUME NEW s, IsState(s), NEW K, StoreIn(s, K), NEW w, Stores(w, K)
    PROVE  StoreIn(Step(s, w), K)
<1>1. PICK t : t = [s EXCEPT !.ok = FALSE]
  OBVIOUS
<1>2. SameStore(s, t)
  BY <1>1 DEF IsState, SameStore
<1>3. StoreIn(t, K)
  BY <1>2 DEF SameStore, StoreIn
<1>4. Step(s, w) \in {s, t, Written(s, w)}
  BY <1>1, Zenon DEF Step
<1>5. QED
  BY <1>3, <1>4, StoreWritten

LEMMA StoreSection ==
    ASSUME NEW K, StoreIn(Now, K), NEW W, NEW writes \in Seq(W), NEW undo,
           NEW N \in 0 .. Len(writes), NEW f, NEW s, Outcome(f, N, writes, undo, s),
           \A n \in 1 .. Len(writes) : Stores(writes[n], K), Stores(undo, K)
    PROVE  StoreIn(s, K)
<1>1. Trace(f, N, writes) /\ (s = f[N] \/ s = Written(f[N], undo))
  BY DEF Outcome
<1>2. PICK T : T = {n \in 0 .. N : StoreIn(f[n], K)}
  OBVIOUS
<1>3. 0 \in T
  BY <1>1, <1>2 DEF Trace
<1>4. N \in Nat /\ 1 .. N \subseteq 1 .. Len(writes)
  OBVIOUS
<1>5. \A n \in 0 .. N : IsState(f[n])
  BY <1>1, <1>4, TraceState
<1>6. \A n \in 0 .. N - 1 : n \in T => n + 1 \in T
  <2>1. SUFFICES ASSUME NEW n \in 0 .. N - 1, n \in T PROVE n + 1 \in T
    OBVIOUS
  <2>2. n + 1 \in 1 .. N /\ (n + 1) - 1 = n /\ n + 1 \in 0 .. N /\ n \in 0 .. N
    OBVIOUS
  <2>3. f[n + 1] = Step(f[n], writes[n + 1])
    BY <1>1, <2>2 DEF Trace
  <2>4. Stores(writes[n + 1], K)
    BY <1>4, <2>2
  <2>5. QED
    BY <1>2, <1>5, <2>1, <2>2, <2>3, <2>4, StoreStep
<1>7. 0 .. N \subseteq T
  BY <1>3, <1>4, <1>6, BoundedInduction
<1>8. N \in 0 .. N
  BY <1>4
<1>9. IsState(f[N]) /\ StoreIn(f[N], K)
  BY <1>2, <1>5, <1>7, <1>8
<1>10. QED
  BY <1>1, <1>9, StoreWritten

LEMMA KnownStore ==
    ASSUME VInv, NEW K, K = Known(docs, versions, journals, req)
    PROVE  StoreIn(Now, K)
<1>1. /\ {v.file : v \in ToSet(versions)} \subseteq K
      /\ UNION {j.files : j \in journals} \subseteq K
  BY KnownParts
<1>2. StoreOK(objects, versions, journals)
  BY DEF VInv
<1>3. Now.objs = objects /\ Now.vers = versions /\ Now.jobs = journals
  BY NowIsState
<1>4. QED
  BY <1>1, <1>2, <1>3 DEF StoreIn

\* A section of r with at most one Put: over the document that the request has read,
\* or of an id that only r may create.
Puts(q, r, id, doc) ==
    /\ GoodDoc(doc) /\ id \in Id \ {Root, Trash}
    /\ \/ id \in Unborn(r, q)
       \/ HasSnap(q) /\ id = q.id /\ doc.rev = q.snap.rev + 1

\* The place of the document was checked by a write before it.
Checked(q, id, doc, writes) ==
    \A p \in 1 .. Len(writes) : writes[p] = Put(id, doc) /\ Passed(writes, p) =>
        \/ HasSnap(q) /\ id = q.id /\ SamePlace(q.snap, doc)
        \/ ~Taken(docs, doc.parent, doc.name)

\* The writes of such a section.
Allowed(writes, id, doc, K) ==
    \A n \in 1 .. Len(writes) : (Plain(writes[n]) \/ writes[n] = Put(id, doc)) /\ Stores(writes[n], K)

LEMMA OutcomeKeeps ==
    ASSUME VInv, NEW r \in Request, NEW q, q = req[r],
           NEW W, NEW writes \in Seq(W), NEW undo, NEW N \in 0 .. Len(writes),
           NEW f, NEW s, Outcome(f, N, writes, undo, s), Holds(s),
           undo.do \in {"check", "erase", "unversions"},
           NEW id, NEW doc, Puts(q, r, id, doc), Checked(q, id, doc, writes),
           NEW K, K = Known(docs, versions, journals, req),
           Allowed(writes, id, doc, K),
           NEW p, req' = [req EXCEPT ![r] = p], ReqOK(r, p),
           HasSnap(p) => HasSnap(q) /\ p.snap = q.snap /\ p.id = q.id,
           Unborn(r, p) \subseteq Unborn(r, q) \ {id},
           stale' \in BOOLEAN, cut' \in BOOLEAN, midway' \in BOOLEAN
    PROVE  VInv'
<1>1. DocsOK(docs) /\ Names(docs) /\ \A x \in Request : ReqOK(x, req[x]) /\ Agrees(docs, req[x])
  BY DEF VInv
<1>2. GoodDoc(doc) /\ id \in Id \ {Root, Trash}
  BY DEF Puts
<1>3. /\ DocsOK(s.docs)
      /\ \/ KeptAll(docs, s.docs)
         \/ /\ PutOver(docs, id, doc, s.docs)
            /\ \E k \in 1 .. Len(writes) : writes[k] = Put(id, doc) /\ Passed(writes, k)
  BY <1>1, <1>2, PutSection DEF Allowed
<1>4. docs' = s.docs /\ objects' = s.objs /\ versions' = s.vers /\ journals' = s.jobs
  BY DEF Holds
<1>5. Stores(undo, K)
  BY DEF Stores
<1>6. StoreIn(s, K)
  <2>1. \A n \in 1 .. Len(writes) : Stores(writes[n], K)
    BY DEF Allowed
  <2>2. QED
    BY <1>5, <2>1, KnownStore, StoreSection
<1>7. StoreOK(objects', versions', journals')
  BY <1>4, <1>6 DEF StoreIn
<1>8. PICK B : B = {id} \cap Unborn(r, q)
  OBVIOUS
<1>9. B \subseteq Unborn(r, q) /\ Unborn(r, p) \subseteq Unborn(r, q) \ B
  BY <1>8
<1>10. /\ {v.file : v \in ToSet(versions')} \subseteq K \cup B
       /\ UNION {j.files : j \in journals'} \subseteq K \cup B
  BY <1>4, <1>6 DEF StoreIn
<1>11. HasSnap(p) => p.id \in K \cup B
  BY KnownParts
<1>12. /\ Names(s.docs) /\ DOMAIN s.docs \subseteq DOMAIN docs \cup B
       /\ \A x \in Request : Agrees(s.docs, req[x])
  <2>1. CASE KeptAll(docs, s.docs)
    <3>1. DOMAIN s.docs \subseteq DOMAIN docs /\ \A x \in DOMAIN s.docs : KeptDoc(docs[x], s.docs[x])
      BY <2>1 DEF KeptAll
    <3>2. QED
      BY <1>1, <3>1, KeptNames, KeptAgrees
  <2>2. CASE /\ PutOver(docs, id, doc, s.docs)
             /\ \E k \in 1 .. Len(writes) : writes[k] = Put(id, doc) /\ Passed(writes, k)
    <3>1. \/ HasSnap(q) /\ id = q.id /\ SamePlace(q.snap, doc)
          \/ ~Taken(docs, doc.parent, doc.name)
      BY <2>2 DEF Checked
    <3>2. id \in Unborn(r, q) \/ (HasSnap(q) /\ id = q.id /\ id \in DOMAIN docs /\ docs[id] = q.snap)
      <4>1. CASE HasSnap(q) /\ id = q.id /\ doc.rev = q.snap.rev + 1
        <5>1. ReqOK(r, q) /\ Agrees(docs, q) /\ PutOver(docs, q.id, doc, s.docs)
          BY <1>1, <2>2, <4>1
        <5>2. q.id \in DOMAIN docs /\ docs[q.id] = q.snap
          BY <1>1, <4>1, <5>1, PutIsFresh
        <5>3. QED
          BY <4>1, <5>2
      <4>2. QED
        BY <4>1 DEF Puts
    <3>3. \A x \in DOMAIN docs \ {id} : ~(docs[x].parent = doc.parent /\ docs[x].name = doc.name)
      <4>1. CASE ~Taken(docs, doc.parent, doc.name)
        BY <4>1 DEF Taken
      <4>2. CASE HasSnap(q) /\ id = q.id /\ SamePlace(q.snap, doc)
        <5>1. id \in DOMAIN docs /\ docs[id] = q.snap
          <6>1. id \notin Unborn(r, q)
            <7>1. id \in K
              BY <4>2, KnownParts
            <7>2. QED
              BY <7>1 DEF VInv
          <6>2. QED
            BY <3>2, <6>1
        <5>2. QED
          BY <1>1, <4>2, <5>1 DEF Names, SamePlace
      <4>3. QED
        BY <3>1, <4>1, <4>2
    <3>4. Names(s.docs)
      BY <1>1, <2>2, <3>3, PutNames
    <3>5. DOMAIN s.docs \subseteq DOMAIN docs \cup B
      BY <1>8, <2>2, <3>2 DEF PutOver
    <3>6. ASSUME NEW x \in Request, HasSnap(req[x]), req[x].id = id PROVE id \in DOMAIN docs
      <4>1. id \in K
        BY <3>6, KnownParts
      <4>2. id \notin Unborn(r, q)
        BY <4>1 DEF VInv
      <4>3. QED
        BY <3>2, <4>2
    <3>7. \A x \in Request : Agrees(s.docs, req[x])
      BY <1>1, <2>2, <3>6, PutAgrees
    <3>8. QED
      BY <3>4, <3>5, <3>7
  <2>3. QED
    BY <1>3, <2>1, <2>2
<1>13. Agrees(docs', p)
  BY <1>4, <1>12 DEF Agrees
<1>14. /\ DocsOK(docs') /\ Names(docs') /\ \A x \in Request : Agrees(docs', req[x])
       /\ DOMAIN docs' \subseteq DOMAIN docs \cup B
  BY <1>3, <1>4, <1>12
<1>15. QED
  BY <1>7, <1>9, <1>10, <1>11, <1>13, <1>14, Preserve

LEMMA SectionKeeps ==
    ASSUME VInv, NEW r \in Request, NEW q, q = req[r],
           NEW W, NEW writes \in Seq(W), NEW undo, Section(r, writes, undo),
           undo.do \in {"check", "erase", "unversions"},
           NEW id, NEW doc, Puts(q, r, id, doc), Checked(q, id, doc, writes),
           NEW K, K = Known(docs, versions, journals, req),
           Allowed(writes, id, doc, K)
    PROVE  VInv'
<1>1. PICK N \in 0 .. Len(writes) : \E f, s :
        /\ Outcome(f, N, writes, undo, s) /\ Holds(s) /\ IsState(s)
        /\ req' = [req EXCEPT ![r] = Over]
        /\ stale' \in BOOLEAN /\ cut' \in BOOLEAN /\ midway' \in BOOLEAN
  BY SectionOutcome
<1>2. ReqOK(r, Over) /\ ~HasSnap(Over) /\ Unborn(r, Over) = {}
  BY OverOK
<1>3. QED
  BY <1>1, <1>2, OutcomeKeeps

-----------------------------------------------------------------------------
(* The contents along a section.                                           *)

\* The objects that the section of request r may name.
Mine(r) == Used(docs, versions, journals, req) \cup {r, None}

\* An object of a file or of a version.
Needed(s, o) ==
    \/ \E x \in DOMAIN s.docs : s.docs[x].kind = "file" /\ o = <<x, s.docs[x].obj>>
    \/ \E v \in ToSet(s.vers) : o = <<v.file, v.obj>>

\* A state of the section of r; with exempt, the contents may be missing.
Sound(s, r, exempt) ==
    /\ \A x \in DOMAIN s.docs : IsDoc(s.docs[x]) /\ s.docs[x].obj \in Mine(r)
    /\ s.vers \in Seq(Version) /\ Distinct(s.vers) /\ \A v \in ToSet(s.vers) : v.obj \in Mine(r)
    /\ \A j \in s.jobs : /\ j.files \cap DOMAIN s.docs = {}
                         /\ j.files \subseteq Known(docs, versions, journals, req)
                         /\ \A o \in j.objs : o[2] \in Mine(r)
    /\ \A o \in objects : o[2] \notin Mine(r) => o \in s.objs
    /\ exempt \/ Backed(s.docs, s.objs, s.vers)

\* A write that can be made from s.
Safe(s, w, r, exempt) ==
    /\ w.do = "put" =>
          /\ IsDoc(w.doc) /\ w.doc.obj \in Mine(r) /\ \A j \in s.jobs : w.id \notin j.files
          /\ \/ exempt
             \/ w.doc.kind # "file"
             \/ w.id \in DOMAIN s.docs /\ SameFile(s.docs[w.id], w.doc)
             \/ <<w.id, w.doc.obj>> \in s.objs /\ \A v \in ToSet(s.vers) : v.obj # w.doc.obj
    /\ w.do = "version" =>
          /\ w.ver \in Version /\ w.ver.obj \in Mine(r)
          /\ \/ exempt
             \/ /\ <<w.ver.file, w.ver.obj>> \in s.objs
                /\ IsFile(s.docs, w.ver.file) => s.docs[w.ver.file].obj # w.ver.obj
    /\ w.do = "erase" => \A o \in w.of : o[2] \in Mine(r) /\ (exempt \/ ~Needed(s, o))
    /\ w.do = "push" =>
          /\ w.journal.files \cap DOMAIN s.docs = {}
          /\ w.journal.files \subseteq Known(docs, versions, journals, req)
          /\ \A o \in w.journal.objs : o[2] \in Mine(r)

\* What Sound says of the documents, for documents that replace those of s.
LEMMA SoundDocs ==
    ASSUME NEW s, IsState(s), NEW r, NEW exempt, Sound(s, r, exempt), NEW D, NEW t, IsState(t),
           t.docs = D, t.objs = s.objs, t.vers = s.vers, t.jobs = s.jobs,
           DOMAIN D \subseteq DOMAIN s.docs,
           \A x \in DOMAIN D : IsDoc(D[x]) /\ SameFile(s.docs[x], D[x])
    PROVE  Sound(t, r, exempt)
<1>1. \A x \in DOMAIN D : D[x].obj = s.docs[x].obj /\ D[x].kind = s.docs[x].kind /\ x \in DOMAIN s.docs
  BY DEF SameFile
<1>2. \A x \in DOMAIN D : IsDoc(D[x]) /\ D[x].obj \in Mine(r)
  BY <1>1 DEF Sound
<1>3. \A j \in t.jobs : /\ j.files \cap DOMAIN D = {}
                        /\ j.files \subseteq Known(docs, versions, journals, req)
                        /\ \A o \in j.objs : o[2] \in Mine(r)
  BY DEF Sound
<1>4. Backed(s.docs, s.objs, s.vers) => Backed(D, s.objs, s.vers)
  BY <1>1 DEF Backed, IsFile
<1>5. QED
  BY <1>2, <1>3, <1>4 DEF Sound

\* Writes that change the documents without replacing any.
LEMMA TrashedFile ==
    ASSUME NEW D, \A x \in DOMAIN D : IsDoc(D[x]), NEW id, NEW trashed,
           NEW E, E = WithTrashed(D, id, trashed)
    PROVE  DOMAIN E = DOMAIN D /\ \A x \in DOMAIN E : IsDoc(E[x]) /\ SameFile(D[x], E[x])
<1>1. PICK S : S = Under(D, id)
  OBVIOUS
<1>2. E = [x \in DOMAIN D |-> IF x \in S /\ D[x].kind = "file" /\ D[x].trashed # trashed
                              THEN [D[x] EXCEPT !.trashed = trashed, !.rev = @ + 1] ELSE D[x]]
  BY <1>1 DEF WithTrashed
<1>3. ASSUME NEW x \in DOMAIN D PROVE IsDoc(E[x]) /\ SameFile(D[x], E[x])
  <2>1. PICK d : d = D[x]
    OBVIOUS
  <2>2. IsDoc(d)
    BY <2>1
  <2>3. PICK e : e = [d EXCEPT !.trashed = trashed, !.rev = @ + 1]
    OBVIOUS
  <2>4. IsDoc(e) /\ SameFile(d, e)
    BY <2>2, <2>3 DEF IsDoc, SameFile
  <2>5. E[x] = d \/ E[x] = e
    BY <1>2, <2>1, <2>3
  <2>6. SameFile(d, d)
    BY DEF SameFile
  <2>7. QED
    BY <2>1, <2>2, <2>4, <2>5, <2>6
<1>4. QED
  BY <1>2, <1>3

LEMMA MovedFile ==
    ASSUME NEW D, \A x \in DOMAIN D : IsDoc(D[x]), NEW from, NEW to,
           NEW E, E = Moved(D, from, to)
    PROVE  DOMAIN E = DOMAIN D /\ \A x \in DOMAIN E : IsDoc(E[x]) /\ SameFile(D[x], E[x])
<1>1. E = [x \in DOMAIN D |->
              IF D[x].kind = "dir" /\ IsStrictPrefix(from, D[x].path)
              THEN [D[x] EXCEPT !.path = to \o SubSeq(@, Len(from) + 1, Len(@)), !.rev = @ + 1]
              ELSE D[x]]
  BY Zenon DEF Moved
<1>2. ASSUME NEW x \in DOMAIN D PROVE IsDoc(E[x]) /\ SameFile(D[x], E[x])
  <2>1. PICK d : d = D[x]
    OBVIOUS
  <2>2. IsDoc(d)
    BY <2>1
  <2>3. PICK p : p = to \o SubSeq(d.path, Len(from) + 1, Len(d.path))
    OBVIOUS
  <2>4. PICK e : e = [d EXCEPT !.path = p, !.rev = @ + 1]
    OBVIOUS
  <2>5. IsDoc(e) /\ SameFile(d, e)
    BY <2>2, <2>4 DEF IsDoc, SameFile
  <2>6. E[x] = d \/ E[x] = e
    BY <1>1, <2>1, <2>3, <2>4
  <2>7. SameFile(d, d)
    BY DEF SameFile
  <2>8. QED
    BY <2>1, <2>2, <2>5, <2>6, <2>7
<1>3. QED
  BY <1>1, <1>2

LEMMA SafePut ==
    ASSUME NEW s, IsState(s), NEW r, NEW exempt, Sound(s, r, exempt), NEW id, NEW doc,
           NEW w, w.do = "put", w.id = id, w.doc = doc, Safe(s, w, r, exempt),
           NEW t, IsState(t), t.docs = PutIn(s.docs, id, doc), SameStore(s, t)
    PROVE  Sound(t, r, exempt)
<1>1. t.objs = s.objs /\ t.vers = s.vers /\ t.jobs = s.jobs
  BY DEF SameStore
<1>2. PICK D, E : D = s.docs /\ E = t.docs
  OBVIOUS
<1>3. /\ DOMAIN E = DOMAIN D \cup {id} /\ E[id] = doc
      /\ \A x \in DOMAIN D \ {id} : E[x] = D[x]
  BY <1>2 DEF PutIn
<1>4. /\ IsDoc(doc) /\ doc.obj \in Mine(r) /\ \A j \in s.jobs : id \notin j.files
      /\ \/ exempt
         \/ doc.kind # "file"
         \/ id \in DOMAIN D /\ SameFile(D[id], doc)
         \/ <<id, doc.obj>> \in s.objs /\ \A v \in ToSet(s.vers) : v.obj # doc.obj
  BY <1>2, Zenon DEF Safe
<1>5. \A x \in DOMAIN E : IsDoc(E[x]) /\ E[x].obj \in Mine(r)
  BY <1>2, <1>3, <1>4 DEF Sound
<1>6. \A j \in s.jobs : j.files \cap DOMAIN E = {}
  BY <1>2, <1>3, <1>4 DEF Sound
<1>7. ASSUME ~exempt PROVE Backed(E, s.objs, s.vers)
  <2>1. Backed(D, s.objs, s.vers)
    BY <1>2, <1>7 DEF Sound
  <2>2. CASE doc.kind # "file"
    BY <1>3, <2>1, <2>2 DEF Backed, IsFile
  <2>3. CASE id \in DOMAIN D /\ SameFile(D[id], doc)
    <3>1. DOMAIN E = DOMAIN D /\ \A x \in DOMAIN D : E[x].kind = D[x].kind /\ E[x].obj = D[x].obj
      BY <1>3, <2>3 DEF SameFile
    <3>2. QED
      BY <2>1, <3>1 DEF Backed, IsFile
  <2>4. CASE <<id, doc.obj>> \in s.objs /\ \A v \in ToSet(s.vers) : v.obj # doc.obj
    BY <1>3, <2>1, <2>4 DEF Backed, IsFile
  <2>5. QED
    BY <1>4, <1>7, <2>2, <2>3, <2>4
<1>8. QED
  BY <1>1, <1>2, <1>5, <1>6, <1>7 DEF Sound

LEMMA SafeStore ==
    ASSUME NEW s, IsState(s), NEW r, NEW exempt, Sound(s, r, exempt), NEW O,
           NEW t, IsState(t), t.docs = s.docs, t.objs = O, t.vers = s.vers, t.jobs = s.jobs,
           \A o \in s.objs : o[2] \notin Mine(r) \/ (~exempt /\ Needed(s, o)) => o \in O
    PROVE  Sound(t, r, exempt)
<1>1. \A o \in objects : o[2] \notin Mine(r) => o \in O
  BY DEF Sound
<1>2. ASSUME ~exempt PROVE Backed(s.docs, O, s.vers)
  <2>1. Backed(s.docs, s.objs, s.vers)
    BY <1>2 DEF Sound
  <2>2. ASSUME NEW x \in DOMAIN s.docs, s.docs[x].kind = "file" PROVE <<x, s.docs[x].obj>> \in O
    <3>1. PICK o : o = <<x, s.docs[x].obj>>
      OBVIOUS
    <3>2. o \in s.objs
      BY <2>1, <2>2, <3>1 DEF Backed
    <3>3. Needed(s, o)
      BY <2>2, <3>1, Zenon DEF Needed
    <3>4. QED
      BY <1>2, <3>1, <3>2, <3>3
  <2>3. ASSUME NEW v \in ToSet(s.vers) PROVE <<v.file, v.obj>> \in O
    <3>1. PICK o : o = <<v.file, v.obj>>
      OBVIOUS
    <3>2. o \in s.objs
      BY <2>1, <2>3, <3>1 DEF Backed
    <3>3. Needed(s, o)
      BY <2>3, <3>1, Zenon DEF Needed
    <3>4. QED
      BY <1>2, <3>1, <3>2, <3>3
  <2>4. QED
    BY <2>1, <2>2, <2>3 DEF Backed
<1>3. QED
  BY <1>1, <1>2 DEF Sound

LEMMA SafeUnversion ==
    ASSUME NEW s, IsState(s), NEW r, NEW exempt, Sound(s, r, exempt), NEW keep,
           NEW t, IsState(t), t.docs = s.docs, t.objs = s.objs, t.vers = Only(s.vers, keep), t.jobs = s.jobs
    PROVE  Sound(t, r, exempt)
<1>1. s.vers \in Seq(Version) /\ Distinct(s.vers) /\ \A v \in ToSet(s.vers) : v.obj \in Mine(r)
  BY DEF Sound
<1>2. t.vers \in Seq(Version) /\ Distinct(t.vers) /\ ToSet(t.vers) \subseteq ToSet(s.vers)
  BY <1>1, OnlyElements
<1>3. \A v \in ToSet(t.vers) : v.obj \in Mine(r)
  BY <1>1, <1>2
<1>4. Backed(s.docs, s.objs, s.vers) => Backed(s.docs, s.objs, t.vers)
  BY <1>2 DEF Backed
<1>5. QED
  BY <1>2, <1>3, <1>4 DEF Sound

LEMMA AppendVersion ==
    ASSUME NEW vs \in Seq(Version), NEW v \in Version, NEW us, us = Append(vs, v)
    PROVE  /\ us \in Seq(Version) /\ ToSet(us) = ToSet(vs) \cup {v}
           /\ Distinct(vs) /\ ~HasObject(vs, v) => Distinct(us)
<1>1. /\ us \in Seq(Version) /\ DOMAIN us = 1 .. Len(vs) + 1 /\ DOMAIN vs = 1 .. Len(vs)
      /\ us[Len(vs) + 1] = v /\ \A i \in 1 .. Len(vs) : us[i] = vs[i]
  OBVIOUS
<1>2. ToSet(us) = ToSet(vs) \cup {v}
  <2>1. ToSet(us) = {us[i] : i \in 1 .. Len(vs) + 1} /\ ToSet(vs) = {vs[i] : i \in 1 .. Len(vs)}
    BY <1>1 DEF ToSet
  <2>2. 1 .. Len(vs) + 1 = (1 .. Len(vs)) \cup {Len(vs) + 1}
    OBVIOUS
  <2>3. QED
    BY <1>1, <2>1, <2>2
<1>3. ASSUME Distinct(vs), ~HasObject(vs, v) PROVE Distinct(us)
  <2>1. SUFFICES ASSUME NEW i \in DOMAIN us, NEW j \in DOMAIN us,
                        us[i].file = us[j].file /\ us[i].obj = us[j].obj
                 PROVE  i = j
    BY DEF Distinct
  <2>2. i \in DOMAIN vs \/ i = Len(vs) + 1
    BY <1>1
  <2>3. j \in DOMAIN vs \/ j = Len(vs) + 1
    BY <1>1
  <2>4. \A k \in DOMAIN vs : us[k] = vs[k] /\ ~(vs[k].file = v.file /\ vs[k].obj = v.obj)
    BY <1>1, <1>3 DEF HasObject
  <2>5. QED
    BY <1>1, <1>3, <2>1, <2>2, <2>3, <2>4 DEF Distinct
<1>4. QED
  BY <1>1, <1>2, <1>3

LEMMA SafeVersion ==
    ASSUME NEW s, IsState(s), NEW r, NEW exempt, Sound(s, r, exempt), NEW v,
           NEW w, w.do = "version", w.ver = v, Safe(s, w, r, exempt), ~HasObject(s.vers, v),
           NEW t, IsState(t), t.docs = s.docs, t.objs = s.objs, t.vers = Append(s.vers, v), t.jobs = s.jobs
    PROVE  Sound(t, r, exempt)
<1>1. s.vers \in Seq(Version) /\ Distinct(s.vers) /\ \A u \in ToSet(s.vers) : u.obj \in Mine(r)
  BY DEF Sound
<1>2. /\ v \in Version /\ v.obj \in Mine(r)
      /\ \/ exempt
         \/ /\ <<v.file, v.obj>> \in s.objs
            /\ IsFile(s.docs, v.file) => s.docs[v.file].obj # v.obj
  BY DEF Safe
<1>3. t.vers \in Seq(Version) /\ ToSet(t.vers) = ToSet(s.vers) \cup {v} /\ Distinct(t.vers)
  BY <1>1, <1>2, AppendVersion
<1>4. \A u \in ToSet(t.vers) : u.obj \in Mine(r)
  BY <1>1, <1>2, <1>3
<1>5. ASSUME ~exempt PROVE Backed(s.docs, s.objs, t.vers)
  BY <1>2, <1>3, <1>5 DEF Sound, Backed
<1>6. QED
  BY <1>3, <1>4, <1>5 DEF Sound

\* A safe write that is not refused keeps the contents.
LEMMA SafeWritten ==
    ASSUME NEW s, IsState(s), NEW r, NEW exempt, Sound(s, r, exempt),
           NEW w, Safe(s, w, r, exempt), ~Refused(s, w)
    PROVE  Sound(Written(s, w), r, exempt)
<1>1. PICK t : t = Written(s, w)
  OBVIOUS
<1>2. IsState(t)
  BY <1>1, WrittenState
<1>3. CASE w.do = "put"
  <2>1. PICK id, doc : id = w.id /\ doc = w.doc
    OBVIOUS
  <2>2. t = [s EXCEPT !.docs = PutIn(s.docs, id, doc)]
    BY <1>1, <1>3, <2>1 DEF Written, PutIn
  <2>3. t.docs = PutIn(s.docs, id, doc) /\ SameStore(s, t)
    BY <2>2 DEF IsState, SameStore
  <2>4. QED
    BY <1>1, <1>2, <1>3, <2>1, <2>3, SafePut
<1>4. CASE w.do \in {"delete", "batch"}
  <2>1. PICK gone : t = [s EXCEPT !.docs = Without(s.docs, gone)]
    BY <1>1, <1>4 DEF Written
  <2>2. PICK D : D = Without(s.docs, gone)
    OBVIOUS
  <2>3. t.docs = D /\ t.objs = s.objs /\ t.vers = s.vers /\ t.jobs = s.jobs
    BY <2>1, <2>2 DEF IsState
  <2>4. DOMAIN D \subseteq DOMAIN s.docs /\ \A x \in DOMAIN D : D[x] = s.docs[x]
    BY <2>2 DEF Without
  <2>5. \A x \in DOMAIN D : IsDoc(D[x]) /\ SameFile(s.docs[x], D[x])
    BY <2>4 DEF Sound, SameFile
  <2>6. QED
    BY <1>1, <1>2, <2>3, <2>4, <2>5, SoundDocs
<1>5. CASE w.do \in {"set", "move"}
  <2>1. \A x \in DOMAIN s.docs : IsDoc(s.docs[x])
    BY DEF Sound
  <2>2. PICK D : /\ t = [s EXCEPT !.docs = D]
                 /\ DOMAIN D = DOMAIN s.docs
                 /\ \A x \in DOMAIN D : IsDoc(D[x]) /\ SameFile(s.docs[x], D[x])
    <3>1. CASE w.do = "set"
      <4>1. t = [s EXCEPT !.docs = WithTrashed(s.docs, w.id, w.trashed)]
        BY <1>1, <3>1 DEF Written
      <4>2. QED
        BY <2>1, <4>1, TrashedFile
    <3>2. CASE w.do = "move"
      <4>1. t = [s EXCEPT !.docs = Moved(s.docs, w.from, w.to)]
        BY <1>1, <3>2 DEF Written
      <4>2. QED
        BY <2>1, <4>1, MovedFile
    <3>3. QED
      BY <1>5, <3>1, <3>2
  <2>3. t.docs = D /\ t.objs = s.objs /\ t.vers = s.vers /\ t.jobs = s.jobs
    BY <2>2 DEF IsState
  <2>4. DOMAIN D \subseteq DOMAIN s.docs /\ \A x \in DOMAIN D : IsDoc(D[x]) /\ SameFile(s.docs[x], D[x])
    BY <2>2
  <2>5. QED
    BY <1>1, <1>2, <2>3, <2>4, SoundDocs
<1>6. CASE w.do = "store"
  <2>1. PICK O : O = s.objs \cup {w.obj}
    OBVIOUS
  <2>2. t = [s EXCEPT !.objs = O]
    BY <1>1, <1>6, <2>1 DEF Written
  <2>3. t.docs = s.docs /\ t.objs = O /\ t.vers = s.vers /\ t.jobs = s.jobs
    BY <2>2 DEF IsState
  <2>4. QED
    BY <1>1, <1>2, <2>1, <2>3, SafeStore
<1>7. CASE w.do = "erase"
  <2>1. PICK O : O = s.objs \ w.of
    OBVIOUS
  <2>2. t = [s EXCEPT !.objs = O]
    BY <1>1, <1>7, <2>1 DEF Written
  <2>3. t.docs = s.docs /\ t.objs = O /\ t.vers = s.vers /\ t.jobs = s.jobs
    BY <2>2 DEF IsState
  <2>4. \A o \in s.objs : o[2] \notin Mine(r) \/ (~exempt /\ Needed(s, o)) => o \in O
    BY <1>7, <2>1 DEF Safe
  <2>5. QED
    BY <1>1, <1>2, <2>3, <2>4, SafeStore
<1>8. CASE w.do = "version"
  <2>1. PICK v : v = w.ver
    OBVIOUS
  <2>2. t = [s EXCEPT !.vers = Append(s.vers, v)]
    BY <1>1, <1>8, <2>1 DEF Written
  <2>3. t.docs = s.docs /\ t.objs = s.objs /\ t.vers = Append(s.vers, v) /\ t.jobs = s.jobs
    BY <2>2 DEF IsState
  <2>4. ~HasObject(s.vers, v)
    BY <1>8, <2>1 DEF Refused, HasObject
  <2>5. QED
    BY <1>1, <1>2, <1>8, <2>1, <2>3, <2>4, SafeVersion
<1>9. CASE w.do \in {"unversion", "unversions"}
  <2>1. PICK keep : t = [s EXCEPT !.vers = Only(s.vers, keep)]
    BY <1>1, <1>9 DEF Written
  <2>2. t.docs = s.docs /\ t.objs = s.objs /\ t.vers = Only(s.vers, keep) /\ t.jobs = s.jobs
    BY <2>1 DEF IsState
  <2>3. QED
    BY <1>1, <1>2, <2>2, SafeUnversion
<1>10. CASE w.do = "push"
  <2>1. PICK js : js = s.jobs \cup {w.journal}
    OBVIOUS
  <2>2. t = [s EXCEPT !.jobs = js]
    BY <1>1, <1>10, <2>1 DEF Written
  <2>3. t.docs = s.docs /\ t.objs = s.objs /\ t.vers = s.vers /\ t.jobs = js
    BY <2>2 DEF IsState
  <2>4. \A j \in js : /\ j.files \cap DOMAIN s.docs = {}
                      /\ j.files \subseteq Known(docs, versions, journals, req)
                      /\ \A o \in j.objs : o[2] \in Mine(r)
    BY <1>10, <2>1 DEF Safe, Sound
  <2>5. Sound(t, r, exempt)
    BY <2>3, <2>4 DEF Sound
  <2>6. QED
    BY <1>1, <2>5
<1>11. CASE w.do \notin {"put", "delete", "batch", "set", "move", "store", "erase", "version",
                         "unversion", "unversions", "push"}
  <2>1. Written(s, w) = s
    BY <1>11 DEF Written
  <2>2. QED
    BY <2>1
<1>12. QED
  BY <1>3, <1>4, <1>5, <1>6, <1>7, <1>8, <1>9, <1>10, <1>11

\* The writes of a section are safe, each in its turn.
AllSafe(f, N, writes, r, exempt) ==
    \A n \in 1 .. N : f[n - 1].ok /\ ~Refused(f[n - 1], writes[n]) /\ Sound(f[n - 1], r, exempt)
                      => Safe(f[n - 1], writes[n], r, exempt)

\* The states of a section of safe writes.
LEMMA SoundTrace ==
    ASSUME NEW r, NEW exempt, Sound(Now, r, exempt), NEW N \in Nat, NEW writes, NEW f,
           Trace(f, N, writes), AllSafe(f, N, writes, r, exempt)
    PROVE  \A n \in 0 .. N : Sound(f[n], r, exempt)
<1>1. PICK T : T = {n \in 0 .. N : Sound(f[n], r, exempt)}
  OBVIOUS
<1>2. 0 \in T
  BY <1>1 DEF Trace
<1>3. \A n \in 0 .. N : IsState(f[n])
  BY TraceState
<1>4. \A n \in 0 .. N - 1 : n \in T => n + 1 \in T
  <2>1. SUFFICES ASSUME NEW n \in 0 .. N - 1, n \in T PROVE n + 1 \in T
    OBVIOUS
  <2>2. n + 1 \in 1 .. N /\ (n + 1) - 1 = n /\ n + 1 \in 0 .. N /\ n \in 0 .. N
    OBVIOUS
  <2>3. PICK s, w, t : s = f[n] /\ w = writes[n + 1] /\ t = f[n + 1]
    OBVIOUS
  <2>4. t = Step(s, w)
    BY <2>2, <2>3 DEF Trace
  <2>5. IsState(s) /\ Sound(s, r, exempt)
    BY <1>1, <1>3, <2>1, <2>2, <2>3
  <2>6. Sound(t, r, exempt)
    <3>1. CASE ~s.ok
      BY <2>4, <2>5, <3>1, StepStopped
    <3>2. CASE s.ok /\ Refused(s, w)
      <4>1. t = [s EXCEPT !.ok = FALSE]
        BY <2>4, <3>2 DEF Step
      <4>2. t.docs = s.docs /\ t.objs = s.objs /\ t.vers = s.vers /\ t.jobs = s.jobs
        BY <2>5, <4>1 DEF IsState
      <4>3. QED
        BY <2>5, <4>2 DEF Sound
    <3>3. CASE s.ok /\ ~Refused(s, w)
      <4>1. t = Written(s, w)
        BY <2>4, <3>3 DEF Step
      <4>2. Safe(s, w, r, exempt)
        BY <2>2, <2>3, <2>5, <3>3 DEF AllSafe
      <4>3. QED
        BY <2>5, <3>3, <4>1, <4>2, SafeWritten
    <3>4. QED
      BY <3>1, <3>2, <3>3
  <2>7. QED
    BY <1>1, <2>2, <2>3, <2>6
<1>5. 0 .. N \subseteq T
  BY <1>2, <1>4, BoundedInduction
<1>6. QED
  BY <1>1, <1>5

LEMMA MineParts ==
    ASSUME NEW r
    PROVE  /\ \A x \in DOMAIN docs : docs[x].obj \in Mine(r)
           /\ \A v \in ToSet(versions) : v.obj \in Mine(r)
           /\ \A j \in journals : \A o \in j.objs : o[2] \in Mine(r)
           /\ \A x \in Request : HasSnap(req[x]) => req[x].snap.obj \in Mine(r)
           /\ \A x \in Request : req[x].op \in {"revert", "cleanversion"} => req[x].ver.obj \in Mine(r)
           /\ r \in Mine(r) /\ None \in Mine(r)
<1>1. PICK N : N = Used(docs, versions, journals, req)
  OBVIOUS
<1>2. /\ \A x \in DOMAIN docs : docs[x].obj \in N
      /\ \A v \in ToSet(versions) : v.obj \in N
      /\ \A j \in journals : \A o \in j.objs : o[2] \in N
      /\ \A x \in Request : HasSnap(req[x]) => req[x].snap.obj \in N
      /\ \A x \in Request : req[x].op \in {"revert", "cleanversion"} => req[x].ver.obj \in N
  BY <1>1, UsedParts
<1>3. N \subseteq Mine(r) /\ r \in Mine(r) /\ None \in Mine(r)
  BY <1>1 DEF Mine
<1>4. QED
  BY <1>2, <1>3

LEMMA NowSound ==
    ASSUME VInv, CInv, NEW r PROVE Sound(Now, r, midway)
<1>1. DocsOK(docs) /\ versions \in Seq(Version)
  BY DEF VInv, StoreOK
<1>2. \A x \in DOMAIN docs : IsDoc(docs[x]) /\ docs[x].obj \in Mine(r)
  BY <1>1, DocRev, MineParts
<1>3. Distinct(versions) /\ \A v \in ToSet(versions) : v.obj \in Mine(r)
  BY MineParts DEF CInv
<1>4. ASSUME NEW j \in journals
      PROVE  /\ j.files \cap DOMAIN docs = {}
             /\ j.files \subseteq Known(docs, versions, journals, req)
             /\ \A o \in j.objs : o[2] \in Mine(r)
  <2>1. UNION {i.files : i \in journals} \subseteq Known(docs, versions, journals, req)
    BY KnownParts
  <2>2. QED
    BY <2>1, MineParts DEF CInv
<1>5. midway \/ Backed(docs, objects, versions)
  BY DEF CInv
<1>6. /\ Now.docs = docs /\ Now.objs = objects /\ Now.vers = versions /\ Now.jobs = journals
  BY NowIsState
<1>7. QED
  BY <1>1, <1>2, <1>3, <1>4, <1>5, <1>6 DEF Sound

\* The request r is at q after its section.
Leaves(r, q) ==
    /\ req' = [req EXCEPT ![r] = q] /\ q.op \notin Pending \cup {"revert", "cleanversion"}
    /\ HasSnap(q) => q.snap.obj \in Mine(r)

LEMMA OverLeaves == ASSUME NEW r, req' = [req EXCEPT ![r] = Over] PROVE Leaves(r, Over)
<1>1. Over.op = "over" /\ Over.snap = NoDoc
  BY DEF Over, Reading
<1>2. QED
  BY <1>1 DEF Leaves, HasSnap, NoDoc, Pending

\* A section of r that has ended with s.
LEMMA Settles ==
    ASSUME VInv, CInv, NEW r \in Request, NEW s, NEW exempt, Sound(s, r, exempt), Holds(s),
           midway' \/ Backed(s.docs, s.objs, s.vers), NEW q, Leaves(r, q)
    PROVE  CInv'
<1>1. docs' = s.docs /\ objects' = s.objs /\ versions' = s.vers /\ journals' = s.jobs
  BY DEF Holds
<1>2. PICK U, G : G = {r, None} /\ U = Used(docs, versions, journals, req) \cup G /\ U = Mine(r)
  BY DEF Mine
<1>3. /\ Distinct(versions') /\ \A j \in journals' : j.files \cap DOMAIN docs' = {}
      /\ \A x \in DOMAIN docs' : docs'[x].obj \in U
      /\ \A v \in ToSet(versions') : v.obj \in U
      /\ \A j \in journals' : \A o \in j.objs : o[2] \in U
      /\ \A o \in objects : o[2] \notin U => o \in objects'
  BY <1>1, <1>2 DEF Sound
<1>4. midway' \/ Backed(docs', objects', versions')
  BY <1>1
<1>5. /\ req' = [req EXCEPT ![r] = q] /\ (HasSnap(q) => q.snap.obj \in U)
      /\ q.op \notin Pending /\ q.op # "stored" /\ q.op \notin {"revert", "cleanversion"}
  BY <1>2 DEF Leaves, Pending
<1>6. QED
  BY <1>2, <1>3, <1>4, <1>5, Carry

\* The writes of a section of r and its undo are safe.
SafeWrites(f, N, writes, undo, r) ==
    /\ AllSafe(f, N, writes, r, midway)
    /\ undo.do \in {"check", "erase", "unversions"}
    /\ ~f[N].ok /\ Sound(f[N], r, midway) => Safe(f[N], undo, r, midway)

LEMMA SoundOutcome ==
    ASSUME VInv, CInv, NEW r \in Request, NEW writes, NEW undo, NEW N \in Nat, NEW f, NEW s,
           Outcome(f, N, writes, undo, s), Holds(s), SafeWrites(f, N, writes, undo, r),
           midway' = midway, NEW q, Leaves(r, q)
    PROVE  CInv'
<1>0. /\ AllSafe(f, N, writes, r, midway)
      /\ undo.do \in {"check", "erase", "unversions"}
      /\ ~f[N].ok /\ Sound(f[N], r, midway) => Safe(f[N], undo, r, midway)
  BY DEF SafeWrites
<1>1. Trace(f, N, writes) /\ (s = f[N] \/ (~f[N].ok /\ s = Written(f[N], undo)))
  BY DEF Outcome
<1>2. Sound(Now, r, midway)
  BY NowSound
<1>3. N \in 0 .. N
  OBVIOUS
<1>4. Sound(f[N], r, midway) /\ IsState(f[N])
  BY <1>0, <1>1, <1>2, <1>3, SoundTrace, TraceState
<1>5. Sound(s, r, midway)
  <2>1. CASE s = f[N]
    BY <1>4, <2>1
  <2>2. CASE ~f[N].ok /\ s = Written(f[N], undo)
    <3>1. PICK e : e = f[N]
      OBVIOUS
    <3>2. IsState(e) /\ Sound(e, r, midway) /\ Safe(e, undo, r, midway) /\ s = Written(e, undo)
      BY <1>0, <1>4, <2>2, <3>1
    <3>3. CASE undo.do = "check"
      <4>1. Written(e, undo) = e
        BY <3>3 DEF Written
      <4>2. QED
        BY <3>2, <4>1
    <3>4. CASE undo.do \in {"erase", "unversions"}
      <4>1. ~Refused(e, undo)
        BY <3>4 DEF Refused
      <4>2. QED
        BY <3>2, <4>1, SafeWritten
    <3>5. QED
      BY <1>0, <3>3, <3>4
  <2>3. QED
    BY <1>1, <2>1, <2>2
<1>6. midway' \/ Backed(s.docs, s.objs, s.vers)
  BY <1>5 DEF Sound
<1>7. QED
  BY <1>5, <1>6, Settles

\* A section that is not a revert leaves midway as it is.
LEMMA QuietSection ==
    ASSUME VInv, NEW W, NEW writes \in Seq(W), NEW undo, NEW r, Section(r, writes, undo),
           req[r].op # "revert"
    PROVE  \E N \in 0 .. Len(writes) : \E f, s :
               /\ Outcome(f, N, writes, undo, s) /\ Holds(s) /\ IsState(s)
               /\ req' = [req EXCEPT ![r] = Over] /\ midway' = midway
<1>1. Len(writes) \in Nat /\ midway \in BOOLEAN
  BY DEF VInv
<1>2. CASE Ends(r, writes, undo, Over)
  <2>1. PICK f, s : /\ Outcome(f, Len(writes), writes, undo, s) /\ Holds(s) /\ IsState(s)
                    /\ req' = [req EXCEPT ![r] = IF f[Len(writes)].ok THEN Over ELSE Over]
                    /\ cut' = cut
                    /\ midway' = (midway \/ (req[r].op = "revert" /\ f[Len(writes)].ok
                                             /\ ~HasVersion(versions, req[r].ver)))
                    /\ stale' = (stale \/ (s.docs # docs /\ Outdated(req[r])))
    BY <1>2, EndsOutcome
  <2>2. req' = [req EXCEPT ![r] = Over] /\ midway' = midway
    BY <1>1, <2>1
  <2>3. Len(writes) \in 0 .. Len(writes)
    BY <1>1
  <2>4. QED
    BY <2>1, <2>2, <2>3
<1>3. CASE Dies(r, writes)
  <2>1. PICK N \in 1 .. Len(writes) - 1 : \E f, s :
               /\ Outcome(f, N, writes, undo, s) /\ Holds(s) /\ IsState(s)
               /\ req' = [req EXCEPT ![r] = Over] /\ cut' = TRUE
               /\ midway' = (midway \/ req[r].op = "revert") /\ stale' = stale
    BY <1>3, DiesOutcome
  <2>2. N \in 0 .. Len(writes)
    BY <1>1
  <2>3. midway' = midway
    BY <1>1, <2>1
  <2>4. QED
    BY <2>1, <2>2, <2>3
<1>4. QED
  BY <1>2, <1>3 DEF Section

\* A put of the section of r that replaces what r has read by the same content, or makes
\* a directory.
LEMMA SamePutSafe ==
    ASSUME VInv, CInv, NEW r \in Request, NEW q, q = req[r], NEW N \in Nat, NEW writes, NEW f,
           Trace(f, N, writes), NEW id, NEW doc, Puts(q, r, id, doc),
           \A n \in 1 .. N : Plain(writes[n]) \/ writes[n] = Put(id, doc),
           id \in Unborn(r, q) => doc.kind = "dir",
           HasSnap(q) /\ id = q.id => SameFile(q.snap, doc),
           NEW n \in 1 .. N, writes[n] = Put(id, doc), Sound(f[n - 1], r, midway),
           ~Refused(f[n - 1], writes[n])
    PROVE  Safe(f[n - 1], writes[n], r, midway)
<1>1. PICK s, w : s = f[n - 1] /\ w = writes[n]
  OBVIOUS
<1>2. w.do = "put" /\ w.id = id /\ w.doc = doc
  BY <1>1 DEF Put
<1>3. /\ DocsOK(docs) /\ ReqOK(r, q) /\ Agrees(docs, q) /\ GoodDoc(doc) /\ id \in Id \ {Root, Trash}
  BY DEF VInv, Puts
<1>4. KeptAll(docs, s.docs) \/ PutOver(docs, id, doc, s.docs)
  <2>1. n - 1 \in 0 .. N
    OBVIOUS
  <2>2. KeptAll(docs, f[n - 1].docs) \/ PutOver(docs, id, doc, f[n - 1].docs)
    BY <1>3, <2>1, PutTrace
  <2>3. QED
    BY <1>1, <2>2
<1>5. Rev(s.docs, id) + 1 = doc.rev
  BY <1>1, <1>2 DEF Refused
<1>6. IsDoc(doc)
  BY <1>3 DEF GoodDoc
<1>7. Sound(s, r, midway)
  BY <1>1
<1>8. CASE id \in Unborn(r, q)
  <2>1. id \notin Known(docs, versions, journals, req)
    BY <1>8 DEF VInv
  <2>2. \A j \in s.jobs : id \notin j.files
    BY <1>7, <2>1 DEF Sound
  <2>3. doc.kind = "dir" /\ doc.obj = None
    BY <1>3, <1>8 DEF GoodDoc
  <2>4. doc.obj \in Mine(r)
    BY <2>3, MineParts
  <2>5. QED
    BY <1>1, <1>2, <1>6, <2>2, <2>3, <2>4 DEF Safe
<1>9. CASE HasSnap(q) /\ id = q.id /\ doc.rev = q.snap.rev + 1
  <2>1. SameFile(q.snap, doc) /\ q.snap.obj \in Mine(r)
    BY <1>9, MineParts
  <2>2. doc.obj \in Mine(r)
    BY <2>1 DEF SameFile
  <2>3. id \in DOMAIN s.docs /\ SameFile(s.docs[id], doc)
    <3>1. CASE KeptAll(docs, s.docs)
      <4>1. PutOver(docs, id, doc, PutIn(s.docs, id, doc))
        BY <1>3, <1>5, <3>1, PutAccepted
      <4>2. id \in DOMAIN docs /\ docs[id] = q.snap
        BY <1>3, <1>9, <4>1, PutIsFresh
      <4>3. id \in DOMAIN s.docs /\ KeptDoc(docs[id], s.docs[id])
        BY <3>1, <4>2 DEF KeptAll
      <4>4. QED
        BY <2>1, <4>2, <4>3 DEF KeptDoc, SameFile
    <3>2. CASE PutOver(docs, id, doc, s.docs)
      BY <3>2 DEF PutOver, KeptDoc, SameFile
    <3>3. QED
      BY <1>4, <3>1, <3>2
  <2>4. \A j \in s.jobs : id \notin j.files
    BY <1>7, <2>3 DEF Sound
  <2>5. QED
    BY <1>1, <1>2, <1>6, <2>2, <2>3, <2>4 DEF Safe
<1>10. QED
  BY <1>8, <1>9 DEF Puts

\* The writes that leave the objects and the versions.
OnDocs(w) == w.do \in {"check", "set", "move"}

\* A section that changes documents only, with the put of the same content.
OnlyDocs(N, writes, id, doc) ==
    \A n \in 1 .. N : (Plain(writes[n]) /\ OnDocs(writes[n])) \/ writes[n] = Put(id, doc)
PutsSame(q, r, id, doc) ==
    /\ Puts(q, r, id, doc)
    /\ id \in Unborn(r, q) => doc.kind = "dir"
    /\ HasSnap(q) /\ id = q.id => SameFile(q.snap, doc)

LEMMA DocsOutcome ==
    ASSUME VInv, CInv, NEW r \in Request, NEW q, q = req[r], NEW writes, NEW undo, undo.do = "check",
           NEW N \in Nat, NEW f, NEW s, Outcome(f, N, writes, undo, s), Holds(s),
           NEW id, NEW doc, PutsSame(q, r, id, doc), OnlyDocs(N, writes, id, doc),
           midway' = midway, NEW p, Leaves(r, p)
    PROVE  CInv'
<1>0. /\ Puts(q, r, id, doc)
      /\ id \in Unborn(r, q) => doc.kind = "dir"
      /\ HasSnap(q) /\ id = q.id => SameFile(q.snap, doc)
      /\ \A n \in 1 .. N : (Plain(writes[n]) /\ OnDocs(writes[n])) \/ writes[n] = Put(id, doc)
  BY DEF PutsSame, OnlyDocs
<1>1. Trace(f, N, writes)
  BY DEF Outcome
<1>2. \A n \in 1 .. N : Plain(writes[n]) \/ writes[n] = Put(id, doc)
  BY <1>0
<1>3. ASSUME NEW n \in 1 .. N, ~Refused(f[n - 1], writes[n]), Sound(f[n - 1], r, midway)
      PROVE  Safe(f[n - 1], writes[n], r, midway)
  <2>1. CASE OnDocs(writes[n])
    BY <2>1 DEF OnDocs, Safe
  <2>2. CASE writes[n] = Put(id, doc)
    BY <1>0, <1>1, <1>2, <1>3, <2>2, SamePutSafe
  <2>3. QED
    BY <1>0, <2>1, <2>2
<1>4. ~f[N].ok /\ Sound(f[N], r, midway) => Safe(f[N], undo, r, midway)
  BY DEF Safe
<1>5. undo.do \in {"check", "erase", "unversions"}
  OBVIOUS
<1>6. AllSafe(f, N, writes, r, midway)
  BY <1>3 DEF AllSafe
<1>7. SafeWrites(f, N, writes, undo, r)
  BY <1>4, <1>5, <1>6 DEF SafeWrites
<1>8. QED
  BY <1>7, SoundOutcome

\* What the write w, from s to t, changes.
Effect(s, w, t) ==
    /\ w.do \notin {"put", "delete", "batch", "set", "move"} => t.docs = s.docs
    /\ w.do \notin {"store", "erase"} => t.objs = s.objs
    /\ w.do \notin {"version", "unversion", "unversions"} => t.vers = s.vers
    /\ w.do # "push" => t.jobs = s.jobs
    /\ w.do = "put" => t.docs = PutIn(s.docs, w.id, w.doc)
    /\ w.do = "delete" => t.docs = Without(s.docs, {w.id})
    /\ w.do = "batch" =>
          t.docs = Without(s.docs, {x \in DOMAIN w.of : Rev(s.docs, x) = w.of[x].rev})
    /\ w.do = "store" => t.objs = s.objs \cup {w.obj}
    /\ w.do = "version" => t.vers = Append(s.vers, w.ver)
    /\ w.do = "unversion" => t.vers = Only(s.vers, ToSet(s.vers) \ {w.ver})
    /\ w.do = "unversions" => t.vers = Only(s.vers, ToSet(s.vers) \ w.of)

LEMMA WrittenParts ==
    ASSUME NEW s, IsState(s), NEW w, NEW t, t = Written(s, w) PROVE Effect(s, w, t)
<1> USE DEF Effect
<1>1. CASE w.do = "put"
  <2>1. PICK D : D = PutIn(s.docs, w.id, w.doc)
    OBVIOUS
  <2>2. t = [s EXCEPT !.docs = D]
    BY <1>1, <2>1 DEF Written, PutIn
  <2>3. QED
    BY <1>1, <2>1, <2>2 DEF IsState
<1>2. CASE w.do \in {"delete", "batch"}
  <2>1. PICK D : D = Without(s.docs, IF w.do = "delete" THEN {w.id}
                                     ELSE {x \in DOMAIN w.of : Rev(s.docs, x) = w.of[x].rev})
    OBVIOUS
  <2>2. t = [s EXCEPT !.docs = D]
    BY <1>2, <2>1 DEF Written
  <2>3. QED
    BY <1>2, <2>1, <2>2 DEF IsState
<1>3. CASE w.do \in {"set", "move"}
  <2>1. PICK D : t = [s EXCEPT !.docs = D]
    BY <1>3 DEF Written
  <2>2. QED
    BY <1>3, <2>1 DEF IsState
<1>4. CASE w.do \in {"store", "erase"}
  <2>1. PICK O : t = [s EXCEPT !.objs = O] /\ (w.do = "store" => O = s.objs \cup {w.obj})
    BY <1>4 DEF Written
  <2>2. QED
    BY <1>4, <2>1 DEF IsState
<1>5. CASE w.do = "version"
  <2>1. PICK V : V = Append(s.vers, w.ver)
    OBVIOUS
  <2>2. t = [s EXCEPT !.vers = V]
    BY <1>5, <2>1 DEF Written
  <2>3. QED
    BY <1>5, <2>1, <2>2 DEF IsState
<1>6. CASE w.do \in {"unversion", "unversions"}
  <2>1. PICK V : V = Only(s.vers, ToSet(s.vers) \ (IF w.do = "unversion" THEN {w.ver} ELSE w.of))
    OBVIOUS
  <2>2. t = [s EXCEPT !.vers = V]
    BY <1>6, <2>1 DEF Written
  <2>3. QED
    BY <1>6, <2>1, <2>2 DEF IsState
<1>7. CASE w.do = "push"
  <2>1. PICK J : t = [s EXCEPT !.jobs = J]
    BY <1>7 DEF Written
  <2>2. QED
    BY <1>7, <2>1 DEF IsState
<1>8. CASE w.do \notin {"put", "delete", "batch", "set", "move", "store", "erase", "version",
                        "unversion", "unversions", "push"}
  <2>1. t = s
    BY <1>8 DEF Written
  <2>2. QED
    BY <1>8, <2>1
<1>9. QED
  BY <1>1, <1>2, <1>3, <1>4, <1>5, <1>6, <1>7, <1>8

\* A section goes on as long as its writes are accepted.
LEMMA TraceStep ==
    ASSUME NEW N \in Nat, NEW writes, NEW f, Trace(f, N, writes), NEW n \in 1 .. N,
           NEW s, s = f[n - 1], NEW t, t = f[n], NEW w, w = writes[n]
    PROVE  /\ IsState(s) /\ IsState(t)
           /\ (t.ok <=> s.ok /\ ~Refused(s, w))
           /\ t.ok => t = Written(s, w) /\ Effect(s, w, t)
           /\ ~s.ok => t = s
           /\ ~t.ok => t.docs = s.docs /\ SameStore(s, t)
<1>1. n - 1 \in 0 .. N /\ n \in 0 .. N
  OBVIOUS
<1>2. IsState(s) /\ IsState(t)
  BY <1>1, TraceState
<1>3. t = Step(s, w)
  BY DEF Trace
<1>4. CASE ~s.ok
  BY <1>2, <1>3, <1>4, StepStopped DEF SameStore
<1>5. CASE s.ok /\ Refused(s, w)
  <2>1. t = [s EXCEPT !.ok = FALSE]
    BY <1>3, <1>5 DEF Step
  <2>2. QED
    BY <1>2, <1>5, <2>1 DEF IsState, SameStore
<1>6. CASE s.ok /\ ~Refused(s, w)
  <2>1. t = Written(s, w)
    BY <1>3, <1>6 DEF Step
  <2>2. t.ok = s.ok
    BY <1>2, <2>1, WrittenState
  <2>3. Effect(s, w, t)
    BY <1>2, <2>1, WrittenParts
  <2>4. QED
    BY <1>2, <1>6, <2>1, <2>2, <2>3
<1>7. QED
  BY <1>4, <1>5, <1>6

\* Once a write was refused, nothing changes.
LEMMA Stays ==
    ASSUME NEW N \in Nat, NEW writes, NEW f, Trace(f, N, writes), NEW m \in 0 .. N, ~f[m].ok
    PROVE  \A n \in m .. N : f[n] = f[m]
<1>1. PICK T : T = {n \in 0 .. N : n >= m => f[n] = f[m]}
  OBVIOUS
<1>2. 0 \in T
  BY <1>1
<1>3. \A n \in 0 .. N - 1 : n \in T => n + 1 \in T
  <2>1. SUFFICES ASSUME NEW n \in 0 .. N - 1, n \in T PROVE n + 1 \in T
    OBVIOUS
  <2>2. n + 1 \in 1 .. N /\ (n + 1) - 1 = n /\ n + 1 \in 0 .. N
    OBVIOUS
  <2>3. CASE n + 1 <= m
    BY <1>1, <2>2, <2>3
  <2>4. CASE n >= m
    <3>1. f[n] = f[m]
      BY <1>1, <2>1, <2>4
    <3>2. f[n + 1] = Step(f[n], writes[n + 1])
      BY <2>2 DEF Trace
    <3>3. f[n + 1] = f[n]
      BY <3>1, <3>2, StepStopped
    <3>4. QED
      BY <1>1, <2>2, <3>1, <3>3
  <2>5. QED
    BY <2>3, <2>4
<1>4. 0 .. N \subseteq T
  BY <1>2, <1>3, BoundedInduction
<1>5. QED
  BY <1>1, <1>4

\* The checks and the copies of contents that come before the put, at the place p.
LEMMA UntilPut ==
    ASSUME NEW N \in Nat, NEW writes, NEW f, Trace(f, N, writes), NEW p \in Nat,
           \A n \in 1 .. N : n < p => writes[n].do \in {"check", "store"}
    PROVE  \A n \in 0 .. N : n < p => /\ f[n].docs = docs /\ f[n].vers = versions
                                      /\ f[n].jobs = journals /\ objects \subseteq f[n].objs
<1>1. PICK T : T = {n \in 0 .. N : n < p => /\ f[n].docs = docs /\ f[n].vers = versions
                                            /\ f[n].jobs = journals /\ objects \subseteq f[n].objs}
  OBVIOUS
<1>2. 0 \in T
  BY <1>1, NowIsState DEF Trace
<1>3. \A n \in 0 .. N - 1 : n \in T => n + 1 \in T
  <2>1. SUFFICES ASSUME NEW n \in 0 .. N - 1, n \in T, n + 1 < p PROVE n + 1 \in T
    BY <1>1
  <2>2. n + 1 \in 1 .. N /\ (n + 1) - 1 = n /\ n + 1 \in 0 .. N /\ n < p
    BY <2>1
  <2>3. PICK s, t, w : s = f[n] /\ t = f[n + 1] /\ w = writes[n + 1]
    OBVIOUS
  <2>4. s.docs = docs /\ s.vers = versions /\ s.jobs = journals /\ objects \subseteq s.objs
    BY <1>1, <2>1, <2>2, <2>3
  <2>5. w.do \in {"check", "store"}
    BY <2>1, <2>2, <2>3
  <2>6. /\ t.ok => Effect(s, w, t)
        /\ ~t.ok => t.docs = s.docs /\ SameStore(s, t)
    BY <2>2, <2>3, TraceStep
  <2>7. t.docs = s.docs /\ t.vers = s.vers /\ t.jobs = s.jobs /\ s.objs \subseteq t.objs
    <3>1. CASE ~t.ok
      BY <2>6, <3>1 DEF SameStore
    <3>2. CASE t.ok
      BY <2>5, <2>6, <3>2 DEF Effect
    <3>3. QED
      BY <3>1, <3>2
  <2>8. QED
    BY <1>1, <2>2, <2>3, <2>4, <2>7
<1>4. 0 .. N \subseteq T
  BY <1>2, <1>3, BoundedInduction
<1>5. QED
  BY <1>1, <1>4

\* As long as its put is not accepted, no one names the object that r has stored.
LEMMA OwnObject ==
    ASSUME NEW r, r \notin Used(docs, versions, journals, req), NEW id,
           NEW s, s.docs = docs, s.vers = versions
    PROVE  ~Needed(s, <<id, r>>) /\ \A v \in ToSet(s.vers) : v.obj # r
<1>1. PICK U : U = Used(docs, versions, journals, req)
  OBVIOUS
<1>2. (\A x \in DOMAIN docs : docs[x].obj \in U) /\ \A v \in ToSet(versions) : v.obj \in U
  BY <1>1, UsedParts
<1>3. QED
  BY <1>1, <1>2 DEF Needed

-----------------------------------------------------------------------------
(* The writes of each section.                                             *)

LEMMA IfSeq ==
    ASSUME NEW W, NEW holds \in BOOLEAN, NEW w, holds => w \in W
    PROVE  If(holds, w) \in Seq(W) /\ (holds => If(holds, w) = <<w>>) /\ (~holds => If(holds, w) = <<>>)
  BY DEF If

LEMMA SeqConcat ==
    ASSUME NEW W, NEW a \in Seq(W), NEW b \in Seq(W), NEW c, c = a \o b
    PROVE  /\ c \in Seq(W) /\ Len(c) = Len(a) + Len(b) /\ Len(a) \in Nat /\ Len(b) \in Nat
           /\ \A i \in 1 .. Len(a) : c[i] = a[i]
           /\ \A i \in 1 .. Len(b) : c[Len(a) + i] = b[i]
<1>1. Len(a) \in Nat /\ Len(b) \in Nat
  OBVIOUS
<1>2. /\ c \in Seq(W) /\ Len(c) = Len(a) + Len(b)
      /\ \A i \in 1 .. Len(a) + Len(b) : c[i] = IF i <= Len(a) THEN a[i] ELSE b[i - Len(a)]
  BY ConcatProperties
<1>3. \A i \in 1 .. Len(a) : c[i] = a[i]
  BY <1>1, <1>2
<1>4. ASSUME NEW i \in 1 .. Len(b) PROVE c[Len(a) + i] = b[i]
  <2>1. Len(a) + i \in 1 .. Len(a) + Len(b) /\ ~(Len(a) + i <= Len(a)) /\ (Len(a) + i) - Len(a) = i
    BY <1>1
  <2>2. QED
    BY <1>2, <2>1
<1>5. QED
  BY <1>1, <1>2, <1>3, <1>4

\* A write that comes after others: the checks before it have passed.
LEMMA PassedAfter ==
    ASSUME NEW W, NEW a \in Seq(W), NEW b \in Seq(W)
    PROVE  \A p \in 1 .. Len(a \o b) :
               Passed(a \o b, p) /\ (\A i \in 1 .. Len(a) : a[i] # (a \o b)[p]) =>
                  \E k \in 1 .. Len(b) : b[k] = (a \o b)[p] /\ Passed(b, k)
<1> PICK c : c = a \o b
  OBVIOUS
<1> SUFFICES ASSUME NEW p \in 1 .. Len(c), Passed(c, p), \A i \in 1 .. Len(a) : a[i] # c[p]
             PROVE  \E k \in 1 .. Len(b) : b[k] = c[p] /\ Passed(b, k)
  BY Zenon
<1>1. /\ Len(c) = Len(a) + Len(b) /\ Len(a) \in Nat /\ Len(b) \in Nat
      /\ \A i \in 1 .. Len(a) : c[i] = a[i]
      /\ \A i \in 1 .. Len(b) : c[Len(a) + i] = b[i]
  BY SeqConcat
<1>2. p \notin 1 .. Len(a)
  BY <1>1
<1>3. PICK k \in 1 .. Len(b) : p = Len(a) + k
  <2>1. p - Len(a) \in 1 .. Len(b) /\ p = Len(a) + (p - Len(a))
    BY <1>1, <1>2
  <2>2. QED
    BY <2>1
<1>4. Passed(b, k)
  <2>1. SUFFICES ASSUME NEW m \in 1 .. k - 1, b[m].do = "check" PROVE b[m].holds
    BY DEF Passed
  <2>2. Len(a) + m \in 1 .. p - 1 /\ m \in 1 .. Len(b)
    BY <1>1, <1>3
  <2>3. c[Len(a) + m] = b[m]
    BY <1>1, <2>2
  <2>4. QED
    BY <2>1, <2>2, <2>3 DEF Passed
<1>5. QED
  BY <1>1, <1>3, <1>4

LEMMA PutIsNotCheck ==
    ASSUME NEW id, NEW doc, NEW holds
    PROVE  /\ Put(id, doc) # Check(holds) /\ Put(id, doc).do = "put"
           /\ Check(holds).do = "check" /\ Check(holds).holds = holds
<1>1. Put(id, doc).do = "put" /\ Check(holds).do = "check" /\ Check(holds).holds = holds
  BY DEF Put, Check
<1>2. "put" # "check"
  OBVIOUS
<1>3. QED
  BY <1>1, <1>2

\* What the writes of one document are.
LEMMA CheckWrite ==
    ASSUME NEW holds, NEW K
    PROVE  Plain(Check(holds)) /\ Stores(Check(holds), K) /\ OnDocs(Check(holds))
  BY DEF Check, Plain, Stores, OnDocs

LEMMA PutWrite ==
    ASSUME NEW id, NEW doc, NEW K PROVE Stores(Put(id, doc), K)
  BY DEF Put, Stores

LEMMA TrashWrite ==
    ASSUME NEW id, NEW trashed \in BOOLEAN, NEW K
    PROVE  Plain(SetTrashed(id, trashed)) /\ Stores(SetTrashed(id, trashed), K)
           /\ OnDocs(SetTrashed(id, trashed))
  BY DEF SetTrashed, Plain, Stores, OnDocs

LEMMA MoveWrite ==
    ASSUME NEW from, IsPath(from), NEW to, IsPath(to), NEW K
    PROVE  Plain(MoveDir(from, to)) /\ Stores(MoveDir(from, to), K) /\ OnDocs(MoveDir(from, to))
  BY DEF MoveDir, Plain, Stores, OnDocs

LEMMA EraseWrite ==
    ASSUME NEW os, NEW K PROVE Plain(ObjectDelete(os)) /\ Stores(ObjectDelete(os), K)
                               /\ ObjectDelete(os).do = "erase"
  BY DEF ObjectDelete, Plain, Stores

LEMMA ObjectWrite ==
    ASSUME NEW o \in Id \X ObjId, NEW K PROVE Plain(ObjectPut(o)) /\ Stores(ObjectPut(o), K)
                                              /\ ObjectPut(o).do = "store"
  BY DEF ObjectPut, Plain, Stores

LEMMA VersionWrite ==
    ASSUME NEW K, NEW v \in Version, v.file \in K
    PROVE Plain(CreateVersion(v)) /\ Stores(CreateVersion(v), K) /\ CreateVersion(v).do = "version"
  BY DEF CreateVersion, Plain, Stores

LEMMA UnversionWrite ==
    ASSUME NEW v, NEW K PROVE Plain(DeleteVersion(v)) /\ Stores(DeleteVersion(v), K)
                              /\ DeleteVersion(v).do = "unversion"
  BY DEF DeleteVersion, Plain, Stores

LEMMA UnversionsWrite ==
    ASSUME NEW vs, NEW K PROVE Plain(BatchDeleteVersions(vs)) /\ Stores(BatchDeleteVersions(vs), K)
                               /\ BatchDeleteVersions(vs).do = "unversions"
  BY DEF BatchDeleteVersions, Plain, Stores

LEMMA PushWrite ==
    ASSUME NEW j, NEW K, JournalOK(j), j.files \subseteq K
    PROVE  Plain(Push(j)) /\ Stores(Push(j), K) /\ Push(j).do = "push"
  BY DEF Push, Plain, Stores

\* The writes of UpdateDirDoc and UpdateFileDoc: the name was checked before the Put.
WritesOK(id, old, new, writes, K) ==
    /\ \E W : writes \in Seq(W)
    /\ \A n \in 1 .. Len(writes) :
          ((Plain(writes[n]) /\ OnDocs(writes[n])) \/ writes[n] = Put(id, new)) /\ Stores(writes[n], K)
    /\ \A p \in 1 .. Len(writes) : writes[p] = Put(id, new) /\ Passed(writes, p) =>
          SamePlace(old, new) \/ ~Taken(docs, new.parent, new.name)

LEMMA DirWritesOK ==
    ASSUME NEW id, NEW old, GoodDoc(old), NEW new, GoodDoc(new), NEW K,
           NEW writes, writes = DirWrites(id, old, new)
    PROVE  WritesOK(id, old, new, writes, K)
<1>1. PICK h1 \in BOOLEAN, h2 \in BOOLEAN :
        /\ h1 = (SamePlace(old, new) \/ ~IsStrictPrefix(old.path, new.path))
        /\ h2 = (SamePlace(old, new) \/ ~Taken(docs, new.parent, new.name))
  BY Zenon DEF SamePlace, Taken
<1>2. PICK c1, c2, s1, m, p, s2 :
        /\ c1 = Check(h1) /\ c2 = Check(h2) /\ s1 = SetTrashed(id, TRUE)
        /\ m = MoveDir(old.path, new.path) /\ p = Put(id, new) /\ s2 = SetTrashed(id, FALSE)
  OBVIOUS
<1>3. PICK W : W = {c1, c2, s1, m, p, s2}
  OBVIOUS
<1>4. PICK i1 \in BOOLEAN, i2 \in BOOLEAN, i3 \in BOOLEAN :
        /\ i1 = (~InTrash(old.path) /\ InTrash(new.path)) /\ i2 = (old.path # new.path)
        /\ i3 = (InTrash(old.path) /\ ~InTrash(new.path))
  OBVIOUS
<1>5. PICK a, t1, t2, t3, t4 :
        a = <<c1, c2>> /\ t1 = If(i1, s1) /\ t2 = If(i2, m) /\ t3 = <<p>> /\ t4 = If(i3, s2)
  OBVIOUS
<1>6. PICK b1, b2, b3 : b1 = a \o t1 /\ b2 = b1 \o t2 /\ b3 = b2 \o t3
  OBVIOUS
<1>7. writes = b3 \o t4
  BY <1>1, <1>2, <1>4, <1>5, <1>6, Zenon DEF DirWrites
<1>8. /\ a \in Seq(W) /\ Len(a) = 2 /\ a[1] = c1 /\ a[2] = c2
      /\ t1 \in Seq(W) /\ t2 \in Seq(W) /\ t3 \in Seq(W) /\ t4 \in Seq(W)
  <2>1. a \in Seq(W) /\ Len(a) = 2 /\ a[1] = c1 /\ a[2] = c2 /\ t3 \in Seq(W)
    BY <1>3, <1>5
  <2>2. t1 \in Seq(W) /\ t2 \in Seq(W) /\ t4 \in Seq(W)
    BY <1>3, <1>5, IfSeq
  <2>3. QED
    BY <2>1, <2>2
<1>9. b1 \in Seq(W) /\ Len(b1) \in Nat /\ 2 <= Len(b1) /\ b1[1] = c1 /\ b1[2] = c2
  <2>1. /\ b1 \in Seq(W) /\ Len(b1) = Len(a) + Len(t1) /\ Len(t1) \in Nat
        /\ \A i \in 1 .. Len(a) : b1[i] = a[i]
    <3>1. a \in Seq(W) /\ t1 \in Seq(W) /\ b1 = a \o t1
      BY <1>6, <1>8
    <3>2. QED
      BY <3>1, SeqConcat
  <2>2. 1 \in 1 .. Len(a) /\ 2 \in 1 .. Len(a)
    BY <1>8
  <2>3. b1[1] = c1 /\ b1[2] = c2
    BY <1>8, <2>1, <2>2, Zenon
  <2>4. Len(b1) \in Nat /\ 2 <= Len(b1)
    BY <1>8, <2>1
  <2>5. QED
    BY <2>1, <2>3, <2>4
<1>10. b2 \in Seq(W) /\ Len(b2) \in Nat /\ 2 <= Len(b2) /\ b2[1] = c1 /\ b2[2] = c2
  BY <1>6, <1>8, <1>9, SeqConcat
<1>11. b3 \in Seq(W) /\ Len(b3) \in Nat /\ 2 <= Len(b3) /\ b3[1] = c1 /\ b3[2] = c2
  BY <1>6, <1>8, <1>10, SeqConcat
<1>12. writes \in Seq(W) /\ Len(writes) \in Nat /\ writes[1] = c1 /\ writes[2] = c2
  BY <1>7, <1>8, <1>11, SeqConcat
<1>13. \A w \in W : ((Plain(w) /\ OnDocs(w)) \/ w = p) /\ Stores(w, K)
  <2>1. /\ Plain(c1) /\ Stores(c1, K) /\ OnDocs(c1)
        /\ Plain(c2) /\ Stores(c2, K) /\ OnDocs(c2) /\ Stores(p, K)
    BY <1>2, CheckWrite, PutWrite
  <2>2. Plain(s1) /\ Stores(s1, K) /\ OnDocs(s1) /\ Plain(s2) /\ Stores(s2, K) /\ OnDocs(s2)
    <3>1. TRUE \in BOOLEAN /\ FALSE \in BOOLEAN
      OBVIOUS
    <3>2. QED
      BY <1>2, <3>1, TrashWrite
  <2>3. Plain(m) /\ Stores(m, K) /\ OnDocs(m)
    BY <1>2, MoveWrite DEF GoodDoc
  <2>4. QED
    BY <1>3, <2>1, <2>2, <2>3, Zenon
<1>14. ASSUME NEW k \in 1 .. Len(writes), writes[k] = p, Passed(writes, k)
       PROVE  SamePlace(old, new) \/ ~Taken(docs, new.parent, new.name)
  <2>1. p # c1 /\ p # c2
    BY <1>2, PutIsNotCheck
  <2>2. k # 1 /\ k # 2
    BY <1>12, <1>14, <2>1
  <2>3. 2 \in 1 .. k - 1
    BY <1>12, <2>2
  <2>4. c2.do = "check" => c2.holds
    BY <1>12, <1>14, <2>3, Zenon DEF Passed
  <2>5. h2
    BY <1>2, <2>4, PutIsNotCheck, Zenon
  <2>6. QED
    BY <1>1, <2>5
<1>15. \A n \in 1 .. Len(writes) : writes[n] \in W
  BY <1>12
<1>16. QED
  BY <1>2, <1>12, <1>13, <1>14, <1>15, Zenon DEF WritesOK

LEMMA FileWritesOK ==
    ASSUME NEW id, NEW old, NEW new, NEW K, NEW writes, writes = FileWrites(id, old, new)
    PROVE  WritesOK(id, old, new, writes, K)
<1>1. PICK h \in BOOLEAN : h = (SamePlace(old, new) \/ ~Taken(docs, new.parent, new.name))
  BY Zenon DEF SamePlace, Taken
<1>2. PICK c, p : c = Check(h) /\ p = Put(id, new)
  OBVIOUS
<1>3. PICK W : W = {c, p}
  OBVIOUS
<1>4. writes = <<c, p>>
  BY <1>1, <1>2, Zenon DEF FileWrites
<1>5. writes \in Seq(W) /\ Len(writes) = 2 /\ writes[1] = c /\ writes[2] = p
  BY <1>3, <1>4
<1>6. \A w \in W : ((Plain(w) /\ OnDocs(w)) \/ w = p) /\ Stores(w, K)
  BY <1>2, <1>3, CheckWrite, PutWrite
<1>7. ASSUME NEW k \in 1 .. Len(writes), writes[k] = p, Passed(writes, k)
      PROVE  SamePlace(old, new) \/ ~Taken(docs, new.parent, new.name)
  <2>1. p # c
    BY <1>2, PutIsNotCheck
  <2>2. k # 1
    BY <1>5, <1>7, <2>1
  <2>3. 1 \in 1 .. k - 1
    BY <1>5, <2>2
  <2>4. c.do = "check" => c.holds
    BY <1>5, <1>7, <2>3, Zenon DEF Passed
  <2>5. h
    BY <1>2, <2>4, PutIsNotCheck, Zenon
  <2>6. QED
    BY <1>1, <2>5
<1>8. \A n \in 1 .. Len(writes) : writes[n] \in W
  <2>1. \A n \in 1 .. 2 : n = 1 \/ n = 2
    OBVIOUS
  <2>2. c \in W /\ p \in W
    BY <1>3
  <2>3. QED
    BY <1>5, <2>1, <2>2, Zenon
<1>9. QED
  BY <1>2, <1>5, <1>6, <1>7, <1>8, Zenon DEF WritesOK

LEMMA AllWritesOK ==
    ASSUME NEW id, NEW old, GoodDoc(old), NEW new, GoodDoc(new), NEW K,
           NEW writes, writes = Writes(id, old, new)
    PROVE  WritesOK(id, old, new, writes, K)
<1>1. CASE old.kind = "dir"
  BY <1>1, DirWritesOK DEF Writes
<1>2. CASE old.kind # "dir"
  BY <1>2, FileWritesOK DEF Writes
<1>3. QED
  BY <1>1, <1>2

\* A section made of these writes, over the document that the request has read.
LEMMA WritesKeep ==
    ASSUME VInv, NEW r \in Request, NEW q, q = req[r], SnapOK(q), HasSnap(q), q.id # Trash,
           q.op # "revert", NEW new, GoodDoc(new), new.rev = q.snap.rev + 1, SameFile(q.snap, new),
           NEW writes, NEW K, K = Known(docs, versions, journals, req),
           WritesOK(q.id, q.snap, new, writes, K), Section(r, writes, Nothing)
    PROVE  Kept
<1>1. PICK W : writes \in Seq(W)
  BY DEF WritesOK
<1>2. Nothing.do = "check"
  BY DEF Nothing, Check
<1>3. Puts(q, r, q.id, new)
  BY DEF Puts, SnapOK
<1>4. Checked(q, q.id, new, writes)
  BY DEF Checked, WritesOK
<1>5. Allowed(writes, q.id, new, K)
  BY DEF Allowed, WritesOK
<1>6. PICK undo : undo = Nothing
  OBVIOUS
<1>7. Section(r, writes, undo) /\ undo.do = "check" /\ undo.do \in {"check", "erase", "unversions"}
  BY <1>2, <1>6
<1>8. VInv'
  BY <1>1, <1>3, <1>4, <1>5, <1>7, SectionKeeps
<1>9. ASSUME CInv PROVE CInv'
  <2>1. PICK N \in 0 .. Len(writes) : \E f, s :
          /\ Outcome(f, N, writes, undo, s) /\ Holds(s) /\ IsState(s)
          /\ req' = [req EXCEPT ![r] = Over] /\ midway' = midway
    BY <1>1, <1>7, QuietSection
  <2>2. PICK f, s : /\ Outcome(f, N, writes, undo, s) /\ Holds(s) /\ IsState(s)
                    /\ req' = [req EXCEPT ![r] = Over] /\ midway' = midway
    BY <2>1
  <2>3. Leaves(r, Over)
    BY <2>2, OverLeaves
  <2>4. N \in Nat /\ 1 .. N \subseteq 1 .. Len(writes)
    BY <1>1
  <2>5. OnlyDocs(N, writes, q.id, new)
    BY <2>4 DEF WritesOK, OnlyDocs
  <2>6. q.id \notin Unborn(r, q)
    <3>1. q.id \in Known(docs, versions, journals, req)
      BY KnownParts
    <3>2. QED
      BY <3>1 DEF VInv
  <2>7. PutsSame(q, r, q.id, new)
    BY <1>3, <2>6 DEF PutsSame
  <2>8. QED
    BY <1>7, <1>9, <2>2, <2>3, <2>4, <2>5, <2>7, DocsOutcome
<1>10. QED
  BY <1>8, <1>9 DEF Kept

-----------------------------------------------------------------------------
(* Every section with a Put keeps the invariant.                           *)

LEMMA DirCreated ==
    ASSUME VInv, NEW r \in Request, CreateDir(r) PROVE Kept
<1>1. PICK q : q = req[r]
  OBVIOUS
<1>2. PICK new : new = q.new
  OBVIOUS
<1>3. PICK h \in BOOLEAN : h = ~Taken(docs, new.parent, new.name)
  BY DEF Taken
<1>4. PICK c, p, undo : c = Check(h) /\ p = Put(r, new) /\ undo = Nothing
  OBVIOUS
<1>5. PICK writes : writes = <<c, p>>
  OBVIOUS
<1>6. q.op = "mkdir" /\ Ends(r, writes, undo, Over)
  <2>1. /\ Ready(r, "mkdir")
        /\ Ends(r, <<Check(~Taken(docs, new.parent, new.name)), Put(r, new)>>, Nothing, Over)
    BY <1>1, <1>2, Zenon DEF CreateDir
  <2>2. QED
    BY <1>1, <1>3, <1>4, <1>5, <2>1, Zenon DEF Ready
<1>7. PICK W : W = {c, p}
  OBVIOUS
<1>8. writes \in Seq(W) /\ Len(writes) = 2 /\ writes[1] = c /\ writes[2] = p
  BY <1>5, <1>7
<1>9. PICK K : K = Known(docs, versions, journals, req)
  OBVIOUS
<1>10. ReqOK(r, q)
  BY <1>1 DEF VInv
<1>11. GoodDoc(new) /\ new.kind = "dir" /\ q.snap = NoDoc
  BY <1>2, <1>6, <1>10 DEF ReqOK, OpOK, Unread, Over, Reading
<1>12. Puts(q, r, r, new)
  BY <1>6, <1>11, IdInId DEF Puts, Unborn
<1>13. Allowed(writes, r, new, K)
  <2>1. Plain(c) /\ Stores(c, K) /\ Stores(p, K)
    BY <1>4, CheckWrite, PutWrite
  <2>2. \A n \in 1 .. 2 : n = 1 \/ n = 2
    OBVIOUS
  <2>3. QED
    BY <1>4, <1>8, <2>1, <2>2, Zenon DEF Allowed
<1>14. Checked(q, r, new, writes)
  <2>1. SUFFICES ASSUME NEW k \in 1 .. Len(writes), writes[k] = p, Passed(writes, k)
                 PROVE  ~Taken(docs, new.parent, new.name)
    BY <1>4 DEF Checked
  <2>2. p # c
    BY <1>4, PutIsNotCheck
  <2>3. 1 \in 1 .. k - 1
    BY <1>8, <2>1, <2>2
  <2>4. c.do = "check" => c.holds
    BY <1>8, <2>1, <2>3, Zenon DEF Passed
  <2>5. h
    BY <1>4, <2>4, PutIsNotCheck, Zenon
  <2>6. QED
    BY <1>3, <2>5
<1>15. Section(r, writes, undo)
  BY <1>6 DEF Section
<1>16. undo.do \in {"check", "erase", "unversions"}
  BY <1>4 DEF Nothing, Check
<1>17. writes \in Seq(W)
  BY <1>8
<1>18. VInv'
  BY <1>1, <1>9, <1>12, <1>13, <1>14, <1>15, <1>16, <1>17, SectionKeeps
<1>19. ASSUME CInv PROVE CInv'
  <2>1. PICK N \in 0 .. Len(writes) : \E f, s :
          /\ Outcome(f, N, writes, undo, s) /\ Holds(s) /\ IsState(s)
          /\ req' = [req EXCEPT ![r] = Over] /\ midway' = midway
    BY <1>1, <1>6, <1>15, <1>17, QuietSection
  <2>2. PICK f, s : /\ Outcome(f, N, writes, undo, s) /\ Holds(s) /\ IsState(s)
                    /\ req' = [req EXCEPT ![r] = Over] /\ midway' = midway
    BY <2>1
  <2>3. Leaves(r, Over)
    BY <2>2, OverLeaves
  <2>4. N \in Nat /\ \A n \in 1 .. N : n = 1 \/ n = 2
    BY <1>8
  <2>5. Plain(c) /\ OnDocs(c) /\ writes[1] = c /\ writes[2] = Put(r, new)
    BY <1>4, <1>8, CheckWrite
  <2>6. OnlyDocs(N, writes, r, new)
    BY <2>4, <2>5, Zenon DEF OnlyDocs
  <2>7. undo.do = "check" /\ ~HasSnap(q)
    BY <1>4, <1>11 DEF Nothing, Check, HasSnap, NoDoc
  <2>8. PutsSame(q, r, r, new)
    BY <1>11, <1>12, <2>7 DEF PutsSame
  <2>9. QED
    BY <1>1, <1>19, <2>2, <2>3, <2>4, <2>6, <2>7, <2>8, DocsOutcome
<1>20. QED
  BY <1>18, <1>19 DEF Kept

\* A request that changes the place of what it has read.
LEMMA PlaceFacts ==
    ASSUME NEW r, NEW q, ReqOK(r, q), q.op \in {"patch", "trash", "restore"}
    PROVE  /\ SnapOK(q) /\ HasSnap(q) /\ q.id # Trash /\ IsReq(q)
           /\ GoodDoc(q.new) /\ SameFile(q.snap, q.new)
           /\ q.new.rev = IF q.op = "patch" THEN q.snap.rev + 1 ELSE q.snap.rev
           /\ q.op = "restore" => q.at.id \in Id /\ IsPath(q.at.path) /\ IsPath(q.todo)
<1>1. q # Unread /\ q # Over
  BY DEF Unread, Over, Reading
<1>2. CASE q.op = "patch"
  <2>1. /\ SnapOK(q) /\ q.id # Trash /\ GoodDoc(q.new) /\ SameFile(q.snap, q.new)
        /\ q.new.rev = q.snap.rev + 1
    BY <1>1, <1>2 DEF ReqOK, OpOK
  <2>2. HasSnap(q)
    BY <2>1 DEF SnapOK, GoodDoc, HasSnap
  <2>3. QED
    BY <1>2, <2>1, <2>2 DEF ReqOK
<1>3. CASE q.op \in {"trash", "restore"}
  <2>1. /\ SnapOK(q) /\ q.id # Trash /\ GoodDoc(q.new) /\ SameFile(q.snap, q.new)
        /\ q.new.rev = q.snap.rev
        /\ q.op = "restore" => q.at.id \in Id /\ IsPath(q.at.path) /\ IsPath(q.todo)
    BY <1>1, <1>3 DEF ReqOK, OpOK
  <2>2. HasSnap(q)
    BY <2>1 DEF SnapOK, GoodDoc, HasSnap
  <2>3. QED
    BY <1>3, <2>1, <2>2 DEF ReqOK
<1>4. QED
  BY <1>2, <1>3

LEMMA Patched ==
    ASSUME VInv, NEW r \in Request, Patch(r) PROVE Kept
<1>1. PICK q : q = req[r]
  OBVIOUS
<1>2. ReqOK(r, q) /\ q.op = "patch"
  BY <1>1 DEF VInv, Patch, Ready
<1>3. /\ SnapOK(q) /\ HasSnap(q) /\ q.id # Trash /\ GoodDoc(q.new) /\ q.new.rev = q.snap.rev + 1
      /\ SameFile(q.snap, q.new)
  BY <1>2, PlaceFacts
<1>4. PICK h \in BOOLEAN : h = IsDir(docs, q.new.parent)
  BY DEF IsDir
<1>5. PICK g \in BOOLEAN : g = (q.new.kind = "file")
  OBVIOUS
<1>6. PICK a, b, c : a = If(g, c) /\ b = Writes(q.id, q.snap, q.new) /\ c = Check(h)
  OBVIOUS
<1>7. PICK writes : writes = a \o b
  OBVIOUS
<1>8. Section(r, writes, Nothing)
  BY <1>1, <1>4, <1>5, <1>6, <1>7, Zenon DEF Patch
<1>9. PICK K : K = Known(docs, versions, journals, req)
  OBVIOUS
<1>10. WritesOK(q.id, q.snap, q.new, b, K)
  BY <1>3, <1>6, AllWritesOK DEF SnapOK
<1>11. PICK V : b \in Seq(V)
  BY <1>10 DEF WritesOK
<1>12. PICK W : W = V \cup {c}
  OBVIOUS
<1>13. b \in Seq(W)
  BY <1>11, <1>12
<1>14. a \in Seq(W) /\ \A i \in 1 .. Len(a) : a[i] = c
  <2>1. c \in W
    BY <1>12
  <2>2. a \in Seq(W) /\ (g => a = <<c>>) /\ (~g => a = <<>>)
    BY <1>6, <2>1, IfSeq
  <2>3. QED
    BY <2>2
<1>15. /\ writes \in Seq(W) /\ Len(writes) = Len(a) + Len(b) /\ Len(a) \in Nat /\ Len(b) \in Nat
       /\ \A i \in 1 .. Len(a) : writes[i] = a[i]
       /\ \A i \in 1 .. Len(b) : writes[Len(a) + i] = b[i]
  BY <1>7, <1>13, <1>14, SeqConcat
<1>16. Plain(c) /\ Stores(c, K) /\ OnDocs(c) /\ c # Put(q.id, q.new)
  BY <1>6, CheckWrite, PutIsNotCheck
<1>17. ASSUME NEW n \in 1 .. Len(writes)
       PROVE  /\ (Plain(writes[n]) /\ OnDocs(writes[n])) \/ writes[n] = Put(q.id, q.new)
              /\ Stores(writes[n], K)
  <2>1. CASE n \in 1 .. Len(a)
    BY <1>14, <1>15, <1>16, <2>1
  <2>2. CASE n \notin 1 .. Len(a)
    <3>1. n - Len(a) \in 1 .. Len(b) /\ n = Len(a) + (n - Len(a))
      BY <1>15, <2>2
    <3>2. writes[n] = b[n - Len(a)]
      BY <1>15, <3>1
    <3>3. QED
      BY <1>10, <3>1, <3>2 DEF WritesOK
  <2>3. QED
    BY <2>1, <2>2
<1>18. ASSUME NEW p \in 1 .. Len(writes), writes[p] = Put(q.id, q.new), Passed(writes, p)
       PROVE  SamePlace(q.snap, q.new) \/ ~Taken(docs, q.new.parent, q.new.name)
  <2>1. \A i \in 1 .. Len(a) : a[i] # writes[p]
    BY <1>14, <1>16, <1>18
  <2>2. PICK k \in 1 .. Len(b) : b[k] = writes[p] /\ Passed(b, k)
    <3>1. a \in Seq(W) /\ p \in 1 .. Len(writes)
      BY <1>14
    <3>2. QED
      BY <1>7, <1>13, <1>18, <2>1, <3>1, PassedAfter
  <2>3. QED
    BY <1>10, <1>18, <2>2 DEF WritesOK
<1>19. WritesOK(q.id, q.snap, q.new, writes, K)
  BY <1>15, <1>17, <1>18 DEF WritesOK
<1>20. q.op # "revert"
  BY <1>2
<1>21. QED
  BY <1>1, <1>3, <1>8, <1>9, <1>19, <1>20, WritesKeep

\* The trash, and the directory where something is restored.
LEMMA PutAside ==
    ASSUME VInv, NEW r \in Request, NEW q, q = req[r], q.op \in {"trash", "restore"},
           NEW parent \in Id, NEW name, IsName(name), NEW path, IsPath(path),
           Section(r, Writes(q.id, q.snap, Placed(q.new, parent, name, path)), Nothing)
    PROVE  Kept
<1>1. /\ SnapOK(q) /\ HasSnap(q) /\ q.id # Trash /\ GoodDoc(q.new) /\ q.new.rev = q.snap.rev
      /\ SameFile(q.snap, q.new) /\ q.op # "revert"
  <2>1. ReqOK(r, q)
    BY DEF VInv
  <2>2. QED
    BY <2>1, PlaceFacts
<1>2. PICK new : new = Placed(q.new, parent, name, path)
  OBVIOUS
<1>3. GoodDoc(new) /\ new.rev = q.snap.rev + 1 /\ SameFile(q.snap, new)
  BY <1>1, <1>2, PlacedGood DEF SameFile
<1>4. PICK writes : writes = Writes(q.id, q.snap, new)
  OBVIOUS
<1>5. PICK K : K = Known(docs, versions, journals, req)
  OBVIOUS
<1>6. WritesOK(q.id, q.snap, new, writes, K)
  BY <1>1, <1>3, <1>4, AllWritesOK DEF SnapOK
<1>7. Section(r, writes, Nothing)
  BY <1>2, <1>4
<1>8. QED
  BY <1>1, <1>3, <1>5, <1>6, <1>7, WritesKeep

LEMMA TrashId == Trash \in Id /\ Root \in Id
  BY DEF Id, FirstId

LEMMA Trashed ==
    ASSUME VInv, NEW r \in Request, TrashIt(r) PROVE Kept
<1>1. PICK q, name : q = req[r] /\ name = Free(docs, Trash, q.snap.name)
  OBVIOUS
<1>2. PICK path : path = Append(TrashPath, name)
  OBVIOUS
<1>3. /\ q.op = "trash"
      /\ Section(r, Writes(q.id, q.snap, Placed(q.new, Trash, name, path)), Nothing)
  BY <1>1, <1>2 DEF TrashIt, Ready
<1>4. ReqOK(r, q)
  BY <1>1 DEF VInv
<1>5. IsName(q.snap.name)
  BY <1>3, <1>4, PlaceFacts DEF SnapOK, GoodDoc
<1>6. IsName(name)
  BY <1>1, <1>5, NameFree
<1>7. IsPath(TrashPath)
  <2>1. PICK nil, t : nil = <<>> /\ t = TrashName
    OBVIOUS
  <2>2. IsName(t)
    BY <2>1, NameOf DEF TrashName
  <2>3. IsPath(Append(nil, t))
    BY <2>1, <2>2, PathEmpty, PathAppend
  <2>4. TrashPath = Append(nil, t)
    BY <2>1 DEF TrashPath
  <2>5. QED
    BY <2>3, <2>4
<1>8. IsPath(path)
  BY <1>2, <1>6, <1>7, PathAppend
<1>9. QED
  BY <1>1, <1>3, <1>6, <1>8, TrashId, PutAside

LEMMA Restored ==
    ASSUME VInv, NEW r \in Request, Restore(r) PROVE Kept
<1>1. PICK q, name : q = req[r] /\ name = Free(docs, q.at.id, Strip(q.snap.name))
  OBVIOUS
<1>2. PICK path : path = Append(q.at.path, name)
  OBVIOUS
<1>3. /\ q.op = "restore"
      /\ Section(r, Writes(q.id, q.snap, Placed(q.new, q.at.id, name, path)), Nothing)
  BY <1>1, <1>2 DEF Restore, Ready
<1>4. ReqOK(r, q)
  BY <1>1 DEF VInv
<1>5. IsName(q.snap.name) /\ q.at.id \in Id /\ IsPath(q.at.path)
  BY <1>3, <1>4, PlaceFacts DEF SnapOK, GoodDoc
<1>6. IsName(name)
  BY <1>1, <1>5, NameStrip, NameFree
<1>7. IsPath(path)
  BY <1>2, <1>5, <1>6, PathAppend
<1>8. QED
  BY <1>1, <1>3, <1>5, <1>6, <1>7, PutAside

\* The directories that MkdirAll still has to make.
LEMMA TodoFacts ==
    ASSUME NEW todo, IsPath(todo), todo # <<>>
    PROVE  /\ IsName(Head(todo)) /\ IsPath(Tail(todo)) /\ Len(todo) \in Nat \ {0}
           /\ Len(Tail(todo)) = Len(todo) - 1
<1>1. PICK S : todo \in Seq(S)
  BY SeqFacts DEF IsPath
<1>2. Len(todo) \in Nat \ {0}
  BY <1>1, EmptySeq
<1>3. Head(todo) = todo[1] /\ 1 \in 1 .. Len(todo)
  BY <1>1, <1>2
<1>4. PICK t : t = Tail(todo)
  OBVIOUS
<1>5. /\ t \in Seq(S) /\ Len(t) = Len(todo) - 1
      /\ \A i \in 1 .. Len(t) : t[i] = todo[i + 1] /\ i + 1 \in 1 .. Len(todo)
  BY <1>1, <1>2, <1>4
<1>6. IsPath(t)
  BY <1>5, SeqIs DEF IsPath
<1>7. QED
  BY <1>2, <1>3, <1>4, <1>5, <1>6 DEF IsPath

\* What remains of a restore, once one of the directories is there.
NextAt(q, at) == [q EXCEPT !.at = at, !.todo = Tail(@)]

LEMMA NextDirectory ==
    ASSUME NEW r \in Request, NEW q, ReqOK(r, q), q.op = "restore", q.todo # <<>>,
           NEW at, at.id \in Id, IsPath(at.path),
           NEW next, next = NextAt(q, at), NEW id, id = <<r, Len(q.todo)>>
    PROVE  /\ ReqOK(r, next) /\ next.snap = q.snap /\ next.id = q.id /\ next.op = "restore"
           /\ Unborn(r, next) \subseteq Unborn(r, q) /\ id \notin Unborn(r, next)
<1>1. /\ SnapOK(q) /\ q.id # Trash /\ IsReq(q) /\ GoodDoc(q.new) /\ SameFile(q.snap, q.new)
      /\ q.new.rev = q.snap.rev /\ IsPath(q.todo)
  BY PlaceFacts
<1>2. /\ IsPath(Tail(q.todo)) /\ Len(q.todo) \in Nat \ {0} /\ Len(Tail(q.todo)) = Len(q.todo) - 1
  BY <1>1, TodoFacts
<1>3. PICK todo : todo = Tail(q.todo)
  OBVIOUS
<1>4. /\ IsReq(next) /\ next.op = "restore" /\ next.id = q.id /\ next.snap = q.snap
      /\ next.new = q.new /\ next.at = at /\ next.todo = todo
  BY <1>1, <1>3 DEF IsReq, NextAt
<1>5. ReqOK(r, next)
  BY <1>1, <1>2, <1>3, <1>4 DEF ReqOK, OpOK, SnapOK
<1>6. PICK n \in Nat \ {0} : n = Len(q.todo)
  BY <1>2
<1>7. Len(todo) = n - 1
  BY <1>2, <1>3, <1>6
<1>8. /\ Unborn(r, next) = {x \in MadeId : x[1] = r /\ x[2] <= n - 1}
      /\ Unborn(r, q) = {x \in MadeId : x[1] = r /\ x[2] <= n}
  BY <1>4, <1>6, <1>7 DEF Unborn
<1>9. \A x \in MadeId : x[1] = r /\ x[2] <= n - 1 => x[2] <= n /\ x # <<r, n>>
  BY DEF MadeId
<1>10. Unborn(r, next) \subseteq Unborn(r, q) /\ id \notin Unborn(r, next)
  BY <1>6, <1>8, <1>9
<1>11. QED
  BY <1>4, <1>5, <1>10

LEMMA DirFound ==
    ASSUME VInv, NEW r \in Request, NEW q, Asks(r, q), ReqOK(r, q),
           HasSnap(q) => q.snap = req[r].snap /\ q.id = req[r].id,
           Unborn(r, q) \subseteq Unborn(r, req[r]), q.op \in {"restore", "over"}
    PROVE  Kept
<1>1. HasSnap(q) => HasSnap(req[r])
  BY DEF HasSnap
<1>2. Agrees(docs, req[r])
  BY DEF VInv
<1>3. Agrees(docs, q)
  BY <1>1, <1>2 DEF Agrees
<1>4. VInv'
  BY <1>1, <1>3, PreserveReads
<1>5. ASSUME CInv PROVE CInv'
  <2>1. PICK U : U = Used(docs, versions, journals, req)
    OBVIOUS
  <2>2. HasSnap(q) => q.snap.obj \in U
    BY <1>1, <2>1, UsedParts
  <2>3. /\ q.op # "stored" /\ (q.op \in Pending => req[r].op \in Pending)
        /\ q.op \in {"revert", "cleanversion"} => q.ver.obj \in U
    BY DEF Pending
  <2>4. QED
    BY <1>5, <2>1, <2>2, <2>3, ReadsContent
<1>6. QED
  BY <1>4, <1>5 DEF Kept

LEMMA DirMade ==
    ASSUME VInv, NEW r \in Request, MkdirAll(r) PROVE Kept
<1>1. PICK q : q = req[r]
  OBVIOUS
<1>2. PICK name : name = Head(q.todo)
  OBVIOUS
<1>3. PICK path : path = Append(q.at.path, name)
  OBVIOUS
<1>4. PICK id : id = <<r, Len(q.todo)>>
  OBVIOUS
<1>5. ReqOK(r, q)
  BY <1>1 DEF VInv
<1>6. q.op = "restore" /\ q.todo # <<>>
  BY <1>1 DEF MkdirAll, Ready
<1>7. q.at.id \in Id /\ IsPath(q.at.path) /\ IsPath(q.todo) /\ HasSnap(q)
  BY <1>5, <1>6, PlaceFacts
<1>8. IsName(name) /\ Len(q.todo) \in Nat \ {0}
  BY <1>2, <1>6, <1>7, TodoFacts
<1>9. IsPath(path)
  BY <1>3, <1>7, <1>8, PathAppend
<1>10. id \in MadeId /\ id \in Id \ {Root, Trash} /\ id[1] = r /\ id[2] = Len(q.todo)
  <2>1. id \in MadeId /\ id[1] = r /\ id[2] = Len(q.todo)
    BY <1>4, <1>8 DEF MadeId
  <2>2. Root \notin MadeId /\ Trash \notin MadeId
    BY VFSAssumption DEF FirstId
  <2>3. QED
    BY <2>1, <2>2 DEF Id
<1>11. CASE \E d \in DirsAt(docs, Append(path, name)) :
               Asks(r, [q EXCEPT !.at = Reads(d), !.todo = Tail(@)])
  <2>1. PICK d \in DirsAt(docs, Append(path, name)) :
               Asks(r, [q EXCEPT !.at = Reads(d), !.todo = Tail(@)])
    BY <1>11
  <2>2. PICK at : at = Reads(d)
    OBVIOUS
  <2>3. PICK next : next = NextAt(q, at)
    OBVIOUS
  <2>4. DocsOK(docs) /\ d \in DOMAIN docs
    BY DEF VInv, DirsAt
  <2>5. at.id \in Id /\ IsPath(at.path)
    BY <2>2, <2>4, DocPath DEF Reads, DocsOK
  <2>6. /\ ReqOK(r, next) /\ next.snap = q.snap /\ next.id = q.id /\ next.op \in {"restore", "over"}
        /\ Unborn(r, next) \subseteq Unborn(r, q)
    BY <1>4, <1>5, <1>6, <2>3, <2>5, NextDirectory
  <2>7. Asks(r, next)
    BY <2>1, <2>2, <2>3 DEF NextAt
  <2>8. QED
    BY <1>1, <2>6, <2>7, DirFound
<1>12. CASE Asks(r, Over)
  <2>1. ReqOK(r, Over) /\ ~HasSnap(Over) /\ Unborn(r, Over) = {} /\ Over.op \in {"restore", "over"}
    BY OverOK DEF Over, Reading
  <2>2. QED
    BY <1>12, <2>1, DirFound
<1>13. CASE /\ ~Taken(docs, q.at.id, name)
            /\ Ends(r, <<Put(id, DirDoc(q.at.id, name, path))>>, Nothing,
                    [q EXCEPT !.at = [id |-> id, path |-> path], !.todo = Tail(@)])
  <2>1. PICK at : at = [id |-> id, path |-> path]
    OBVIOUS
  <2>2. PICK next : next = NextAt(q, at)
    OBVIOUS
  <2>3. PICK new : new = DirDoc(q.at.id, name, path)
    OBVIOUS
  <2>4. PICK p, undo : p = Put(id, new) /\ undo = Nothing
    OBVIOUS
  <2>5. PICK writes : writes = <<p>>
    OBVIOUS
  <2>6. Ends(r, writes, undo, next) /\ ~Taken(docs, q.at.id, name)
    BY <1>13, <2>1, <2>2, <2>3, <2>4, <2>5, Zenon DEF NextAt
  <2>7. PICK W : W = {p}
    OBVIOUS
  <2>8. writes \in Seq(W) /\ Len(writes) = 1 /\ writes[1] = p
    BY <2>5, <2>7
  <2>a. writes \in Seq(W)
    BY <2>8
  <2>9. PICK f, s : /\ Outcome(f, Len(writes), writes, undo, s) /\ Holds(s) /\ IsState(s)
                    /\ req' = [req EXCEPT ![r] = IF f[Len(writes)].ok THEN next ELSE Over]
                    /\ cut' = cut
                    /\ midway' = (midway \/ (req[r].op = "revert" /\ f[Len(writes)].ok
                                             /\ ~HasVersion(versions, req[r].ver)))
                    /\ stale' = (stale \/ (s.docs # docs /\ Outdated(req[r])))
    BY <2>6, <2>a, EndsOutcome
  <2>10. stale' \in BOOLEAN /\ cut' \in BOOLEAN /\ midway' \in BOOLEAN
    BY <2>9 DEF VInv
  <2>11. GoodDoc(new) /\ new.rev = 1 /\ new.parent = q.at.id /\ new.name = name /\ new.kind = "dir"
    BY <1>7, <1>8, <1>9, <2>3, DirDocGood DEF DirDoc
  <2>12. id \in Unborn(r, q)
    BY <1>6, <1>8, <1>10 DEF Unborn
  <2>13. Puts(q, r, id, new)
    BY <1>10, <2>11, <2>12 DEF Puts
  <2>14. Checked(q, id, new, writes)
    BY <2>6, <2>11 DEF Checked
  <2>15. PICK K : K = Known(docs, versions, journals, req)
    OBVIOUS
  <2>16. Allowed(writes, id, new, K)
    <3>1. Stores(p, K)
      BY <2>4, PutWrite
    <3>2. \A n \in 1 .. 1 : n = 1
      OBVIOUS
    <3>3. QED
      BY <2>4, <2>8, <3>1, <3>2, Zenon DEF Allowed
  <2>17. undo.do \in {"check", "erase", "unversions"}
    BY <2>4 DEF Nothing, Check
  <2>18. at.id \in Id /\ IsPath(at.path)
    BY <1>9, <1>10, <2>1
  <2>19. /\ ReqOK(r, next) /\ next.snap = q.snap /\ next.id = q.id /\ next.op = "restore"
         /\ Unborn(r, next) \subseteq Unborn(r, q) /\ id \notin Unborn(r, next)
    BY <1>4, <1>5, <1>6, <2>2, <2>18, NextDirectory
  <2>20. ReqOK(r, Over) /\ ~HasSnap(Over) /\ Unborn(r, Over) = {}
    BY OverOK
  <2>21. PICK e : e = IF f[Len(writes)].ok THEN next ELSE Over
    OBVIOUS
  <2>22. /\ ReqOK(r, e) /\ (HasSnap(e) => HasSnap(q) /\ e.snap = q.snap /\ e.id = q.id)
         /\ Unborn(r, e) \subseteq Unborn(r, q) \ {id} /\ req' = [req EXCEPT ![r] = e]
    BY <1>7, <2>9, <2>19, <2>20, <2>21
  <2>23. PICK N \in 0 .. Len(writes) : N = Len(writes)
    BY <2>8
  <2>24. Outcome(f, N, writes, undo, s) /\ Holds(s)
    BY <2>9, <2>23
  <2>25. VInv'
    BY <1>1, <2>a, <2>10, <2>13, <2>14, <2>15, <2>16, <2>17, <2>22, <2>24, OutcomeKeeps
  <2>26. ASSUME CInv PROVE CInv'
    <3>1. midway' = midway
      BY <1>1, <1>6, <2>9 DEF VInv
    <3>2. e.op \in {"restore", "over"}
      BY <2>19, <2>21 DEF Over, Reading
    <3>3. HasSnap(e) => e.snap.obj \in Mine(r)
      BY <1>1, <2>22, MineParts
    <3>4. Leaves(r, e)
      BY <2>22, <3>2, <3>3 DEF Leaves, Pending
    <3>5. N \in Nat /\ \A n \in 1 .. N : n = 1
      BY <2>8, <2>23
    <3>6. OnlyDocs(N, writes, id, new)
      BY <2>4, <2>8, <3>5, Zenon DEF OnlyDocs
    <3>7. id # q.id
      <4>1. q.id \in Known(docs, versions, journals, req)
        BY <1>1, <1>7, KnownParts
      <4>2. QED
        BY <1>1, <2>12, <4>1 DEF VInv
    <3>8. PutsSame(q, r, id, new)
      BY <2>11, <2>13, <3>7 DEF PutsSame
    <3>9. undo.do = "check"
      BY <2>4 DEF Nothing, Check
    <3>10. QED
      BY <1>1, <2>24, <2>26, <3>1, <3>4, <3>5, <3>6, <3>8, <3>9, DocsOutcome
  <2>27. QED
    BY <2>25, <2>26 DEF Kept
<1>14. QED
  <2>1. /\ \/ /\ ~Taken(docs, q.at.id, name)
              /\ Ends(r, <<Put(id, DirDoc(q.at.id, name, path))>>, Nothing,
                      [q EXCEPT !.at = [id |-> id, path |-> path], !.todo = Tail(@)])
           \/ /\ Taken(docs, q.at.id, name)
              /\ \/ \E d \in DirsAt(docs, Append(path, name)) :
                        req' = [req EXCEPT ![r] = [q EXCEPT !.at = Reads(d), !.todo = Tail(@)]]
                 \/ req' = [req EXCEPT ![r] = Over]
              /\ UNCHANGED <<data, ghosts>>
    BY <1>1, <1>2, <1>3, <1>4, Zenon DEF MkdirAll
  <2>2. QED
    BY <1>11, <1>12, <1>13, <2>1, Zenon DEF Asks

\* A put that is accepted when the documents are those of the start replaces what was read.
LEMMA FreshPut ==
    ASSUME VInv, NEW r \in Request, NEW q, q = req[r], HasSnap(q),
           NEW doc, doc.rev = q.snap.rev + 1, NEW s, s.docs = docs, NEW w, w = Put(q.id, doc),
           ~Refused(s, w)
    PROVE  q.id \in DOMAIN docs /\ docs[q.id] = q.snap
<1>1. DocsOK(docs) /\ ReqOK(r, q) /\ Agrees(docs, q)
  BY DEF VInv
<1>2. q.snap.rev \in Nat \ {0}
  BY <1>1, SnapRev
<1>3. w.do = "put" /\ w.id = q.id /\ w.doc = doc
  BY DEF Put
<1>4. Rev(docs, q.id) + 1 = q.snap.rev + 1
  BY <1>3 DEF Refused
<1>5. CASE q.id \notin DOMAIN docs
  BY <1>2, <1>4, <1>5 DEF Rev
<1>6. CASE q.id \in DOMAIN docs
  <2>1. docs[q.id].rev \in Nat
    BY <1>1, <1>6, DocRev
  <2>2. docs[q.id].rev = q.snap.rev
    BY <1>2, <1>4, <1>6, <2>1 DEF Rev
  <2>3. QED
    BY <1>1, <1>6, <2>2 DEF Agrees
<1>7. QED
  BY <1>5, <1>6

LEMMA DistinctValues ==
    ASSUME NEW S, NEW vs \in Seq(S), Distinct(vs), NEW u \in ToSet(vs), NEW v \in ToSet(vs),
           u.file = v.file, u.obj = v.obj
    PROVE  u = v
<1>1. PICK i, j \in DOMAIN vs : u = vs[i] /\ v = vs[j]
  BY DEF ToSet
<1>2. QED
  BY <1>1 DEF Distinct

\* The versions that an upload cleans are old versions of the file.
LEMMA CleanIsOld ==
    ASSUME NEW V, NEW olds \in Seq(V), NEW keep \in BOOLEAN, NEW cs, cs = ToClean(olds, keep)
    PROVE  /\ cs \in Seq(V) /\ ToSet(cs) \subseteq ToSet(olds)
           /\ \A i \in 1 .. Len(cs) : i \in 1 .. Len(olds) /\ cs[i] = olds[i]
<1>1. MaxNumber \in Nat /\ Len(olds) \in Nat
  BY VFSAssumption
<1>2. CASE MaxNumber = 0
  <2>1. cs = olds
    BY <1>2 DEF ToClean
  <2>2. QED
    BY <2>1
<1>3. CASE MaxNumber # 0 /\ olds = <<>>
  <2>1. cs = olds
    BY <1>3 DEF ToClean
  <2>2. QED
    BY <2>1
<1>4. CASE MaxNumber # 0 /\ olds # <<>>
  <2>1. PICK n \in Int : n = TooMany(olds, keep)
    BY <1>1 DEF TooMany
  <2>2. PICK m \in Int : m = IF n <= Len(olds) THEN n ELSE Len(olds)
    BY <1>1
  <2>3. PICK c : c = SubSeq(olds, 1, m)
    OBVIOUS
  <2>4. cs = c
    BY <1>4, <2>1, <2>2, <2>3 DEF ToClean
  <2>5. m <= Len(olds)
    BY <1>1, <2>2
  <2>6. c \in Seq(V) /\ DOMAIN c = 1 .. Len(c) /\ \A i \in 1 .. Len(c) : i \in 1 .. Len(olds) /\ c[i] = olds[i]
    BY <1>1, <2>3, <2>5
  <2>7. \A e \in ToSet(c) : e \in ToSet(olds)
    BY <2>6 DEF ToSet
  <2>8. QED
    BY <2>4, <2>6, <2>7
<1>5. QED
  BY <1>2, <1>3, <1>4

LEMMA CleanWrites ==
    ASSUME NEW V, NEW vs \in Seq(V), NEW M,
           \A v \in ToSet(vs) : DeleteVersion(v) \in M /\ ObjectDelete({<<v.file, v.obj>>}) \in M
    PROVE  CleanOldVersions(vs) \in Seq(M)
<1>1. PICK N \in Nat : N = Len(vs)
  OBVIOUS
<1>2. \A i \in 1 .. 2 * N : (i + 1) \div 2 \in 1 .. N
  BY <1>1
<1>3. \A i \in 1 .. N : vs[i] \in ToSet(vs)
  BY <1>1 DEF ToSet
<1>4. PICK c : c = CleanOldVersions(vs)
  OBVIOUS
<1>5. c = [i \in 1 .. 2 * N |->
              IF i % 2 = 1 THEN DeleteVersion(vs[(i + 1) \div 2])
              ELSE ObjectDelete({<<vs[(i + 1) \div 2].file, vs[(i + 1) \div 2].obj>>})]
  BY <1>1, <1>4 DEF CleanOldVersions
<1>6. \A i \in 1 .. 2 * N : c[i] \in M
  <2>1. SUFFICES ASSUME NEW i \in 1 .. 2 * N PROVE c[i] \in M
    OBVIOUS
  <2>2. PICK v : v = vs[(i + 1) \div 2]
    OBVIOUS
  <2>3. v \in ToSet(vs)
    BY <1>2, <1>3, <2>2
  <2>4. c[i] \in {DeleteVersion(v), ObjectDelete({<<v.file, v.obj>>})}
    BY <1>5, <2>2
  <2>5. QED
    BY <2>3, <2>4
<1>7. 2 * N \in Nat /\ c = [i \in 1 .. 2 * N |-> c[i]]
  BY <1>5
<1>8. QED
  BY <1>4, <1>6, <1>7

LEMMA OldVersions ==
    ASSUME NEW V, NEW vs \in Seq(V), NEW files, NEW olds, olds = VersionsFor(vs, files)
    PROVE  olds \in Seq(V) /\ ToSet(olds) = {v \in ToSet(vs) : v.file \in files}
<1>1. PICK keep : keep = {v \in ToSet(vs) : v.file \in files}
  OBVIOUS
<1>2. olds = Only(vs, keep)
  BY <1>1 DEF VersionsFor
<1>3. olds \in Seq(V) /\ ToSet(olds) = ToSet(vs) \cap keep
  BY <1>2, OnlyElements
<1>4. QED
  BY <1>1, <1>3

LEMMA VersionWritesOK ==
    ASSUME NEW K, versions \in Seq(Version), NEW r \in Request, NEW q, ReqOK(r, q),
           HasSnap(q), q.snap.kind = "file", q.id \in K, NEW close \in BOOLEAN, NEW same \in BOOLEAN
    PROVE  \E M : /\ VersionWrites(q, r, close, same) \in Seq(M)
                  /\ \A w \in M : Plain(w) /\ Stores(w, K)
<1>1. PICK olds : olds = VersionsFor(versions, {q.id})
  OBVIOUS
<1>2. olds \in Seq(Version)
  BY <1>1, OldVersions
<1>3. PICK v : v = [file |-> q.id, obj |-> q.snap.obj, by |-> r]
  OBVIOUS
<1>4. v \in Version /\ v.file = q.id
  <2>1. q.id \in Id /\ GoodDoc(q.snap)
    BY SnapRev DEF SnapOK
  <2>2. q.snap.obj \in ObjId
    BY <2>1 DEF GoodDoc
  <2>3. QED
    BY <1>3, <2>1, <2>2 DEF Version
<1>5. PICK known \in BOOLEAN : known = (MaxNumber > 0 /\ \E i \in DOMAIN olds : olds[i].obj = v.obj)
  OBVIOUS
<1>6. PICK keep \in BOOLEAN : keep = (MaxNumber > 0 /\ (olds = <<>> \/ ~close))
  OBVIOUS
<1>7. PICK clean : clean = IF known THEN <<>> ELSE ToClean(olds, keep)
  OBVIOUS
<1>8. clean \in Seq(Version)
  <2>1. PICK cs : cs = ToClean(olds, keep)
    OBVIOUS
  <2>2. cs \in Seq(Version)
    BY <1>2, <2>1, CleanIsOld
  <2>3. QED
    BY <1>7, <2>1, <2>2
<1>9. PICK g \in BOOLEAN, h \in BOOLEAN : g = (keep /\ ~known /\ ~same) /\ h = (same \/ (~keep /\ ~known))
  OBVIOUS
<1>10. PICK w1, w2 : w1 = CreateVersion(v) /\ w2 = ObjectDelete({<<q.id, q.snap.obj>>})
  OBVIOUS
<1>11. PICK a, b, c : a = If(g, w1) /\ b = If(h, w2) /\ c = CleanOldVersions(clean)
  OBVIOUS
<1>12. VersionWrites(q, r, close, same) = (a \o b) \o c
  BY <1>1, <1>3, <1>5, <1>6, <1>7, <1>9, <1>10, <1>11, Zenon DEF VersionWrites
<1>13. PICK M : M = {w : w \in {w1, w2}} \cup {DeleteVersion(u) : u \in ToSet(clean)}
                    \cup {ObjectDelete({<<u.file, u.obj>>}) : u \in ToSet(clean)}
  OBVIOUS
<1>14. w1 \in M /\ w2 \in M
       /\ \A u \in ToSet(clean) : DeleteVersion(u) \in M /\ ObjectDelete({<<u.file, u.obj>>}) \in M
  BY <1>13
<1>15. a \in Seq(M) /\ b \in Seq(M) /\ c \in Seq(M)
  BY <1>8, <1>11, <1>14, IfSeq, CleanWrites
<1>16. (a \o b) \o c \in Seq(M)
  <2>1. a \o b \in Seq(M)
    BY <1>15
  <2>2. QED
    BY <1>15, <2>1
<1>17. ASSUME NEW w \in M PROVE Plain(w) /\ Stores(w, K)
  <2>1. CASE w = w1
    BY <1>4, <1>10, <2>1, VersionWrite
  <2>2. CASE w = w2
    BY <1>10, <2>2, EraseWrite
  <2>3. CASE w \in {DeleteVersion(u) : u \in ToSet(clean)}
    BY <2>3, UnversionWrite
  <2>4. CASE w \in {ObjectDelete({<<u.file, u.obj>>}) : u \in ToSet(clean)}
    BY <2>4, EraseWrite
  <2>5. QED
    BY <1>13, <2>1, <2>2, <2>3, <2>4
<1>18. QED
  BY <1>12, <1>16, <1>17

\* What comes after the put of an upload: the old content, cand, becomes a version or is
\* erased, then some old versions of the file are deleted, each one once and before its
\* object.
OldFile(cand) == {v \in ToSet(versions) : v.file = cand.file}
DeletesOld(writes, n, cand) ==
    \E v \in OldFile(cand) : /\ writes[n] = DeleteVersion(v)
                             /\ \A m \in 4 .. n - 1 : writes[m] # DeleteVersion(v)
ErasesOld(writes, n, cand) ==
    \E v \in OldFile(cand) : /\ writes[n - 1] = DeleteVersion(v)
                             /\ writes[n] = ObjectDelete({<<v.file, v.obj>>})
Cleans(writes, N, cand) ==
    \A n \in 4 .. N : \/ n = 4 /\ writes[n] = CreateVersion(cand)
                      \/ n = 4 /\ writes[n] = ObjectDelete({<<cand.file, cand.obj>>})
                      \/ DeletesOld(writes, n, cand)
                      \/ n > 4 /\ ErasesOld(writes, n, cand)

\* The section of an upload of r, which is at q.
Candidate(q, r) == [file |-> q.id, obj |-> q.snap.obj, by |-> r]
Uploads(r, q, doc, writes, N) ==
    /\ q = req[r] /\ q.op = "stored" /\ GoodDoc(doc) /\ doc.kind = "file" /\ doc.obj = r
    /\ writes[1].do = "check" /\ writes[2].do = "check" /\ writes[3] = Put(q.id, doc)
    /\ \/ ~HasSnap(q) /\ q.id = r /\ N <= 3
       \/ /\ HasSnap(q) /\ q.snap.kind = "file" /\ doc.rev = q.snap.rev + 1
          /\ Cleans(writes, N, Candidate(q, r))

LEMMA UploadStart ==
    ASSUME NEW r, NEW q, NEW doc, NEW N \in Nat, NEW writes, Uploads(r, q, doc, writes, N),
           NEW f, Trace(f, N, writes)
    PROVE  \A n \in 0 .. N : n < 3 => /\ f[n].docs = docs /\ f[n].vers = versions
                                      /\ f[n].jobs = journals /\ objects \subseteq f[n].objs
<1>1. \A n \in 1 .. N : n < 3 => n = 1 \/ n = 2
  OBVIOUS
<1>2. \A n \in 1 .. N : n < 3 => writes[n].do \in {"check", "store"}
  BY <1>1 DEF Uploads
<1>3. 3 \in Nat
  OBVIOUS
<1>4. QED
  BY <1>2, <1>3, UntilPut

\* The put of an upload replaces what was read.
LEMMA UploadPut ==
    ASSUME VInv, NEW r \in Request, NEW q, NEW doc, NEW N \in Nat, N >= 3, NEW writes,
           Uploads(r, q, doc, writes, N), NEW f, Trace(f, N, writes),
           NEW s, s = f[2], NEW t, t = f[3]
    PROVE  /\ t.ok => /\ t.docs = PutIn(docs, q.id, doc) /\ t.vers = versions
                      /\ objects \subseteq t.objs
                      /\ HasSnap(q) => q.id \in DOMAIN docs /\ docs[q.id] = q.snap
           /\ ~t.ok => t.docs = docs /\ t.vers = versions
<1>1. 3 \in 1 .. N /\ 3 - 1 = 2 /\ 2 \in 0 .. N /\ 2 < 3
  OBVIOUS
<1>2. /\ s.docs = docs /\ s.vers = versions /\ objects \subseteq s.objs
  <2>1. PICK m \in 0 .. N : m = 2 /\ m < 3 /\ s = f[m]
    BY <1>1
  <2>2. QED
    BY <2>1, UploadStart
<1>3. PICK w : w = Put(q.id, doc)
  OBVIOUS
<1>4. w.do = "put" /\ w.id = q.id /\ w.doc = doc
  BY <1>3 DEF Put
<1>5. w = writes[3]
  BY <1>3 DEF Uploads
<1>6. /\ t.ok => Effect(s, w, t) /\ ~Refused(s, w)
      /\ ~t.ok => t.docs = s.docs /\ SameStore(s, t)
  BY <1>1, <1>5, TraceStep
<1>7. CASE ~t.ok
  BY <1>2, <1>6, <1>7 DEF SameStore
<1>8. CASE t.ok
  <2>1. t.docs = PutIn(docs, q.id, doc) /\ t.vers = versions /\ t.objs = s.objs
    BY <1>2, <1>4, <1>6, <1>8 DEF Effect
  <2>2. ASSUME HasSnap(q) PROVE q.id \in DOMAIN docs /\ docs[q.id] = q.snap
    <3>1. q = req[r] /\ doc.rev = q.snap.rev + 1
      BY <2>2 DEF Uploads
    <3>2. QED
      BY <1>2, <1>3, <1>6, <1>8, <2>2, <3>1, FreshPut
  <2>3. QED
    BY <1>2, <1>8, <2>1, <2>2
<1>9. QED
  BY <1>7, <1>8

\* The states after the put: nothing is refused, and the versions are old ones, with cand.
Cleaned(s, D, writes, n, cand) ==
    /\ s.ok /\ s.docs = D
    /\ s.vers \in Seq(Version) /\ ToSet(s.vers) \subseteq ToSet(versions) \cup {cand}
    /\ \A v \in ToSet(versions) : (\A m \in 4 .. n : writes[m] # DeleteVersion(v)) => v \in ToSet(s.vers)

LEMMA CleanStep ==
    ASSUME versions \in Seq(Version), NEW cand \in Version, ~HasObject(versions, cand),
           NEW N \in Nat, NEW writes, Cleans(writes, N, cand), NEW f, Trace(f, N, writes),
           NEW D, NEW n \in 3 .. N - 1, Cleaned(f[n], D, writes, n, cand), n = 3 => f[n].vers = versions
    PROVE  Cleaned(f[n + 1], D, writes, n + 1, cand)
<1>1. n + 1 \in 1 .. N /\ (n + 1) - 1 = n /\ n + 1 \in 4 .. N /\ n \in Nat
  OBVIOUS
<1>2. PICK s, t, w : s = f[n] /\ t = f[n + 1] /\ w = writes[n + 1]
  OBVIOUS
<1>3. (t.ok <=> s.ok /\ ~Refused(s, w)) /\ (t.ok => Effect(s, w, t))
  BY <1>1, <1>2, TraceStep
<1>4. /\ s.ok /\ s.docs = D
      /\ s.vers \in Seq(Version) /\ ToSet(s.vers) \subseteq ToSet(versions) \cup {cand}
      /\ \A v \in ToSet(versions) :
            (\A m \in 4 .. n : writes[m] # DeleteVersion(v)) => v \in ToSet(s.vers)
  BY <1>2 DEF Cleaned
<1>5. \A m \in 4 .. n : m \in 4 .. n + 1
  BY <1>1
<1>6. SUFFICES /\ ~Refused(s, w)
               /\ Effect(s, w, t) =>
                     /\ t.docs = D /\ t.vers \in Seq(Version)
                     /\ ToSet(t.vers) \subseteq ToSet(versions) \cup {cand}
                     /\ \A v \in ToSet(s.vers) : w # DeleteVersion(v) => v \in ToSet(t.vers)
  <2>1. n + 1 \in 4 .. n + 1
    BY <1>1
  <2>2. QED
    BY <1>2, <1>3, <1>4, <1>5, <1>6, <2>1 DEF Cleaned
<1>7. CASE n + 1 = 4 /\ w = CreateVersion(cand)
  <2>1. w.do = "version" /\ w.ver = cand
    BY <1>7 DEF CreateVersion
  <2>2. s.vers = versions
    BY <1>1, <1>2, <1>7
  <2>3. ~Refused(s, w)
    BY <2>1, <2>2 DEF Refused, HasObject
  <2>4. PICK vs : vs = Append(versions, cand)
    OBVIOUS
  <2>5. vs \in Seq(Version) /\ ToSet(vs) = ToSet(versions) \cup {cand}
    BY <2>4, AppendVersion
  <2>6. Effect(s, w, t) => t.docs = s.docs /\ t.vers = vs
    BY <2>1, <2>2, <2>4 DEF Effect
  <2>7. QED
    BY <1>4, <2>2, <2>3, <2>5, <2>6
<1>8. CASE w.do = "erase"
  <2>1. ~Refused(s, w) /\ (Effect(s, w, t) => t.docs = s.docs /\ t.vers = s.vers)
    BY <1>8 DEF Refused, Effect
  <2>2. QED
    BY <1>4, <2>1
<1>9. CASE DeletesOld(writes, n + 1, cand)
  <2>1. PICK v \in ToSet(versions) : /\ w = DeleteVersion(v)
                                     /\ \A m \in 4 .. (n + 1) - 1 : writes[m] # DeleteVersion(v)
    BY <1>2, <1>9 DEF DeletesOld, OldFile
  <2>2. w.do = "unversion" /\ w.ver = v
    BY <2>1 DEF DeleteVersion
  <2>3. v \in ToSet(s.vers)
    BY <1>1, <1>4, <2>1
  <2>4. ~Refused(s, w)
    BY <2>2, <2>3 DEF Refused, HasVersion, ToSet
  <2>5. PICK vs, keep : vs = s.vers /\ keep = ToSet(s.vers) \ {v}
    OBVIOUS
  <2>6. Effect(s, w, t) => t.docs = s.docs /\ t.vers = Only(vs, keep)
    BY <2>2, <2>5 DEF Effect
  <2>7. vs \in Seq(Version)
    BY <1>4, <2>5
  <2>8. Only(vs, keep) \in Seq(Version) /\ ToSet(Only(vs, keep)) = ToSet(vs) \cap keep
    BY <2>7, OnlyElements
  <2>9. QED
    BY <1>4, <2>1, <2>4, <2>5, <2>6, <2>8
<1>10. \/ n + 1 = 4 /\ w = CreateVersion(cand)
       \/ w.do = "erase"
       \/ DeletesOld(writes, n + 1, cand)
  <2>1. PICK k \in 4 .. N : k = n + 1
    BY <1>1
  <2>2. \/ k = 4 /\ w = CreateVersion(cand)
        \/ k = 4 /\ w = ObjectDelete({<<cand.file, cand.obj>>})
        \/ DeletesOld(writes, k, cand)
        \/ k > 4 /\ ErasesOld(writes, k, cand)
    BY <1>2, <2>1 DEF Cleans
  <2>3. ErasesOld(writes, k, cand) => w.do = "erase"
    BY <1>2, <2>1 DEF ErasesOld, ObjectDelete
  <2>4. w = ObjectDelete({<<cand.file, cand.obj>>}) => w.do = "erase"
    BY DEF ObjectDelete
  <2>5. QED
    BY <2>1, <2>2, <2>3, <2>4
<1>11. QED
  BY <1>7, <1>8, <1>9, <1>10

LEMMA CleanTrace ==
    ASSUME versions \in Seq(Version), NEW cand \in Version, ~HasObject(versions, cand),
           NEW N \in Nat, NEW writes, Cleans(writes, N, cand), NEW f, Trace(f, N, writes),
           NEW D, N >= 3 => f[3].ok /\ f[3].docs = D /\ f[3].vers = versions
    PROVE  \A n \in 3 .. N : Cleaned(f[n], D, writes, n, cand)
<1>1. PICK T : T = {n \in 0 .. N : n >= 3 => Cleaned(f[n], D, writes, n, cand)}
  OBVIOUS
<1>2. 0 \in T
  BY <1>1
<1>3. \A n \in 0 .. N - 1 : n \in T => n + 1 \in T
  <2>1. SUFFICES ASSUME NEW n \in 0 .. N - 1, n \in T PROVE n + 1 \in T
    OBVIOUS
  <2>2. n + 1 \in 0 .. N
    OBVIOUS
  <2>3. CASE n + 1 < 3
    BY <1>1, <2>2, <2>3
  <2>4. CASE n + 1 = 3
    <3>1. N >= 3
      BY <2>4
    <3>2. Cleaned(f[3], D, writes, 3, cand)
      BY <3>1 DEF Cleaned
    <3>3. QED
      BY <1>1, <2>2, <2>4, <3>2
  <2>5. CASE n >= 3
    <3>1. n \in 3 .. N - 1 /\ (n = 3 => f[n].vers = versions)
      BY <2>5
    <3>2. Cleaned(f[n], D, writes, n, cand)
      BY <1>1, <2>1, <2>5
    <3>3. Cleaned(f[n + 1], D, writes, n + 1, cand)
      BY <3>1, <3>2, CleanStep
    <3>4. QED
      BY <1>1, <2>2, <3>3
  <2>6. QED
    BY <2>3, <2>4, <2>5
<1>4. 0 .. N \subseteq T
  BY <1>2, <1>3, BoundedInduction
<1>5. QED
  BY <1>1, <1>4

\* The old content is no longer the one of the file, and no version has it.
LEMMA CandidateFacts ==
    ASSUME VInv, CInv, ~midway, NEW q, NEW r \in Request, q = req[r], q.op = "stored",
           HasSnap(q), q.snap.kind = "file", q.id \in DOMAIN docs, docs[q.id] = q.snap,
           NEW cand, cand = Candidate(q, r)
    PROVE  /\ ~HasObject(versions, cand) /\ <<cand.file, cand.obj>> \in objects /\ cand.obj # r
           /\ \A v \in OldFile(cand) : v.obj # cand.obj /\ v.obj # r
<1>1. cand.file = q.id /\ cand.obj = q.snap.obj
  BY DEF Candidate
<1>2. Backed(docs, objects, versions) /\ versions \in Seq(Version)
  BY DEF CInv, VInv, StoreOK
<1>3. <<cand.file, cand.obj>> \in objects
  BY <1>1, <1>2 DEF Backed
<1>4. \A v \in ToSet(versions) : v.file = q.id => v.obj # q.snap.obj
  BY <1>2 DEF Backed, IsFile
<1>5. r \notin Used(docs, versions, journals, req)
  BY DEF CInv, Pending
<1>6. PICK U : U = Used(docs, versions, journals, req)
  OBVIOUS
<1>7. (\A x \in DOMAIN docs : docs[x].obj \in U) /\ \A v \in ToSet(versions) : v.obj \in U
  BY <1>6, UsedParts
<1>8. cand.obj # r /\ \A v \in ToSet(versions) : v.obj # r
  BY <1>1, <1>5, <1>6, <1>7
<1>9. ~HasObject(versions, cand)
  <2>1. \A i \in DOMAIN versions : versions[i] \in ToSet(versions)
    BY DEF ToSet
  <2>2. QED
    BY <1>1, <1>4, <2>1 DEF HasObject
<1>10. QED
  BY <1>1, <1>3, <1>4, <1>8, <1>9 DEF OldFile

LEMMA CandidateType ==
    ASSUME NEW r \in Request, NEW q, ReqOK(r, q), HasSnap(q), q.snap.kind = "file"
    PROVE  Candidate(q, r) \in Version
<1>1. q.id \in Id /\ GoodDoc(q.snap)
  BY SnapRev DEF SnapOK
<1>2. q.snap.obj \in ObjId
  BY <1>1 DEF GoodDoc
<1>3. QED
  BY <1>1, <1>2 DEF Candidate, Version

\* After the put, no write is refused.
LEMMA UploadCleans ==
    ASSUME VInv, CInv, ~midway, NEW r \in Request, NEW q, NEW doc, NEW N \in Nat, N >= 3,
           NEW writes, Uploads(r, q, doc, writes, N), NEW f, Trace(f, N, writes), f[3].ok, HasSnap(q)
    PROVE  \A n \in 3 .. N : Cleaned(f[n], PutIn(docs, q.id, doc), writes, n, Candidate(q, r))
<1>1. /\ q = req[r] /\ q.op = "stored" /\ q.snap.kind = "file" /\ Cleans(writes, N, Candidate(q, r))
  BY DEF Uploads
<1>2. PICK s, t : s = f[2] /\ t = f[3]
  OBVIOUS
<1>3. t.docs = PutIn(docs, q.id, doc) /\ t.vers = versions
      /\ q.id \in DOMAIN docs /\ docs[q.id] = q.snap
  BY <1>2, UploadPut
<1>4. PICK cand, D : cand = Candidate(q, r) /\ D = PutIn(docs, q.id, doc)
  OBVIOUS
<1>5. ReqOK(r, q) /\ versions \in Seq(Version)
  BY <1>1 DEF VInv, StoreOK
<1>6. cand \in Version /\ ~HasObject(versions, cand)
  BY <1>1, <1>3, <1>4, <1>5, CandidateType, CandidateFacts
<1>7. N >= 3 => f[3].ok /\ f[3].docs = D /\ f[3].vers = versions
  BY <1>2, <1>3, <1>4
<1>8. Cleans(writes, N, cand)
  BY <1>1, <1>4
<1>9. \A n \in 3 .. N : Cleaned(f[n], D, writes, n, cand)
  BY <1>5, <1>6, <1>7, <1>8, CleanTrace
<1>10. QED
  BY <1>4, <1>9

LEMMA UploadPutSafe ==
    ASSUME VInv, CInv, NEW r \in Request, NEW q, NEW doc, NEW N \in Nat,
           NEW writes, Uploads(r, q, doc, writes, N), NEW f, Trace(f, N, writes), 3 \in 1 .. N,
           NEW s, s = f[2], ~Refused(s, writes[3]), Sound(s, r, midway)
    PROVE  Safe(s, writes[3], r, midway)
<1>1. PICK m \in 0 .. N : m = 2 /\ m < 3 /\ s = f[m]
  OBVIOUS
<1>2. s.docs = docs /\ s.vers = versions /\ objects \subseteq s.objs
  BY <1>1, UploadStart
<1>3. PICK w : w = Put(q.id, doc)
  OBVIOUS
<1>4. w.do = "put" /\ w.id = q.id /\ w.doc = doc /\ w = writes[3]
  BY <1>3 DEF Put, Uploads
<1>5. q = req[r] /\ q.op = "stored" /\ GoodDoc(doc) /\ doc.obj = r
  BY DEF Uploads
<1>6. r \notin Used(docs, versions, journals, req) /\ <<q.id, r>> \in objects
  BY <1>5 DEF CInv, Pending
<1>7. \A v \in ToSet(s.vers) : v.obj # r
  BY <1>2, <1>6, OwnObject
<1>8. \A j \in s.jobs : q.id \notin j.files
  <2>1. CASE HasSnap(q)
    <3>1. doc.rev = q.snap.rev + 1
      BY <2>1 DEF Uploads
    <3>2. q.id \in DOMAIN s.docs
      BY <1>2, <1>3, <1>4, <1>5, <2>1, <3>1, FreshPut
    <3>3. QED
      BY <3>2 DEF Sound
  <2>2. CASE ~HasSnap(q)
    <3>1. q.id = r
      BY <2>2 DEF Uploads
    <3>2. r \in Unborn(r, q)
      BY <1>5 DEF Unborn
    <3>3. r \notin Known(docs, versions, journals, req)
      BY <1>5, <3>2 DEF VInv
    <3>4. QED
      BY <3>1, <3>3 DEF Sound
  <2>3. QED
    BY <2>1, <2>2
<1>9. IsDoc(doc) /\ doc.obj \in Mine(r)
  BY <1>5, MineParts DEF GoodDoc
<1>10. <<q.id, doc.obj>> \in s.objs /\ \A v \in ToSet(s.vers) : v.obj # doc.obj
  BY <1>2, <1>5, <1>6, <1>7
<1>11. Safe(s, w, r, midway)
  BY <1>4, <1>8, <1>9, <1>10 DEF Safe
<1>12. QED
  BY <1>4, <1>11

\* The first write after the put: the old content becomes a version, or is erased.
LEMMA UploadOldSafe ==
    ASSUME VInv, CInv, NEW r \in Request, NEW q, NEW doc, NEW N \in Nat, N >= 3,
           NEW writes, Uploads(r, q, doc, writes, N), NEW f, Trace(f, N, writes), HasSnap(q),
           NEW s, s = f[3], s.ok, NEW cand, cand = Candidate(q, r), NEW w,
           w = CreateVersion(cand) \/ w = ObjectDelete({<<cand.file, cand.obj>>})
    PROVE  Safe(s, w, r, midway)
<1>1. q = req[r] /\ q.op = "stored" /\ q.snap.kind = "file" /\ ReqOK(r, q) /\ doc.obj = r
  BY DEF Uploads, VInv
<1>2. cand \in Version /\ cand.file = q.id /\ cand.obj = q.snap.obj /\ cand.obj \in Mine(r)
  BY <1>1, CandidateType, MineParts DEF Candidate
<1>3. PICK s2 : s2 = f[2]
  OBVIOUS
<1>4. /\ s.docs = PutIn(docs, q.id, doc) /\ s.vers = versions /\ objects \subseteq s.objs
      /\ q.id \in DOMAIN docs /\ docs[q.id] = q.snap
  BY <1>3, UploadPut
<1>5. PICK D : D = s.docs
  OBVIOUS
<1>6. D[q.id] = doc /\ DOMAIN D = DOMAIN docs \cup {q.id} /\ \A x \in DOMAIN docs \ {q.id} : D[x] = docs[x]
  BY <1>4, <1>5 DEF PutIn
<1>7. ASSUME ~midway
      PROVE  /\ <<cand.file, cand.obj>> \in s.objs /\ D[cand.file].obj # cand.obj
             /\ ~Needed(s, <<cand.file, cand.obj>>)
  <2>1. /\ ~HasObject(versions, cand) /\ <<cand.file, cand.obj>> \in objects /\ cand.obj # r
        /\ \A v \in OldFile(cand) : v.obj # cand.obj
    BY <1>1, <1>2, <1>4, <1>7, CandidateFacts
  <2>2. \A v \in ToSet(s.vers) : <<cand.file, cand.obj>> # <<v.file, v.obj>>
    BY <1>4, <2>1 DEF OldFile
  <2>3. \A x \in DOMAIN D : <<cand.file, cand.obj>> # <<x, D[x].obj>>
    BY <1>1, <1>2, <1>6, <2>1
  <2>4. ~Needed(s, <<cand.file, cand.obj>>)
    BY <1>5, <2>2, <2>3 DEF Needed
  <2>5. QED
    BY <1>1, <1>2, <1>4, <1>6, <2>1, <2>4
<1>8. CASE w = CreateVersion(cand)
  <2>1. w.do = "version" /\ w.ver = cand
    BY <1>8 DEF CreateVersion
  <2>2. QED
    BY <1>2, <1>5, <1>7, <2>1 DEF Safe
<1>9. CASE w = ObjectDelete({<<cand.file, cand.obj>>})
  <2>1. w.do = "erase" /\ w.of = {<<cand.file, cand.obj>>}
    BY <1>9 DEF ObjectDelete
  <2>2. QED
    BY <1>2, <1>7, <2>1 DEF Safe
<1>10. QED
  BY <1>8, <1>9

LEMMA UploadFresh ==
    ASSUME VInv, NEW r \in Request, NEW q, NEW doc, NEW N \in Nat, N >= 3, NEW writes,
           Uploads(r, q, doc, writes, N), NEW f, Trace(f, N, writes), f[3].ok, HasSnap(q)
    PROVE  q.id \in DOMAIN docs /\ docs[q.id] = q.snap
<1>1. PICK s, t : s = f[2] /\ t = f[3]
  OBVIOUS
<1>2. t.ok /\ (t.ok => t.vers = versions /\ q.id \in DOMAIN docs /\ docs[q.id] = q.snap)
  BY <1>1, UploadPut
<1>3. QED
  BY <1>2

\* The object of an old version, after it was deleted.
LEMMA UploadErasesSafe ==
    ASSUME VInv, CInv, NEW r \in Request, NEW q, NEW doc, NEW N \in Nat,
           NEW writes, Uploads(r, q, doc, writes, N), NEW f, Trace(f, N, writes), HasSnap(q), f[3].ok,
           NEW n \in 5 .. N, ErasesOld(writes, n, Candidate(q, r)), f[n - 1].ok
    PROVE  Safe(f[n - 1], writes[n], r, midway)
<1>1. q = req[r] /\ q.op = "stored" /\ q.snap.kind = "file" /\ ReqOK(r, q) /\ doc.obj = r
  BY DEF Uploads, VInv
<1>2. PICK cand : cand = Candidate(q, r)
  OBVIOUS
<1>3. PICK v \in ToSet(versions) : /\ v.file = cand.file /\ writes[n - 1] = DeleteVersion(v)
                                   /\ writes[n] = ObjectDelete({<<v.file, v.obj>>})
  BY <1>2 DEF ErasesOld, OldFile
<1>4. PICK s, t, u, w : s = f[(n - 1) - 1] /\ t = f[n - 1] /\ u = writes[n - 1] /\ w = writes[n]
  OBVIOUS
<1>5. u.do = "unversion" /\ u.ver = v /\ w.do = "erase" /\ w.of = {<<v.file, v.obj>>}
  BY <1>3, <1>4 DEF DeleteVersion, ObjectDelete
<1>6. v.obj \in Mine(r)
  BY MineParts
<1>7. ASSUME ~midway PROVE ~Needed(t, <<v.file, v.obj>>)
  <2>1. N >= 3 /\ n - 1 \in 1 .. N /\ n - 1 \in 3 .. N /\ (n - 1) - 1 \in 3 .. N
    OBVIOUS
  <2>2. PICK D : D = PutIn(docs, q.id, doc)
    OBVIOUS
  <2>3. \A m \in 3 .. N : Cleaned(f[m], D, writes, m, cand)
    BY <1>2, <1>7, <2>1, <2>2, UploadCleans
  <2>4. Cleaned(s, D, writes, (n - 1) - 1, cand) /\ Cleaned(t, D, writes, n - 1, cand)
    BY <1>4, <2>1, <2>3
  <2>5. t.ok => Effect(s, u, t)
    BY <1>4, <2>1, TraceStep
  <2>6. PICK vs, keep : vs = s.vers /\ keep = ToSet(s.vers) \ {v}
    OBVIOUS
  <2>7. t.vers = Only(vs, keep)
    BY <1>4, <1>5, <2>5, <2>6 DEF Effect
  <2>8. vs \in Seq(Version) /\ ToSet(vs) \subseteq ToSet(versions) \cup {cand} /\ t.docs = D
    BY <2>4, <2>6 DEF Cleaned
  <2>9. ToSet(t.vers) = ToSet(vs) \cap keep
    BY <2>7, <2>8, OnlyElements
  <2>10. q.id \in DOMAIN docs /\ docs[q.id] = q.snap
    <3>1. N >= 3
      BY <2>1
    <3>2. QED
      BY <3>1, UploadFresh
  <2>11. v.obj # cand.obj /\ v.obj # r
    <3>1. /\ ~HasObject(versions, cand)
          /\ <<cand.file, cand.obj>> \in objects /\ cand.obj # r
          /\ \A x \in OldFile(cand) : x.obj # cand.obj /\ x.obj # r
      <4>1. VInv /\ CInv /\ ~midway /\ HasSnap(q) /\ r \in Request
        BY <1>7
      <4>2. q = req[r] /\ q.op = "stored" /\ q.snap.kind = "file"
        BY <1>1
      <4>3. QED
        BY ONLY <1>2, <2>10, <4>1, <4>2, CandidateFacts
    <3>2. QED
      BY <1>3, <3>1 DEF OldFile
  <2>12. ASSUME NEW x \in ToSet(t.vers) PROVE <<v.file, v.obj>> # <<x.file, x.obj>>
    <3>1. x # v /\ (x \in ToSet(versions) \/ x = cand)
      BY <2>6, <2>8, <2>9
    <3>2. versions \in Seq(Version) /\ Distinct(versions)
      BY DEF VInv, StoreOK, CInv
    <3>3. CASE x = cand
      BY <2>11, <3>3
    <3>4. CASE x \in ToSet(versions)
      BY <3>1, <3>2, <3>4, DistinctValues
    <3>5. QED
      BY <3>1, <3>3, <3>4
  <2>13. ASSUME NEW x \in DOMAIN D PROVE <<v.file, v.obj>> # <<x, D[x].obj>>
    <3>1. D[q.id] = doc
      BY <2>2 DEF PutIn
    <3>2. v.file = q.id
      BY <1>2, <1>3 DEF Candidate
    <3>3. QED
      BY <1>1, <2>11, <3>1, <3>2
  <2>14. QED
    BY <2>8, <2>12, <2>13 DEF Needed
<1>8. Safe(t, w, r, midway)
  BY <1>5, <1>6, <1>7 DEF Safe
<1>9. QED
  BY <1>4, <1>8

LEMMA UploadSafe ==
    ASSUME VInv, CInv, NEW r \in Request, NEW q, NEW doc, NEW N \in Nat,
           NEW writes, Uploads(r, q, doc, writes, N), NEW f, Trace(f, N, writes)
    PROVE  AllSafe(f, N, writes, r, midway)
<1>1. SUFFICES ASSUME NEW n \in 1 .. N, f[n - 1].ok, ~Refused(f[n - 1], writes[n]),
                      Sound(f[n - 1], r, midway)
               PROVE  Safe(f[n - 1], writes[n], r, midway)
  BY DEF AllSafe
<1>2. CASE n = 1 \/ n = 2
  <2>1. writes[n].do = "check"
    BY <1>2 DEF Uploads
  <2>2. QED
    BY <2>1 DEF Safe
<1>3. CASE n = 3
  <2>1. 3 \in 1 .. N /\ 3 - 1 = 2 /\ n - 1 = 2
    BY <1>3
  <2>2. PICK s : s = f[2]
    OBVIOUS
  <2>3. ~Refused(s, writes[3]) /\ Sound(s, r, midway)
    BY <1>1, <1>3, <2>1, <2>2
  <2>4. Safe(s, writes[3], r, midway)
    BY <2>1, <2>2, <2>3, UploadPutSafe
  <2>5. QED
    BY <1>3, <2>1, <2>2, <2>4
<1>4. CASE n >= 4
  <2>1. n \in 4 .. N /\ N >= 3 /\ 3 \in 0 .. N /\ ~(N <= 3)
    BY <1>4
  <2>2. HasSnap(q) /\ Cleans(writes, N, Candidate(q, r))
    BY <2>1 DEF Uploads
  <2>3. f[3].ok
    <3>1. ASSUME ~f[3].ok PROVE FALSE
      <4>1. n - 1 \in 3 .. N
        BY <2>1
      <4>2. f[n - 1] = f[3]
        BY <2>1, <3>1, <4>1, Stays
      <4>3. QED
        BY <1>1, <3>1, <4>2
    <3>2. QED
      BY <3>1
  <2>4. PICK cand : cand = Candidate(q, r)
    OBVIOUS
  <2>5. \/ n = 4 /\ writes[n] = CreateVersion(cand)
        \/ n = 4 /\ writes[n] = ObjectDelete({<<cand.file, cand.obj>>})
        \/ DeletesOld(writes, n, cand)
        \/ n > 4 /\ ErasesOld(writes, n, cand)
    BY <2>1, <2>2, <2>4 DEF Cleans
  <2>6. CASE n = 4 /\ (\/ writes[n] = CreateVersion(cand)
                       \/ writes[n] = ObjectDelete({<<cand.file, cand.obj>>}))
    <3>1. PICK s, w : s = f[3] /\ w = writes[n]
      OBVIOUS
    <3>2. s.ok /\ (w = CreateVersion(cand) \/ w = ObjectDelete({<<cand.file, cand.obj>>}))
      BY <2>3, <2>6, <3>1
    <3>3. Safe(s, w, r, midway)
      BY <2>1, <2>2, <2>4, <3>1, <3>2, UploadOldSafe
    <3>4. n - 1 = 3
      BY <2>6
    <3>5. QED
      BY <3>1, <3>3, <3>4
  <2>7. CASE DeletesOld(writes, n, cand)
    BY <2>7 DEF DeletesOld, DeleteVersion, Safe
  <2>8. CASE n > 4 /\ ErasesOld(writes, n, cand)
    <3>1. n \in 5 .. N
      BY <2>8
    <3>2. QED
      BY <1>1, <2>2, <2>3, <2>4, <2>8, <3>1, UploadErasesSafe
  <2>9. QED
    BY <2>5, <2>6, <2>7, <2>8
<1>5. n = 1 \/ n = 2 \/ n = 3 \/ n >= 4
  OBVIOUS
<1>6. QED
  BY <1>2, <1>3, <1>4, <1>5

\* The object is erased when a write is refused: it was before the put.
LEMMA UploadUndone ==
    ASSUME VInv, CInv, NEW r \in Request, NEW q, NEW doc, NEW N \in Nat,
           NEW writes, Uploads(r, q, doc, writes, N), NEW f, Trace(f, N, writes), ~f[N].ok,
           NEW undo, undo = ObjectDelete({<<q.id, r>>})
    PROVE  Safe(f[N], undo, r, midway)
<1>1. undo.do = "erase" /\ undo.of = {<<q.id, r>>}
  BY DEF ObjectDelete
<1>2. q = req[r] /\ q.op = "stored"
  BY DEF Uploads
<1>3. r \notin Used(docs, versions, journals, req)
  BY <1>2 DEF CInv, Pending
<1>4. PICK e : e = f[N]
  OBVIOUS
<1>5. ASSUME ~midway PROVE e.docs = docs /\ e.vers = versions
  <2>1. CASE N < 3
    <3>1. PICK m \in 0 .. N : m = N /\ m < 3 /\ e = f[m]
      BY <1>4, <2>1
    <3>2. \A n \in 0 .. N : n < 3 => /\ f[n].docs = docs /\ f[n].vers = versions
                                     /\ f[n].jobs = journals /\ objects \subseteq f[n].objs
      BY UploadStart
    <3>3. QED
      BY <3>1, <3>2
  <2>2. CASE N >= 3
    <3>1. ~f[3].ok
      <4>1. ASSUME f[3].ok PROVE FALSE
        <5>1. CASE N = 3
          BY <4>1, <5>1
        <5>2. CASE N # 3
          <6>1. HasSnap(q) /\ N \in 3 .. N
            BY <2>2, <5>2 DEF Uploads
          <6>2. Cleaned(f[N], PutIn(docs, q.id, doc), writes, N, Candidate(q, r))
            BY <1>5, <2>2, <4>1, <6>1, UploadCleans
          <6>3. QED
            BY <6>2 DEF Cleaned
        <5>3. QED
          BY <5>1, <5>2
      <4>2. QED
        BY <4>1
    <3>2. 3 \in 0 .. N /\ N \in 3 .. N
      BY <2>2
    <3>3. f[N] = f[3]
      BY <3>1, <3>2, Stays
    <3>4. PICK s, t : s = f[2] /\ t = f[3]
      OBVIOUS
    <3>5. t.docs = docs /\ t.vers = versions
      BY <2>2, <3>1, <3>4, UploadPut
    <3>6. QED
      BY <1>4, <3>3, <3>4, <3>5
  <2>3. QED
    BY <2>1, <2>2
<1>6. ASSUME ~midway PROVE ~Needed(e, <<q.id, r>>)
  BY <1>3, <1>5, <1>6, OwnObject
<1>7. r \in Mine(r)
  BY DEF Mine
<1>8. \A o \in undo.of : o[2] \in Mine(r) /\ (midway \/ ~Needed(e, o))
  BY <1>1, <1>6, <1>7
<1>9. QED
  BY <1>1, <1>4, <1>8 DEF Safe

\* The writes of cleanOldVersion for some versions: each one once, and before its object.
Once(vs) == \A i, j \in 1 .. Len(vs) : vs[i] = vs[j] => i = j
CleansOne(c, k, vs) ==
    \/ \E v \in ToSet(vs) : /\ c[k] = DeleteVersion(v)
                            /\ \A m \in 1 .. k - 1 : c[m] # DeleteVersion(v)
    \/ k > 1 /\ \E v \in ToSet(vs) : /\ c[k - 1] = DeleteVersion(v)
                                     /\ c[k] = ObjectDelete({<<v.file, v.obj>>})
LEMMA CleanShape ==
    ASSUME NEW V, NEW vs \in Seq(V), Once(vs),
           NEW c, c = CleanOldVersions(vs), NEW k \in DOMAIN c
    PROVE  CleansOne(c, k, vs)
<1> USE DEF CleansOne
<1>1. PICK N \in Nat : N = Len(vs) /\ DOMAIN vs = 1 .. N
  OBVIOUS
<1>2. c = [i \in 1 .. 2 * N |->
             IF i % 2 = 1 THEN DeleteVersion(vs[(i + 1) \div 2])
             ELSE ObjectDelete({<<vs[(i + 1) \div 2].file, vs[(i + 1) \div 2].obj>>})]
  BY <1>1, Zenon DEF CleanOldVersions
<1>3. k \in 1 .. 2 * N
  BY <1>2
<1>4. ASSUME NEW i \in 1 .. 2 * N
      PROVE  \E j \in 1 .. N : \/ i = 2 * j - 1 /\ c[i] = DeleteVersion(vs[j])
                               \/ i = 2 * j /\ c[i] = ObjectDelete({<<vs[j].file, vs[j].obj>>})
  <2>1. PICK j \in 1 .. N : j = (i + 1) \div 2 /\ (i = 2 * j - 1 \/ i = 2 * j)
    BY SMT
  <2>2. CASE i = 2 * j - 1
    <3>1. i % 2 = 1
      BY <2>2, SMT
    <3>2. QED
      BY <1>2, <2>1, <2>2, <3>1
  <2>3. CASE i = 2 * j
    <3>1. i % 2 # 1
      BY <2>3, SMT
    <3>2. QED
      BY <1>2, <2>1, <2>3, <3>1
  <2>4. QED
    BY <2>1, <2>2, <2>3
<1>5. \A v, w : DeleteVersion(v) = DeleteVersion(w) => v = w
  BY DEF DeleteVersion
<1>6. \A v, os : DeleteVersion(v) # ObjectDelete(os)
  BY DEF DeleteVersion, ObjectDelete
<1>7. PICK j \in 1 .. N : \/ k = 2 * j - 1 /\ c[k] = DeleteVersion(vs[j])
                          \/ k = 2 * j /\ c[k] = ObjectDelete({<<vs[j].file, vs[j].obj>>})
  BY <1>3, <1>4
<1>8. PICK v : v = vs[j]
  OBVIOUS
<1>9. v \in ToSet(vs)
  BY <1>1, <1>8 DEF ToSet
<1>10. CASE k = 2 * j - 1 /\ c[k] = DeleteVersion(v)
  <2>1. ASSUME NEW m \in 1 .. k - 1, c[m] = DeleteVersion(v) PROVE FALSE
    <3>1. m \in 1 .. 2 * N
      BY <1>3
    <3>2. PICK i \in 1 .. N : \/ m = 2 * i - 1 /\ c[m] = DeleteVersion(vs[i])
                              \/ m = 2 * i /\ c[m] = ObjectDelete({<<vs[i].file, vs[i].obj>>})
      BY <1>4, <3>1
    <3>3. m = 2 * i - 1 /\ vs[i] = v
      BY <1>5, <1>6, <2>1, <3>2
    <3>4. i = j
      BY <1>1, <1>8, <3>3 DEF Once
    <3>5. QED
      BY <1>10, <3>3, <3>4
  <2>2. QED
    BY <1>9, <1>10, <2>1
<1>11. CASE k = 2 * j /\ c[k] = ObjectDelete({<<v.file, v.obj>>})
  <2>1. k - 1 \in 1 .. 2 * N /\ k > 1
    BY <1>11
  <2>2. PICK i \in 1 .. N : \/ k - 1 = 2 * i - 1 /\ c[k - 1] = DeleteVersion(vs[i])
                            \/ k - 1 = 2 * i /\ c[k - 1] = ObjectDelete({<<vs[i].file, vs[i].obj>>})
    BY <1>4, <2>1
  <2>3. i = j /\ c[k - 1] = DeleteVersion(vs[i])
    BY <1>11, <2>2
  <2>4. QED
    BY <1>8, <1>9, <1>11, <2>1, <2>3
<1>12. QED
  BY <1>7, <1>8, <1>10, <1>11

\* What comes after the put, when the writes after the third one are those of b.
Follows(writes, b, N) == N <= 3 + Len(b) /\ \A k \in 1 .. Len(b) : writes[3 + k] = b[k]
\* What is done with the old content.
Keeps(pre, cand) ==
    /\ Len(pre) <= 1
    /\ \A i \in 1 .. Len(pre) : \/ pre[i] = CreateVersion(cand)
                               \/ pre[i] = ObjectDelete({<<cand.file, cand.obj>>})
LEMMA CleansShape ==
    ASSUME NEW W, NEW cand, NEW pre \in Seq(W), NEW c \in Seq(W), NEW b, b = pre \o c,
           Keeps(pre, cand), NEW vs \in Seq(Version), Once(vs),
           ToSet(vs) \subseteq OldFile(cand), c = CleanOldVersions(vs),
           NEW N \in Nat, NEW writes, Follows(writes, b, N)
    PROVE  Cleans(writes, N, cand)
<1> USE DEF Follows, Keeps
<1>1. PICK p \in 0 .. 1 : p = Len(pre)
  <2>1. PICK n \in Nat : n = Len(pre)
    OBVIOUS
  <2>2. n <= 1
    BY <2>1
  <2>3. QED
    BY <2>1, <2>2
<1>2. PICK L \in Nat : L = Len(c) /\ DOMAIN c = 1 .. L
  OBVIOUS
<1>3. /\ Len(b) = p + L
      /\ \A i \in 1 .. p : b[i] = pre[i]
      /\ \A i \in 1 .. L : b[p + i] = c[i]
  BY <1>1, <1>2, SeqConcat
<1>4. \A i \in 1 .. L : writes[3 + p + i] = c[i]
  <2>1. SUFFICES ASSUME NEW i \in 1 .. L PROVE writes[3 + p + i] = c[i]
    OBVIOUS
  <2>2. p + i \in 1 .. Len(b) /\ 3 + (p + i) = 3 + p + i
    BY <1>3
  <2>3. writes[3 + (p + i)] = b[p + i]
    BY <2>2
  <2>4. QED
    BY <1>3, <2>2, <2>3
<1>5. p = 1 => \/ writes[4] = CreateVersion(cand)
               \/ writes[4] = ObjectDelete({<<cand.file, cand.obj>>})
  <2>1. SUFFICES ASSUME p = 1 PROVE \/ writes[4] = CreateVersion(cand)
                                    \/ writes[4] = ObjectDelete({<<cand.file, cand.obj>>})
    OBVIOUS
  <2>2. PICK k \in 1 .. p : k = 1 /\ k \in 1 .. Len(b) /\ 3 + k = 4
    BY <1>3, <2>1
  <2>3. writes[4] = b[k] /\ b[k] = pre[k]
    BY <1>3, <2>2
  <2>4. QED
    BY <1>1, <2>2, <2>3
<1>6. \A v, os : DeleteVersion(v) # CreateVersion(cand) /\ DeleteVersion(v) # ObjectDelete(os)
  BY DEF DeleteVersion, CreateVersion, ObjectDelete
<1>7. SUFFICES ASSUME NEW n \in 4 .. N
               PROVE  \/ n = 4 /\ writes[n] = CreateVersion(cand)
                      \/ n = 4 /\ writes[n] = ObjectDelete({<<cand.file, cand.obj>>})
                      \/ DeletesOld(writes, n, cand)
                      \/ n > 4 /\ ErasesOld(writes, n, cand)
  BY DEF Cleans
<1>8. CASE n <= 3 + p
  <2>1. n = 4 /\ p = 1
    BY <1>8
  <2>2. QED
    BY <1>5, <2>1
<1>9. CASE ~(n <= 3 + p)
  <2>1. PICK k \in 1 .. L : n = 3 + p + k
    <3>1. n - (3 + p) \in 1 .. L /\ n = 3 + p + (n - (3 + p))
      BY <1>3, <1>9
    <3>2. QED
      BY <3>1
  <2>2. k \in DOMAIN c /\ writes[n] = c[k]
    BY <1>2, <1>4, <2>1
  <2>3. CleansOne(c, k, vs)
    BY <2>2, CleanShape
  <2>4. ASSUME NEW v \in ToSet(vs), c[k] = DeleteVersion(v), \A m \in 1 .. k - 1 : c[m] # DeleteVersion(v)
        PROVE  DeletesOld(writes, n, cand)
    <3>1. ASSUME NEW m \in 4 .. n - 1 PROVE writes[m] # DeleteVersion(v)
      <4>1. CASE m <= 3 + p
        <5>1. m = 4 /\ p = 1
          BY <4>1
        <5>2. QED
          BY <1>5, <1>6, <5>1
      <4>2. CASE ~(m <= 3 + p)
        <5>1. PICK i \in 1 .. k - 1 : m = 3 + p + i
          <6>1. m - (3 + p) \in 1 .. k - 1 /\ m = 3 + p + (m - (3 + p))
            BY <2>1, <4>2
          <6>2. QED
            BY <6>1
        <5>2. i \in 1 .. L
          OBVIOUS
        <5>3. writes[m] = c[i]
          BY <1>4, <5>1, <5>2
        <5>4. QED
          BY <2>4, <5>1, <5>3
      <4>3. QED
        BY <4>1, <4>2
    <3>2. v \in OldFile(cand) /\ writes[n] = DeleteVersion(v)
      BY <2>2, <2>4
    <3>3. QED
      BY <3>1, <3>2 DEF DeletesOld
  <2>5. ASSUME k > 1, NEW v \in ToSet(vs), c[k - 1] = DeleteVersion(v),
               c[k] = ObjectDelete({<<v.file, v.obj>>})
        PROVE  n > 4 /\ ErasesOld(writes, n, cand)
    <3>1. k - 1 \in 1 .. L /\ 3 + p + (k - 1) = n - 1 /\ n > 4
      BY <2>1, <2>5
    <3>2. writes[3 + p + (k - 1)] = c[k - 1]
      BY <1>4, <3>1
    <3>3. v \in OldFile(cand) /\ writes[n - 1] = DeleteVersion(v)
          /\ writes[n] = ObjectDelete({<<v.file, v.obj>>})
      BY <2>2, <2>5, <3>1, <3>2
    <3>4. QED
      BY <3>1, <3>3 DEF ErasesOld
  <2>6. QED
    BY <2>3, <2>4, <2>5 DEF CleansOne
<1>10. QED
  BY <1>8, <1>9

LEMMA OldsOnce ==
    ASSUME versions \in Seq(Version), Distinct(versions), NEW id, NEW olds,
           olds = VersionsFor(versions, {id}), NEW keep \in BOOLEAN,
           NEW clean, clean = <<>> \/ clean = ToClean(olds, keep)
    PROVE  /\ clean \in Seq(Version) /\ Once(clean)
           /\ \A v \in ToSet(clean) : v \in ToSet(versions) /\ v.file = id
<1>1. PICK vs, only : vs = versions /\ only = {v \in ToSet(versions) : v.file \in {id}}
  OBVIOUS
<1>2. vs \in Seq(Version) /\ Distinct(vs) /\ olds = Only(vs, only)
  BY <1>1 DEF VersionsFor
<1>3. olds \in Seq(Version) /\ ToSet(olds) = ToSet(vs) \cap only /\ Distinct(olds)
  <2>1. /\ Only(vs, only) \in Seq(Version) /\ ToSet(Only(vs, only)) = ToSet(vs) \cap only
        /\ Distinct(vs) => Distinct(Only(vs, only))
    BY <1>2, OnlyElements
  <2>2. QED
    BY <1>2, <2>1
<1>4. CASE clean = <<>>
  <2>2. clean \in Seq(Version) /\ Len(clean) = 0 /\ DOMAIN clean = 1 .. 0
    BY ONLY <1>4
  <2>3. \A v \in ToSet(clean) : FALSE
    BY <2>2 DEF ToSet
  <2>4. QED
    BY <2>2, <2>3 DEF Once
<1>5. CASE clean = ToClean(olds, keep)
  <2>2. /\ clean \in Seq(Version) /\ ToSet(clean) \subseteq ToSet(olds)
        /\ \A i \in 1 .. Len(clean) : i \in 1 .. Len(olds) /\ clean[i] = olds[i]
        /\ DOMAIN olds = 1 .. Len(olds)
    <3>1. PICK cs : cs = ToClean(olds, keep)
      OBVIOUS
    <3>4. olds \in Seq(Version) /\ keep \in BOOLEAN
      BY <1>3
    <3>2. /\ cs \in Seq(Version) /\ ToSet(cs) \subseteq ToSet(olds)
          /\ \A i \in 1 .. Len(cs) : i \in 1 .. Len(olds) /\ cs[i] = olds[i]
      BY ONLY <3>1, <3>4, CleanIsOld
    <3>3. QED
      BY ONLY <1>3, <1>5, <3>1, <3>2
  <2>3. ASSUME NEW i \in 1 .. Len(clean), NEW j \in 1 .. Len(clean), clean[i] = clean[j]
        PROVE  i = j
    <3>1. i \in DOMAIN olds /\ j \in DOMAIN olds /\ olds[i] = olds[j]
      BY <1>3, <2>2, <2>3
    <3>2. QED
      BY <1>3, <3>1 DEF Distinct
  <2>4. QED
    BY <1>1, <1>3, <2>2, <2>3 DEF Once
<1>6. QED
  BY <1>4, <1>5

LEMMA VersionWritesClean ==
    ASSUME versions \in Seq(Version), Distinct(versions), NEW r \in Request, NEW q,
           ReqOK(r, q), HasSnap(q), q.snap.kind = "file",
           NEW close \in BOOLEAN, NEW same \in BOOLEAN, NEW b, b = VersionWrites(q, r, close, same),
           NEW N \in Nat, NEW writes, Follows(writes, b, N)
    PROVE  Cleans(writes, N, Candidate(q, r))
<1>1. PICK cand, olds : cand = Candidate(q, r) /\ olds = VersionsFor(versions, {q.id})
  OBVIOUS
<1>2. cand = [file |-> q.id, obj |-> q.snap.obj, by |-> r] /\ cand.file = q.id /\ cand.obj = q.snap.obj
  BY <1>1 DEF Candidate
<1>3. PICK known \in BOOLEAN : known = (MaxNumber > 0 /\ \E i \in DOMAIN olds : olds[i].obj = cand.obj)
  OBVIOUS
<1>4. PICK keep \in BOOLEAN : keep = (MaxNumber > 0 /\ (olds = <<>> \/ ~close))
  OBVIOUS
<1>5. PICK clean : clean = IF known THEN <<>> ELSE ToClean(olds, keep)
  OBVIOUS
<1>6. /\ clean \in Seq(Version) /\ Once(clean)
      /\ \A v \in ToSet(clean) : v \in ToSet(versions) /\ v.file = q.id
  <2>1. clean = <<>> \/ clean = ToClean(olds, keep)
    BY <1>5, Zenon
  <2>2. PICK id : id = q.id
    OBVIOUS
  <2>3. versions \in Seq(Version) /\ Distinct(versions) /\ olds = VersionsFor(versions, {id})
        /\ keep \in BOOLEAN
    BY <1>1, <2>2
  <2>4. /\ clean \in Seq(Version) /\ Once(clean)
        /\ \A v \in ToSet(clean) : v \in ToSet(versions) /\ v.file = id
    BY ONLY <2>1, <2>3, OldsOnce
  <2>5. QED
    BY <2>2, <2>4
<1>7. PICK g \in BOOLEAN, h \in BOOLEAN : g = (keep /\ ~known /\ ~same) /\ h = (same \/ (~keep /\ ~known))
  OBVIOUS
<1>8. PICK w1, w2 : w1 = CreateVersion(cand) /\ w2 = ObjectDelete({<<cand.file, cand.obj>>})
  OBVIOUS
<1>9. PICK x, y, c : x = If(g, w1) /\ y = If(h, w2) /\ c = CleanOldVersions(clean)
  OBVIOUS
<1>10. PICK pre : pre = x \o y
  OBVIOUS
<1>11. b = pre \o c
  BY <1>1, <1>2, <1>3, <1>4, <1>5, <1>7, <1>8, <1>9, <1>10, Zenon DEF VersionWrites
<1>12. PICK W : W = {w1, w2} \cup {DeleteVersion(u) : u \in ToSet(clean)}
                    \cup {ObjectDelete({<<u.file, u.obj>>}) : u \in ToSet(clean)}
  OBVIOUS
<1>13. w1 \in W /\ w2 \in W
       /\ \A u \in ToSet(clean) : DeleteVersion(u) \in W /\ ObjectDelete({<<u.file, u.obj>>}) \in W
  BY <1>12
<1>14. c \in Seq(W)
  BY <1>6, <1>9, <1>13, CleanWrites
<1>15. pre \in Seq(W) /\ Len(pre) <= 1 /\ \A i \in 1 .. Len(pre) : pre[i] = w1 \/ pre[i] = w2
  <2>1. ~(g /\ h)
    BY <1>7
  <2>2. CASE g /\ ~h
    <3>1. x = <<w1>> /\ y = <<>>
      BY <1>9, <2>2 DEF If
    <3>2. pre = <<w1>>
      BY <1>10, <3>1
    <3>3. QED
      BY <1>13, <3>2
  <2>3. CASE ~g /\ h
    <3>1. x = <<>> /\ y = <<w2>>
      BY <1>9, <2>3 DEF If
    <3>2. pre = <<w2>>
      BY <1>10, <3>1
    <3>3. QED
      BY <1>13, <3>2
  <2>4. CASE ~g /\ ~h
    <3>1. x = <<>> /\ y = <<>>
      BY <1>9, <2>4 DEF If
    <3>2. pre = <<>>
      BY <1>10, <3>1
    <3>3. QED
      BY <3>2
  <2>5. QED
    BY <2>1, <2>2, <2>3, <2>4
<1>16. Keeps(pre, cand)
  BY <1>8, <1>15 DEF Keeps
<1>17. ToSet(clean) \subseteq OldFile(cand)
  BY <1>2, <1>6 DEF OldFile
<1>18. Cleans(writes, N, cand)
  BY <1>6, <1>9, <1>11, <1>14, <1>15, <1>16, <1>17, CleansShape
<1>19. QED
  BY <1>1, <1>18

\* The end of an upload.
LEMMA UploadClosed ==
    ASSUME VInv, NEW r \in Request, CloseUpload(r) PROVE Kept
<1>1. PICK q : q = req[r]
  OBVIOUS
<1>2. PICK trashed \in BOOLEAN :
         trashed = (IsDir(docs, q.new.parent) /\ InTrash(docs[q.new.parent].path))
  BY Zenon DEF IsDir, InTrash, IsPrefix
<1>3. q.op = "stored" /\ ReqOK(r, q)
  BY <1>1 DEF CloseUpload, Ready, VInv
<1>4. PICK doc, undo : doc = [q.new EXCEPT !.trashed = trashed] /\ undo = ObjectDelete({ObjectOf(q, r)})
  OBVIOUS
<1>5. PICK g \in BOOLEAN, h \in BOOLEAN : g = NewName(q) /\ h = IsDir(docs, q.new.parent)
  BY Zenon DEF NewName, IsDir, Taken
<1>6. PICK c1, c2, p : c1 = Check(g) /\ c2 = Check(h) /\ p = Put(q.id, doc)
  OBVIOUS
<1>7. PICK close \in BOOLEAN, same \in BOOLEAN :
         Section(r, <<c1, c2, p>>
                    \o (IF q.snap.kind = "none" THEN <<>> ELSE VersionWrites(q, r, close, same)),
                 undo)
  BY <1>1, <1>2, <1>4, <1>5, <1>6, Zenon DEF CloseUpload
<1>8. PICK a, b : /\ a = <<c1, c2, p>>
                  /\ b = IF q.snap.kind = "none" THEN <<>> ELSE VersionWrites(q, r, close, same)
  OBVIOUS
<1>9. PICK writes : writes = a \o b
  OBVIOUS
<1>10. Section(r, writes, undo)
  BY <1>7, <1>8, <1>9
<1>11. PICK K : K = Known(docs, versions, journals, req)
  OBVIOUS
<1>12. /\ IsReq(q) /\ q.id \in Id \ {Root, Trash} /\ GoodDoc(q.new)
       /\ \/ q.snap = NoDoc /\ q.id = r /\ q.new.rev = 1
          \/ /\ SnapOK(q) /\ q.snap.kind = "file" /\ q.new.rev = q.snap.rev + 1
             /\ SamePlace(q.snap, q.new)
  BY <1>3, UploadFacts
<1>13. PICK B : b \in Seq(B) /\ \A w \in B : Plain(w) /\ Stores(w, K)
  <2>1. CASE q.snap.kind = "none"
    <3>1. b = <<>>
      BY <1>8, <2>1
    <3>2. b \in Seq({})
      BY <3>1
    <3>3. QED
      BY <3>2
  <2>2. CASE q.snap.kind # "none"
    <3>1. HasSnap(q) /\ q.snap.kind = "file"
      BY <1>12, <2>2 DEF HasSnap, NoDoc
    <3>2. q.id \in K
      BY <1>1, <1>11, <3>1, KnownParts
    <3>3. versions \in Seq(Version)
      BY DEF VInv, StoreOK
    <3>4. PICK M : /\ VersionWrites(q, r, close, same) \in Seq(M)
                   /\ \A w \in M : Plain(w) /\ Stores(w, K)
      BY <1>3, <3>1, <3>2, <3>3, VersionWritesOK
    <3>5. QED
      BY <1>8, <2>2, <3>4
  <2>3. QED
    BY <2>1, <2>2
<1>14. PICK W : W = {c1, c2, p} \cup B
  OBVIOUS
<1>15. a \in Seq(W) /\ Len(a) = 3 /\ a[1] = c1 /\ a[2] = c2 /\ a[3] = p
  BY <1>8, <1>14
<1>16. b \in Seq(W)
  BY <1>13, <1>14
<1>17. /\ writes \in Seq(W) /\ Len(writes) = Len(a) + Len(b) /\ Len(b) \in Nat
       /\ \A i \in 1 .. Len(a) : writes[i] = a[i]
       /\ \A i \in 1 .. Len(b) : writes[Len(a) + i] = b[i]
  <2>1. a \in Seq(W)
    BY <1>15
  <2>2. QED
    BY <1>9, <1>16, <2>1, SeqConcat
<1>18. writes[1] = c1 /\ writes[2] = c2 /\ writes[3] = p
  BY <1>15, <1>17
<1>19. GoodDoc(doc) /\ doc.rev = q.new.rev /\ doc.parent = q.new.parent /\ doc.name = q.new.name
  BY <1>4, <1>12 DEF GoodDoc, IsDoc
<1>20. Puts(q, r, q.id, doc)
  <2>1. CASE q.snap = NoDoc /\ q.id = r /\ q.new.rev = 1
    BY <1>3, <1>12, <1>19, <2>1 DEF Puts, Unborn
  <2>2. CASE SnapOK(q) /\ q.snap.kind = "file" /\ q.new.rev = q.snap.rev + 1
    BY <1>12, <1>19, <2>2 DEF Puts, HasSnap
  <2>3. QED
    BY <1>12, <2>1, <2>2
<1>21. \A w \in W : (Plain(w) \/ w = p) /\ Stores(w, K)
  BY <1>6, <1>13, <1>14, CheckWrite, PutWrite
<1>22. Allowed(writes, q.id, doc, K)
  <2>1. \A n \in 1 .. Len(writes) : writes[n] \in W
    BY <1>17
  <2>2. QED
    BY <1>6, <1>21, <2>1, Zenon DEF Allowed
<1>23. Checked(q, q.id, doc, writes)
  <2>1. SUFFICES ASSUME NEW k \in 1 .. Len(writes), writes[k] = p, Passed(writes, k)
                 PROVE  \/ HasSnap(q) /\ SamePlace(q.snap, doc)
                        \/ ~Taken(docs, doc.parent, doc.name)
    BY <1>6 DEF Checked
  <2>2. p # c1
    BY <1>6, PutIsNotCheck
  <2>3. 1 \in 1 .. k - 1
    BY <1>15, <1>17, <1>18, <2>1, <2>2
  <2>4. c1.do = "check" => c1.holds
    BY <1>18, <2>1, <2>3, Zenon DEF Passed
  <2>5. NewName(q)
    BY <1>5, <1>6, <2>4, PutIsNotCheck, Zenon
  <2>6. CASE HasSnap(q)
    BY <1>12, <1>19, <2>6 DEF HasSnap, NoDoc, SamePlace
  <2>7. CASE ~HasSnap(q)
    BY <1>19, <2>5, <2>7 DEF HasSnap, NewName
  <2>8. QED
    BY <2>6, <2>7
<1>24. undo.do \in {"check", "erase", "unversions"}
  BY <1>4, EraseWrite
<1>25. writes \in Seq(W)
  BY <1>17
<1>26. VInv'
  BY <1>1, <1>10, <1>11, <1>20, <1>22, <1>23, <1>24, <1>25, SectionKeeps
<1>27. ASSUME CInv PROVE CInv'
  <2>1. PICK N \in 0 .. Len(writes) : \E f, s :
          /\ Outcome(f, N, writes, undo, s) /\ Holds(s) /\ IsState(s)
          /\ req' = [req EXCEPT ![r] = Over] /\ midway' = midway
    BY <1>1, <1>3, <1>10, <1>25, QuietSection
  <2>2. PICK f, s : /\ Outcome(f, N, writes, undo, s) /\ Holds(s) /\ IsState(s)
                    /\ req' = [req EXCEPT ![r] = Over] /\ midway' = midway
    BY <2>1
  <2>3. Leaves(r, Over)
    BY <2>2, OverLeaves
  <2>4. PICK L \in Nat : L = Len(b) /\ Len(writes) = 3 + L
    BY <1>15, <1>17
  <2>5. N \in Nat /\ N <= 3 + L /\ Trace(f, N, writes)
    BY <2>2, <2>4 DEF Outcome
  <2>6. doc.kind = "file" /\ doc.obj = r
    BY <1>3, <1>4, <1>12, UploadFacts DEF GoodDoc, IsDoc
  <2>7. writes[1].do = "check" /\ writes[2].do = "check" /\ writes[3] = Put(q.id, doc)
    BY <1>6, <1>18 DEF Check
  <2>8. \/ ~HasSnap(q) /\ q.id = r /\ N <= 3
        \/ /\ HasSnap(q) /\ q.snap.kind = "file" /\ doc.rev = q.snap.rev + 1
           /\ Cleans(writes, N, Candidate(q, r))
    <3>1. CASE q.snap = NoDoc /\ q.id = r
      <4>1. q.snap.kind = "none"
        BY <3>1 DEF NoDoc
      <4>2. b = <<>>
        BY <1>8, <4>1
      <4>3. Len(b) = 0
        BY <4>2
      <4>4. QED
        BY <2>4, <2>5, <3>1, <4>1, <4>3 DEF HasSnap
    <3>2. CASE SnapOK(q) /\ q.snap.kind = "file" /\ q.new.rev = q.snap.rev + 1
      <4>1. HasSnap(q)
        BY <3>2 DEF HasSnap, NoDoc
      <4>2. b = VersionWrites(q, r, close, same)
        BY <1>8, <3>2
      <4>3. Follows(writes, b, N)
        <5>1. PICK three : three = Len(a) /\ three = 3
          BY <1>15
        <5>2. \A i \in 1 .. Len(b) : writes[three + i] = b[i]
          BY <1>17, <5>1
        <5>3. \A i \in 1 .. Len(b) : writes[3 + i] = b[i]
          BY <5>1, <5>2
        <5>4. QED
          BY <2>4, <2>5, <5>3 DEF Follows
      <4>4. versions \in Seq(Version) /\ Distinct(versions)
        BY <1>27 DEF VInv, StoreOK, CInv
      <4>5. Cleans(writes, N, Candidate(q, r))
        BY <1>3, <2>5, <3>2, <4>1, <4>2, <4>3, <4>4, VersionWritesClean
      <4>6. QED
        BY <1>19, <3>2, <4>1, <4>5
    <3>3. QED
      BY <1>12, <3>1, <3>2
  <2>9. Uploads(r, q, doc, writes, N)
    BY <1>1, <1>3, <1>19, <2>6, <2>7, <2>8 DEF Uploads
  <2>10. AllSafe(f, N, writes, r, midway)
    BY <1>27, <2>5, <2>9, UploadSafe
  <2>11. undo = ObjectDelete({<<q.id, r>>})
    BY <1>4 DEF ObjectOf
  <2>12. ASSUME ~f[N].ok PROVE Safe(f[N], undo, r, midway)
    BY <1>27, <2>5, <2>9, <2>11, <2>12, UploadUndone
  <2>13. SafeWrites(f, N, writes, undo, r)
    BY <1>24, <2>10, <2>12 DEF SafeWrites
  <2>14. QED
    BY <1>27, <2>2, <2>3, <2>5, <2>13, SoundOutcome
<1>28. QED
  BY <1>26, <1>27 DEF Kept

\* The copy of a file.
LEMMA FileCopied ==
    ASSUME VInv, NEW r \in Request, CopyFile(r) PROVE Kept
<1>1. PICK q : q = req[r]
  OBVIOUS
<1>2. PICK new : new = q.new
  OBVIOUS
<1>3. PICK g \in BOOLEAN, h \in BOOLEAN, i \in BOOLEAN :
        /\ g = ~Taken(docs, new.parent, new.name) /\ h = (<<q.id, q.snap.obj>> \in objects)
        /\ i = IsDir(docs, new.parent)
  <2>1. \E g \in BOOLEAN : g = ~Taken(docs, new.parent, new.name)
    BY Zenon DEF Taken
  <2>2. \E h \in BOOLEAN : h = (<<q.id, q.snap.obj>> \in objects)
    <3>1. (<<q.id, q.snap.obj>> \in objects) \in BOOLEAN
      OBVIOUS
    <3>2. QED
      BY <3>1
  <2>3. \E i \in BOOLEAN : i = IsDir(docs, new.parent)
    BY Zenon DEF IsDir
  <2>4. QED
    BY <2>1, <2>2, <2>3, Zenon
<1>4. PICK c1, c2, c3, o, p, undo :
        /\ c1 = Check(g) /\ c2 = Check(h) /\ c3 = Check(i) /\ o = ObjectPut(<<r, r>>)
        /\ p = Put(r, new) /\ undo = ObjectDelete({<<r, r>>})
  OBVIOUS
<1>5. PICK writes : writes = <<c1, c2, o, c3, p>>
  OBVIOUS
<1>6. q.op = "copy" /\ Section(r, writes, undo)
  <2>1. /\ Ready(r, "copy")
        /\ Section(r, <<Check(~Taken(docs, q.new.parent, q.new.name)),
                    Check(<<q.id, q.snap.obj>> \in objects), ObjectPut(<<r, r>>),
                    Check(IsDir(docs, q.new.parent)), Put(r, q.new)>>,
               ObjectDelete({<<r, r>>}))
    BY <1>1, Zenon DEF CopyFile
  <2>2. QED
    BY <1>1, <1>2, <1>3, <1>4, <1>5, <2>1, Zenon DEF Ready
<1>7. PICK W : W = {c1, c2, o, c3, p}
  OBVIOUS
<1>8. /\ writes \in Seq(W) /\ Len(writes) = 5 /\ writes[1] = c1 /\ writes[2] = c2 /\ writes[3] = o
      /\ writes[4] = c3 /\ writes[5] = p
  BY <1>5, <1>7
<1>9. PICK K : K = Known(docs, versions, journals, req)
  OBVIOUS
<1>10. ReqOK(r, q)
  BY <1>1 DEF VInv
<1>11. GoodDoc(new) /\ new.obj = r
  BY <1>2, <1>6, <1>10 DEF ReqOK, OpOK, Unread, Over, Reading
<1>12. new.rev = 1
  BY <1>2, <1>6, <1>10 DEF ReqOK, OpOK, Unread, Over, Reading
<1>13. Puts(q, r, r, new)
  BY <1>6, <1>11, <1>12, IdInId DEF Puts, Unborn
<1>14. \A w \in W : (Plain(w) \/ w = p) /\ Stores(w, K)
  <2>1. <<r, r>> \in Id \X ObjId
    BY IdInId
  <2>2. Plain(o) /\ Stores(o, K)
    BY <1>4, <2>1, ObjectWrite
  <2>3. /\ Plain(c1) /\ Stores(c1, K) /\ Plain(c2) /\ Stores(c2, K) /\ Plain(c3) /\ Stores(c3, K)
        /\ Stores(p, K)
    BY <1>4, CheckWrite, PutWrite
  <2>4. QED
    BY <1>7, <2>2, <2>3, Zenon
<1>15. Allowed(writes, r, new, K)
  <2>1. \A n \in 1 .. Len(writes) : writes[n] \in W
    BY <1>8
  <2>2. QED
    BY <1>4, <1>14, <2>1, Zenon DEF Allowed
<1>16. Checked(q, r, new, writes)
  <2>1. SUFFICES ASSUME NEW k \in 1 .. Len(writes), writes[k] = p, Passed(writes, k)
                 PROVE  ~Taken(docs, new.parent, new.name)
    BY <1>4 DEF Checked
  <2>2. p # c1
    BY <1>4, PutIsNotCheck
  <2>3. 1 \in 1 .. k - 1
    BY <1>8, <2>1, <2>2
  <2>4. c1.do = "check" => c1.holds
    BY <1>8, <2>1, <2>3, Zenon DEF Passed
  <2>5. g
    BY <1>4, <2>4, PutIsNotCheck, Zenon
  <2>6. QED
    BY <1>3, <2>5
<1>17. undo.do \in {"check", "erase", "unversions"}
  BY <1>4, EraseWrite
<1>18. writes \in Seq(W)
  BY <1>8
<1>19. VInv'
  BY <1>1, <1>6, <1>9, <1>13, <1>15, <1>16, <1>17, <1>18, SectionKeeps
<1>20. ASSUME CInv PROVE CInv'
  <2>1. PICK N \in 0 .. Len(writes) : \E f, s :
          /\ Outcome(f, N, writes, undo, s) /\ Holds(s) /\ IsState(s)
          /\ req' = [req EXCEPT ![r] = Over] /\ midway' = midway
    BY <1>1, <1>6, <1>18, QuietSection
  <2>2. PICK f, s : /\ Outcome(f, N, writes, undo, s) /\ Holds(s) /\ IsState(s)
                    /\ req' = [req EXCEPT ![r] = Over] /\ midway' = midway
    BY <2>1
  <2>3. Leaves(r, Over)
    BY <2>2, OverLeaves
  <2>4. N \in Nat /\ (\A n \in 1 .. N : n \in 1 .. 5) /\ Trace(f, N, writes)
    BY <1>8, <2>2 DEF Outcome
  <2>5. r \notin Used(docs, versions, journals, req)
    BY <1>1, <1>6, <1>20 DEF CInv, Pending
  <2>6. r \notin Known(docs, versions, journals, req)
    <3>1. r \in Unborn(r, q)
      BY <1>6 DEF Unborn
    <3>2. QED
      BY <1>1, <3>1 DEF VInv
  <2>7. /\ c1.do = "check" /\ c2.do = "check" /\ o.do = "store" /\ c3.do = "check"
        /\ o.obj = <<r, r>> /\ p.do = "put" /\ p.id = r /\ p.doc = new
        /\ undo.do = "erase" /\ undo.of = {<<r, r>>}
    BY <1>4 DEF Check, ObjectPut, Put, ObjectDelete
  <2>8. \A n \in 1 .. N : n < 5 => writes[n].do \in {"check", "store"}
    BY <1>8, <2>4, <2>7
  <2>9. 5 \in Nat
    OBVIOUS
  <2>10. \A n \in 0 .. N : n < 5 => /\ f[n].docs = docs /\ f[n].vers = versions
                                    /\ f[n].jobs = journals /\ objects \subseteq f[n].objs
    BY <2>4, <2>8, <2>9, UntilPut
  <2>11. ASSUME NEW n \in 1 .. N, f[n - 1].ok, Sound(f[n - 1], r, midway)
         PROVE  Safe(f[n - 1], writes[n], r, midway)
    <3>1. CASE n < 5
      BY <2>8, <3>1 DEF Safe
    <3>2. CASE n = 5
      <4>1. 3 \in 1 .. N /\ 4 \in 1 .. N /\ n - 1 = 4 /\ 4 - 1 = 3 /\ 3 - 1 = 2
        BY <2>4, <3>2
      <4>2. PICK s2, s3, s4 : s2 = f[2] /\ s3 = f[3] /\ s4 = f[4]
        OBVIOUS
      <4>3. s4.ok => Effect(s3, c3, s4) /\ s3.ok
        BY <1>8, <2>4, <4>1, <4>2, TraceStep
      <4>4. s3.ok => Effect(s2, o, s3)
        BY <1>8, <2>4, <4>1, <4>2, TraceStep
      <4>5. <<r, r>> \in s4.objs
        BY <2>7, <2>11, <4>1, <4>2, <4>3, <4>4 DEF Effect
      <4>6. s4.docs = docs /\ s4.vers = versions /\ s4.jobs = journals
        BY <2>4, <2>10, <3>2, <4>1, <4>2
      <4>7. \A v \in ToSet(s4.vers) : v.obj # r
        BY <2>5, <4>6, OwnObject
      <4>8. \A j \in s4.jobs : r \notin j.files
        BY <2>6, <2>11, <4>1, <4>2 DEF Sound
      <4>9. IsDoc(new) /\ new.obj \in Mine(r)
        BY <1>11, MineParts DEF GoodDoc
      <4>10. Safe(s4, p, r, midway)
        BY <1>11, <2>7, <4>5, <4>7, <4>8, <4>9 DEF Safe
      <4>11. QED
        BY <1>8, <3>2, <4>1, <4>2, <4>10
    <3>3. QED
      BY <2>4, <3>1, <3>2
  <2>12. ASSUME ~f[N].ok PROVE Safe(f[N], undo, r, midway)
    <3>1. f[N].docs = docs /\ f[N].vers = versions
      <4>1. CASE N < 5
        BY <2>4, <2>10, <4>1
      <4>2. CASE N = 5
        <5>1. N \in 1 .. N /\ N - 1 = 4 /\ 4 \in 0 .. N
          BY <4>2
        <5>2. PICK s4, s5 : s4 = f[4] /\ s5 = f[N]
          OBVIOUS
        <5>3. s5.docs = s4.docs /\ SameStore(s4, s5)
          BY <2>4, <2>12, <5>1, <5>2, TraceStep
        <5>4. s4.docs = docs /\ s4.vers = versions
          BY <2>10, <5>1, <5>2
        <5>5. QED
          BY <5>2, <5>3, <5>4 DEF SameStore
      <4>3. QED
        BY <1>8, <4>1, <4>2
    <3>2. ~Needed(f[N], <<r, r>>)
      BY <2>5, <3>1, OwnObject
    <3>3. QED
      BY <2>7, <3>2, MineParts DEF Safe
  <2>13. SafeWrites(f, N, writes, undo, r)
    BY <2>7, <2>11, <2>12 DEF SafeWrites, AllSafe
  <2>14. QED
    BY <1>20, <2>2, <2>3, <2>4, <2>13, SoundOutcome
<1>21. QED
  BY <1>19, <1>20 DEF Kept

\* A request about a version.
LEMMA VersionFacts ==
    ASSUME NEW r, NEW q, ReqOK(r, q), q.op \in {"revert", "cleanversion"}
    PROVE  /\ SnapOK(q) /\ q.snap.kind = "file" /\ HasSnap(q)
           /\ q.ver \in Version /\ q.ver.file = q.id
<1>1. q # Unread /\ q # Over
  BY DEF Unread, Over, Reading
<1>2. SnapOK(q) /\ q.snap.kind = "file" /\ q.ver \in Version /\ q.ver.file = q.id
  BY <1>1 DEF ReqOK, OpOK
<1>3. QED
  BY <1>2 DEF HasSnap

\* The contents during a revert; exempt: the version may have been deleted meanwhile.
LEMMA RevertSafe ==
    ASSUME VInv, NEW r \in Request, NEW q, q = req[r], HasSnap(q),
           NEW doc, IsDoc(doc), doc.obj \in Mine(r), doc.rev = q.snap.rev + 1,
           NEW save, save \in Version, save.obj \in Mine(r), NEW h, NEW old,
           NEW writes, writes[1] = CreateVersion(save), writes[2] = Check(h),
           writes[3] = Put(q.id, doc), writes[4] = BatchDeleteVersions({old}),
           NEW N \in 0 .. 4, NEW f, Trace(f, N, writes), NEW exempt, exempt
    PROVE  AllSafe(f, N, writes, r, exempt)
<1>1. /\ writes[1].do = "version" /\ writes[1].ver = save /\ writes[2].do = "check"
      /\ writes[3].do = "put" /\ writes[3].id = q.id /\ writes[3].doc = doc
      /\ writes[4].do = "unversions"
  BY DEF CreateVersion, Check, Put, BatchDeleteVersions
<1>2. SUFFICES ASSUME NEW n \in 1 .. N, f[n - 1].ok, ~Refused(f[n - 1], writes[n]),
                      Sound(f[n - 1], r, exempt)
               PROVE  Safe(f[n - 1], writes[n], r, exempt)
  BY DEF AllSafe
<1>3. CASE n = 1
  BY <1>1, <1>3 DEF Safe
<1>4. CASE n = 2 \/ n = 4
  BY <1>1, <1>4 DEF Safe
<1>5. CASE n = 3
  <2>1. 1 \in 1 .. N /\ 2 \in 1 .. N /\ 1 - 1 = 0 /\ 2 - 1 = 1 /\ n - 1 = 2 /\ N \in Nat
    BY <1>5
  <2>2. PICK s0, s1, s2 : s0 = f[0] /\ s1 = f[1] /\ s2 = f[2]
    OBVIOUS
  <2>3. PICK w1, w2, w3 : w1 = writes[1] /\ w2 = writes[2] /\ w3 = writes[3]
    OBVIOUS
  <2>4. s0.docs = docs
    BY <2>2, NowIsState DEF Trace
  <2>5. s2.ok => Effect(s1, w2, s2) /\ s1.ok
    BY <2>1, <2>2, <2>3, TraceStep
  <2>6. s1.ok => Effect(s0, w1, s1)
    BY <2>1, <2>2, <2>3, TraceStep
  <2>7. s2.docs = docs
    BY <1>1, <1>2, <2>1, <2>2, <2>3, <2>4, <2>5, <2>6 DEF Effect
  <2>8. ~Refused(s2, w3) /\ w3 = Put(q.id, doc) /\ Sound(s2, r, exempt)
    BY <1>2, <1>5, <2>1, <2>2, <2>3
  <2>9. q.id \in DOMAIN s2.docs
    BY <2>7, <2>8, FreshPut
  <2>10. \A j \in s2.jobs : q.id \notin j.files
    BY <2>8, <2>9 DEF Sound
  <2>11. Safe(s2, w3, r, exempt)
    BY <1>1, <2>3, <2>10 DEF Safe
  <2>12. QED
    BY <1>5, <2>1, <2>2, <2>3, <2>11
<1>6. n = 1 \/ n = 2 \/ n = 3 \/ n = 4
  OBVIOUS
<1>7. QED
  BY <1>3, <1>4, <1>5, <1>6, Zenon

\* When the version was still there, the file has its content, and the previous content
\* of the file is a version; when the revert is refused, nothing has changed.
LEMMA RevertBacked ==
    ASSUME VInv, CInv, ~midway, NEW r \in Request, NEW q, q = req[r], HasSnap(q),
           q.snap.kind = "file", NEW old, old.file = q.id,
           NEW doc, doc.kind = "file", doc.obj = old.obj, doc.rev = q.snap.rev + 1,
           NEW save, save \in Version, save.file = q.id, save.obj = q.snap.obj, NEW h,
           NEW writes, writes[1] = CreateVersion(save), writes[2] = Check(h),
           writes[3] = Put(q.id, doc), writes[4] = BatchDeleteVersions({old}),
           NEW undo, undo = BatchDeleteVersions({save}),
           NEW f, Trace(f, 4, writes), f[4].ok => HasVersion(versions, old),
           NEW s, s = IF f[4].ok THEN f[4] ELSE Written(f[4], undo)
    PROVE  Backed(s.docs, s.objs, s.vers)
<1>1. PICK w1, w2, w3, w4 : w1 = writes[1] /\ w2 = writes[2] /\ w3 = writes[3] /\ w4 = writes[4]
  OBVIOUS
<1>2. /\ w1.do = "version" /\ w1.ver = save /\ w2.do = "check"
      /\ w3.do = "put" /\ w3.id = q.id /\ w3.doc = doc /\ w3 = Put(q.id, doc)
      /\ w4.do = "unversions" /\ w4.of = {old} /\ undo.do = "unversions" /\ undo.of = {save}
  BY <1>1 DEF CreateVersion, Check, Put, BatchDeleteVersions
<1>3. PICK s0, s1, s2, s3, s4 : s0 = f[0] /\ s1 = f[1] /\ s2 = f[2] /\ s3 = f[3] /\ s4 = f[4]
  OBVIOUS
<1>4. /\ s0.docs = docs /\ s0.objs = objects /\ s0.vers = versions
  BY <1>3, NowIsState DEF Trace
<1>5. 4 \in Nat /\ 1 \in 1 .. 4 /\ 2 \in 1 .. 4 /\ 3 \in 1 .. 4 /\ 4 \in 1 .. 4
      /\ 1 - 1 = 0 /\ 2 - 1 = 1 /\ 3 - 1 = 2 /\ 4 - 1 = 3
  OBVIOUS
<1>6. /\ (s1.ok => Effect(s0, w1, s1)) /\ (~s1.ok => s1.docs = s0.docs /\ SameStore(s0, s1))
  BY <1>1, <1>3, <1>5, TraceStep
<1>7. /\ (s2.ok => Effect(s1, w2, s2) /\ s1.ok)
      /\ (~s2.ok => s2.docs = s1.docs /\ SameStore(s1, s2))
  BY <1>1, <1>3, <1>5, TraceStep
<1>8. /\ (s3.ok => Effect(s2, w3, s3) /\ s2.ok /\ ~Refused(s2, w3))
      /\ (~s3.ok => s3.docs = s2.docs /\ SameStore(s2, s3))
  BY <1>1, <1>3, <1>5, TraceStep
<1>9. /\ (s4.ok => Effect(s3, w4, s4) /\ s3.ok)
      /\ (~s4.ok => s4.docs = s3.docs /\ SameStore(s3, s4))
      /\ (s4.ok <=> s3.ok /\ ~Refused(s3, w4)) /\ IsState(s4)
  BY <1>1, <1>3, <1>5, TraceStep
<1>10. versions \in Seq(Version) /\ Distinct(versions) /\ Backed(docs, objects, versions)
  BY DEF VInv, StoreOK, CInv
<1>11. PICK grown : grown = Append(versions, save)
  OBVIOUS
<1>12. grown \in Seq(Version) /\ ToSet(grown) = ToSet(versions) \cup {save}
  BY <1>10, <1>11, AppendVersion
<1>13. s1.docs = docs /\ s1.objs = objects /\ (s1.ok => s1.vers = grown) /\ s1.vers \in {versions, grown}
  BY <1>2, <1>4, <1>6, <1>11 DEF Effect, SameStore
<1>14. s2.docs = docs /\ s2.objs = objects /\ (s2.ok => s2.vers = grown) /\ s2.vers \in {versions, grown}
  BY <1>2, <1>7, <1>13 DEF Effect, SameStore
<1>15. CASE s4.ok
  <2>1. s = s4 /\ s3.ok /\ Effect(s3, w4, s4) /\ Effect(s2, w3, s3) /\ s2.ok /\ ~Refused(s2, w3)
    BY <1>3, <1>8, <1>9, <1>15
  <2>2. q.id \in DOMAIN docs /\ docs[q.id] = q.snap
    BY <1>2, <1>14, <2>1, FreshPut
  <2>3. PICK D : D = PutIn(docs, q.id, doc)
    OBVIOUS
  <2>4. s.docs = D /\ s.objs = objects /\ s.vers = Only(grown, ToSet(grown) \ {old})
    <3>1. s3.docs = D /\ s3.objs = objects /\ s3.vers = grown
      BY <1>2, <1>14, <2>1, <2>3 DEF Effect
    <3>2. s.docs = s3.docs /\ s.objs = s3.objs /\ s.vers = Only(s3.vers, ToSet(s3.vers) \ w4.of)
      BY <1>2, <2>1 DEF Effect
    <3>3. QED
      BY <1>2, <3>1, <3>2
  <2>5. DOMAIN D = DOMAIN docs \cup {q.id} /\ D[q.id] = doc /\ \A x \in DOMAIN docs \ {q.id} : D[x] = docs[x]
    BY <2>3 DEF PutIn
  <2>6. PICK vs : vs = s.vers
    OBVIOUS
  <2>7. ToSet(vs) = (ToSet(versions) \cup {save}) \ {old}
    <3>1. PICK keep : keep = ToSet(grown) \ {old}
      OBVIOUS
    <3>2. vs = Only(grown, keep)
      BY <2>4, <2>6, <3>1
    <3>3. ToSet(vs) = ToSet(grown) \cap keep
      BY <1>12, <3>2, OnlyElements
    <3>4. QED
      BY <1>12, <3>1, <3>3
  <2>8. old \in ToSet(versions)
    <3>1. HasVersion(versions, old)
      BY <1>3, <1>15
    <3>2. QED
      BY <3>1 DEF HasVersion, ToSet
  <2>9. <<q.id, old.obj>> \in objects /\ <<q.id, q.snap.obj>> \in objects /\ q.snap.obj # old.obj
    BY <1>10, <2>2, <2>8 DEF Backed, IsFile
  <2>10. \A x \in DOMAIN D : D[x].kind = "file" => <<x, D[x].obj>> \in objects
    BY <1>10, <2>5, <2>9 DEF Backed
  <2>11. \A v \in ToSet(vs) : <<v.file, v.obj>> \in objects
    BY <1>10, <2>7, <2>9 DEF Backed
  <2>12. ASSUME NEW v \in ToSet(vs), IsFile(D, v.file) PROVE D[v.file].obj # v.obj
    <3>1. CASE v = save
      BY <2>5, <2>9, <3>1
    <3>2. CASE v # save /\ v.file = q.id
      <4>1. v \in ToSet(versions) /\ v # old
        BY <2>7, <3>2
      <4>2. v.obj # old.obj
        BY <1>10, <2>8, <3>2, <4>1, DistinctValues
      <4>3. QED
        BY <2>5, <3>2, <4>2
    <3>3. CASE v # save /\ v.file # q.id
      <4>1. v \in ToSet(versions) /\ IsFile(docs, v.file) /\ D[v.file] = docs[v.file]
        BY <2>5, <2>7, <2>12, <3>3 DEF IsFile
      <4>2. QED
        BY <1>10, <4>1 DEF Backed
    <3>4. QED
      BY <3>1, <3>2, <3>3
  <2>13. QED
    BY <2>4, <2>6, <2>10, <2>11, <2>12 DEF Backed
<1>16. CASE ~s4.ok
  <2>1. ~s3.ok
    <3>1. ~Refused(s3, w4)
      BY <1>2 DEF Refused
    <3>2. QED
      BY <1>9, <1>16, <3>1
  <2>2. s4.docs = docs /\ s4.objs = objects /\ s4.vers \in {versions, grown}
    BY <1>8, <1>9, <1>14, <1>16, <2>1 DEF SameStore
  <2>3. s = Written(s4, undo) /\ Effect(s4, undo, s)
    BY <1>3, <1>9, <1>16, WrittenParts
  <2>4. PICK vs, keep : vs = s4.vers /\ keep = ToSet(s4.vers) \ {save}
    OBVIOUS
  <2>5. s.docs = docs /\ s.objs = objects /\ s.vers = Only(vs, keep)
    BY <1>2, <2>2, <2>3, <2>4 DEF Effect
  <2>6. vs \in Seq(Version) /\ ToSet(vs) \subseteq ToSet(versions) \cup {save}
    BY <1>10, <1>12, <2>2, <2>4
  <2>7. ToSet(s.vers) = ToSet(vs) \cap keep
    BY <2>5, <2>6, OnlyElements
  <2>8. ToSet(s.vers) \subseteq ToSet(versions)
    BY <2>4, <2>6, <2>7
  <2>9. QED
    BY <1>10, <2>5, <2>8 DEF Backed
<1>17. QED
  BY <1>15, <1>16

\* The section of a revert: when the version was there, midway stays as it was.
LEMMA RevertOutcome ==
    ASSUME VInv, NEW W, NEW writes \in Seq(W), NEW undo, NEW r, Section(r, writes, undo),
           req[r].op = "revert"
    PROVE  \E N \in 0 .. Len(writes) : \E f, s :
               /\ Outcome(f, N, writes, undo, s) /\ Holds(s)
               /\ req' = [req EXCEPT ![r] = Over]
               /\ \/ midway'
                  \/ /\ N = Len(writes) /\ ~midway
                     /\ f[N].ok => HasVersion(versions, req[r].ver)
                     /\ s = IF f[N].ok THEN f[N] ELSE Written(f[N], undo)
<1>1. Len(writes) \in Nat /\ midway \in BOOLEAN
  BY DEF VInv
<1>2. CASE Ends(r, writes, undo, Over)
  <2>1. PICK f, s : /\ Outcome(f, Len(writes), writes, undo, s) /\ Holds(s) /\ IsState(s)
                    /\ req' = [req EXCEPT ![r] = IF f[Len(writes)].ok THEN Over ELSE Over]
                    /\ cut' = cut
                    /\ midway' = (midway \/ (req[r].op = "revert" /\ f[Len(writes)].ok
                                             /\ ~HasVersion(versions, req[r].ver)))
                    /\ stale' = (stale \/ (s.docs # docs /\ Outdated(req[r])))
    BY <1>2, EndsOutcome
  <2>2. req' = [req EXCEPT ![r] = Over]
    BY <2>1
  <2>3. Len(writes) \in 0 .. Len(writes)
    BY <1>1
  <2>4. midway' \/ (~midway /\ (f[Len(writes)].ok => HasVersion(versions, req[r].ver)))
    BY <1>1, <2>1
  <2>5. s = IF f[Len(writes)].ok THEN f[Len(writes)] ELSE Written(f[Len(writes)], undo)
    BY <1>1, <2>1 DEF Outcome
  <2>6. QED
    BY <2>1, <2>2, <2>3, <2>4, <2>5
<1>3. CASE Dies(r, writes)
  <2>1. PICK N \in 1 .. Len(writes) - 1 : \E f, s :
               /\ Outcome(f, N, writes, undo, s) /\ Holds(s) /\ IsState(s)
               /\ req' = [req EXCEPT ![r] = Over] /\ cut' = TRUE
               /\ midway' = (midway \/ req[r].op = "revert") /\ stale' = stale
    BY <1>3, DiesOutcome
  <2>2. N \in 0 .. Len(writes)
    BY <1>1
  <2>3. QED
    BY <2>1, <2>2
<1>4. QED
  BY <1>2, <1>3 DEF Section

\* The writes of a revert of r, which is at q, to the version q.ver.
Reverts(r, q, doc, save, h, writes, undo) ==
    /\ q = req[r] /\ HasSnap(q) /\ q.snap.kind = "file" /\ q.ver.file = q.id
    /\ GoodDoc(doc) /\ doc.kind = "file" /\ doc.obj = q.ver.obj /\ doc.rev = q.snap.rev + 1
    /\ save \in Version /\ save.file = q.id /\ save.obj = q.snap.obj
    /\ writes[1] = CreateVersion(save) /\ writes[2] = Check(h)
    /\ writes[3] = Put(q.id, doc) /\ writes[4] = BatchDeleteVersions({q.ver})
    /\ undo = BatchDeleteVersions({save})

LEMMA RevertContents ==
    ASSUME VInv, CInv, NEW r \in Request, NEW q, q.op = "revert", NEW doc, NEW save, NEW h,
           NEW writes, NEW undo, Reverts(r, q, doc, save, h, writes, undo),
           NEW N \in 0 .. 4, NEW f, NEW s, Outcome(f, N, writes, undo, s), Holds(s),
           req' = [req EXCEPT ![r] = Over],
           \/ midway'
           \/ /\ N = 4 /\ ~midway /\ (f[N].ok => HasVersion(versions, q.ver))
              /\ s = IF f[N].ok THEN f[N] ELSE Written(f[N], undo)
    PROVE  CInv'
<1> USE DEF Reverts
<1>1. PICK old, exempt : old = q.ver /\ exempt = TRUE
  OBVIOUS
<1>2. IsDoc(doc) /\ doc.obj \in Mine(r) /\ save.obj \in Mine(r)
  BY MineParts DEF GoodDoc
<1>3. undo.do = "unversions"
  BY DEF BatchDeleteVersions
<1>4. Sound(s, r, exempt)
  <2>1. Trace(f, N, writes) /\ (s = f[N] \/ s = Written(f[N], undo)) /\ N \in Nat /\ N \in 0 .. N
    BY DEF Outcome
  <2>2. Sound(Now, r, exempt)
    BY <1>1, NowSound DEF Sound
  <2>3. AllSafe(f, N, writes, r, exempt)
    BY <1>1, <1>2, <2>1, RevertSafe
  <2>4. PICK e : e = f[N]
    OBVIOUS
  <2>5. IsState(e) /\ Sound(e, r, exempt)
    BY <2>1, <2>2, <2>3, <2>4, TraceState, SoundTrace
  <2>6. Safe(e, undo, r, exempt) /\ ~Refused(e, undo)
    BY <1>3 DEF Safe, Refused
  <2>7. Sound(Written(e, undo), r, exempt)
    BY <2>5, <2>6, SafeWritten
  <2>8. QED
    BY <2>1, <2>4, <2>5, <2>7
<1>5. Leaves(r, Over)
  BY OverLeaves
<1>6. midway' \/ Backed(s.docs, s.objs, s.vers)
  <2>1. SUFFICES ASSUME ~midway' PROVE Backed(s.docs, s.objs, s.vers)
    OBVIOUS
  <2>2. /\ N = 4 /\ ~midway /\ (f[N].ok => HasVersion(versions, old))
        /\ s = IF f[N].ok THEN f[N] ELSE Written(f[N], undo)
    BY <1>1, <2>1
  <2>3. Trace(f, N, writes)
    BY DEF Outcome
  <2>4. /\ Trace(f, 4, writes) /\ (f[4].ok => HasVersion(versions, old))
        /\ s = IF f[4].ok THEN f[4] ELSE Written(f[4], undo)
    BY <2>2, <2>3
  <2>5. QED
    BY <1>1, <2>2, <2>4, RevertBacked
<1>7. QED
  BY <1>4, <1>5, <1>6, Settles

\* The return to an old version.
LEMMA Reverted ==
    ASSUME VInv, NEW r \in Request, Revert(r) PROVE Kept
<1>1. PICK q : q = req[r]
  OBVIOUS
<1>2. PICK save, doc : /\ save = [file |-> q.id, obj |-> q.snap.obj, by |-> r]
                       /\ doc = [q.snap EXCEPT !.obj = q.ver.obj, !.rev = @ + 1]
  OBVIOUS
<1>3. PICK h \in BOOLEAN : h = IsDir(docs, q.snap.parent)
  BY Zenon DEF IsDir
<1>4. PICK v, c, p, b, undo :
        /\ v = CreateVersion(save) /\ c = Check(h) /\ p = Put(q.id, doc)
        /\ b = BatchDeleteVersions({q.ver}) /\ undo = BatchDeleteVersions({save})
  OBVIOUS
<1>5. PICK writes : writes = <<v, c, p, b>>
  OBVIOUS
<1>6. q.op = "revert" /\ Section(r, writes, undo)
  <2>1. /\ Ready(r, "revert")
        /\ Section(r, <<CreateVersion(save), Check(IsDir(docs, q.snap.parent)),
                        Put(q.id, doc), BatchDeleteVersions({q.ver})>>,
                   BatchDeleteVersions({save}))
    BY <1>1, <1>2, Zenon DEF Revert
  <2>2. QED
    BY <1>1, <1>3, <1>4, <1>5, <2>1, Zenon DEF Ready
<1>7. PICK W : W = {v, c, p, b}
  OBVIOUS
<1>8. writes \in Seq(W) /\ Len(writes) = 4
  BY <1>5, <1>7
<1>9. PICK K : K = Known(docs, versions, journals, req)
  OBVIOUS
<1>10. SnapOK(q) /\ q.snap.kind = "file" /\ q.ver \in Version /\ HasSnap(q) /\ q.ver.file = q.id
  <2>1. ReqOK(r, q)
    BY <1>1 DEF VInv
  <2>2. QED
    BY <1>6, <2>1, VersionFacts
<1>11. q.id \in Id \ {Root, Trash} /\ GoodDoc(q.snap)
  BY <1>10 DEF SnapOK
<1>12. q.ver.obj \in ObjId
  BY <1>10 DEF Version
<1>13. GoodDoc(doc) /\ doc.rev = q.snap.rev + 1 /\ SamePlace(q.snap, doc)
  <2>1. /\ IsDoc(doc) /\ doc.kind = q.snap.kind /\ doc.parent = q.snap.parent
        /\ doc.name = q.snap.name /\ doc.path = q.snap.path /\ doc.trashed = q.snap.trashed
        /\ doc.restore = q.snap.restore /\ doc.obj = q.ver.obj /\ doc.rev = q.snap.rev + 1
    BY <1>2, <1>11 DEF GoodDoc, IsDoc
  <2>2. doc.rev \in Nat \ {0}
    BY <1>11, <2>1 DEF GoodDoc
  <2>3. doc.trashed \in BOOLEAN
    BY <1>11, <2>1, Zenon DEF GoodDoc
  <2>4. GoodDoc(doc)
    BY <1>10, <1>11, <1>12, <2>1, <2>2, <2>3, Zenon DEF GoodDoc
  <2>5. QED
    BY <2>1, <2>4 DEF SamePlace
<1>14. Puts(q, r, q.id, doc)
  BY <1>10, <1>11, <1>13 DEF Puts
<1>15. Checked(q, q.id, doc, writes)
  BY <1>10, <1>13 DEF Checked
<1>16. \A w \in W : (Plain(w) \/ w = p) /\ Stores(w, K)
  <2>1. q.id \in K
    BY <1>1, <1>9, <1>10, KnownParts
  <2>2. save \in Version /\ save.file \in K
    BY <1>2, <1>10, <1>11, <2>1 DEF Version, GoodDoc
  <2>3. Plain(v) /\ Stores(v, K) /\ Plain(c) /\ Stores(c, K) /\ Stores(p, K) /\ Plain(b) /\ Stores(b, K)
    BY <1>4, <2>2, VersionWrite, CheckWrite, PutWrite, UnversionsWrite
  <2>4. QED
    BY <1>7, <2>3, Zenon
<1>17. Allowed(writes, q.id, doc, K)
  <2>0. writes \in Seq(W)
    BY <1>8
  <2>1. \A n \in 1 .. Len(writes) : writes[n] \in W
    BY <2>0
  <2>2. QED
    BY <1>4, <1>16, <2>1, Zenon DEF Allowed
<1>18. undo.do \in {"check", "erase", "unversions"}
  BY <1>4, UnversionsWrite
<1>19. writes \in Seq(W)
  BY <1>8
<1>20. VInv'
  BY <1>1, <1>6, <1>9, <1>14, <1>15, <1>17, <1>18, <1>19, SectionKeeps
<1>21. ASSUME CInv PROVE CInv'
  <2>1. /\ writes[1] = CreateVersion(save) /\ writes[2] = Check(h)
        /\ writes[3] = Put(q.id, doc) /\ writes[4] = BatchDeleteVersions({q.ver})
    BY <1>4, <1>5
  <2>2. save \in Version /\ save.file = q.id /\ save.obj = q.snap.obj
    BY <1>2, <1>10, <1>11 DEF Version, GoodDoc
  <2>3. doc.kind = "file" /\ doc.obj = q.ver.obj
    BY <1>2, <1>10, <1>11 DEF GoodDoc, IsDoc
  <2>4. undo = BatchDeleteVersions({save})
    BY <1>4
  <2>5. PICK four : four = Len(writes)
    OBVIOUS
  <2>6. PICK N \in 0 .. Len(writes) : \E f, s :
          /\ Outcome(f, N, writes, undo, s) /\ Holds(s)
          /\ req' = [req EXCEPT ![r] = Over]
          /\ \/ midway'
             \/ /\ N = Len(writes) /\ ~midway
                /\ f[N].ok => HasVersion(versions, req[r].ver)
                /\ s = IF f[N].ok THEN f[N] ELSE Written(f[N], undo)
    BY <1>1, <1>6, <1>19, RevertOutcome
  <2>7. PICK f, s : /\ Outcome(f, N, writes, undo, s) /\ Holds(s)
                    /\ req' = [req EXCEPT ![r] = Over]
                    /\ \/ midway'
                       \/ /\ N = four /\ ~midway /\ (f[N].ok => HasVersion(versions, q.ver))
                          /\ s = IF f[N].ok THEN f[N] ELSE Written(f[N], undo)
    BY <1>1, <2>5, <2>6
  <2>8. N \in 0 .. 4 /\ four = 4
    BY <1>8, <2>5, <2>6
  <2>9. Reverts(r, q, doc, save, h, writes, undo)
    BY <1>1, <1>10, <1>13, <2>1, <2>2, <2>3, <2>4 DEF Reverts
  <2>10. \/ midway'
         \/ /\ N = 4 /\ ~midway /\ (f[N].ok => HasVersion(versions, q.ver))
            /\ s = IF f[N].ok THEN f[N] ELSE Written(f[N], undo)
    BY <2>7, <2>8
  <2>11. QED
    BY <1>6, <1>21, <2>7, <2>8, <2>9, <2>10, RevertContents
<1>22. QED
  BY <1>20, <1>21 DEF Kept

-----------------------------------------------------------------------------
(* Sections that delete documents, or do not replace any.                  *)

\* E is D without some documents; the root and the trash remain.
Fewer(D, E) ==
    /\ DOMAIN E \subseteq DOMAIN D /\ Root \in DOMAIN E /\ Trash \in DOMAIN E
    /\ \A x \in DOMAIN E : KeptDoc(D[x], E[x])

LEMMA FewerDocsOK ==
    ASSUME NEW D, NEW E, DocsOK(D), Fewer(D, E) PROVE DocsOK(E)
<1>1. DOMAIN E \subseteq DOMAIN D /\ IsFiniteSet(DOMAIN D)
  BY DEF Fewer, DocsOK
<1>2. IsFiniteSet(DOMAIN E)
  BY <1>1, FS_Subset
<1>3. \A x \in DOMAIN E \ {Root} : GoodDoc(E[x])
  BY DEF Fewer, KeptDoc, DocsOK
<1>4. IsRoot(E[Root])
  BY DEF Fewer, KeptDoc, DocsOK
<1>5. E[Trash].parent = Root /\ E[Trash].kind = "dir"
  BY DEF Fewer, KeptDoc, DocsOK
<1>6. QED
  BY <1>1, <1>2, <1>3, <1>4, <1>5 DEF Fewer, DocsOK

LEMMA FewerRefl ==
    ASSUME NEW D, DocsOK(D) PROVE Fewer(D, D)
<1>1. KeptAll(D, D)
  BY KeptRefl
<1>2. QED
  BY <1>1 DEF KeptAll, Fewer, DocsOK

LEMMA FewerTrans ==
    ASSUME NEW D, NEW E, NEW G, Fewer(D, E), Fewer(E, G) PROVE Fewer(D, G)
<1>1. DOMAIN G \subseteq DOMAIN D /\ DOMAIN G \subseteq DOMAIN E
  BY DEF Fewer
<1>2. \A x \in DOMAIN G : KeptDoc(D[x], G[x])
  BY <1>1, KeptDocTrans DEF Fewer
<1>3. QED
  BY <1>1, <1>2 DEF Fewer

LEMMA FewerWithout ==
    ASSUME NEW D, DocsOK(D), NEW gone, Root \notin gone, Trash \notin gone
    PROVE  Fewer(D, Without(D, gone))
<1>1. PICK E : E = Without(D, gone)
  OBVIOUS
<1>2. DOMAIN E = DOMAIN D \ gone /\ \A x \in DOMAIN E : E[x] = D[x]
  BY <1>1 DEF Without
<1>3. KeptAll(D, D)
  BY KeptRefl
<1>4. \A x \in DOMAIN E : KeptDoc(D[x], E[x])
  BY <1>2, <1>3 DEF KeptAll
<1>5. QED
  BY <1>1, <1>2, <1>4 DEF Fewer, DocsOK

\* A write that replaces no document, and deletes neither the root nor the trash.
Deleting(w) ==
    \/ Plain(w)
    \/ \E id, rev : w = Delete(id, rev) /\ id \notin {Root, Trash}
    \/ \E D : w = BatchDelete(D) /\ DOMAIN D \cap {Root, Trash} = {}

LEMMA FewerStep ==
    ASSUME NEW s, IsState(s), DocsOK(s.docs), NEW w, Deleting(w), NEW t, t = Step(s, w)
    PROVE  Fewer(s.docs, t.docs)
<1>1. CASE ~s.ok
  BY <1>1, FewerRefl DEF Step
<1>2. CASE Plain(w)
  <2>1. KeptAll(s.docs, t.docs)
    BY <1>2, PlainKeeps
  <2>2. QED
    BY <2>1 DEF KeptAll, Fewer, DocsOK
<1>3. CASE s.ok /\ \E id, rev : w = Delete(id, rev) /\ id \notin {Root, Trash}
  <2>1. PICK id, rev : w = Delete(id, rev) /\ id \notin {Root, Trash}
    BY <1>3
  <2>2. t.docs = s.docs \/ t.docs = Without(s.docs, {id})
    BY <1>3, <2>1, StepDelete
  <2>3. QED
    BY <2>1, <2>2, FewerRefl, FewerWithout
<1>4. CASE s.ok /\ \E D : w = BatchDelete(D) /\ DOMAIN D \cap {Root, Trash} = {}
  <2>1. PICK D : w = BatchDelete(D) /\ DOMAIN D \cap {Root, Trash} = {}
    BY <1>4
  <2>2. PICK gone : gone = {x \in DOMAIN D : Rev(s.docs, x) = D[x].rev}
    OBVIOUS
  <2>3. t.docs = Without(s.docs, gone)
    BY <1>4, <2>1, <2>2, StepBatch
  <2>4. Root \notin gone /\ Trash \notin gone
    BY <2>1, <2>2
  <2>5. QED
    BY <2>3, <2>4, FewerWithout
<1>5. QED
  BY <1>1, <1>2, <1>3, <1>4 DEF Deleting

\* The writes of such a section.
AllDelete(writes, K) ==
    \A n \in 1 .. Len(writes) : Deleting(writes[n]) /\ Stores(writes[n], K)

LEMMA AfterFewer ==
    ASSUME VInv, NEW K, K = Known(docs, versions, journals, req),
           NEW W, NEW writes \in Seq(W), AllDelete(writes, K), NEW e, e = After(writes, Nothing)
    PROVE  IsState(e) /\ DocsOK(e.docs) /\ Fewer(docs, e.docs) /\ StoreIn(e, K)
<1>1. PICK N \in Nat : N = Len(writes)
  OBVIOUS
<1>2. PICK f : /\ Trace(f, N, writes)
               /\ e = IF f[N].ok THEN f[N] ELSE [Written(f[N], Nothing) EXCEPT !.ok = FALSE]
  BY <1>1, AfterTrace
<1>3. PICK T : T = {n \in 0 .. N : /\ DocsOK(f[n].docs) /\ Fewer(docs, f[n].docs)
                                   /\ StoreIn(f[n], K)}
  OBVIOUS
<1>4. 0 \in T
  <2>1. f[0] = Now
    BY <1>2 DEF Trace
  <2>2. DocsOK(docs) /\ Fewer(docs, docs) /\ StoreIn(Now, K) /\ Now.docs = docs
    BY FewerRefl, KnownStore, NowIsState DEF VInv
  <2>3. QED
    BY <1>3, <2>1, <2>2
<1>5. \A n \in 0 .. N : IsState(f[n])
  BY <1>2, TraceState
<1>6. \A n \in 0 .. N - 1 : n \in T => n + 1 \in T
  <2>1. SUFFICES ASSUME NEW n \in 0 .. N - 1, n \in T PROVE n + 1 \in T
    OBVIOUS
  <2>2. n + 1 \in 1 .. N /\ (n + 1) - 1 = n /\ n + 1 \in 0 .. N /\ n \in 0 .. N
    OBVIOUS
  <2>3. PICK s, t, w : s = f[n] /\ t = f[n + 1] /\ w = writes[n + 1]
    OBVIOUS
  <2>4. t = Step(s, w)
    BY <1>2, <2>2, <2>3 DEF Trace
  <2>5. Deleting(w) /\ Stores(w, K)
    BY <1>1, <2>2, <2>3 DEF AllDelete
  <2>6. IsState(s) /\ DocsOK(s.docs) /\ Fewer(docs, s.docs) /\ StoreIn(s, K)
    BY <1>3, <1>5, <2>1, <2>2, <2>3
  <2>7. Fewer(s.docs, t.docs)
    BY <2>4, <2>5, <2>6, FewerStep
  <2>8. StoreIn(t, K)
    BY <2>4, <2>5, <2>6, StoreStep
  <2>9. DocsOK(t.docs) /\ Fewer(docs, t.docs)
    BY <2>6, <2>7, FewerDocsOK, FewerTrans
  <2>10. QED
    BY <1>3, <2>2, <2>3, <2>8, <2>9
<1>7. 0 .. N \subseteq T
  BY <1>4, <1>6, BoundedInduction
<1>8. PICK s : s = f[N]
  OBVIOUS
<1>9. N \in 0 .. N
  OBVIOUS
<1>10. IsState(s) /\ DocsOK(s.docs) /\ Fewer(docs, s.docs) /\ StoreIn(s, K)
  BY <1>3, <1>5, <1>7, <1>8, <1>9
<1>11. Written(s, Nothing) = s
  BY DEF Written, Nothing, Check
<1>12. PICK u : u = [s EXCEPT !.ok = FALSE]
  OBVIOUS
<1>13. IsState(u) /\ u.docs = s.docs /\ SameStore(s, u)
  BY <1>10, <1>12 DEF IsState, SameStore
<1>14. StoreIn(u, K)
  BY <1>10, <1>13 DEF SameStore, StoreIn
<1>15. e = s \/ e = u
  BY <1>2, <1>8, <1>11, <1>12
<1>16. QED
  BY <1>10, <1>13, <1>14, <1>15

\* What such a section leaves keeps the invariant.
LEMMA FewerKeeps ==
    ASSUME VInv, NEW r \in Request, NEW K, K = Known(docs, versions, journals, req),
           NEW e, Fewer(docs, e.docs), DocsOK(e.docs), StoreIn(e, K), Becomes(e),
           req' = [req EXCEPT ![r] = Over],
           stale' \in BOOLEAN, cut' \in BOOLEAN, midway' \in BOOLEAN
    PROVE  VInv'
<1>1. docs' = e.docs /\ objects' = e.objs /\ versions' = e.vers /\ journals' = e.jobs
  BY DEF Becomes
<1>2. Names(docs) /\ \A x \in Request : ReqOK(x, req[x]) /\ Agrees(docs, req[x])
  BY DEF VInv
<1>3. DOMAIN e.docs \subseteq DOMAIN docs /\ \A x \in DOMAIN e.docs : KeptDoc(docs[x], e.docs[x])
  BY DEF Fewer
<1>4. Names(e.docs) /\ \A x \in Request : Agrees(e.docs, req[x])
  BY <1>2, <1>3, KeptNames, KeptAgrees
<1>5. ReqOK(r, Over) /\ ~HasSnap(Over) /\ Agrees(docs', Over) /\ Unborn(r, Over) = {}
  BY OverOK
<1>6. StoreOK(objects', versions', journals')
  BY <1>1 DEF StoreIn
<1>7. PICK B : B = {}
  OBVIOUS
<1>8. /\ B \subseteq Unborn(r, req[r]) /\ Unborn(r, Over) \subseteq Unborn(r, req[r]) \ B
      /\ DOMAIN docs' \subseteq DOMAIN docs \cup B
  BY <1>1, <1>3, <1>5, <1>7
<1>9. /\ {v.file : v \in ToSet(versions')} \subseteq K \cup B
      /\ UNION {j.files : j \in journals'} \subseteq K \cup B
  BY <1>1 DEF StoreIn
<1>10. DocsOK(docs') /\ Names(docs') /\ \A x \in Request : Agrees(docs', req[x])
  BY <1>1, <1>4
<1>11. QED
  BY <1>5, <1>6, <1>8, <1>9, <1>10, Preserve

LEMMA SectionFewer ==
    ASSUME VInv, NEW r \in Request, NEW K, K = Known(docs, versions, journals, req),
           NEW W, NEW writes \in Seq(W), AllDelete(writes, K), Section(r, writes, Nothing)
    PROVE  VInv'
<1>1. stale \in BOOLEAN /\ cut \in BOOLEAN /\ midway \in BOOLEAN
  BY DEF VInv
<1>2. CASE Ends(r, writes, Nothing, Over)
  <2>1. PICK e : e = After(writes, Nothing)
    OBVIOUS
  <2>2. /\ Becomes(e) /\ req' = [req EXCEPT ![r] = IF e.ok THEN Over ELSE Over]
        /\ stale' = (stale \/ (e.docs # docs /\ Outdated(req[r])))
        /\ midway' = (midway \/ (req[r].op = "revert" /\ e.ok /\ ~HasVersion(versions, req[r].ver)))
        /\ cut' = cut
    BY <1>2, <2>1 DEF Ends
  <2>3. req' = [req EXCEPT ![r] = Over]
    BY <2>2
  <2>4. stale' \in BOOLEAN /\ cut' \in BOOLEAN /\ midway' \in BOOLEAN
    BY <1>1, <2>2
  <2>5. DocsOK(e.docs) /\ Fewer(docs, e.docs) /\ StoreIn(e, K)
    BY <2>1, AfterFewer
  <2>6. QED
    BY <2>2, <2>3, <2>4, <2>5, FewerKeeps
<1>3. CASE Dies(r, writes)
  <2>1. PICK n \in 1 .. Len(writes) - 1 :
          /\ Becomes(After(SubSeq(writes, 1, n), Nothing))
          /\ req' = [req EXCEPT ![r] = Over]
          /\ cut' = TRUE /\ midway' = (midway \/ req[r].op = "revert") /\ UNCHANGED stale
    BY <1>3 DEF Dies
  <2>2. PICK sub : sub = SubSeq(writes, 1, n)
    OBVIOUS
  <2>3. sub \in Seq(W) /\ Len(sub) = n /\ \A m \in 1 .. n : sub[m] = writes[m] /\ m \in 1 .. Len(writes)
    BY <2>2
  <2>4. AllDelete(sub, K)
    BY <2>3 DEF AllDelete
  <2>5. PICK e : e = After(sub, Nothing)
    OBVIOUS
  <2>6. DocsOK(e.docs) /\ Fewer(docs, e.docs) /\ StoreIn(e, K)
    BY <2>3, <2>4, <2>5, AfterFewer
  <2>7. stale' \in BOOLEAN /\ cut' \in BOOLEAN /\ midway' \in BOOLEAN
    BY <1>1, <2>1
  <2>8. Becomes(e)
    BY <2>1, <2>2, <2>5
  <2>9. QED
    BY <2>1, <2>6, <2>7, <2>8, FewerKeeps
<1>4. QED
  BY <1>2, <1>3 DEF Section

\* The objects of files that are gone, with their versions, may be erased.
LEMMA ErasedSafe ==
    ASSUME NEW s, NEW r, NEW exempt, NEW F, DOMAIN s.docs \cap F = {},
           \A v \in ToSet(s.vers) : v.file \notin F, NEW os, \A o \in os : o[1] \in F /\ o[2] \in Mine(r),
           NEW w, w = ObjectDelete(os)
    PROVE  Safe(s, w, r, exempt)
<1>1. w.do = "erase" /\ w.of = os
  BY DEF ObjectDelete
<1>2. ASSUME NEW o \in os PROVE ~Needed(s, o)
  <2>1. PICK x : x = o[1]
    OBVIOUS
  <2>2. x \in F
    BY <2>1
  <2>3. \A y \in DOMAIN s.docs : o # <<y, s.docs[y].obj>>
    BY <2>1, <2>2
  <2>4. \A v \in ToSet(s.vers) : o # <<v.file, v.obj>>
    BY <2>1, <2>2
  <2>5. QED
    BY <2>3, <2>4 DEF Needed
<1>3. QED
  BY <1>1, <1>2 DEF Safe

\* The writes that erase the files of F, after the first k of a section; n is one of them.
Gone(s, F) == DOMAIN s.docs \cap F = {} /\ s.vers = versions
Owned(os, F, r) == \A o \in os : o[1] \in F /\ o[2] \in Mine(r)
ErasesAt(writes, n, k, a, e) ==
    \/ n = k + 1 /\ writes[n] = a
    \/ n = k + 2 /\ writes[n - 1] = a /\ writes[n] = e

LEMMA ErasesSafe ==
    ASSUME versions \in Seq(Version), NEW r, NEW exempt, NEW N \in Nat, NEW writes, NEW f,
           Trace(f, N, writes), NEW F, NEW vs, vs = VersionsFor(versions, F),
           NEW os, Owned(os, F, r), NEW k \in Nat, f[k].ok => Gone(f[k], F),
           NEW a, a = BatchDeleteVersions(ToSet(vs)), NEW e, e = ObjectDelete(os \cup ObjectsOf(vs)),
           NEW n \in 1 .. N, ErasesAt(writes, n, k, a, e), f[n - 1].ok
    PROVE  Safe(f[n - 1], writes[n], r, exempt)
<1> USE DEF Gone, Owned, ErasesAt
<1>1. a.do = "unversions" /\ a.of = ToSet(vs)
  BY DEF BatchDeleteVersions
<1>2. CASE n = k + 1 /\ writes[n] = a
  BY <1>1, <1>2 DEF Safe
<1>3. CASE n = k + 2 /\ writes[n - 1] = a /\ writes[n] = e
  <2>1. n - 1 \in 1 .. N /\ (n - 1) - 1 = k
    BY <1>3
  <2>2. PICK s, t : s = f[k] /\ t = f[n - 1]
    OBVIOUS
  <2>3. s.ok /\ Effect(s, a, t)
    BY <1>3, <2>1, <2>2, TraceStep
  <2>4. PICK keep : keep = ToSet(versions) \ ToSet(vs)
    OBVIOUS
  <2>5. t.docs = s.docs /\ t.vers = Only(versions, keep) /\ DOMAIN t.docs \cap F = {}
    BY <1>1, <2>2, <2>3, <2>4 DEF Effect
  <2>6. ToSet(t.vers) = ToSet(versions) \cap keep
    BY <2>5, OnlyElements
  <2>7. vs \in Seq(Version) /\ ToSet(vs) = {v \in ToSet(versions) : v.file \in F}
    BY OldVersions
  <2>8. \A v \in ToSet(t.vers) : v.file \notin F
    BY <2>4, <2>6, <2>7
  <2>9. \A v \in ToSet(versions) : v.obj \in Mine(r)
    BY MineParts
  <2>10. \A o \in ObjectsOf(vs) : o[1] \in F /\ o[2] \in Mine(r)
    <3>1. \A i \in DOMAIN vs : vs[i] \in ToSet(vs)
      BY <2>7 DEF ToSet
    <3>2. QED
      BY <2>7, <2>9, <3>1 DEF ObjectsOf
  <2>11. PICK of : of = os \cup ObjectsOf(vs)
    OBVIOUS
  <2>12. (\A o \in of : o[1] \in F /\ o[2] \in Mine(r)) /\ e = ObjectDelete(of)
    BY <2>10, <2>11
  <2>13. Safe(t, e, r, exempt)
    BY <2>5, <2>8, <2>12, ErasedSafe
  <2>14. QED
    BY <1>3, <2>2, <2>13
<1>4. QED
  BY <1>2, <1>3

\* A section with no undo, which is safe wherever it ends.
AlwaysSafe(writes, r) ==
    \A N \in 0 .. Len(writes) : \A f : Trace(f, N, writes) => AllSafe(f, N, writes, r, midway)

LEMMA SectionContents ==
    ASSUME VInv, CInv, NEW r \in Request, req[r].op # "revert", NEW W, NEW writes \in Seq(W),
           Section(r, writes, Nothing), AlwaysSafe(writes, r)
    PROVE  CInv'
<1>1. PICK undo : undo = Nothing
  OBVIOUS
<1>2. undo.do = "check"
  BY <1>1 DEF Nothing, Check
<1>3. PICK N \in 0 .. Len(writes) : \E f, s :
        /\ Outcome(f, N, writes, undo, s) /\ Holds(s) /\ IsState(s)
        /\ req' = [req EXCEPT ![r] = Over] /\ midway' = midway
  BY <1>1, QuietSection
<1>4. PICK f, s : /\ Outcome(f, N, writes, undo, s) /\ Holds(s) /\ IsState(s)
                  /\ req' = [req EXCEPT ![r] = Over] /\ midway' = midway
  BY <1>3
<1>5. Leaves(r, Over)
  BY <1>4, OverLeaves
<1>6. AllSafe(f, N, writes, r, midway)
  BY <1>4 DEF Outcome, AlwaysSafe
<1>7. SafeWrites(f, N, writes, undo, r)
  BY <1>2, <1>6 DEF SafeWrites, Safe
<1>8. N \in Nat
  OBVIOUS
<1>9. QED
  BY <1>4, <1>5, <1>7, <1>8, SoundOutcome

\* The objects of old versions that are gone may be erased: no file has them.
LEMMA OldErased ==
    ASSUME VInv, CInv, NEW r, NEW t, t.docs = docs, ToSet(t.vers) \subseteq ToSet(versions),
           NEW os, \A o \in os : \E v \in ToSet(versions) \ ToSet(t.vers) : o = <<v.file, v.obj>>,
           NEW w, w = ObjectDelete(os)
    PROVE  Safe(t, w, r, midway)
<1>1. w.do = "erase" /\ w.of = os
  BY DEF ObjectDelete
<1>2. versions \in Seq(Version) /\ Distinct(versions) /\ (midway \/ Backed(docs, objects, versions))
  BY DEF VInv, StoreOK, CInv
<1>3. ASSUME NEW o \in os PROVE o[2] \in Mine(r) /\ (midway \/ ~Needed(t, o))
  <2>1. PICK v \in ToSet(versions) \ ToSet(t.vers) : o = <<v.file, v.obj>>
    OBVIOUS
  <2>2. v.obj \in Mine(r)
    BY MineParts
  <2>3. \A u \in ToSet(t.vers) : o # <<u.file, u.obj>>
    BY <1>2, <2>1, DistinctValues
  <2>4. ASSUME ~midway, NEW x \in DOMAIN docs, docs[x].kind = "file" PROVE o # <<x, docs[x].obj>>
    BY <1>2, <2>1, <2>4 DEF Backed, IsFile
  <2>5. QED
    BY <2>1, <2>2, <2>3, <2>4 DEF Needed
<1>4. QED
  BY <1>1, <1>3 DEF Safe

\* What Destroy has read.
LEMMA DestroyFacts ==
    ASSUME NEW r, NEW q, ReqOK(r, q), q.op \in {"destroy", "clean"}
    PROVE  SnapOK(q) /\ HasSnap(q) /\ q.id \in Id \ {Root} /\ q.id # None
<1>1. q # Unread /\ q # Over
  BY DEF Unread, Over, Reading
<1>2. SnapOK(q)
  BY <1>1 DEF ReqOK, OpOK
<1>3. None \notin Id
  BY VFSAssumption DEF Id
<1>4. QED
  BY <1>2, <1>3 DEF SnapOK, GoodDoc, HasSnap

\* Neither the root nor the trash is below another directory than the root.
LEMMA ContentApart ==
    ASSUME DocsOK(docs), NEW id \in Id \ {Root}, NEW content, content = Under(docs, id)
    PROVE  content \subseteq DOMAIN docs /\ Root \notin content /\ Trash \notin content
<1>1. /\ content \subseteq DOMAIN docs
      /\ \A x \in content : docs[x].parent \in content \cup {id}
  BY UnderClosed DEF DocsOK
<1>2. None \notin Id
  BY VFSAssumption DEF Id
<1>3. Root \notin content
  <2>1. docs[Root].parent = None
    BY DEF DocsOK, IsRoot
  <2>2. None \notin content \cup {id}
    BY <1>1, <1>2 DEF DocsOK
  <2>3. QED
    BY <1>1, <2>1, <2>2
<1>4. Trash \notin content
  <2>1. docs[Trash].parent = Root
    BY DEF DocsOK
  <2>2. Root \notin content \cup {id}
    BY <1>3
  <2>3. QED
    BY <1>1, <2>1, <2>2
<1>5. QED
  BY <1>1, <1>3, <1>4

\* The deletion of versions, and of objects.
LEMMA PairDeletes ==
    ASSUME NEW K, NEW vs, NEW os, NEW a, a = <<BatchDeleteVersions(vs), ObjectDelete(os)>>
    PROVE  (\E W : a \in Seq(W)) /\ AllDelete(a, K)
<1>1. PICK w1, w2 : w1 = BatchDeleteVersions(vs) /\ w2 = ObjectDelete(os)
  OBVIOUS
<1>2. PICK W : W = {w1, w2}
  OBVIOUS
<1>3. a = <<w1, w2>>
  BY <1>1
<1>4. a \in Seq(W) /\ Len(a) = 2
  BY <1>2, <1>3
<1>5. \A w \in W : Deleting(w) /\ Stores(w, K)
  BY <1>1, <1>2, UnversionsWrite, EraseWrite DEF Deleting
<1>6. \A n \in 1 .. Len(a) : a[n] \in W
  <2>1. a \in Seq(W)
    BY <1>4
  <2>2. QED
    BY <2>1
<1>7. QED
  BY <1>4, <1>5, <1>6 DEF AllDelete

LEMMA ErasedDeletes ==
    ASSUME NEW K, NEW journal
    PROVE  (\E W : Erased(journal) \in Seq(W)) /\ AllDelete(Erased(journal), K)
<1>1. PICK vs : vs = VersionsFor(versions, journal.files)
  OBVIOUS
<1>2. PICK a : a = Erased(journal)
  OBVIOUS
<1>3. a = <<BatchDeleteVersions(ToSet(vs)), ObjectDelete(journal.objs \cup ObjectsOf(vs))>>
  BY <1>1, <1>2, Zenon DEF Erased
<1>4. QED
  BY <1>2, <1>3, PairDeletes

\* Two lists of such writes.
LEMMA BothDelete ==
    ASSUME NEW K, NEW V, NEW a \in Seq(V), AllDelete(a, K), NEW W, NEW b \in Seq(W), AllDelete(b, K),
           NEW c, c = a \o b
    PROVE  (\E U : c \in Seq(U)) /\ AllDelete(c, K)
<1>1. PICK U : U = V \cup W
  OBVIOUS
<1>2. a \in Seq(U) /\ b \in Seq(U)
  BY <1>1
<1>3. /\ c \in Seq(U) /\ Len(c) = Len(a) + Len(b) /\ Len(a) \in Nat /\ Len(b) \in Nat
      /\ \A i \in 1 .. Len(a) : c[i] = a[i]
      /\ \A i \in 1 .. Len(b) : c[Len(a) + i] = b[i]
  BY <1>2, SeqConcat
<1>4. ASSUME NEW n \in 1 .. Len(c) PROVE Deleting(c[n]) /\ Stores(c[n], K)
  <2>1. CASE n \in 1 .. Len(a)
    BY <1>3, <2>1 DEF AllDelete
  <2>2. CASE n \notin 1 .. Len(a)
    <3>1. n - Len(a) \in 1 .. Len(b) /\ n = Len(a) + (n - Len(a))
      BY <1>3, <2>2
    <3>2. c[n] = b[n - Len(a)]
      BY <1>3, <3>1
    <3>3. QED
      BY <3>1, <3>2 DEF AllDelete
  <2>3. QED
    BY <2>1, <2>2
<1>5. QED
  BY <1>3, <1>4 DEF AllDelete

\* The destruction of a directory with its content.
LEMMA DirDestroyed ==
    ASSUME VInv, NEW r \in Request, NEW q, q = req[r], q.op \in {"destroy", "clean"},
           DestroyDir(r, q)
    PROVE  Kept
<1>1. PICK content : content = Under(docs, q.id)
  OBVIOUS
<1>2. PICK files : files = {x \in content : docs[x].kind = "file"}
  OBVIOUS
<1>3. PICK journal : journal = [files |-> files, objs |-> {<<f, docs[f].obj>> : f \in files}]
  OBVIOUS
<1>4. PICK gone : gone = [x \in content \cup ({q.id} \ {Trash}) |-> IF x = q.id THEN q.snap ELSE docs[x]]
  OBVIOUS
<1>5. PICK h : h = (q.id \notin content)
  OBVIOUS
<1>6. PICK c, d, a : c = Check(h) /\ d = BatchDelete(gone) /\ a = <<c, d>>
  OBVIOUS
<1>7. PICK b : b = IF files = {} THEN <<>>
                   ELSE IF q.op = "clean" THEN Erased(journal) ELSE <<Push(journal)>>
  OBVIOUS
<1>8. PICK writes : writes = a \o b
  OBVIOUS
<1>9. Section(r, writes, Nothing)
  BY <1>1, <1>2, <1>3, <1>4, <1>5, <1>6, <1>7, <1>8, Zenon DEF DestroyDir
<1>10. PICK K : K = Known(docs, versions, journals, req)
  OBVIOUS
<1>11. DocsOK(docs) /\ ReqOK(r, q)
  BY DEF VInv
<1>12. content \subseteq DOMAIN docs /\ Root \notin content /\ Trash \notin content /\ q.id # Root
  BY <1>1, <1>11, DestroyFacts, ContentApart
<1>13. DOMAIN gone = content \cup ({q.id} \ {Trash})
  BY <1>4
<1>14. Deleting(d)
  <2>1. DOMAIN gone \cap {Root, Trash} = {}
    BY <1>12, <1>13
  <2>2. QED
    BY <1>6, <2>1, Zenon DEF Deleting
<1>15. Stores(d, K) /\ Deleting(c) /\ Stores(c, K)
  <2>1. Stores(d, K)
    BY <1>6 DEF BatchDelete, Stores
  <2>2. QED
    BY <1>6, <2>1, CheckWrite DEF Deleting
<1>16. PICK W : W = {c, d}
  OBVIOUS
<1>17. a \in Seq(W) /\ Len(a) = 2 /\ a[1] = c /\ a[2] = d
  BY <1>6, <1>16
<1>18. AllDelete(a, K)
  <2>1. \A n \in 1 .. 2 : n = 1 \/ n = 2
    OBVIOUS
  <2>2. QED
    BY <1>14, <1>15, <1>17, <2>1, Zenon DEF AllDelete
<1>19. JournalOK(journal) /\ journal.files \subseteq K
  <2>1. DOMAIN docs \subseteq Id /\ Root \notin files /\ files \subseteq DOMAIN docs
    BY <1>2, <1>11, <1>12 DEF DocsOK
  <2>2. \A f \in files : docs[f].obj \in ObjId
    BY <1>2, <1>11, <2>1 DEF DocsOK, GoodDoc
  <2>3. DOMAIN docs \subseteq K
    BY <1>10, KnownParts
  <2>4. QED
    BY <1>3, <2>1, <2>2, <2>3 DEF JournalOK
<1>20. (\E V : b \in Seq(V)) /\ AllDelete(b, K)
  <2>1. CASE files = {}
    <3>1. b = <<>>
      BY <1>7, <2>1
    <3>2. b \in Seq({}) /\ Len(b) = 0
      BY <3>1
    <3>3. QED
      BY <3>2 DEF AllDelete
  <2>2. CASE files # {} /\ q.op = "clean"
    BY <1>7, <2>2, ErasedDeletes
  <2>3. CASE files # {} /\ q.op # "clean"
    <3>1. PICK p : p = Push(journal)
      OBVIOUS
    <3>2. b = <<p>>
      BY <1>7, <2>3, <3>1
    <3>3. Deleting(p) /\ Stores(p, K)
      BY <1>19, <3>1, PushWrite DEF Deleting
    <3>4. b \in Seq({p}) /\ Len(b) = 1 /\ b[1] = p
      BY <3>2
    <3>5. \A n \in 1 .. 1 : n = 1
      OBVIOUS
    <3>6. AllDelete(b, K)
      BY <3>3, <3>4, <3>5, Zenon DEF AllDelete
    <3>7. QED
      BY <3>4, <3>6
  <2>4. QED
    BY <2>1, <2>2, <2>3
<1>21. PICK U : writes \in Seq(U) /\ AllDelete(writes, K)
  <2>1. PICK V : b \in Seq(V)
    BY <1>20
  <2>2. a \in Seq(W)
    BY <1>17
  <2>3. QED
    BY <1>8, <1>18, <1>20, <2>1, <2>2, BothDelete
<1>22. VInv'
  BY <1>9, <1>10, <1>21, SectionFewer
<1>23. /\ Len(writes) = 2 + Len(b) /\ Len(b) \in Nat /\ writes[1] = c /\ writes[2] = d
       /\ \A i \in 1 .. Len(b) : writes[2 + i] = b[i]
  <2>1. PICK V : b \in Seq(V)
    BY <1>20
  <2>2. PICK X : X = V \cup W
    OBVIOUS
  <2>3. a \in Seq(X) /\ b \in Seq(X)
    BY <1>17, <2>1, <2>2
  <2>4. /\ Len(writes) = Len(a) + Len(b) /\ Len(b) \in Nat
        /\ \A i \in 1 .. Len(a) : writes[i] = a[i]
        /\ \A i \in 1 .. Len(b) : writes[Len(a) + i] = b[i]
    BY <1>8, <2>3, SeqConcat
  <2>5. QED
    BY <1>17, <2>4
<1>24. PICK vs : vs = VersionsFor(versions, files)
  OBVIOUS
<1>25. PICK w3, w4 : /\ w3 = BatchDeleteVersions(ToSet(vs))
                     /\ w4 = ObjectDelete(journal.objs \cup ObjectsOf(vs))
  OBVIOUS
<1>26. \/ Len(b) = 0
       \/ Len(b) = 1 /\ b[1] = Push(journal)
       \/ Len(b) = 2 /\ b[1] = w3 /\ b[2] = w4
  <2>1. CASE files = {}
    BY <1>7, <2>1
  <2>2. CASE files # {} /\ q.op = "clean"
    <3>1. journal.files = files
      BY <1>3
    <3>2. b = <<w3, w4>>
      BY <1>7, <1>24, <1>25, <2>2, <3>1, Zenon DEF Erased
    <3>3. QED
      BY <3>2
  <2>3. CASE files # {} /\ q.op # "clean"
    BY <1>7, <2>3
  <2>4. QED
    BY <2>1, <2>2, <2>3
<1>27. ASSUME CInv PROVE CInv'
  <2>1. SUFFICES AlwaysSafe(writes, r)
    BY <1>9, <1>21, <1>27, SectionContents
  <2>2. SUFFICES ASSUME NEW N \in 0 .. Len(writes), NEW f, Trace(f, N, writes), NEW n \in 1 .. N,
                        f[n - 1].ok
                 PROVE  Safe(f[n - 1], writes[n], r, midway)
    BY DEF AlwaysSafe, AllSafe
  <2>3. N \in Nat /\ n \in 1 .. Len(writes)
    BY <1>23
  <2>4. /\ c.do = "check" /\ c.holds = h /\ d.do = "batch" /\ d.of = gone
    BY <1>6 DEF Check, BatchDelete
  <2>5. \A m \in 1 .. N : m < 2 => writes[m].do \in {"check", "store"}
    BY <1>23, <2>4
  <2>6. 2 \in Nat
    OBVIOUS
  <2>7. \A m \in 0 .. N : m < 2 => /\ f[m].docs = docs /\ f[m].vers = versions
                                   /\ f[m].jobs = journals /\ objects \subseteq f[m].objs
    BY <2>2, <2>3, <2>5, <2>6, UntilPut
  <2>8. ASSUME 2 \in 0 .. N, f[2].ok PROVE DOMAIN f[2].docs \cap files = {} /\ f[2].vers = versions
    <3>1. 1 \in 0 .. N /\ 2 \in 1 .. N /\ 1 \in 1 .. N /\ 1 < 2 /\ 2 - 1 = 1 /\ 1 - 1 = 0
      BY <2>8
    <3>2. PICK s0, s1, s2 : s0 = f[0] /\ s1 = f[1] /\ s2 = f[2]
      OBVIOUS
    <3>3. s1.ok /\ Effect(s1, d, s2)
      <4>1. PICK m \in 1 .. N : m = 2 /\ d = writes[m] /\ s1 = f[m - 1] /\ s2 = f[m]
        BY <1>23, <3>1, <3>2
      <4>2. QED
        BY <2>2, <2>3, <2>8, <3>2, <4>1, TraceStep
    <3>4. ~Refused(s0, c)
      BY <1>23, <2>2, <2>3, <3>1, <3>2, <3>3, TraceStep
    <3>5. h
      BY <2>4, <3>4 DEF Refused
    <3>6. s1.docs = docs /\ s1.vers = versions
      BY <2>7, <3>1, <3>2
    <3>7. PICK G : G = {x \in DOMAIN gone : Rev(docs, x) = gone[x].rev}
      OBVIOUS
    <3>8. s2.docs = Without(docs, G) /\ s2.vers = versions
      BY <2>4, <3>3, <3>6, <3>7 DEF Effect
    <3>9. \A x \in files : x \in G
      BY <1>2, <1>4, <1>5, <1>12, <1>13, <3>5, <3>7 DEF Rev
    <3>10. DOMAIN s2.docs = DOMAIN docs \ G
      BY <3>8 DEF Without
    <3>11. QED
      BY <3>2, <3>8, <3>9, <3>10
  <2>9. \A o \in journal.objs : o[1] \in files /\ o[2] \in Mine(r)
    <3>1. \A x \in files : docs[x].obj \in Mine(r)
      BY <1>2, <1>12, MineParts
    <3>2. QED
      BY <1>3, <3>1
  <2>10. CASE n = 1 \/ n = 2
    BY <1>23, <2>4, <2>10 DEF Safe
  <2>11. CASE n >= 3 /\ Len(b) = 1 /\ b[1] = Push(journal)
    <3>1. n = 3 /\ writes[3] = b[1] /\ 2 \in 0 .. N
      BY <1>23, <2>3, <2>11
    <3>2. PICK p : p = Push(journal) /\ writes[n] = p
      BY <2>11, <3>1
    <3>3. p.do = "push" /\ p.journal = journal
      BY <3>2 DEF Push
    <3>4. journal.files = files /\ DOMAIN f[n - 1].docs \cap files = {}
      BY <1>3, <2>2, <2>8, <3>1
    <3>5. QED
      BY <1>10, <1>19, <2>9, <3>2, <3>3, <3>4 DEF Safe
  <2>12. CASE n >= 3 /\ Len(b) = 2 /\ b[1] = w3 /\ b[2] = w4
    <3>1. writes[3] = w3 /\ writes[4] = w4 /\ (n = 3 \/ n = 4) /\ 2 \in 0 .. N
      BY <1>23, <2>3, <2>12
    <3>2. \/ n = 2 + 1 /\ writes[n] = w3
          \/ n = 2 + 2 /\ writes[n - 1] = w3 /\ writes[n] = w4
      BY <3>1
    <3>3. f[2].ok => DOMAIN f[2].docs \cap files = {} /\ f[2].vers = versions
      BY <2>8, <3>1
    <3>4. versions \in Seq(Version)
      BY DEF VInv, StoreOK
    <3>5. PICK os : os = journal.objs
      OBVIOUS
    <3>6. (\A o \in os : o[1] \in files /\ o[2] \in Mine(r)) /\ w4 = ObjectDelete(os \cup ObjectsOf(vs))
      BY <1>25, <2>9, <3>5
    <3>7. PICK k \in Nat : k = 2
      OBVIOUS
    <3>8. /\ f[k].ok => Gone(f[k], files)
          /\ ErasesAt(writes, n, k, w3, w4) /\ Owned(os, files, r)
      BY <3>2, <3>3, <3>6, <3>7 DEF Gone, ErasesAt, Owned
    <3>9. QED
      BY <1>24, <1>25, <2>2, <2>3, <3>4, <3>6, <3>8, ErasesSafe
  <2>13. QED
    BY <1>23, <1>26, <2>3, <2>10, <2>11, <2>12
<1>28. QED
  BY <1>22, <1>27 DEF Kept

LEMMA FileDestroyed ==
    ASSUME VInv, NEW r \in Request, NEW q, q = req[r], q.op \in {"destroy", "clean"},
           q.snap.kind # "dir", DestroyFile(r, q)
    PROVE  Kept
<1>1. PICK vs : vs = VersionsFor(versions, {q.id})
  OBVIOUS
<1>2. PICK h : h = IsDir(docs, q.snap.parent)
  OBVIOUS
<1>3. PICK c, d, a, e : /\ c = Check(h) /\ d = Delete(q.id, q.snap.rev)
                        /\ a = BatchDeleteVersions(ToSet(vs))
                        /\ e = ObjectDelete(ObjectsOf(vs) \cup {<<q.id, q.snap.obj>>})
  OBVIOUS
<1>4. PICK writes : writes = <<c, d, a, e>>
  OBVIOUS
<1>5. Section(r, writes, Nothing)
  BY <1>1, <1>2, <1>3, <1>4, Zenon DEF DestroyFile
<1>6. PICK K : K = Known(docs, versions, journals, req)
  OBVIOUS
<1>7. PICK W : W = {c, d, a, e}
  OBVIOUS
<1>8. writes \in Seq(W)
  BY <1>4, <1>7
<1>9. q.id \notin {Root, Trash} /\ HasSnap(q)
  <2>1. ReqOK(r, q)
    BY DEF VInv
  <2>2. SnapOK(q) /\ HasSnap(q)
    BY <2>1, DestroyFacts
  <2>3. QED
    BY <2>2 DEF SnapOK
<1>10. Deleting(d)
  BY <1>3, <1>9, Zenon DEF Deleting
<1>11. Stores(d, K)
  BY <1>3 DEF Delete, Stores
<1>12. \A w \in W : Deleting(w) /\ Stores(w, K)
  BY <1>3, <1>7, <1>10, <1>11, CheckWrite, UnversionsWrite, EraseWrite DEF Deleting
<1>13. AllDelete(writes, K)
  <2>1. \A n \in 1 .. Len(writes) : writes[n] \in W
    BY <1>8
  <2>2. QED
    BY <1>12, <2>1 DEF AllDelete
<1>14. VInv'
  BY <1>5, <1>6, <1>8, <1>13, SectionFewer
<1>15. Len(writes) = 4 /\ writes[1] = c /\ writes[2] = d /\ writes[3] = a /\ writes[4] = e
  BY <1>4
<1>16. ASSUME CInv PROVE CInv'
  <2>1. q.op # "revert"
    OBVIOUS
  <2>2. SUFFICES AlwaysSafe(writes, r)
    BY <1>5, <1>8, <1>16, <2>1, SectionContents
  <2>3. SUFFICES ASSUME NEW N \in 0 .. 4, NEW f, Trace(f, N, writes), NEW n \in 1 .. N, f[n - 1].ok
                 PROVE  Safe(f[n - 1], writes[n], r, midway)
    BY <1>15 DEF AlwaysSafe, AllSafe
  <2>4. N \in Nat /\ (n = 1 \/ n = 2 \/ n = 3 \/ n = 4)
    OBVIOUS
  <2>5. c.do = "check" /\ d.do = "delete" /\ d.id = q.id
    BY <1>3 DEF Check, Delete
  <2>6. \A m \in 1 .. N : m < 2 => writes[m].do \in {"check", "store"}
    BY <1>15, <2>5
  <2>7. PICK k \in Nat : k = 2
    OBVIOUS
  <2>8. \A m \in 0 .. N : m < k => /\ f[m].docs = docs /\ f[m].vers = versions
                                   /\ f[m].jobs = journals /\ objects \subseteq f[m].objs
    BY <2>3, <2>4, <2>6, <2>7, UntilPut
  <2>9. CASE n = 1 \/ n = 2
    BY <1>15, <2>5, <2>9 DEF Safe
  <2>10. CASE n = 3 \/ n = 4
    <3>1. PICK F, os : F = {q.id} /\ os = {<<q.id, q.snap.obj>>}
      OBVIOUS
    <3>2. Owned(os, F, r)
      BY <1>9, <3>1, MineParts DEF Owned
    <3>3. PICK m \in 1 .. N : m = 2 /\ writes[m] = d /\ m - 1 \in 0 .. N /\ m - 1 < k
      BY <1>15, <2>7, <2>10
    <3>4. ASSUME f[k].ok PROVE Gone(f[k], F)
      <4>1. PICK s1, s2 : s1 = f[m - 1] /\ s2 = f[m]
        OBVIOUS
      <4>2. Effect(s1, d, s2)
        BY <2>3, <2>4, <2>7, <3>3, <3>4, <4>1, TraceStep
      <4>3. s1.docs = docs /\ s1.vers = versions
        BY <2>8, <3>3, <4>1
      <4>4. s2.docs = Without(docs, {q.id}) /\ s2.vers = versions
        BY <2>5, <4>2, <4>3 DEF Effect
      <4>5. QED
        BY <2>7, <3>1, <3>3, <4>1, <4>4 DEF Gone, Without
    <3>5. versions \in Seq(Version)
      BY DEF VInv, StoreOK
    <3>6. e = ObjectDelete(os \cup ObjectsOf(vs))
      <4>1. os \cup ObjectsOf(vs) = ObjectsOf(vs) \cup {<<q.id, q.snap.obj>>}
        BY <3>1
      <4>2. QED
        BY <1>3, <4>1
    <3>7. ErasesAt(writes, n, k, a, e)
      BY <1>15, <2>7, <2>10 DEF ErasesAt
    <3>8. QED
      BY <1>1, <1>3, <2>3, <2>4, <3>1, <3>2, <3>4, <3>5, <3>6, <3>7, ErasesSafe
  <2>11. QED
    BY <2>4, <2>9, <2>10
<1>17. QED
  BY <1>14, <1>16 DEF Kept

LEMMA Destroyed ==
    ASSUME VInv, NEW r \in Request, Destroy(r) PROVE Kept
<1>1. PICK q : q = req[r]
  OBVIOUS
<1>2. /\ q.op \in {"destroy", "clean"}
      /\ IF q.snap.kind = "dir" THEN DestroyDir(r, q) ELSE DestroyFile(r, q)
  BY <1>1 DEF Destroy, Ready
<1>3. CASE q.snap.kind = "dir"
  BY <1>1, <1>2, <1>3, DirDestroyed
<1>4. CASE q.snap.kind # "dir"
  BY <1>1, <1>2, <1>4, FileDestroyed
<1>5. QED
  BY <1>3, <1>4

LEMMA VersionDeleted ==
    ASSUME VInv, NEW r \in Request, DeleteFileVersion(r) PROVE Kept
<1>1. PICK v, vs : v = req[r].ver /\ vs = <<v>>
  OBVIOUS
<1>2. PICK writes : writes = CleanOldVersions(vs)
  OBVIOUS
<1>3. Section(r, writes, Nothing)
  BY <1>1, <1>2 DEF DeleteFileVersion
<1>4. PICK K : K = Known(docs, versions, journals, req)
  OBVIOUS
<1>5. PICK w1, w2 : w1 = DeleteVersion(v) /\ w2 = ObjectDelete({<<v.file, v.obj>>})
  OBVIOUS
<1>6. PICK W : W = {w1, w2}
  OBVIOUS
<1>7. vs \in Seq({v}) /\ \A u \in ToSet(vs) : u = v
  BY <1>1 DEF ToSet
<1>8. writes \in Seq(W)
  <2>1. \A u \in ToSet(vs) : DeleteVersion(u) \in W /\ ObjectDelete({<<u.file, u.obj>>}) \in W
    BY <1>5, <1>6, <1>7
  <2>2. vs \in Seq({v})
    BY <1>7
  <2>3. QED
    BY <1>2, <2>1, <2>2, CleanWrites
<1>9. \A w \in W : Deleting(w) /\ Stores(w, K)
  BY <1>5, <1>6, UnversionWrite, EraseWrite DEF Deleting
<1>10. AllDelete(writes, K)
  <2>1. \A n \in 1 .. Len(writes) : writes[n] \in W
    BY <1>8
  <2>2. QED
    BY <1>9, <2>1 DEF AllDelete
<1>11. VInv'
  BY <1>3, <1>4, <1>8, <1>10, SectionFewer
<1>12. Len(writes) = 2 /\ writes[1] = w1 /\ writes[2] = w2
  BY <1>1, <1>2, <1>5 DEF CleanOldVersions
<1>13. ASSUME CInv PROVE CInv'
  <2>1. req[r].op # "revert"
    BY DEF DeleteFileVersion, Ready
  <2>2. SUFFICES AlwaysSafe(writes, r)
    BY <1>3, <1>8, <1>13, <2>1, SectionContents
  <2>3. SUFFICES ASSUME NEW N \in 0 .. 2, NEW f, Trace(f, N, writes), NEW n \in 1 .. N, f[n - 1].ok
                 PROVE  Safe(f[n - 1], writes[n], r, midway)
    BY <1>12 DEF AlwaysSafe, AllSafe
  <2>4. N \in Nat
    OBVIOUS
  <2>5. w1.do = "unversion" /\ w1.ver = v
    BY <1>5 DEF DeleteVersion
  <2>6. CASE n = 1
    BY <1>12, <2>5, <2>6 DEF Safe
  <2>7. CASE n = 2
    <3>1. PICK m \in 1 .. N : m = n - 1 /\ writes[m] = w1 /\ m - 1 = 0
      BY <1>12, <2>7
    <3>2. PICK s, t : s = f[m - 1] /\ t = f[m]
      OBVIOUS
    <3>3. Effect(s, w1, t) /\ ~Refused(s, w1)
      BY <2>3, <2>4, <3>1, <3>2, TraceStep
    <3>4. s.docs = docs /\ s.vers = versions
      BY <2>3, <3>1, <3>2, NowIsState DEF Trace
    <3>5. HasVersion(versions, v)
      BY <2>5, <3>3, <3>4 DEF Refused
    <3>6. v \in ToSet(versions)
      BY <3>5 DEF HasVersion, ToSet
    <3>7. PICK keep : keep = ToSet(versions) \ {v}
      OBVIOUS
    <3>8. t.docs = docs /\ t.vers = Only(versions, keep)
      BY <2>5, <3>3, <3>4, <3>7 DEF Effect
    <3>9. versions \in Seq(Version)
      BY DEF VInv, StoreOK
    <3>10. ToSet(t.vers) = ToSet(versions) \cap keep
      BY <3>8, <3>9, OnlyElements
    <3>11. PICK os : os = {<<v.file, v.obj>>}
      OBVIOUS
    <3>12. \A o \in os : \E u \in ToSet(versions) \ ToSet(t.vers) : o = <<u.file, u.obj>>
      BY <3>6, <3>7, <3>10, <3>11
    <3>13. Safe(t, w2, r, midway)
      BY <1>5, <1>13, <3>7, <3>8, <3>10, <3>11, <3>12, OldErased
    <3>14. QED
      BY <1>12, <2>7, <3>1, <3>2, <3>13
  <2>8. QED
    BY <2>6, <2>7
<1>14. QED
  BY <1>11, <1>13 DEF Kept

LEMMA VersionsCleared ==
    ASSUME VInv, NEW r \in Request, ClearOldVersions(r) PROVE Kept
<1>1. CASE Idle(r) /\ Asks(r, Reading("clearversions", None, NoDoc))
  BY <1>1, ClearAsked
<1>2. CASE /\ Ready(r, "clearversions")
           /\ Section(r, <<BatchDeleteVersions(ToSet(versions)),
                           ObjectDelete(ObjectsOf(versions))>>, Nothing)
  <2>1. PICK writes : writes = <<BatchDeleteVersions(ToSet(versions)),
                                 ObjectDelete(ObjectsOf(versions))>>
    OBVIOUS
  <2>2. PICK K : K = Known(docs, versions, journals, req)
    OBVIOUS
  <2>3. AllDelete(writes, K) /\ \E W : writes \in Seq(W)
    BY <2>1, PairDeletes
  <2>4. Section(r, writes, Nothing)
    BY <1>2, <2>1
  <2>5. VInv'
    BY <2>2, <2>3, <2>4, SectionFewer
  <2>6. PICK w1, w2 : w1 = BatchDeleteVersions(ToSet(versions)) /\ w2 = ObjectDelete(ObjectsOf(versions))
    OBVIOUS
  <2>7. Len(writes) = 2 /\ writes[1] = w1 /\ writes[2] = w2
    BY <2>1, <2>6
  <2>8. ASSUME CInv PROVE CInv'
    <3>1. req[r].op # "revert"
      BY <1>2 DEF Ready
    <3>2. SUFFICES AlwaysSafe(writes, r)
      BY <2>3, <2>4, <2>8, <3>1, SectionContents
    <3>3. SUFFICES ASSUME NEW N \in 0 .. 2, NEW f, Trace(f, N, writes), NEW n \in 1 .. N, f[n - 1].ok
                   PROVE  Safe(f[n - 1], writes[n], r, midway)
      BY <2>7 DEF AlwaysSafe, AllSafe
    <3>4. N \in Nat
      OBVIOUS
    <3>5. w1.do = "unversions" /\ w1.of = ToSet(versions)
      BY <2>6 DEF BatchDeleteVersions
    <3>6. CASE n = 1
      BY <2>7, <3>5, <3>6 DEF Safe
    <3>7. CASE n = 2
      <4>1. PICK m \in 1 .. N : m = n - 1 /\ writes[m] = w1 /\ m - 1 = 0
        BY <2>7, <3>7
      <4>2. PICK s, t : s = f[m - 1] /\ t = f[m]
        OBVIOUS
      <4>3. Effect(s, w1, t)
        BY <3>3, <3>4, <4>1, <4>2, TraceStep
      <4>4. s.docs = docs /\ s.vers = versions
        BY <3>3, <4>1, <4>2, NowIsState DEF Trace
      <4>5. PICK keep : keep = ToSet(versions) \ ToSet(versions)
        OBVIOUS
      <4>6. t.docs = docs /\ t.vers = Only(versions, keep)
        BY <3>5, <4>3, <4>4, <4>5 DEF Effect
      <4>7. versions \in Seq(Version)
        BY DEF VInv, StoreOK
      <4>8. ToSet(t.vers) = ToSet(versions) \cap keep
        BY <4>6, <4>7, OnlyElements
      <4>9. PICK os : os = ObjectsOf(versions)
        OBVIOUS
      <4>10. \A i \in DOMAIN versions : versions[i] \in ToSet(versions)
        BY DEF ToSet
      <4>11. \A o \in os : \E u \in ToSet(versions) \ ToSet(t.vers) : o = <<u.file, u.obj>>
        BY <4>5, <4>8, <4>9, <4>10 DEF ObjectsOf
      <4>12. ToSet(t.vers) \subseteq ToSet(versions) /\ w2 = ObjectDelete(os)
        BY <2>6, <4>8, <4>9
      <4>13. Safe(t, w2, r, midway)
        BY <2>8, <4>6, <4>11, <4>12, OldErased
      <4>14. QED
        BY <2>7, <3>7, <4>1, <4>2, <4>13
    <3>8. QED
      BY <3>6, <3>7
  <2>9. QED
    BY <2>5, <2>8 DEF Kept
<1>3. QED
  BY <1>1, <1>2 DEF ClearOldVersions

-----------------------------------------------------------------------------
(* The invariant holds.                                                    *)

\* A step that is not the one of a request.
LEMMA WorkerKeeps ==
    ASSUME VInv, NEW K, K = Known(docs, versions, journals, req),
           NEW e, Fewer(docs, e.docs), DocsOK(e.docs), StoreIn(e, K), Becomes(e), req' = req,
           stale' \in BOOLEAN, cut' \in BOOLEAN, midway' \in BOOLEAN
    PROVE  VInv'
<1>1. docs' = e.docs /\ objects' = e.objs /\ versions' = e.vers /\ journals' = e.jobs
  BY DEF Becomes
<1>2. /\ Names(docs) /\ DOMAIN req = Request
      /\ \A x \in Request : ReqOK(x, req[x]) /\ Agrees(docs, req[x])
  BY DEF VInv
<1>3. DOMAIN e.docs \subseteq DOMAIN docs /\ \A x \in DOMAIN e.docs : KeptDoc(docs[x], e.docs[x])
  BY DEF Fewer
<1>4. Names(e.docs) /\ \A x \in Request : Agrees(e.docs, req[x])
  BY <1>2, <1>3, KnownParts, KeptNames, KeptAgrees
<1>5. StoreOK(objects', versions', journals')
  BY <1>1 DEF StoreIn
<1>6. PICK L : L = Known(docs', versions', journals', req')
  OBVIOUS
<1>7. L \subseteq K
  <2>1. DOMAIN docs' \subseteq K
    BY <1>1, <1>3, KnownParts
  <2>2. {v.file : v \in ToSet(versions')} \subseteq K /\ UNION {j.files : j \in journals'} \subseteq K
    BY <1>1 DEF StoreIn
  <2>3. \A x \in Request : HasSnap(req'[x]) => req'[x].id \in K
    BY KnownParts
  <2>4. QED
    BY <1>6, <2>1, <2>2, <2>3, KnownParts
<1>8. \A x \in Request : Unborn(x, req'[x]) \cap L = {}
  BY <1>7 DEF VInv
<1>9. DocsOK(docs') /\ Names(docs') /\ \A x \in Request : ReqOK(x, req'[x]) /\ Agrees(docs', req'[x])
  BY <1>1, <1>2, <1>4
<1>10. QED
  BY <1>2, <1>5, <1>6, <1>8, <1>9 DEF VInv

\* The writes that erase the files of a job are safe: the files have no documents left.
LEMMA WorkerSound ==
    ASSUME VInv, CInv, NEW journal \in journals, NEW erased, erased = Erased(journal),
           NEW W, NEW writes \in Seq(W), Len(writes) <= 2,
           \A n \in 1 .. Len(writes) : writes[n] = erased[n]
    PROVE  \E s : /\ IsState(s) /\ Sound(s, None, midway) /\ After(writes, Nothing).docs = s.docs
                  /\ After(writes, Nothing).objs = s.objs /\ After(writes, Nothing).vers = s.vers
                  /\ After(writes, Nothing).jobs = s.jobs
<1>1. PICK N \in Nat : N = Len(writes)
  OBVIOUS
<1>2. PICK f : /\ Trace(f, N, writes)
               /\ After(writes, Nothing) = IF f[N].ok THEN f[N]
                                           ELSE [Written(f[N], Nothing) EXCEPT !.ok = FALSE]
  BY <1>1, AfterTrace
<1>3. PICK F, os, vs : F = journal.files /\ os = journal.objs /\ vs = VersionsFor(versions, F)
  OBVIOUS
<1>4. PICK a, e : a = BatchDeleteVersions(ToSet(vs)) /\ e = ObjectDelete(os \cup ObjectsOf(vs))
  OBVIOUS
<1>5. erased = <<a, e>>
  BY <1>3, <1>4 DEF Erased
<1>6. PICK none : none = None
  OBVIOUS
<1>7. Owned(os, F, none)
  <2>1. JournalOK(journal)
    BY DEF VInv, StoreOK
  <2>2. \A o \in os : o[2] \in Mine(none)
    BY <1>3, MineParts
  <2>3. \A o \in os : o[1] \in F
    BY <1>3, <2>1 DEF JournalOK
  <2>4. QED
    BY <2>2, <2>3 DEF Owned
<1>8. versions \in Seq(Version)
  BY DEF VInv, StoreOK
<1>9. PICK k \in Nat : k = 0
  OBVIOUS
<1>10. f[k].ok => Gone(f[k], F)
  BY <1>2, <1>3, <1>9, NowIsState DEF Trace, Gone, CInv
<1>11. ASSUME NEW n \in 1 .. N, f[n - 1].ok PROVE Safe(f[n - 1], writes[n], none, midway)
  <2>1. ErasesAt(writes, n, k, a, e)
    <3>1. CASE n = 1
      BY <1>1, <1>5, <1>9, <3>1 DEF ErasesAt
    <3>2. CASE n = 2
      <4>1. n - 1 = 1 /\ 1 \in 1 .. N /\ 2 \in 1 .. N
        BY <3>2
      <4>2. QED
        BY <1>1, <1>5, <1>9, <3>2, <4>1 DEF ErasesAt
    <3>3. QED
      BY <1>1, <3>1, <3>2
  <2>2. QED
    BY <1>2, <1>3, <1>4, <1>7, <1>8, <1>10, <1>11, <2>1, ErasesSafe
<1>12. AllSafe(f, N, writes, none, midway)
  BY <1>11 DEF AllSafe
<1>13. Sound(Now, none, midway)
  BY NowSound
<1>14. N \in 0 .. N
  OBVIOUS
<1>15. PICK s : s = f[N]
  OBVIOUS
<1>16. Sound(s, none, midway) /\ IsState(s)
  BY <1>2, <1>12, <1>13, <1>14, <1>15, SoundTrace, TraceState
<1>17. Written(s, Nothing) = s
  BY DEF Written, Nothing, Check
<1>18. PICK u : u = [s EXCEPT !.ok = FALSE]
  OBVIOUS
<1>19. After(writes, Nothing) \in {s, u}
  BY <1>2, <1>15, <1>17, <1>18
<1>20. u.docs = s.docs /\ u.objs = s.objs /\ u.vers = s.vers /\ u.jobs = s.jobs
  BY <1>16, <1>18 DEF IsState
<1>21. QED
  BY <1>6, <1>16, <1>19, <1>20

\* The worker is not the section of a request.
LEMMA WorkerSettles ==
    ASSUME VInv, CInv, NEW s, Sound(s, None, midway), docs' = s.docs, objects' = s.objs,
           versions' = s.vers, journals' \subseteq s.jobs, req' = req, midway' = midway
    PROVE  CInv'
<1>1. PICK U : U = Mine(None)
  OBVIOUS
<1>2. /\ Distinct(versions') /\ \A j \in journals' : j.files \cap DOMAIN docs' = {}
      /\ \A x \in DOMAIN docs' : docs'[x].obj \in U
      /\ \A v \in ToSet(versions') : v.obj \in U
      /\ \A j \in journals' : \A o \in j.objs : o[2] \in U
      /\ \A o \in objects : o[2] \notin U => o \in objects'
      /\ midway' \/ Backed(docs', objects', versions')
  BY <1>1 DEF Sound
<1>3. /\ \A x \in Request : HasSnap(req'[x]) => req'[x].snap.obj \in U
      /\ \A x \in Request : req'[x].op \in {"revert", "cleanversion"} => req'[x].ver.obj \in U
  BY <1>1, MineParts
<1>4. PICK X : X = Used(docs', versions', journals', req')
  OBVIOUS
<1>5. X \subseteq U
  BY <1>2, <1>3, <1>4, UsedParts
<1>6. ASSUME NEW r \in Request, req[r].op \in Pending PROVE r \notin U
  <2>1. r \notin Used(docs, versions, journals, req)
    BY <1>6 DEF CInv
  <2>2. r # None
    BY VFSAssumption
  <2>3. None \in Used(docs, versions, journals, req)
    <3>1. Root \in DOMAIN docs /\ docs[Root].obj = None
      BY DEF VInv, DocsOK, IsRoot
    <3>2. PICK Y : Y = Used(docs, versions, journals, req)
      OBVIOUS
    <3>3. \A x \in DOMAIN docs : docs[x].obj \in Y
      BY <3>2, UsedParts
    <3>4. QED
      BY <3>1, <3>2, <3>3
  <2>4. QED
    BY <1>1, <2>1, <2>2, <2>3 DEF Mine
<1>7. ASSUME NEW r \in Request, req'[r].op = "stored" PROVE <<req'[r].id, r>> \in objects'
  <2>1. PICK o : o = <<req[r].id, r>>
    OBVIOUS
  <2>2. o \in objects /\ o[2] = r
    BY <1>7, <2>1 DEF CInv
  <2>3. r \notin U
    BY <1>6, <1>7 DEF Pending
  <2>4. QED
    BY <1>2, <2>1, <2>2, <2>3
<1>8. ASSUME NEW r \in Request, req'[r].op \in Pending PROVE r \notin X
  BY <1>5, <1>6, <1>8
<1>9. QED
  BY <1>2, <1>4, <1>7, <1>8 DEF CInv

LEMMA FilesErased ==
    ASSUME VInv, TrashFiles PROVE Kept
<1>1. PICK journal \in journals :
        /\ \/ /\ Becomes([After(Erased(journal), Nothing) EXCEPT !.jobs = @ \ {journal}])
              /\ UNCHANGED cut
           \/ /\ versions # After(Erased(journal), Nothing).vers
              /\ Becomes(After(SubSeq(Erased(journal), 1, 1), Nothing))
              /\ cut' = TRUE
        /\ UNCHANGED <<req, stale, midway>>
  BY DEF TrashFiles
<1>2. req' = req /\ midway' = midway /\ stale' \in BOOLEAN /\ cut' \in BOOLEAN /\ midway' \in BOOLEAN
  BY <1>1 DEF VInv
<1>3. PICK K : K = Known(docs, versions, journals, req)
  OBVIOUS
<1>4. PICK writes : writes = Erased(journal)
  OBVIOUS
<1>5. PICK W : writes \in Seq(W) /\ AllDelete(writes, K)
  BY <1>4, ErasedDeletes
<1>6. CASE Becomes([After(writes, Nothing) EXCEPT !.jobs = @ \ {journal}])
  <2>1. PICK e : e = After(writes, Nothing)
    OBVIOUS
  <2>2. IsState(e) /\ DocsOK(e.docs) /\ Fewer(docs, e.docs) /\ StoreIn(e, K)
    BY <1>3, <1>5, <2>1, AfterFewer
  <2>3. PICK u : u = [e EXCEPT !.jobs = @ \ {journal}]
    OBVIOUS
  <2>4. u.docs = e.docs /\ u.objs = e.objs /\ u.vers = e.vers /\ u.jobs = e.jobs \ {journal}
    BY <2>2, <2>3 DEF IsState
  <2>5. StoreIn(u, K)
    BY <2>2, <2>4 DEF StoreIn, StoreOK
  <2>6. Becomes(u) /\ DocsOK(u.docs) /\ Fewer(docs, u.docs)
    BY <1>6, <2>1, <2>2, <2>3, <2>4
  <2>7. VInv'
    BY <1>2, <1>3, <2>5, <2>6, WorkerKeeps
  <2>8. ASSUME CInv PROVE CInv'
    <3>1. Len(writes) <= 2
      BY <1>4 DEF Erased
    <3>2. PICK s : /\ Sound(s, None, midway) /\ e.docs = s.docs /\ e.objs = s.objs
                   /\ e.vers = s.vers /\ e.jobs = s.jobs
      BY <1>4, <1>5, <2>1, <2>8, <3>1, WorkerSound
    <3>3. /\ docs' = s.docs /\ objects' = s.objs /\ versions' = s.vers
          /\ journals' \subseteq s.jobs
      BY <2>4, <2>6, <3>2 DEF Becomes
    <3>4. QED
      BY <1>2, <2>8, <3>2, <3>3, WorkerSettles
  <2>9. QED
    BY <2>7, <2>8 DEF Kept
<1>7. CASE Becomes(After(SubSeq(writes, 1, 1), Nothing))
  <2>1. PICK sub : sub = SubSeq(writes, 1, 1)
    OBVIOUS
  <2>2. Len(writes) = 2
    BY <1>4 DEF Erased
  <2>3. sub \in Seq(W) /\ Len(sub) = 1 /\ \A m \in 1 .. 1 : sub[m] = writes[m] /\ m \in 1 .. Len(writes)
    BY <1>5, <2>1, <2>2
  <2>4. AllDelete(sub, K)
    BY <1>5, <2>3 DEF AllDelete
  <2>5. PICK e : e = After(sub, Nothing)
    OBVIOUS
  <2>6. DocsOK(e.docs) /\ Fewer(docs, e.docs) /\ StoreIn(e, K) /\ Becomes(e)
    BY <1>3, <1>7, <2>1, <2>3, <2>4, <2>5, AfterFewer
  <2>7. VInv'
    BY <1>2, <1>3, <2>6, WorkerKeeps
  <2>8. ASSUME CInv PROVE CInv'
    <3>1. Len(sub) <= 2 /\ \A n \in 1 .. Len(sub) : sub[n] = writes[n]
      BY <2>3
    <3>2. sub \in Seq(W)
      BY <2>3
    <3>3. PICK s : /\ Sound(s, None, midway) /\ e.docs = s.docs /\ e.objs = s.objs
                   /\ e.vers = s.vers /\ e.jobs = s.jobs
      BY <1>4, <2>5, <2>8, <3>1, <3>2, WorkerSound
    <3>4. /\ docs' = s.docs /\ objects' = s.objs /\ versions' = s.vers
          /\ journals' \subseteq s.jobs
      BY <2>6, <3>3 DEF Becomes
    <3>5. QED
      BY <1>2, <2>8, <3>3, <3>4, WorkerSettles
  <2>9. QED
    BY <2>7, <2>8 DEF Kept
<1>8. QED
  BY <1>1, <1>4, <1>6, <1>7

\* The first documents: only one of them has a content.
OneContent(D) ==
    \A x \in DOMAIN D : \/ D[x].kind = "dir" /\ D[x].obj = None
                        \/ x = FileF /\ D[x].kind = "file" /\ D[x].obj = 1
First(n, trashed, path, A) ==
    /\ path = (IF trashed THEN <<TrashName, <<n>>>> ELSE <<<<n>>>>)
    /\ A = [DirDoc(IF trashed THEN Trash ELSE Root, <<n>>, path) EXCEPT
               !.restore = IF trashed THEN <<>> ELSE None]
    /\ docs = [x \in FirstId |->
                  CASE x = Root -> DirDoc(None, <<>>, <<>>)
                    [] x = Trash -> DirDoc(Root, TrashName, TrashPath)
                    [] x = DirA -> A
                    [] x = DirB -> DirDoc(DirA, <<n>>, Append(path, <<n>>))
                    [] x = FileF -> [FileDoc(DirB, <<n>>, 1) EXCEPT !.trashed = trashed]]

LEMMA FirstDocs ==
    ASSUME NEW n \in Name \ {Trash}, NEW trashed \in BOOLEAN, NEW path, NEW A,
           First(n, trashed, path, A)
    PROVE  DocsOK(docs) /\ Names(docs) /\ DOMAIN docs = FirstId /\ OneContent(docs)
<1>a. /\ path = (IF trashed THEN <<TrashName, <<n>>>> ELSE <<<<n>>>>)
      /\ A = [DirDoc(IF trashed THEN Trash ELSE Root, <<n>>, path) EXCEPT
                 !.restore = IF trashed THEN <<>> ELSE None]
      /\ docs = [x \in FirstId |->
                    CASE x = Root -> DirDoc(None, <<>>, <<>>)
                      [] x = Trash -> DirDoc(Root, TrashName, TrashPath)
                      [] x = DirA -> A
                      [] x = DirB -> DirDoc(DirA, <<n>>, Append(path, <<n>>))
                      [] x = FileF -> [FileDoc(DirB, <<n>>, 1) EXCEPT !.trashed = trashed]]
  BY DEF First
<1>1. /\ Root \notin {Trash, DirA, DirB, FileF} /\ Trash \notin {DirA, DirB, FileF}
      /\ DirA \notin {DirB, FileF} /\ DirB # FileF /\ None \notin FirstId
  BY VFSAssumption
<1>2. PICK name, tail : name = <<n>> /\ tail = <<>>
  OBVIOUS
<1>3. PICK F : F = [FileDoc(DirB, name, 1) EXCEPT !.trashed = trashed]
  OBVIOUS
<1>4. PICK Td : Td = DirDoc(Root, TrashName, TrashPath)
  OBVIOUS
<1>5. PICK Bd : Bd = DirDoc(DirA, name, Append(path, name))
  OBVIOUS
<1>6. PICK Rd : Rd = DirDoc(None, tail, tail)
  OBVIOUS
<1>7. /\ DOMAIN docs = FirstId
      /\ docs[Root] = Rd /\ docs[Trash] = Td /\ docs[DirA] = A /\ docs[DirB] = Bd /\ docs[FileF] = F
  BY <1>a, <1>1, <1>2, <1>3, <1>4, <1>5, <1>6 DEF FirstId
<1>8. IsName(name) /\ IsName(TrashName)
  BY <1>2, NameOf DEF TrashName
<1>9. IsPath(tail) /\ IsPath(TrashPath) /\ IsPath(path)
  <2>1. IsPath(tail)
    BY <1>2, PathEmpty
  <2>2. TrashPath = Append(tail, TrashName)
    BY <1>2 DEF TrashPath
  <2>3. IsPath(TrashPath)
    BY <1>8, <2>1, <2>2, PathAppend
  <2>4. path = Append(IF trashed THEN TrashPath ELSE tail, name)
    <3>1. CASE trashed
      BY <1>a, <1>2, <3>1 DEF TrashPath
    <3>2. CASE ~trashed
      BY <1>a, <1>2, <3>2
    <3>3. QED
      BY <3>1, <3>2
  <2>5. QED
    BY <1>8, <2>1, <2>3, <2>4, PathAppend
<1>10. FirstId \subseteq Id /\ IsFiniteSet(FirstId)
  <2>1. IsFiniteSet({Root}) /\ IsFiniteSet({Trash}) /\ IsFiniteSet({DirA})
        /\ IsFiniteSet({DirB}) /\ IsFiniteSet({FileF})
    BY FS_Singleton
  <2>2. FirstId = ((({Root} \cup {Trash}) \cup {DirA}) \cup {DirB}) \cup {FileF}
    BY DEF FirstId
  <2>3. IsFiniteSet(FirstId)
    BY <2>1, <2>2, FS_Union
  <2>4. QED
    BY <2>3 DEF Id
<1>11. GoodDoc(Td) /\ Td.parent = Root /\ Td.kind = "dir" /\ Td.name = TrashName
  BY <1>4, <1>8, <1>9, TrashId, DirDocGood
<1>12. GoodDoc(Bd) /\ Bd.parent = DirA /\ Bd.name = name
  <2>1. DirA \in Id /\ IsPath(Append(path, name))
    BY <1>8, <1>9, <1>10, PathAppend DEF FirstId
  <2>2. QED
    BY <1>5, <1>8, <2>1, DirDocGood
<1>13. GoodDoc(A) /\ A.parent = (IF trashed THEN Trash ELSE Root) /\ A.name = name
  <2>1. PICK p \in Id : p = IF trashed THEN Trash ELSE Root
    BY TrashId
  <2>2. PICK d : d = DirDoc(p, name, path)
    OBVIOUS
  <2>3. /\ GoodDoc(d) /\ d.parent = p /\ d.name = name
    BY <1>8, <1>9, <2>2, DirDocGood
  <2>4. A = [d EXCEPT !.restore = IF trashed THEN tail ELSE None]
    BY <1>a, <1>2, <2>1, <2>2
  <2>5. QED
    BY <1>9, <2>1, <2>3, <2>4 DEF GoodDoc, IsDoc
<1>14. GoodDoc(F) /\ F.parent = DirB /\ F.name = name
  <2>1. DirB \in Id /\ 1 \in ObjId
    BY <1>10 DEF FirstId, ObjId
  <2>2. PICK d : d = FileDoc(DirB, name, 1)
    OBVIOUS
  <2>3. GoodDoc(d) /\ d.parent = DirB /\ d.name = name
    BY <1>8, <2>1, <2>2, FileDocGood
  <2>4. F = [d EXCEPT !.trashed = trashed]
    BY <1>3, <2>2
  <2>5. QED
    BY <2>3, <2>4 DEF GoodDoc, IsDoc
<1>15. IsRoot(Rd)
  BY <1>2, <1>6 DEF IsRoot, IsDoc, DirDoc
<1>16. DocsOK(docs)
  BY <1>7, <1>10, <1>11, <1>12, <1>13, <1>14, <1>15 DEF DocsOK, FirstId
<1>17. Names(docs)
  <2>1. Rd.parent = None
    BY <1>15 DEF IsRoot
  <2>2. name # TrashName
    BY <1>2 DEF TrashName
  <2>3. /\ docs[Root].parent = None /\ docs[Trash].parent = Root
        /\ docs[DirA].parent \in {Root, Trash} /\ docs[DirB].parent = DirA
        /\ docs[FileF].parent = DirB /\ docs[Trash].name # docs[DirA].name
    BY <1>7, <1>11, <1>12, <1>13, <1>14, <2>1, <2>2
  <2>4. ASSUME NEW x \in FirstId, NEW y \in FirstId, docs[x].parent = docs[y].parent,
               docs[x].name = docs[y].name
        PROVE  x = y
    <3>1. /\ x \in {Root, Trash, DirA, DirB, FileF} /\ y \in {Root, Trash, DirA, DirB, FileF}
          /\ None \notin {Root, Trash, DirA, DirB, FileF}
      BY <1>1 DEF FirstId
    <3>2. CASE x = Root \/ y = Root
      BY <1>1, <2>3, <2>4, <3>1, <3>2
    <3>3. CASE x \in {Trash, DirA} \/ y \in {Trash, DirA}
      BY <1>1, <2>3, <2>4, <3>1, <3>3
    <3>4. CASE x \in {DirB, FileF} /\ y \in {DirB, FileF}
      BY <1>1, <2>3, <2>4, <3>4
    <3>5. QED
      BY <3>1, <3>2, <3>3, <3>4
  <2>5. QED
    BY <1>7, <2>4 DEF Names
<1>18. OneContent(docs)
  <2>1. /\ Rd.kind = "dir" /\ Rd.obj = None /\ Td.kind = "dir" /\ Td.obj = None
        /\ Bd.kind = "dir" /\ Bd.obj = None
    BY <1>4, <1>5, <1>6 DEF DirDoc
  <2>2. F.kind = "file" /\ F.obj = 1
    BY <1>3 DEF FileDoc
  <2>3. A.kind = "dir" /\ A.obj = None
    <3>1. PICK d : d = DirDoc(IF trashed THEN Trash ELSE Root, <<n>>, path)
      OBVIOUS
    <3>2. d = [d EXCEPT !.restore = d.restore] /\ d.kind = "dir" /\ d.obj = None
      BY <3>1 DEF DirDoc
    <3>3. PICK e : A = [d EXCEPT !.restore = e]
      BY <1>a, <3>1
    <3>4. QED
      BY <3>1, <3>3 DEF DirDoc
  <2>4. QED
    BY <1>7, <2>1, <2>2, <2>3 DEF OneContent, FirstId
<1>19. QED
  BY <1>7, <1>16, <1>17, <1>18

LEMMA InitHolds == ASSUME Init PROVE VInv /\ CInv
<1>1. DocsOK(docs) /\ Names(docs) /\ DOMAIN docs = FirstId /\ OneContent(docs)
  <2>1. PICK n \in Name \ {Trash}, trashed \in BOOLEAN :
          LET path == IF trashed THEN <<TrashName, <<n>>>> ELSE <<<<n>>>>
              A == [DirDoc(IF trashed THEN Trash ELSE Root, <<n>>, path) EXCEPT
                       !.restore = IF trashed THEN <<>> ELSE None]
          IN  docs = [x \in FirstId |->
                         CASE x = Root -> DirDoc(None, <<>>, <<>>)
                           [] x = Trash -> DirDoc(Root, TrashName, TrashPath)
                           [] x = DirA -> A
                           [] x = DirB -> DirDoc(DirA, <<n>>, Append(path, <<n>>))
                           [] x = FileF -> [FileDoc(DirB, <<n>>, 1) EXCEPT !.trashed = trashed]]
    BY DEF Init
  <2>2. PICK path : path = IF trashed THEN <<TrashName, <<n>>>> ELSE <<<<n>>>>
    OBVIOUS
  <2>3. PICK A : A = [DirDoc(IF trashed THEN Trash ELSE Root, <<n>>, path) EXCEPT
                         !.restore = IF trashed THEN <<>> ELSE None]
    OBVIOUS
  <2>4. First(n, trashed, path, A)
    BY <2>1, <2>2, <2>3 DEF First
  <2>5. QED
    BY <2>4, FirstDocs
<1>2. PICK v : v = [file |-> FileF, obj |-> 0, by |-> None]
  OBVIOUS
<1>3. /\ objects = {<<FileF, 0>>, <<FileF, 1>>} /\ versions = <<v>> /\ journals = {}
      /\ req = [r \in Request |-> Unread] /\ stale = FALSE /\ cut = FALSE /\ midway = FALSE
  BY <1>2 DEF Init
<1>4. v \in Version /\ v.file = FileF
  BY <1>2 DEF Version, ObjId, Id, FirstId
<1>5. StoreOK(objects, versions, journals)
  BY <1>3, <1>4 DEF StoreOK, ObjId, Id, FirstId
<1>6. Unread.op = "none" /\ Unread.snap = NoDoc /\ Unread.id = None /\ IsReq(Unread)
  BY DEF Unread, Reading, IsReq
<1>7. ~HasSnap(Unread)
  BY <1>6 DEF HasSnap, NoDoc
<1>8. ASSUME NEW r \in Request PROVE req[r] = Unread /\ ReqOK(r, req[r]) /\ Agrees(docs, req[r])
  BY <1>3, <1>6, <1>7 DEF ReqOK, OpOK, Agrees
<1>9. PICK K : K = Known(docs, versions, journals, req)
  OBVIOUS
<1>10. K \subseteq FirstId
  <2>1. \A u \in ToSet(versions) : u = v
    BY <1>3 DEF ToSet
  <2>2. /\ {u.file : u \in ToSet(versions)} \subseteq FirstId
        /\ UNION {j.files : j \in journals} \subseteq FirstId
    BY <1>3, <1>4, <2>1 DEF FirstId
  <2>3. \A r \in Request : ~HasSnap(req[r])
    BY <1>7, <1>8
  <2>4. QED
    BY <1>1, <1>9, <2>2, <2>3, KnownParts
<1>11. ASSUME NEW r \in Request PROVE Unborn(r, req[r]) \cap K = {}
  <2>1. Unborn(r, req[r]) \subseteq {r} \cup MadeId
    BY DEF Unborn
  <2>2. r \notin FirstId /\ \A x \in FirstId : x \notin MadeId
    BY VFSAssumption
  <2>3. QED
    BY <1>10, <2>1, <2>2
<1>12. FALSE \in BOOLEAN
  OBVIOUS
<1>13. DOMAIN req = Request
  BY <1>3
<1>14. stale \in BOOLEAN /\ cut \in BOOLEAN /\ midway \in BOOLEAN
  BY <1>3, <1>12
<1>15. VInv
  BY <1>1, <1>5, <1>8, <1>9, <1>11, <1>13, <1>14 DEF VInv
<1>16. v.obj = 0 /\ \A u \in ToSet(versions) : u = v
  BY <1>2, <1>3 DEF ToSet
<1>17. Distinct(versions)
  BY <1>3 DEF Distinct
<1>18. Used(docs, versions, journals, req) \subseteq {None, 0, 1}
  <2>1. PICK U : U = {None, 0, 1}
    OBVIOUS
  <2>2. None \in U /\ 0 \in U /\ 1 \in U
    BY <2>1
  <2>3. \A x \in DOMAIN docs : docs[x].obj \in U
    BY <1>1, <2>2 DEF OneContent
  <2>4. \A u \in ToSet(versions) : u.obj \in U
    BY <1>16, <2>2
  <2>5. \A r \in Request : ~HasSnap(req[r]) /\ req[r].op \notin {"revert", "cleanversion"}
    BY <1>6, <1>7, <1>8
  <2>6. \A j \in journals : \A o \in j.objs : o[2] \in U
    BY <1>3
  <2>7. Used(docs, versions, journals, req) \subseteq U
    BY <2>3, <2>4, <2>5, <2>6, UsedParts
  <2>8. QED
    BY <2>1, <2>7
<1>19. \A r \in Request : r \notin Used(docs, versions, journals, req)
  BY <1>18, VFSAssumption
<1>20. Backed(docs, objects, versions)
  <2>1. <<FileF, 1>> \in objects /\ <<FileF, 0>> \in objects
    BY <1>3
  <2>2. \A x \in DOMAIN docs : docs[x].kind = "file" => x = FileF /\ docs[x].obj = 1
    BY <1>1 DEF OneContent
  <2>3. QED
    BY <1>4, <1>16, <2>1, <2>2 DEF Backed, IsFile
<1>21. \A r \in Request : req[r].op # "stored"
  BY <1>6, <1>8
<1>22. \A j \in journals : j.files \cap DOMAIN docs = {}
  BY <1>3
<1>23. CInv
  BY <1>17, <1>19, <1>20, <1>21, <1>22 DEF CInv
<1>24. QED
  BY <1>15, <1>23

LEMMA StepHolds == ASSUME VInv, [Next]_vars PROVE Kept
<1>1. CASE UNCHANGED vars
  <2>1. VInv'
    BY <1>1 DEF vars, data, ghosts, VInv
  <2>2. ASSUME CInv PROVE CInv'
    BY <1>1, <2>2 DEF vars, data, ghosts, CInv
  <2>3. QED
    BY <2>1, <2>2 DEF Kept
<1>2. CASE TrashFiles
  BY <1>2, FilesErased
<1>3. ASSUME NEW r \in Request,
             \/ AsksCreateDir(r) \/ AsksPatch(r) \/ AsksTrash(r) \/ AsksRestore(r)
             \/ AsksUpload(r) \/ AsksCopy(r) \/ AsksDestroy(r) \/ AsksVersion(r)
      PROVE  Kept
  BY <1>3, CreateDirAsked, PatchAsked, TrashAsked, RestoreAsked, UploadAsked, CopyAsked,
     DestroyAsked, VersionAsked
<1>4. ASSUME NEW r \in Request,
             \/ CreateDir(r) \/ Patch(r) \/ TrashIt(r) \/ MkdirAll(r) \/ Restore(r)
      PROVE  Kept
  BY <1>4, DirCreated, Patched, Trashed, DirMade, Restored
<1>5. ASSUME NEW r \in Request,
             \/ StoreObject(r) \/ AbortUpload(r) \/ CloseUpload(r) \/ CopyFile(r)
      PROVE  Kept
  BY <1>5, ObjectStored, UploadAborted, UploadClosed, FileCopied
<1>6. ASSUME NEW r \in Request,
             \/ Destroy(r) \/ Revert(r) \/ DeleteFileVersion(r) \/ ClearOldVersions(r)
      PROVE  Kept
  BY <1>6, Destroyed, Reverted, VersionDeleted, VersionsCleared
<1>7. QED
  BY <1>1, <1>2, <1>3, <1>4, <1>5, <1>6 DEF Next

\* The documents, what requests have read of them, and the ids that are still to be
\* created, with the objects: whatever the sections of the other requests do between the
\* time a request reads documents and its own section.
THEOREM Inductive == Spec => [](VInv /\ CInv)
<1>1. Init => VInv /\ CInv
  BY InitHolds
<1>2. VInv /\ CInv /\ [Next]_vars => (VInv /\ CInv)'
  BY StepHolds DEF Kept
<1>3. QED
  BY <1>1, <1>2, PTL DEF Spec

\* The documents, the objects and the versions have the shape the code gives them; the
\* root and the trash are never destroyed, and a file has an object.
THEOREM TypeCorrect == Spec => []TypeOK
<1>1. ASSUME VInv PROVE TypeOK
  <2>1. DocsOK(docs) /\ StoreOK(objects, versions, journals)
        /\ stale \in BOOLEAN /\ cut \in BOOLEAN /\ midway \in BOOLEAN
    BY <1>1 DEF VInv
  <2>2. None \notin ObjId
    BY VFSAssumption DEF ObjId
  <2>3. ASSUME NEW x \in DOMAIN docs
        PROVE  /\ docs[x].kind \in {"dir", "file"}
               /\ docs[x].trashed \in BOOLEAN /\ docs[x].rev \in Nat \ {0}
               /\ x # Root => docs[x].parent \in Id /\ docs[x].name # <<>>
               /\ (docs[x].kind = "file") = (docs[x].obj # None)
    <3>1. CASE x = Root
      BY <2>1, <3>1 DEF DocsOK, IsRoot
    <3>2. CASE x # Root
      <4>1. GoodDoc(docs[x])
        BY <2>1, <3>2 DEF DocsOK
      <4>2. docs[x].kind \in {"dir", "file"} /\ (docs[x].kind = "file") = (docs[x].obj # None)
        BY <2>2, <4>1 DEF GoodDoc
      <4>3. docs[x].trashed \in BOOLEAN /\ docs[x].rev \in Nat \ {0}
        BY <4>1 DEF GoodDoc
      <4>4. docs[x].parent \in Id /\ docs[x].name # <<>>
        BY <4>1 DEF GoodDoc, IsName
      <4>5. QED
        BY <4>2, <4>3, <4>4
    <3>3. QED
      BY <3>1, <3>2
  <2>4. DOMAIN docs \subseteq Id /\ {Root, Trash} \subseteq DOMAIN docs
    BY <2>1 DEF DocsOK
  <2>5. objects \subseteq Id \X ({0, 1} \cup Request)
    BY <2>1 DEF StoreOK, ObjId
  <2>6. \A i \in DOMAIN versions :
           <<versions[i].file, versions[i].obj>> \in Id \X ({0, 1} \cup Request)
    <3>1. versions \in Seq(Version)
      BY <2>1 DEF StoreOK
    <3>2. \A i \in DOMAIN versions : versions[i] \in Version
      BY <3>1
    <3>3. QED
      BY <3>2 DEF Version, ObjId
  <2>7. \A r \in Request : req[r].id \in Id \cup {None}
    BY <1>1 DEF VInv, ReqOK
  <2>8. QED
    BY <2>1, <2>3, <2>4, <2>5, <2>6, <2>7 DEF TypeOK
<1>2. QED
  BY <1>1, Inductive, PTL

\* No two documents have the same parent and the same name: the checks made under the
\* lock are enough, whatever has changed since the requests have read the documents.
THEOREM NamesUnique == Spec => []UniqueNames
<1>1. ASSUME VInv PROVE UniqueNames
  BY <1>1 DEF VInv, Names, UniqueNames
<1>2. QED
  BY <1>1, Inductive, PTL

\* The content of every file and of every old version is in Swift, as long as no revert has
\* changed a file without deleting its version: an upload, a copy, a worker or a destruction
\* that loses a race, that stops at a refused write or dies between two writes only erases
\* what no file and no version uses.
THEOREM ContentKept == Spec => []ContentPresent
<1>1. ASSUME CInv, VInv PROVE ContentPresent
  <2>1. ASSUME ~midway PROVE Backed(docs, objects, versions)
    BY <1>1, <2>1 DEF CInv
  <2>2. ASSUME Backed(docs, objects, versions) PROVE ObjectsOf(versions) \subseteq objects
    <3>1. \A i \in DOMAIN versions : versions[i] \in ToSet(versions)
      BY DEF ToSet
    <3>2. QED
      BY <2>2, <3>1 DEF Backed, ObjectsOf
  <2>3. QED
    BY <2>1, <2>2 DEF Backed, ContentPresent
<1>2. QED
  BY <1>1, Inductive, PTL
=============================================================================
