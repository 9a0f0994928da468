----------------------------- MODULE Induction -----------------------------
(***************************************************************************)
(* Induction on natural numbers in a form without operator parameters, and *)
(* what it says of the functions and folds that the models are written     *)
(* with: that the equations they are defined by have a solution, and what  *)
(* each computes, step by step.                                            *)
(***************************************************************************)
EXTENDS Naturals, SequencesExt, SequenceTheorems, FiniteSetTheorems, WellFoundedInduction, TLAPS

-----------------------------------------------------------------------------
\* Every set of natural numbers that has a member has a least one.
LEMMA NatLeast ==
  ASSUME NEW T \in SUBSET Nat, T # {}
  PROVE  \E x \in T : \A y \in T : x <= y
<1> DEFINE R == OpToRel(<, Nat)
<1>1. IsWellFoundedOn(R, Nat)
  BY NatLessThanWellFounded, Zenon
<1>2. R = {ss \in Nat \X Nat : ss[1] < ss[2]}
  BY Zenon DEF OpToRel
<1> HIDE DEF R
<1>3. PICK x \in T : \A y \in T : <<y, x>> \notin R
  BY <1>1, WFMin, Zenon
<1>4. \A y \in T : ~(y < x)
  BY <1>2, <1>3
<1>5. \A y \in Nat : ~(y < x) => x <= y
  BY x \in Nat
<1> QED BY <1>4, <1>5

\* A set that holds 0 and the successor of each of its members holds all of Nat.
LEMMA NatInd ==
  ASSUME NEW S, 0 \in S, \A n \in Nat : n \in S => n + 1 \in S
  PROVE  Nat \subseteq S
<1> DEFINE T == Nat \ S
<1> SUFFICES ASSUME T # {} PROVE FALSE
  OBVIOUS
<1>1. PICK x \in T : \A y \in T : x <= y
  BY NatLeast
<1>2. x # 0 /\ x - 1 \in Nat
  BY <1>1
<1> QED BY <1>1, <1>2

\* The same up to a bound.
LEMMA UpTo ==
  ASSUME NEW N \in Nat, NEW S, 0 \in S, \A n \in 0 .. N - 1 : n \in S => n + 1 \in S
  PROVE  0 .. N \subseteq S
<1> DEFINE T == S \cup {n \in Nat : n > N}
<1>1. ASSUME NEW n \in Nat, n \in T PROVE n + 1 \in T
  <2>1. CASE n < N
    <3>1. n \in 0 .. N - 1 /\ n \in S
      BY <1>1, <2>1
    <3> QED BY <3>1
  <2>2. CASE ~(n < N)
    BY <2>2
  <2> QED BY <2>1, <2>2
<1>2. Nat \subseteq T
  <2> HIDE DEF T
  <2>1. 0 \in T
    BY DEF T
  <2> QED BY <1>1, <2>1, NatInd
<1> QED BY <1>2

\* Two functions that are built alike step by step are the same.
BuiltAlike(n, g, h) == g[0] = h[0] /\ \A k \in 1 .. n : g[k - 1] = h[k - 1] => g[k] = h[k]

AgreeUpTo(n, g, h) == \A k \in 0 .. n : g[k] = h[k]

LEMMA StepsAgree ==
  ASSUME NEW n \in Nat, NEW g, NEW h, BuiltAlike(n, g, h)
  PROVE  AgreeUpTo(n, g, h)
<1> DEFINE S == {k \in 0 .. n : g[k] = h[k]}
<1>1. 0 \in S
  BY DEF BuiltAlike
<1>2. ASSUME NEW k \in 0 .. n - 1, k \in S PROVE k + 1 \in S
  <2>1. k + 1 \in 1 .. n /\ (k + 1) - 1 = k
    OBVIOUS
  <2> QED BY <1>2, <2>1 DEF BuiltAlike
<1> HIDE DEF S
<1>3. 0 .. n \subseteq S
  BY <1>1, <1>2, UpTo
<1> QED BY <1>3 DEF S, AgreeUpTo

-----------------------------------------------------------------------------
(***************************************************************************)
(* Folds of sequences from the left.                                       *)
(***************************************************************************)
LEMMA MaxIsTop ==
  ASSUME NEW m \in Nat, NEW s \in SUBSET (1 .. m), m \in s
  PROVE  Max(s) = m
<1>1. \A y \in s : m >= y
  OBVIOUS
<1>2. \A x \in s : (\A y \in s : x >= y) => x = m
  OBVIOUS
<1>3. Max(s) \in s /\ \A y \in s : Max(s) >= y
  BY <1>1 DEF Max
<1> QED BY <1>2, <1>3

LEMMA MaxInside ==
  ASSUME NEW n \in Nat, NEW s \in SUBSET (1 .. n), s # {}
  PROVE  Max(s) \in s /\ \A y \in s : Max(s) >= y
<1> DEFINE T == {n - x : x \in s}
<1>1. T \in SUBSET Nat /\ T # {}
  <2>1. \A x \in 1 .. n : n - x \in Nat
    OBVIOUS
  <2>2. PICK x : x \in s
    OBVIOUS
  <2>3. n - x \in T
    BY <2>2
  <2>4. \A t \in T : t \in Nat
    BY <2>1
  <2> HIDE DEF T
  <2> QED BY <2>3, <2>4
<1>2. PICK t \in T : \A y \in T : t <= y
  BY <1>1, NatLeast
<1>3. PICK x \in s : t = n - x
  OBVIOUS
<1>4. \A y \in s : x >= y
  <2> TAKE y \in s
  <2>1. n - x <= n - y /\ x \in Nat /\ y \in Nat
    BY <1>2, <1>3
  <2> QED BY <2>1
<1> QED BY <1>4 DEF Max

\* f solves the equation that defines the fold of G from b over the sets of indices up to n.
FoldEquation(f, n, b, G) ==
  \A s \in SUBSET (1 .. n) : f[s] = IF s = {} THEN b ELSE G[<<f[s \ {Max(s)}], Max(s)>>]

\* The equation that defines a fold over the sets of indices up to n has a solution.
\* The operator folded is given as a function G.
LEMMA FoldExists ==
  ASSUME NEW n \in Nat, NEW V, NEW b \in V, NEW G \in [V \X (1 .. n) -> V]
  PROVE  \E f \in [SUBSET (1 .. n) -> V] : FoldEquation(f, n, b, G)
<1> DEFINE Solves(f, k) == \A s \in SUBSET (1 .. k) :
                             f[s] = IF s = {} THEN b ELSE G[<<f[s \ {Max(s)}], Max(s)>>]
           S == {k \in 0 .. n : \E f \in [SUBSET (1 .. k) -> V] : Solves(f, k)}
<1>1. 0 \in S
  <2> DEFINE f == [s \in SUBSET (1 .. 0) |-> b]
  <2>1. \A s \in SUBSET (1 .. 0) : s = {}
    OBVIOUS
  <2>2. f \in [SUBSET (1 .. 0) -> V] /\ \A s \in SUBSET (1 .. 0) : f[s] = b
    OBVIOUS
  <2> HIDE DEF f
  <2>3. Solves(f, 0)
    BY <2>1, <2>2
  <2> HIDE DEF Solves
  <2> QED BY <2>2, <2>3
<1>2. ASSUME NEW k \in 0 .. n - 1, k \in S PROVE k + 1 \in S
  <2>0. k + 1 \in 1 .. n /\ k \in Nat
    OBVIOUS
  <2>1. PICK f \in [SUBSET (1 .. k) -> V] : Solves(f, k)
    BY <1>2
  <2> DEFINE g == [s \in SUBSET (1 .. k + 1) |->
                     IF k + 1 \in s THEN G[<<f[s \ {k + 1}], k + 1>>] ELSE f[s]]
  <2>2. ASSUME NEW s \in SUBSET (1 .. k + 1)
        PROVE  /\ g[s] = IF s = {} THEN b ELSE G[<<g[s \ {Max(s)}], Max(s)>>]
               /\ g[s] \in V
    <3>1. CASE k + 1 \in s
      <4>1. Max(s) = k + 1
        BY <3>1, MaxIsTop, k + 1 \in Nat
      <4>2. s \ {k + 1} \in SUBSET (1 .. k) /\ s \ {k + 1} \in SUBSET (1 .. k + 1) /\ k + 1 \notin s \ {k + 1}
        BY <2>0
      <4>3. g[s \ {k + 1}] = f[s \ {k + 1}] /\ f[s \ {k + 1}] \in V
        BY <4>2
      <4>4. g[s] = G[<<f[s \ {k + 1}], k + 1>>]
        BY <3>1
      <4> HIDE DEF g
      <4> QED BY <2>0, <3>1, <4>1, <4>3, <4>4
    <3>2. CASE k + 1 \notin s /\ s # {}
      <4>1. s \in SUBSET (1 .. k)
        BY <2>0, <3>2
      <4>2. PICK x : x = Max(s)
        OBVIOUS
      <4>3. g[s \ {x}] = f[s \ {x}]
        BY <3>2
      <4>4. f[s] = G[<<f[s \ {x}], x>>] /\ f[s] \in V
        BY <2>1, <3>2, <4>1, <4>2
      <4> QED BY <3>2, <4>2, <4>3, <4>4
    <3>3. CASE s = {}
      <4>1. {} \in SUBSET (1 .. k)
        OBVIOUS
      <4>2. f[{}] = b
        BY <2>1, <4>1
      <4> QED BY <3>3, <4>2
    <3> QED BY <3>1, <3>2, <3>3
  <2>3. g \in [SUBSET (1 .. k + 1) -> V]
    <3>1. \A s \in SUBSET (1 .. k + 1) : g[s] \in V
      BY <2>2
    <3>2. g = [s \in SUBSET (1 .. k + 1) |-> g[s]]
      OBVIOUS
    <3> HIDE DEF g
    <3> QED BY <3>1, <3>2
  <2> HIDE DEF g
  <2>4. Solves(g, k + 1)
    BY <2>2
  <2> HIDE DEF Solves
  <2> QED BY <2>0, <2>3, <2>4
<1> HIDE DEF S
<1>3. n \in S
  <2>1. 0 .. n \subseteq S /\ n \in 0 .. n
    BY <1>1, <1>2, UpTo
  <2> QED BY <2>1
<1> QED BY <1>3 DEF S, FoldEquation

-----------------------------------------------------------------------------
(***************************************************************************)
(* Functions that are built from 1 upwards.                                *)
(***************************************************************************)
\* f starts with b, and G says how it goes on.
Iterates(f, n, b, G) == \A k \in 1 .. n : f[k] = IF k = 1 THEN b ELSE G[<<f[k - 1], k>>]

LEMMA IterationExists ==
  ASSUME NEW n \in Nat, NEW V, NEW b \in V, NEW G \in [V \X (1 .. n) -> V]
  PROVE  \E f \in [1 .. n -> V] : Iterates(f, n, b, G)
<1> DEFINE Begun(k) == \E f \in [1 .. k -> V] : Iterates(f, k, b, G)
           S == {k \in 0 .. n : Begun(k)}
<1>1. 0 \in S
  <2> DEFINE f == [k \in 1 .. 0 |-> b]
  <2>1. f \in [1 .. 0 -> V] /\ \A k \in 1 .. 0 : FALSE
    OBVIOUS
  <2> HIDE DEF f
  <2>2. Begun(0)
    BY <2>1 DEF Iterates
  <2> HIDE DEF Begun
  <2> QED BY <2>2
<1>2. ASSUME NEW k \in 0 .. n - 1, k \in S PROVE k + 1 \in S
  <2>1. PICK f \in [1 .. k -> V] : Iterates(f, k, b, G)
    BY <1>2
  <2>2. k \in Nat /\ k + 1 \in 0 .. n /\ k + 1 \in 1 .. n /\ (k # 0 => k \in 1 .. k) /\ (k + 1) - 1 = k
    OBVIOUS
  <2> DEFINE last == IF k = 0 THEN b ELSE G[<<f[k], k + 1>>]
             h == [i \in 1 .. k + 1 |-> IF i = k + 1 THEN last ELSE f[i]]
  <2>3. last \in V
    BY <2>1, <2>2
  <2> HIDE DEF last
  <2>4. \A i \in 1 .. k + 1 : i = k + 1 \/ (i \in 1 .. k /\ (i # 1 => i - 1 \in 1 .. k /\ i - 1 # k + 1))
    BY <2>2
  <2>5. h \in [1 .. k + 1 -> V]
    BY <2>1, <2>3, <2>4
  <2>6. ASSUME NEW i \in 1 .. k + 1 PROVE h[i] = IF i = 1 THEN b ELSE G[<<h[i - 1], i>>]
    <3>1. CASE i = k + 1
      <4>1. h[i] = last
        BY <3>1
      <4>2. CASE k = 0
        BY <3>1, <4>1, <4>2 DEF last
      <4>3. CASE k # 0
        <5>1. k \in 1 .. k + 1 /\ k # k + 1 /\ i # 1 /\ i - 1 = k
          BY <2>2, <3>1, <4>3
        <5>2. h[k] = f[k]
          BY <5>1
        <5> HIDE DEF h
        <5> QED BY <3>1, <4>1, <4>3, <5>1, <5>2 DEF last
      <4> QED BY <4>2, <4>3
    <3>2. CASE i # k + 1
      <4>1. i \in 1 .. k /\ h[i] = f[i] /\ (i # 1 => h[i - 1] = f[i - 1])
        BY <2>4, <3>2
      <4> HIDE DEF h
      <4> QED BY <2>1, <4>1 DEF Iterates
    <3> QED BY <3>1, <3>2
  <2> HIDE DEF h
  <2>7. Begun(k + 1)
    BY <2>5, <2>6 DEF Iterates
  <2> HIDE DEF Begun
  <2> QED BY <2>2, <2>7
<1> HIDE DEF S
<1>3. n \in S
  <2>1. 0 .. n \subseteq S /\ n \in 0 .. n
    BY <1>1, <1>2, UpTo
  <2> QED BY <2>1
<1> QED BY <1>3 DEF S

\* Flattening a sequence of sequences goes through what its first k elements flatten to.
LEMMA FlattenSteps ==
  ASSUME NEW D, NEW s \in Seq(Seq(D)), Len(s) # 0
  PROVE  \E g \in [1 .. Len(s) -> Seq(D)] :
           /\ FlattenSeq(s) = g[Len(s)]
           /\ \A k \in 1 .. Len(s) : g[k] = IF k = 1 THEN s[k] ELSE g[k - 1] \o s[k]
<1>0. PICK n \in Nat : n = Len(s)
  OBVIOUS
<1> DEFINE V == Seq(D)
           G == [p \in V \X (1 .. n) |-> p[1] \o s[p[2]]]
           Eq(g) == g = [k \in 1 .. n |-> IF k = 1 THEN s[k] ELSE g[k - 1] \o s[k]]
           flat == CHOOSE g : Eq(g)
<1>1. FlattenSeq(s) = flat[n]
  <2>1. s # <<>> /\ n # 0
    BY <1>0
  <2> QED BY <1>0, <2>1 DEF FlattenSeq
<1>2. \A k \in 1 .. n : s[k] \in V
  BY <1>0
<1>3. 1 \in 1 .. n /\ n \in 1 .. n
  BY <1>0
<1>4. \A v \in V, k \in 1 .. n : v \o s[k] \in V /\ G[<<v, k>>] = v \o s[k]
  <2> TAKE v \in V, k \in 1 .. n
  <2>1. PICK sk \in Seq(D) : sk = s[k]
    BY <1>2
  <2>2. v \o sk \in V
    BY <2>1
  <2>3. <<v, k>> \in V \X (1 .. n) /\ <<v, k>>[1] = v /\ <<v, k>>[2] = k
    OBVIOUS
  <2>4. G[<<v, k>>] = v \o s[k]
    BY <2>3
  <2> QED BY <2>1, <2>2, <2>4
<1>5. G \in [V \X (1 .. n) -> V]
  BY <1>2
<1>6. PICK GG, VV, b : GG = G /\ VV = V /\ b = s[1]
  OBVIOUS
<1> HIDE DEF G, V
<1>7. n \in Nat /\ b \in VV /\ GG \in [VV \X (1 .. n) -> VV]
  BY <1>2, <1>3, <1>5, <1>6
<1>8. \E f \in [1 .. n -> VV] : Iterates(f, n, b, GG)
  BY ONLY <1>7, IterationExists, Zenon
<1>9. PICK f \in [1 .. n -> V] : \A k \in 1 .. n : f[k] = IF k = 1 THEN b ELSE G[<<f[k - 1], k>>]
  BY <1>6, <1>8 DEF Iterates
<1>10. \A k \in 1 .. n : k # 1 => k - 1 \in 1 .. n
  OBVIOUS
<1>11. \A k \in 1 .. n : f[k] = IF k = 1 THEN s[k] ELSE f[k - 1] \o s[k]
  BY <1>4, <1>6, <1>9, <1>10
<1>12. f = [k \in 1 .. n |-> IF k = 1 THEN s[k] ELSE f[k - 1] \o s[k]]
  BY <1>11
<1>13. Eq(flat)
  BY <1>12
<1> HIDE DEF flat
<1>14. \A k \in 1 .. n : flat[k] = IF k = 1 THEN s[k] ELSE flat[k - 1] \o s[k]
  BY <1>13
<1>15. flat[n] = f[n] /\ \A k \in 1 .. n : flat[k] = f[k]
  <2> DEFINE T == {k \in 0 .. n : k = 0 \/ flat[k] = f[k]}
  <2>1. 0 \in T
    OBVIOUS
  <2>2. ASSUME NEW k \in 0 .. n - 1, k \in T PROVE k + 1 \in T
    <3>1. k + 1 \in 0 .. n /\ k + 1 \in 1 .. n /\ (k + 1) - 1 = k /\ (k + 1 = 1 <=> k = 0)
      OBVIOUS
    <3>2. flat[k + 1] = f[k + 1]
      <4>1. PICK j \in 1 .. n : j = k + 1
        BY <3>1
      <4>2. j - 1 = k /\ (j = 1 <=> k = 0)
        BY <3>1, <4>1
      <4>3. j = 1 \/ flat[j - 1] = f[j - 1]
        BY <2>2, <4>2
      <4> HIDE DEF T
      <4>4. flat[j] = IF j = 1 THEN s[j] ELSE flat[j - 1] \o s[j]
        BY <1>14
      <4>5. f[j] = IF j = 1 THEN s[j] ELSE f[j - 1] \o s[j]
        BY <1>11
      <4> QED BY <4>1, <4>3, <4>4, <4>5
    <3> QED BY <3>1, <3>2
  <2>3. PICK TT : TT = T
    OBVIOUS
  <2> HIDE DEF T
  <2>4. n \in Nat /\ 0 \in TT /\ \A k \in 0 .. n - 1 : k \in TT => k + 1 \in TT
    BY <2>1, <2>2, <2>3
  <2>5. 0 .. n \subseteq TT
    BY ONLY <2>4, UpTo
  <2>6. \A k \in 1 .. n : k \in 0 .. n /\ k # 0
    OBVIOUS
  <2> QED BY <1>3, <2>3, <2>5, <2>6 DEF T
<1> QED BY <1>0, <1>1, <1>9, <1>11, <1>15 DEF V

\* A sequence of sequences over D is flattened to one sequence over D.
LEMMA FlattenType ==
  ASSUME NEW D, NEW s \in Seq(Seq(D))
  PROVE  FlattenSeq(s) \in Seq(D)
<1>1. CASE Len(s) = 0
  <2>1. s = <<>>
    BY <1>1, EmptySeq
  <2> QED BY <2>1 DEF FlattenSeq
<1>2. CASE Len(s) # 0
  <2>1. Len(s) \in 1 .. Len(s)
    BY <1>2
  <2>2. PICK g \in [1 .. Len(s) -> Seq(D)] : FlattenSeq(s) = g[Len(s)]
    BY <1>2, FlattenSteps
  <2> QED BY <2>1, <2>2
<1> QED BY <1>1, <1>2

\* A sequence of sequences of one element each is flattened to their elements.
LEMMA FlattenSingles ==
  ASSUME NEW D, NEW s \in Seq(Seq(D)), NEW t \in Seq(D), Len(s) = Len(t),
         \A k \in 1 .. Len(t) : s[k] = <<t[k]>>
  PROVE  FlattenSeq(s) = t
<1>0. PICK n \in Nat : n = Len(s) /\ n = Len(t)
  OBVIOUS
<1>1. CASE n = 0
  <2>1. s = <<>> /\ t = <<>>
    BY <1>0, <1>1, EmptySeq
  <2> QED BY <2>1 DEF FlattenSeq
<1>2. CASE n # 0
  <2>1. PICK g \in [1 .. n -> Seq(D)] :
          /\ FlattenSeq(s) = g[n]
          /\ \A k \in 1 .. n : g[k] = IF k = 1 THEN s[k] ELSE g[k - 1] \o s[k]
    BY <1>0, <1>2, FlattenSteps
  <2> DEFINE T == {k \in 0 .. n : k = 0 \/ (Len(g[k]) = k /\ \A i \in 1 .. k : g[k][i] = t[i])}
  <2>2. 0 \in T
    OBVIOUS
  <2>3. ASSUME NEW k \in 0 .. n - 1, k \in T PROVE k + 1 \in T
    <3>1. k + 1 \in 0 .. n /\ k + 1 \in 1 .. n /\ (k + 1) - 1 = k /\ (k + 1 = 1 <=> k = 0) /\ (k # 0 => k \in 1 .. n)
      OBVIOUS
    <3>2. PICK x \in D : x = t[k + 1] /\ s[k + 1] = <<x>>
      BY <1>0, <3>1
    <3>3. CASE k = 0
      <4>1. g[k + 1] = <<x>> /\ k + 1 = 1
        BY <2>1, <3>1, <3>2, <3>3
      <4>2. Len(g[k + 1]) = k + 1 /\ \A i \in 1 .. k + 1 : g[k + 1][i] = t[i]
        BY <3>2, <4>1
      <4> QED BY <3>1, <4>2
    <3>4. CASE k # 0
      <4>1. PICK a \in Seq(D) : a = g[k] /\ Len(a) = k /\ \A i \in 1 .. k : a[i] = t[i]
        BY <2>1, <2>3, <3>1, <3>4
      <4>2. g[k + 1] = a \o <<x>>
        BY <2>1, <3>1, <3>2, <3>4, <4>1
      <4>3. PICK c : c = a \o <<x>>
        OBVIOUS
      <4>4. Len(c) = k + 1 /\ c[k + 1] = x /\ \A i \in 1 .. k : c[i] = a[i]
        <5>1. <<x>> \in Seq(D) /\ Len(<<x>>) = 1 /\ <<x>>[1] = x
          OBVIOUS
        <5>2. PICK y \in Seq(D) : y = <<x>>
          BY <5>1
        <5>3. Len(c) = k + 1 /\ \A i \in 1 .. k + 1 : c[i] = IF i <= k THEN a[i] ELSE y[i - k]
          BY <4>1, <4>3, <5>1, <5>2, ConcatProperties
        <5>4. k \in Nat /\ k + 1 \in 1 .. k + 1 /\ ~(k + 1 <= k) /\ (k + 1) - k = 1 /\ \A i \in 1 .. k : i \in 1 .. k + 1 /\ i <= k
          OBVIOUS
        <5> QED BY <5>1, <5>2, <5>3, <5>4
      <4>5. \A i \in 1 .. k + 1 : i = k + 1 \/ i \in 1 .. k
        OBVIOUS
      <4>6. \A i \in 1 .. k + 1 : c[i] = t[i]
        BY <3>2, <4>1, <4>4, <4>5
      <4>7. Len(g[k + 1]) = k + 1 /\ \A i \in 1 .. k + 1 : g[k + 1][i] = t[i]
        BY <4>2, <4>3, <4>4, <4>6
      <4> QED BY <3>1, <4>7
    <3> QED BY <3>3, <3>4
  <2>4. PICK TT : TT = T
    OBVIOUS
  <2> HIDE DEF T
  <2>5. n \in Nat /\ 0 \in TT /\ \A k \in 0 .. n - 1 : k \in TT => k + 1 \in TT
    BY <2>2, <2>3, <2>4
  <2>6. 0 .. n \subseteq TT
    BY ONLY <2>5, UpTo
  <2>7. n \in T
    BY <2>4, <2>6
  <2>8. g[n] \in Seq(D) /\ Len(g[n]) = n /\ \A i \in 1 .. n : g[n][i] = t[i]
    BY <1>2, <2>1, <2>7 DEF T
  <2> QED BY <1>0, <2>1, <2>8, SeqEqual
<1> QED BY <1>1, <1>2

-----------------------------------------------------------------------------
(***************************************************************************)
(* The elements of a sequence that are in a set.                           *)
(***************************************************************************)
Picked(P, s) == FoldLeft(LAMBDA kept, c : IF c \in P THEN Append(kept, c) ELSE kept, <<>>, s)

\* h[k] is what is picked from the first k elements of s.
PickedBy(h, P, s) ==
  /\ h[0] = <<>> /\ h[Len(s)] = Picked(P, s)
  /\ \A k \in 1 .. Len(s) : h[k] = IF s[k] \in P THEN Append(h[k - 1], s[k]) ELSE h[k - 1]

\* What is picked from a sequence can be built up from its front.
LEMMA PickedSteps ==
  ASSUME NEW D, NEW P, NEW s \in Seq(D)
  PROVE  \E h \in [0 .. Len(s) -> Seq(D)] : PickedBy(h, P, s)
<1>0. PICK n \in Nat : n = Len(s) /\ DOMAIN s = 1 .. n
  OBVIOUS
<1> DEFINE V == Seq(D)
           Step(v, c) == IF c \in P THEN Append(v, c) ELSE v
           G == [p \in V \X (1 .. n) |-> Step(p[1], s[p[2]])]
           Eq(f) == f = [S \in SUBSET (1 .. n) |->
                           IF S = {} THEN <<>> ELSE Step(f[S \ {Max(S)}], s[Max(S)])]
           f == CHOOSE f : Eq(f)
<1>1. Picked(P, s) = f[1 .. n]
  BY <1>0 DEF Picked, FoldLeft, MapThenFoldSet
<1>2. \E g : Eq(g)
  <2>1. <<>> \in V /\ \A v \in V, k \in 1 .. n : G[<<v, k>>] = Step(v, s[k]) /\ Step(v, s[k]) \in V
    BY <1>0
  <2>2. G \in [V \X (1 .. n) -> V]
    BY <1>0
  <2>a. PICK GG, VV : GG = G /\ VV = V
    OBVIOUS
  <2> HIDE DEF G, V, Step
  <2>b. n \in Nat /\ <<>> \in VV /\ GG \in [VV \X (1 .. n) -> VV]
    BY <1>0, <2>a, <2>1, <2>2
  <2>c. \E g \in [SUBSET (1 .. n) -> VV] : FoldEquation(g, n, <<>>, GG)
    BY ONLY <2>b, FoldExists, Zenon
  <2>3. PICK g \in [SUBSET (1 .. n) -> V] :
          \A S \in SUBSET (1 .. n) : g[S] = IF S = {} THEN <<>> ELSE G[<<g[S \ {Max(S)}], Max(S)>>]
    BY <2>a, <2>c DEF FoldEquation
  <2>4. \A S \in SUBSET (1 .. n) : S # {} => Max(S) \in 1 .. n
    BY MaxInside
  <2>5. \A S \in SUBSET (1 .. n) : g[S] = IF S = {} THEN <<>> ELSE Step(g[S \ {Max(S)}], s[Max(S)])
    BY <2>1, <2>3, <2>4
  <2>6. g = [S \in SUBSET (1 .. n) |-> IF S = {} THEN <<>> ELSE Step(g[S \ {Max(S)}], s[Max(S)])]
    BY <2>5
  <2> QED BY <2>6
<1>3. Eq(f)
  BY <1>2
<1> HIDE DEF f
<1>4. f[1 .. 0] = <<>>
  <2>1. 1 .. 0 = {} /\ {} \in SUBSET (1 .. n)
    OBVIOUS
  <2> QED BY <1>3, <2>1
<1>5. ASSUME NEW k \in 1 .. n PROVE f[1 .. k] = Step(f[1 .. k - 1], s[k])
  <2>1. 1 .. k \in SUBSET (1 .. n) /\ 1 .. k # {} /\ (1 .. k) \ {k} = 1 .. k - 1
    OBVIOUS
  <2>2. k \in Nat /\ k \in 1 .. k
    OBVIOUS
  <2>3. Max(1 .. k) = k
    BY <2>2, MaxIsTop
  <2> HIDE DEF Step
  <2> QED BY <1>3, <2>1, <2>3
<1> DEFINE h == [k \in 0 .. n |-> f[1 .. k]]
<1>6. h[0] = <<>> /\ \A k \in 1 .. n : h[k] = Step(h[k - 1], s[k])
  <2>1. 0 \in 0 .. n /\ \A k \in 1 .. n : k \in 0 .. n /\ k - 1 \in 0 .. n
    BY <1>0
  <2> HIDE DEF Step
  <2> QED BY <1>4, <1>5, <2>1
<1>7. h[n] = Picked(P, s)
  BY <1>0, <1>1
<1> HIDE DEF h
<1>8. h \in [0 .. n -> V]
  <2> DEFINE T == {k \in 0 .. n : h[k] \in V}
  <2>1. 0 \in T
    <3>1. <<>> \in V /\ 0 \in 0 .. n
      BY <1>0
    <3> QED BY <1>6, <3>1
  <2>2. ASSUME NEW k \in 0 .. n - 1, k \in T PROVE k + 1 \in T
    <3>1. k + 1 \in 1 .. n /\ k + 1 \in 0 .. n /\ (k + 1) - 1 = k
      BY <1>0
    <3>2. s[k + 1] \in D /\ h[k] \in V
      BY <1>0, <2>2, <3>1
    <3>3. h[k + 1] = Step(h[k], s[k + 1])
      BY <1>6, <3>1
    <3>4. h[k + 1] \in V
      BY <3>2, <3>3
    <3> QED BY <3>1, <3>4
  <2>3. PICK TT : TT = T
    OBVIOUS
  <2> HIDE DEF T
  <2>4. n \in Nat /\ 0 \in TT /\ \A k \in 0 .. n - 1 : k \in TT => k + 1 \in TT
    BY <1>0, <2>1, <2>2, <2>3
  <2>5. 0 .. n \subseteq TT
    BY ONLY <2>4, UpTo
  <2>6. \A k \in 0 .. n : h[k] \in V
    BY <2>3, <2>5 DEF T
  <2>7. h = [k \in 0 .. n |-> h[k]]
    BY DEF h
  <2> QED BY <2>6, <2>7
<1> QED BY <1>0, <1>6, <1>7, <1>8 DEF PickedBy

LEMMA PickedEmpty == ASSUME NEW P PROVE Picked(P, <<>>) = <<>>
<1>1. <<>> \in Seq({}) /\ Len(<<>>) = 0
  OBVIOUS
<1>2. PICK h : PickedBy(h, P, <<>>)
  BY <1>1, PickedSteps
<1> QED BY <1>1, <1>2 DEF PickedBy

LEMMA PickedType ==
  ASSUME NEW D, NEW P, NEW s \in Seq(D)
  PROVE  Picked(P, s) \in Seq(D)
<1>1. PICK h \in [0 .. Len(s) -> Seq(D)] : PickedBy(h, P, s)
  BY PickedSteps
<1>2. Len(s) \in 0 .. Len(s)
  OBVIOUS
<1> QED BY <1>1, <1>2 DEF PickedBy

\* An element at the end is picked or not.
LEMMA PickedAppend ==
  ASSUME NEW D, NEW P, NEW s \in Seq(D), NEW c \in D
  PROVE  Picked(P, Append(s, c)) = IF c \in P THEN Append(Picked(P, s), c) ELSE Picked(P, s)
<1>0. PICK n \in Nat : n = Len(s)
  OBVIOUS
<1>1. PICK t \in Seq(D) : t = Append(s, c)
  <2>1. Append(s, c) \in Seq(D)
    OBVIOUS
  <2> QED BY <2>1, Zenon
<1>2. Len(t) = n + 1 /\ t[n + 1] = c /\ (\A k \in 1 .. n : t[k] = s[k] /\ k \in 1 .. n + 1) /\ n + 1 \in 1 .. n + 1 /\ (n + 1) - 1 = n
  BY <1>0, <1>1
<1>3. PICK g : PickedBy(g, P, s)
  BY PickedSteps
<1>4. PICK h : PickedBy(h, P, t)
  BY PickedSteps
<1>5. BuiltAlike(n, g, h)
  <2>1. g[0] = h[0]
    BY <1>3, <1>4 DEF PickedBy
  <2>2. ASSUME NEW k \in 1 .. n, g[k - 1] = h[k - 1] PROVE g[k] = h[k]
    <3>1. g[k] = IF s[k] \in P THEN Append(g[k - 1], s[k]) ELSE g[k - 1]
      BY <1>0, <1>3 DEF PickedBy
    <3>2. h[k] = IF t[k] \in P THEN Append(h[k - 1], t[k]) ELSE h[k - 1]
      BY <1>2, <1>4 DEF PickedBy
    <3>3. t[k] = s[k]
      BY <1>2
    <3> QED BY <2>2, <3>1, <3>2, <3>3
  <2> QED BY <2>1, <2>2, Zenon DEF BuiltAlike
<1>6. g[n] = h[n]
  <2>1. AgreeUpTo(n, g, h) /\ n \in 0 .. n
    BY <1>5, StepsAgree
  <2> QED BY <2>1 DEF AgreeUpTo
<1>7. h[n + 1] = IF c \in P THEN Append(h[n], c) ELSE h[n]
  BY <1>2, <1>4 DEF PickedBy
<1>8. g[n] = Picked(P, s) /\ h[n + 1] = Picked(P, t)
  BY <1>0, <1>2, <1>3, <1>4 DEF PickedBy
<1> QED BY <1>1, <1>6, <1>7, <1>8

\* An element at the front is picked or not.
LEMMA PickedTail ==
  ASSUME NEW D, NEW P, NEW s \in Seq(D), s # <<>>
  PROVE  Picked(P, s) = IF Head(s) \in P THEN <<Head(s)>> \o Picked(P, Tail(s)) ELSE Picked(P, Tail(s))
<1>0. PICK n \in Nat : n + 1 = Len(s)
  <2>1. Len(s) - 1 \in Nat /\ (Len(s) - 1) + 1 = Len(s)
    OBVIOUS
  <2> QED BY <2>1
<1>1. PICK t \in Seq(D), c \in D : t = Tail(s) /\ c = Head(s)
  <2>1. Tail(s) \in Seq(D) /\ Head(s) \in D
    OBVIOUS
  <2> QED BY <2>1, Zenon
<1>2. Len(t) = n /\ s[1] = c /\ (\A k \in 1 .. n : t[k] = s[k + 1] /\ k + 1 \in 1 .. n + 1 /\ (k + 1) - 1 = k) /\ 1 \in 1 .. n + 1
  BY <1>0, <1>1
<1>3. PICK g \in [0 .. n -> Seq(D)] : PickedBy(g, P, t)
  BY <1>2, PickedSteps
<1>4. PICK h : PickedBy(h, P, s)
  BY PickedSteps
<1>5. PICK first \in Seq(D) : first = IF c \in P THEN <<c>> ELSE <<>>
  <2>1. <<c>> \in Seq(D) /\ <<>> \in Seq(D)
    OBVIOUS
  <2> QED BY <2>1
<1> DEFINE a == [k \in 0 .. n |-> first \o g[k]]
           b == [k \in 0 .. n |-> h[k + 1]]
<1>6. BuiltAlike(n, a, b)
  <2>1. a[0] = b[0]
    <3>1. 0 \in 0 .. n /\ 0 + 1 = 1 /\ 1 - 1 = 0
      OBVIOUS
    <3>2. g[0] = <<>> /\ h[0] = <<>>
      BY <1>3, <1>4 DEF PickedBy
    <3>3. h[1] = IF c \in P THEN Append(<<>>, c) ELSE <<>>
      <4>1. h[1] = IF s[1] \in P THEN Append(h[1 - 1], s[1]) ELSE h[1 - 1]
        BY <1>0, <1>2, <1>4 DEF PickedBy
      <4> QED BY <1>2, <3>1, <3>2, <4>1
    <3>4. Append(<<>>, c) = <<c>>
      OBVIOUS
    <3>5. first \o <<>> = first
      OBVIOUS
    <3>6. a[0] = first \o g[0] /\ b[0] = h[1]
      BY <3>1
    <3> HIDE DEF a, b
    <3> QED BY <1>5, <3>2, <3>3, <3>4, <3>5, <3>6
  <2>2. ASSUME NEW k \in 1 .. n, a[k - 1] = b[k - 1] PROVE a[k] = b[k]
    <3>1. k \in 0 .. n /\ k - 1 \in 0 .. n /\ (k - 1) + 1 = k /\ k + 1 \in 1 .. n + 1 /\ (k + 1) - 1 = k
      OBVIOUS
    <3>2. a[k] = first \o g[k] /\ a[k - 1] = first \o g[k - 1] /\ b[k] = h[k + 1] /\ b[k - 1] = h[k]
      BY <3>1
    <3> HIDE DEF a, b
    <3>3. PICK x \in D, u \in Seq(D) : x = t[k] /\ u = g[k - 1]
      BY <1>2, <1>3, <3>1
    <3>4. g[k] = IF x \in P THEN Append(u, x) ELSE u
      BY <1>2, <1>3, <3>3 DEF PickedBy
    <3>5. h[k + 1] = IF x \in P THEN Append(h[k], x) ELSE h[k]
      <4>1. h[k + 1] = IF s[k + 1] \in P THEN Append(h[(k + 1) - 1], s[k + 1]) ELSE h[(k + 1) - 1]
        BY <1>0, <1>4, <3>1 DEF PickedBy
      <4> QED BY <1>2, <3>1, <3>3, <4>1
    <3>6. h[k] = first \o u
      BY <2>2, <3>2, <3>3
    <3>7. first \o Append(u, x) = Append(first \o u, x)
      OBVIOUS
    <3> QED BY <3>2, <3>4, <3>5, <3>6, <3>7
  <2> QED BY <2>1, <2>2, Zenon DEF BuiltAlike
<1>7. a[n] = b[n]
  <2>1. AgreeUpTo(n, a, b) /\ n \in 0 .. n
    BY <1>6, StepsAgree
  <2> QED BY <2>1 DEF AgreeUpTo
<1>8. h[n + 1] = first \o g[n]
  BY <1>7, n \in 0 .. n
<1>9. g[n] = Picked(P, t) /\ h[n + 1] = Picked(P, s)
  BY <1>0, <1>2, <1>3, <1>4 DEF PickedBy
<1>10. PICK u \in Seq(D) : u = g[n]
  BY <1>3, n \in 0 .. n
<1>11. <<>> \o u = u
  OBVIOUS
<1> QED BY <1>1, <1>5, <1>8, <1>9, <1>10, <1>11

-----------------------------------------------------------------------------
(***************************************************************************)
(* Parts of sequences.                                                     *)
(***************************************************************************)
\* A sequence without its first k elements.
LEMMA RestOf ==
  ASSUME NEW D, NEW s \in Seq(D), NEW k \in 0 .. Len(s), NEW r, r = SubSeq(s, k + 1, Len(s))
  PROVE  /\ r \in Seq(D)
         /\ Len(r) = Len(s) - k
         /\ r # <<>> <=> k < Len(s)
         /\ r # <<>> => Head(r) = s[k + 1] /\ Tail(r) = SubSeq(s, (k + 1) + 1, Len(s)) /\ Tail(r) \in Seq(D)
<1>0. PICK n \in Nat : n = Len(s)
  OBVIOUS
<1>1. k \in Nat /\ k <= n
  BY <1>0
<1>2. r \in Seq(D) /\ Len(r) = n - k /\ \A i \in 1 .. n - k : r[i] = s[i + k]
  BY <1>0, <1>1
<1>3. r # <<>> <=> k < n
  <2>1. r = <<>> <=> Len(r) = 0
    BY <1>2, EmptySeq
  <2>2. Len(r) = 0 <=> ~(k < n)
    BY <1>1, <1>2
  <2> QED BY <2>1, <2>2
<1>4. ASSUME r # <<>>
      PROVE  Head(r) = s[k + 1] /\ Tail(r) = SubSeq(s, (k + 1) + 1, n) /\ Tail(r) \in Seq(D)
  <2>1. k + 1 \in 1 .. n /\ n \in k + 1 .. n
    BY <1>1, <1>3, <1>4
  <2>2. Head(r) = s[k + 1] /\ Tail(r) = SubSeq(s, (k + 1) + 1, n)
    BY <1>0, <2>1, HeadTailOfSubSeq
  <2>3. Tail(r) \in Seq(D)
    BY <1>2, <1>4
  <2> QED BY <2>2, <2>3
<1> QED BY <1>0, <1>2, <1>3, <1>4

\* All of a sequence and nothing of it.
LEMMA WholeOf ==
  ASSUME NEW D, NEW s \in Seq(D)
  PROVE  SubSeq(s, 1, 0) = <<>> /\ SubSeq(s, 0 + 1, Len(s)) = s /\ SubSeq(s, 1, Len(s)) = s
<1>1. SubSeq(s, 1, 0) = <<>>
  BY SubSeqEmpty
<1>2. SubSeq(s, 1, Len(s)) = s
  BY SubSeqFull
<1>3. 0 + 1 = 1
  OBVIOUS
<1> QED BY <1>1, <1>2, <1>3

\* a is the front of s, of length j.
IsFrontOf(D, s, j, a) == a \in Seq(D) /\ Len(a) = j /\ \A i \in 1 .. j : a[i] = s[i]

LEMMA FrontOf ==
  ASSUME NEW D, NEW s \in Seq(D), NEW j \in 0 .. Len(s), NEW a, a = SubSeq(s, 1, j)
  PROVE  IsFrontOf(D, s, j, a)
<1>1. j \in Nat /\ j =< Len(s)
  OBVIOUS
<1> QED BY <1>1 DEF IsFrontOf

\* Two sequences with the same front of the same length are the same.
LEMMA FrontsEqual ==
  ASSUME NEW D, NEW s \in Seq(D), NEW t \in Seq(D), NEW j \in Nat, NEW a, NEW b,
         IsFrontOf(D, s, j, a), IsFrontOf(D, t, j, b), \A i \in 1 .. j : s[i] = t[i]
  PROVE  a = b
<1>1. a \in Seq(D) /\ b \in Seq(D) /\ Len(a) = j /\ Len(b) = j
  BY DEF IsFrontOf
<1>2. \A i \in 1 .. Len(a) : a[i] = b[i]
  BY <1>1 DEF IsFrontOf
<1> QED BY <1>1, <1>2, SeqEqual

\* The front grows by the element behind it.
LEMMA FrontGrows ==
  ASSUME NEW D, NEW s \in Seq(D), NEW j \in 0 .. Len(s) - 1
  PROVE  SubSeq(s, 1, j + 1) = Append(SubSeq(s, 1, j), s[j + 1])
<1>0. j \in 0 .. Len(s) /\ j + 1 \in 0 .. Len(s) /\ j \in Nat /\ s[j + 1] \in D /\ j + 1 \in 1 .. j + 1
  OBVIOUS
<1>1. PICK a, b : a = SubSeq(s, 1, j) /\ b = SubSeq(s, 1, j + 1)
  OBVIOUS
<1>2. IsFrontOf(D, s, j, a) /\ IsFrontOf(D, s, j + 1, b)
  BY <1>0, <1>1, FrontOf
<1>3. PICK x \in D : x = s[j + 1]
  BY <1>0
<1>4. a \in Seq(D) /\ Len(a) = j /\ \A i \in 1 .. j : a[i] = s[i]
  BY <1>2 DEF IsFrontOf
<1>5. PICK e \in Seq(D) : e = Append(a, x)
  <2>1. Append(a, x) \in Seq(D)
    BY <1>4
  <2> QED BY <2>1, Zenon
<1>6. Len(e) = j + 1 /\ e[j + 1] = x /\ \A i \in 1 .. j : e[i] = a[i]
  BY <1>0, <1>4, <1>5
<1>7. b \in Seq(D) /\ Len(b) = j + 1 /\ \A i \in 1 .. j + 1 : b[i] = s[i]
  BY <1>2 DEF IsFrontOf
<1>8. \A i \in 1 .. Len(b) : b[i] = e[i]
  <2> SUFFICES ASSUME NEW i \in 1 .. j + 1 PROVE b[i] = e[i]
    BY <1>7
  <2>1. i = j + 1 \/ i \in 1 .. j
    BY <1>0
  <2> QED BY <1>3, <1>4, <1>6, <1>7, <2>1
<1>9. b = e
  BY <1>5, <1>6, <1>7, <1>8, SeqEqual
<1> QED BY <1>1, <1>3, <1>5, <1>9

\* The front of a front.
LEMMA FrontOfFront ==
  ASSUME NEW D, NEW s \in Seq(D), NEW l \in 0 .. Len(s), NEW j \in 0 .. l
  PROVE  SubSeq(SubSeq(s, 1, l), 1, j) = SubSeq(s, 1, j)
<1>0. j \in 0 .. Len(s) /\ j \in Nat /\ l \in Nat /\ \A i \in 1 .. j : i \in 1 .. l
  OBVIOUS
<1>1. PICK a : a = SubSeq(s, 1, l)
  OBVIOUS
<1>2. a \in Seq(D) /\ Len(a) = l /\ \A i \in 1 .. l : a[i] = s[i]
  BY <1>1, FrontOf DEF IsFrontOf
<1>3. PICK b, c : b = SubSeq(a, 1, j) /\ c = SubSeq(s, 1, j)
  OBVIOUS
<1>4. IsFrontOf(D, a, j, b) /\ IsFrontOf(D, s, j, c)
  BY <1>0, <1>2, <1>3, FrontOf
<1>5. \A i \in 1 .. j : a[i] = s[i]
  BY <1>0, <1>2
<1>6. b = c
  BY <1>0, <1>2, <1>4, <1>5, FrontsEqual
<1> QED BY <1>1, <1>3, <1>6

\* The parts of a sequence that grows at its end.
LEMMA FrontOfAppend ==
  ASSUME NEW D, NEW s \in Seq(D), NEW x \in D, NEW j \in 0 .. Len(s)
  PROVE  SubSeq(Append(s, x), 1, j) = SubSeq(s, 1, j)
<1>0. PICK t \in Seq(D) : t = Append(s, x)
  <2>1. Append(s, x) \in Seq(D)
    OBVIOUS
  <2> QED BY <2>1, Zenon
<1>1. Len(t) = Len(s) + 1 /\ j \in Nat /\ j \in 0 .. Len(t) /\ \A i \in 1 .. j : t[i] = s[i]
  BY <1>0
<1>2. PICK a, b : a = SubSeq(t, 1, j) /\ b = SubSeq(s, 1, j)
  OBVIOUS
<1>3. IsFrontOf(D, t, j, a) /\ IsFrontOf(D, s, j, b)
  BY <1>0, <1>1, <1>2, FrontOf
<1>4. a = b
  BY <1>1, <1>3, FrontsEqual
<1> QED BY <1>0, <1>2, <1>4

LEMMA RestOfAppend ==
  ASSUME NEW D, NEW s \in Seq(D), NEW x \in D, NEW j \in 0 .. Len(s)
  PROVE  SubSeq(Append(s, x), j + 1, Len(Append(s, x))) = Append(SubSeq(s, j + 1, Len(s)), x)
<1>0. PICK n \in Nat : n = Len(s)
  OBVIOUS
<1>1. PICK t \in Seq(D) : t = Append(s, x)
  <2>1. Append(s, x) \in Seq(D)
    OBVIOUS
  <2> QED BY <2>1, Zenon
<1>2. Len(t) = n + 1 /\ t[n + 1] = x /\ \A i \in 1 .. n : t[i] = s[i]
  BY <1>0, <1>1
<1>3. PICK m \in Nat : m + j = n
  <2>1. n - j \in Nat /\ (n - j) + j = n
    BY <1>0
  <2> QED BY <2>1
<1>4. j \in Nat /\ n - j = m /\ (n + 1) - j = m + 1 /\ (m + 1) + j = n + 1
  BY <1>0, <1>3
<1>5. PICK a, b : a = SubSeq(t, j + 1, n + 1) /\ b = SubSeq(s, j + 1, n)
  OBVIOUS
<1>6. a \in Seq(D) /\ Len(a) = m + 1 /\ \A i \in 1 .. m + 1 : a[i] = t[i + j]
  BY <1>2, <1>4, <1>5
<1>7. b \in Seq(D) /\ Len(b) = m /\ \A i \in 1 .. m : b[i] = s[i + j]
  BY <1>0, <1>3, <1>4, <1>5
<1>8. PICK e \in Seq(D) : e = Append(b, x)
  <2>1. Append(b, x) \in Seq(D)
    BY <1>7
  <2> QED BY <2>1, Zenon
<1>9. Len(e) = m + 1 /\ e[m + 1] = x /\ \A i \in 1 .. m : e[i] = b[i]
  BY <1>7, <1>8
<1>10. \A i \in 1 .. Len(a) : a[i] = e[i]
  <2> SUFFICES ASSUME NEW i \in 1 .. m + 1 PROVE a[i] = e[i]
    BY <1>6
  <2>1. CASE i = m + 1
    BY <1>2, <1>4, <1>6, <1>9, <2>1
  <2>2. CASE i \in 1 .. m
    <3>1. i + j \in 1 .. n
      BY <1>3, <1>4, <2>2
    <3> QED BY <1>2, <1>6, <1>7, <1>9, <2>2, <3>1
  <2> QED BY <2>1, <2>2
<1>11. a = e
  BY <1>6, <1>8, <1>9, <1>10, SeqEqual
<1> QED BY <1>0, <1>1, <1>2, <1>5, <1>8, <1>11
=============================================================================
