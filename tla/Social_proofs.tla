---------------------------- MODULE Social_proofs ----------------------------
(* Proofs about Social, for any finite set of accounts, any seconds and any *)
(* limits.                                                                  *)
EXTENDS Social, FiniteSetTheorems, SequenceTheorems, WellFoundedInduction, TLAPS

-----------------------------------------------------------------------------
(* Naturals and recursion along a sequence.                                 *)

LEMMA LeastNatural ==
  ASSUME NEW T \in SUBSET Nat, T # {}
  PROVE  \E m \in T : \A n \in T : m <= n
<1> DEFINE R == {ss \in Nat \X Nat : ss[1] < ss[2]}
<1>1. IsWellFoundedOn(R, Nat)
  BY NatLessThanWellFounded DEF OpToRel
<1>2. PICK m \in T : \A n \in T : ~(<<n, m>> \in R)
  <2> HIDE DEF R
  <2> QED
    BY <1>1, WFMin
<1>3. \A n \in T : ~(n < m)
  BY <1>2
<1> QED
  BY <1>3

\* A set with 0 and every successor up to n has them all.
LEMMA Reaches ==
  ASSUME NEW n \in Nat, NEW S, 0 \in S, \A i \in 1 .. n : i - 1 \in S => i \in S
  PROVE  0 .. n \subseteq S
<1> DEFINE T == {i \in 0 .. n : i \notin S}
<1> SUFFICES ASSUME T # {}
             PROVE  FALSE
  OBVIOUS
<1>1. PICK m \in T : \A i \in T : m <= i
  <2>1. T \in SUBSET Nat
    OBVIOUS
  <2> HIDE DEF T
  <2> QED
    BY <2>1, LeastNatural
<1>2. m \in 1 .. n /\ m - 1 \in 0 .. n
  BY <1>1
<1>3. m - 1 \notin T
  <2>1. ~(m <= m - 1)
    BY <1>2
  <2> HIDE DEF T
  <2> QED
    BY <1>1, <2>1
<1> QED
  BY <1>1, <1>2, <1>3

\* Repeating g from x, n times, makes a function on 0 .. n.
Iterates(f, x, g, n, X) ==
  f \in [0 .. n -> X] /\ f[0] = x /\ \A i \in 1 .. n : f[i] = g[<<f[i - 1], i>>]
LEMMA IteratesExist ==
  ASSUME NEW n \in Nat, NEW X, NEW x \in X, NEW g \in [X \X (1 .. n) -> X]
  PROVE  \E f : Iterates(f, x, g, n, X)
<1> DEFINE S == {m \in 0 .. n : \E f : Iterates(f, x, g, m, X)}
<1>1. 0 \in S
  <2>1. PICK f : f = [i \in 0 .. 0 |-> x]
    OBVIOUS
  <2>2. f \in [0 .. 0 -> X] /\ f[0] = x /\ 1 .. 0 = {}
    BY <2>1
  <2>3. Iterates(f, x, g, 0, X)
    BY <2>2 DEF Iterates
  <2> QED
    BY <2>3
<1>2. ASSUME NEW m \in 1 .. n, m - 1 \in S
      PROVE  m \in S
  <2>1. PICK f : Iterates(f, x, g, m - 1, X)
    BY <1>2
  <2>2. PICK h : h = [i \in 0 .. m |-> IF i = m THEN g[<<f[m - 1], m>>] ELSE f[i]]
    OBVIOUS
  <2>3. f \in [0 .. m - 1 -> X] /\ f[0] = x /\ \A i \in 1 .. m - 1 : f[i] = g[<<f[i - 1], i>>]
    BY <2>1 DEF Iterates
  <2>4. g[<<f[m - 1], m>>] \in X
    BY <2>3
  <2>5. \A i \in 0 .. m - 1 : h[i] = f[i]
    BY <2>2
  <2>6. h \in [0 .. m -> X]
    BY <2>2, <2>3, <2>4
  <2>7. h[0] = x /\ h[m] = g[<<h[m - 1], m>>]
    <3>1. 0 \in 0 .. m - 1 /\ m - 1 \in 0 .. m - 1 /\ m \in 0 .. m
      OBVIOUS
    <3> QED
      BY <2>2, <2>3, <2>5, <3>1
  <2>8. \A i \in 1 .. m - 1 : h[i] = g[<<h[i - 1], i>>]
    BY <2>3, <2>5
  <2>9. \A i \in 1 .. m : h[i] = g[<<h[i - 1], i>>]
    BY <2>7, <2>8
  <2>10. Iterates(h, x, g, m, X)
    BY <2>6, <2>7, <2>9 DEF Iterates
  <2> QED
    BY <2>10
<1> HIDE DEF S
<1>3. 0 .. n \subseteq S
  BY <1>1, <1>2, Reaches
<1> QED
  BY <1>3 DEF S

-----------------------------------------------------------------------------
(* Picked: what of a sequence is in a set.                                  *)

PicksBy(f, s, S) ==
  /\ f[0] = <<>>
  /\ \A i \in 1 .. Len(s) :
       f[i] = IF s[i] \in S THEN Append(f[i - 1], s[i]) ELSE f[i - 1]

\* The function in Picked exists, and Picked is its last value.
LEMMA PickedIs ==
  ASSUME NEW D, NEW s \in Seq(D), NEW S
  PROVE  \E f \in [0 .. Len(s) -> Seq(D \cap S)] : PicksBy(f, s, S) /\ Picked(s, S) = f[Len(s)]
<1> DEFINE n == Len(s)
           X == Seq(D \cap S)
           g == [p \in X \X (1 .. n) |-> IF s[p[2]] \in S THEN Append(p[1], s[p[2]]) ELSE p[1]]
           Is(h) == h = [i \in 0 .. n |-> IF i = 0 THEN <<>> ELSE IF s[i] \in S
                                          THEN Append(h[i - 1], s[i]) ELSE h[i - 1]]
<1>1. /\ n \in Nat /\ <<>> \in X /\ \A i \in 1 .. n : s[i] \in D /\ i \in 0 .. n /\ i - 1 \in 0 .. n
      /\ \A t \in X, e \in D : e \in S => Append(t, e) \in X
  OBVIOUS
<1>2. \A t \in X, i \in 1 .. n :
        g[<<t, i>>] = IF s[i] \in S THEN Append(t, s[i]) ELSE t
  <2> HIDE DEF X, n
  <2> QED
    OBVIOUS
<1>3. DOMAIN g = X \X (1 .. n) /\ g = [p \in DOMAIN g |-> g[p]]
  OBVIOUS
<1> HIDE DEF X, n, g
<1>4. \A p \in X \X (1 .. n) : g[p] \in X
  <2>1. ASSUME NEW t \in X, NEW i \in 1 .. n
        PROVE  g[<<t, i>>] \in X
    BY <1>1, <1>2
  <2> QED
    BY <2>1
<1>5. g \in [X \X (1 .. n) -> X]
  BY <1>3, <1>4
<1>6. PICK h : Iterates(h, <<>>, g, n, X)
  BY <1>1, <1>5, IteratesExist
<1>7. Is(h)
  <2>1. h \in [0 .. n -> X] /\ h[0] = <<>> /\ \A i \in 1 .. n : h[i] = g[<<h[i - 1], i>>]
    BY <1>6 DEF Iterates
  <2>2. \A i \in 1 .. n : h[i] = IF s[i] \in S THEN Append(h[i - 1], s[i]) ELSE h[i - 1]
    BY <1>1, <1>2, <2>1
  <2>3. \A i \in 0 .. n : i # 0 => i \in 1 .. n
    BY <1>1
  <2> QED
    BY <2>1, <2>2, <2>3
<1>8. PICK f : f = CHOOSE k : Is(k)
  OBVIOUS
<1>10. Is(f)
  <2> HIDE DEF Is
  <2> QED
    BY <1>7, <1>8
<1>11. Picked(s, S) = f[n]
  BY <1>8 DEF Picked, n
<1>12. PicksBy(f, s, S)
  <2>1. \A i \in 1 .. n : i # 0 /\ i \in 0 .. n
    BY <1>1
  <2>2. \A i \in 1 .. n : f[i] = IF s[i] \in S THEN Append(f[i - 1], s[i]) ELSE f[i - 1]
    BY <1>10, <2>1
  <2>3. f[0] = <<>>
    <3>1. 0 \in 0 .. n
      BY <1>1
    <3> QED
      BY <1>10, <3>1
  <2> QED
    BY <2>2, <2>3 DEF PicksBy, n
<1>9. f \in [0 .. n -> X]
  <2> DEFINE Y == {i \in 0 .. n : f[i] \in X}
  <2>1. 0 \in Y
    BY <1>1, <1>12 DEF PicksBy
  <2>2. ASSUME NEW i \in 1 .. n, f[i - 1] \in X
        PROVE  f[i] \in X
    <3>1. s[i] \in S => Append(f[i - 1], s[i]) \in X
      BY <1>1, <2>2
    <3> QED
      BY <1>12, <2>2, <3>1 DEF PicksBy, n
  <2>3. \A i \in 1 .. n : i - 1 \in Y => i \in Y
    BY <1>1, <2>2
  <2>4. 0 .. n \subseteq Y
    <3> HIDE DEF Y
    <3> QED
      BY <1>1, <2>1, <2>3, Reaches
  <2>5. \A i \in 0 .. n : f[i] \in X
    BY <2>4
  <2> QED
    BY <1>10, <2>5
<1> QED
  BY <1>11, <1>12, <1>9 DEF n, X

\* Any such function gives it.
LEMMA PickedBy ==
  ASSUME NEW D, NEW s \in Seq(D), NEW S, NEW f, PicksBy(f, s, S)
  PROVE  Picked(s, S) = f[Len(s)]
<1>1. PICK h \in [0 .. Len(s) -> Seq(D \cap S)] :
        PicksBy(h, s, S) /\ Picked(s, S) = h[Len(s)]
  BY PickedIs
<1>2. Len(s) \in Nat
  OBVIOUS
<1> DEFINE Y == {i \in 0 .. Len(s) : f[i] = h[i]}
<1>3. 0 \in Y
  BY <1>1, <1>2 DEF PicksBy
<1>4. \A i \in 1 .. Len(s) : i - 1 \in Y => i \in Y
  BY <1>1, <1>2 DEF PicksBy
<1>5. 0 .. Len(s) \subseteq Y
  <2> HIDE DEF Y
  <2> QED
    BY <1>2, <1>3, <1>4, Reaches
<1>6. Len(s) \in 0 .. Len(s)
  BY <1>2
<1> QED
  BY <1>1, <1>5, <1>6

LEMMA PickedType ==
  ASSUME NEW D, NEW s \in Seq(D), NEW S
  PROVE  Picked(s, S) \in Seq(D \cap S) /\ Picked(s, S) \in Seq(D)
<1>1. PICK f \in [0 .. Len(s) -> Seq(D \cap S)] :
        PicksBy(f, s, S) /\ Picked(s, S) = f[Len(s)]
  BY PickedIs
<1>2. Len(s) \in 0 .. Len(s)
  OBVIOUS
<1>3. Picked(s, S) \in Seq(D \cap S)
  BY <1>1, <1>2
<1> QED
  BY <1>3

LEMMA PickedEmpty ==
  ASSUME NEW S
  PROVE  Picked(<<>>, S) = <<>>
<1>1. <<>> \in Seq({}) /\ Len(<<>>) = 0
  OBVIOUS
<1>2. PicksBy([i \in {0} |-> <<>>], <<>>, S)
  BY <1>1 DEF PicksBy
<1> QED
  BY <1>1, <1>2, PickedBy

LEMMA PickedAppend ==
  ASSUME NEW D, NEW s \in Seq(D), NEW e \in D, NEW S
  PROVE  Picked(Append(s, e), S) =
           IF e \in S THEN Append(Picked(s, S), e) ELSE Picked(s, S)
<1>1. PICK f \in [0 .. Len(s) -> Seq(D \cap S)] :
        PicksBy(f, s, S) /\ Picked(s, S) = f[Len(s)]
  BY PickedIs
<1> DEFINE n == Len(s)
           t == Append(s, e)
           h == [i \in 0 .. n + 1 |-> IF i = n + 1
                   THEN IF e \in S THEN Append(f[n], e) ELSE f[n] ELSE f[i]]
<1>2. n \in Nat /\ t \in Seq(D) /\ Len(t) = n + 1
  OBVIOUS
<1>3. t[n + 1] = e /\ \A i \in 1 .. n : t[i] = s[i]
  OBVIOUS
<1>4. h[n + 1] = (IF e \in S THEN Append(f[n], e) ELSE f[n]) /\ \A i \in 0 .. n : h[i] = f[i]
  BY <1>2
<1>5. PicksBy(h, t, S)
  <2> HIDE DEF h, t
  <2>1. h[0] = <<>>
    <3>1. 0 \in 0 .. n
      BY <1>2
    <3>2. f[0] = <<>>
      BY <1>1 DEF PicksBy
    <3>3. h[0] = f[0]
      BY <1>4, <3>1
    <3> QED
      BY <3>2, <3>3
  <2>2. \A i \in 1 .. n : h[i] = IF t[i] \in S THEN Append(h[i - 1], t[i]) ELSE h[i - 1]
    <3>1. \A i \in 1 .. n : i \in 0 .. n /\ i - 1 \in 0 .. n
      BY <1>2
    <3>2. \A i \in 1 .. n : f[i] = IF s[i] \in S THEN Append(f[i - 1], s[i]) ELSE f[i - 1]
      BY <1>1 DEF PicksBy
    <3> HIDE DEF n
    <3> QED
      BY <1>3, <1>4, <3>1, <3>2
  <2>3. h[n + 1] = IF t[n + 1] \in S THEN Append(h[n], t[n + 1]) ELSE h[n]
    BY <1>2, <1>3, <1>4
  <2> HIDE DEF n
  <2>4. \A i \in 1 .. n + 1 : h[i] = IF t[i] \in S THEN Append(h[i - 1], t[i]) ELSE h[i - 1]
    <3> TAKE i \in 1 .. n + 1
    <3>1. i \in 1 .. n \/ (i = n + 1 /\ i - 1 = n)
      BY <1>2
    <3> QED
      BY <2>2, <2>3, <3>1
  <2> QED
    BY <1>2, <2>1, <2>4 DEF PicksBy
<1> HIDE DEF h
<1>6. Picked(t, S) = h[Len(t)]
  BY <1>2, <1>5, PickedBy
<1> QED
  BY <1>1, <1>2, <1>4, <1>6

\* Nothing that is in S: nothing is picked.
LEMMA PickedNone ==
  ASSUME NEW D, NEW s \in Seq(D), NEW S, \A i \in DOMAIN s : s[i] \notin S
  PROVE  Picked(s, S) = <<>>
<1> DEFINE f == [i \in 0 .. Len(s) |-> <<>>]
<1>1. Len(s) \in Nat /\ \A i \in 1 .. Len(s) : s[i] \notin S
  OBVIOUS
<1>2. f[0] = <<>> /\ f[Len(s)] = <<>> /\ \A i \in 1 .. Len(s) : f[i] = f[i - 1]
  BY <1>1
<1>3. PicksBy(f, s, S)
  <2> HIDE DEF f
  <2> QED
    BY <1>1, <1>2 DEF PicksBy
<1> HIDE DEF f
<1> QED
  BY <1>2, <1>3, PickedBy

\* Something that is in S: it is picked.
LEMMA PickedSome ==
  ASSUME NEW D, NEW s \in Seq(D), NEW S, NEW k \in DOMAIN s, s[k] \in S
  PROVE  Picked(s, S) # <<>>
<1>1. PICK f \in [0 .. Len(s) -> Seq(D \cap S)] :
        PicksBy(f, s, S) /\ Picked(s, S) = f[Len(s)]
  BY PickedIs
<1>2. /\ Len(s) \in Nat /\ k \in 1 .. Len(s) /\ 0 \in 0 .. Len(s)
      /\ \A i \in 1 .. Len(s) : i - 1 \in 0 .. Len(s) /\ s[i] \in D
  OBVIOUS
<1> DEFINE Y == {i \in 0 .. Len(s) : k <= i => f[i] # <<>>}
<1>3. 0 \in Y
  BY <1>2
<1>4. ASSUME NEW i \in 1 .. Len(s), i - 1 \in Y
      PROVE  i \in Y
  <2>1. f[i] = IF s[i] \in S THEN Append(f[i - 1], s[i]) ELSE f[i - 1]
    BY <1>1 DEF PicksBy
  <2>3. k <= i => k = i \/ k <= i - 1
    BY <1>2
  <2>4. k <= i - 1 => f[i - 1] # <<>>
    BY <1>4
  <2>5. i - 1 \in 0 .. Len(s) /\ f[i - 1] \in Seq(D \cap S)
    BY <1>2
  <2>6. s[i] \in S => Append(f[i - 1], s[i]) # <<>>
    <3>1. PICK q \in Seq(D \cap S) : q = f[i - 1]
      BY <2>5
    <3>2. \A e : Append(q, e) # <<>>
      OBVIOUS
    <3> QED
      BY <3>1, <3>2
  <2>7. k <= i => f[i] # <<>>
    BY <2>1, <2>3, <2>4, <2>6
  <2> QED
    BY <1>2, <2>7
<1>5. 0 .. Len(s) \subseteq Y
  <2> HIDE DEF Y
  <2> QED
    BY <1>2, <1>3, <1>4, Reaches
<1>6. Len(s) \in 0 .. Len(s) /\ k <= Len(s)
  BY <1>2
<1> QED
  BY <1>1, <1>5, <1>6

\* To pick twice is to pick what is in both sets.
LEMMA PickedTwice ==
  ASSUME NEW D, NEW s \in Seq(D), NEW S, NEW T
  PROVE  Picked(Picked(s, T), S) = Picked(s, S \cap T)
<1>1. PICK f \in [0 .. Len(s) -> Seq(D \cap T)] :
        PicksBy(f, s, T) /\ Picked(s, T) = f[Len(s)]
  BY PickedIs
<1> DEFINE R == S \cap T
<1>2. PICK g \in [0 .. Len(s) -> Seq(D \cap R)] :
        PicksBy(g, s, R) /\ Picked(s, R) = g[Len(s)]
  <2> HIDE DEF R
  <2> QED
    BY PickedIs
<1>3. /\ Len(s) \in Nat /\ 0 \in 0 .. Len(s) /\ Len(s) \in 0 .. Len(s)
      /\ \A i \in 1 .. Len(s) : i \in 0 .. Len(s) /\ i - 1 \in 0 .. Len(s) /\ s[i] \in D
  OBVIOUS
<1> DEFINE Y == {i \in 0 .. Len(s) : Picked(f[i], S) = g[i]}
<1>4. 0 \in Y
  <2>1. f[0] = <<>> /\ g[0] = <<>>
    BY <1>1, <1>2 DEF PicksBy
  <2> QED
    BY <1>3, <2>1, PickedEmpty
<1>5. ASSUME NEW i \in 1 .. Len(s), i - 1 \in Y
      PROVE  i \in Y
  <2>1. f[i] = IF s[i] \in T THEN Append(f[i - 1], s[i]) ELSE f[i - 1]
    BY <1>1 DEF PicksBy
  <2>2. g[i] = IF s[i] \in R THEN Append(g[i - 1], s[i]) ELSE g[i - 1]
    BY <1>2 DEF PicksBy
  <2>3. Picked(f[i - 1], S) = g[i - 1]
    BY <1>5
  <2>4. CASE s[i] \in T
    <3>0. PICK E : E = D \cap T
      OBVIOUS
    <3>1. f[i - 1] \in Seq(E) /\ s[i] \in E
      BY <1>3, <2>4, <3>0
    <3>2. Picked(Append(f[i - 1], s[i]), S) =
            IF s[i] \in S THEN Append(Picked(f[i - 1], S), s[i]) ELSE Picked(f[i - 1], S)
      <4>1. PICK q \in Seq(E) : q = f[i - 1]
        BY <3>1
      <4>2. PICK e \in E : e = s[i]
        BY <3>1
      <4>3. Picked(Append(q, e), S) = IF e \in S THEN Append(Picked(q, S), e) ELSE Picked(q, S)
        BY ONLY PickedAppend, q \in Seq(E), e \in E
      <4> QED
        BY <4>1, <4>2, <4>3
    <3> QED
      BY <1>3, <2>1, <2>2, <2>3, <2>4, <3>2
  <2>5. CASE s[i] \notin T
    BY <1>3, <2>1, <2>2, <2>3, <2>5
  <2> QED
    BY <2>4, <2>5
<1>6. 0 .. Len(s) \subseteq Y
  <2> HIDE DEF Y
  <2> QED
    BY <1>3, <1>4, <1>5, Reaches
<1> QED
  BY <1>1, <1>2, <1>3, <1>6

\* What is in one of two disjoint sets is counted once.
LEMMA PickedSplits ==
  ASSUME NEW D, NEW s \in Seq(D), NEW S, NEW T, S \cap T = {}
  PROVE  Len(Picked(s, S \cup T)) = Len(Picked(s, S)) + Len(Picked(s, T))
<1> DEFINE R == S \cup T
<1>1. PICK f \in [0 .. Len(s) -> Seq(D \cap S)] :
        PicksBy(f, s, S) /\ Picked(s, S) = f[Len(s)]
  BY PickedIs
<1>2. PICK g \in [0 .. Len(s) -> Seq(D \cap T)] :
        PicksBy(g, s, T) /\ Picked(s, T) = g[Len(s)]
  BY PickedIs
<1>3. PICK h \in [0 .. Len(s) -> Seq(D \cap R)] :
        PicksBy(h, s, R) /\ Picked(s, R) = h[Len(s)]
  <2> HIDE DEF R
  <2> QED
    BY PickedIs
<1>4. /\ Len(s) \in Nat /\ 0 \in 0 .. Len(s) /\ Len(s) \in 0 .. Len(s)
      /\ \A i \in 1 .. Len(s) : i \in 0 .. Len(s) /\ i - 1 \in 0 .. Len(s) /\ s[i] \in D
  OBVIOUS
<1> DEFINE Y == {i \in 0 .. Len(s) : Len(h[i]) = Len(f[i]) + Len(g[i])}
<1>5. 0 \in Y
  <2>1. f[0] = <<>> /\ g[0] = <<>> /\ h[0] = <<>>
    BY <1>1, <1>2, <1>3 DEF PicksBy
  <2> QED
    BY <1>4, <2>1
<1>6. ASSUME NEW i \in 1 .. Len(s), i - 1 \in Y
      PROVE  i \in Y
  <2>1. /\ f[i] = (IF s[i] \in S THEN Append(f[i - 1], s[i]) ELSE f[i - 1])
        /\ g[i] = (IF s[i] \in T THEN Append(g[i - 1], s[i]) ELSE g[i - 1])
        /\ h[i] = (IF s[i] \in R THEN Append(h[i - 1], s[i]) ELSE h[i - 1])
    BY <1>1, <1>2, <1>3 DEF PicksBy
  <2>2. f[i - 1] \in Seq(D) /\ g[i - 1] \in Seq(D) /\ h[i - 1] \in Seq(D) /\ s[i] \in D
    <3>1. /\ f[i - 1] \in Seq(D \cap S) /\ g[i - 1] \in Seq(D \cap T)
          /\ h[i - 1] \in Seq(D \cap R) /\ s[i] \in D
      BY <1>4
    <3>2. \A A : Seq(D \cap A) \subseteq Seq(D)
      OBVIOUS
    <3> HIDE DEF R
    <3> QED
      BY <3>1, <3>2
  <2>3. \A e \in Seq(D) : Len(Append(e, s[i])) = Len(e) + 1 /\ Len(e) \in Nat
    BY <2>2
  <2>4. Len(h[i - 1]) = Len(f[i - 1]) + Len(g[i - 1])
    BY <1>6
  <2>5. Len(h[i]) = Len(f[i]) + Len(g[i])
    <3> DEFINE a == Len(f[i - 1])
               b == Len(g[i - 1])
               c == Len(h[i - 1])
    <3>1. a \in Nat /\ b \in Nat /\ c \in Nat /\ c = a + b
      BY <2>2, <2>4
    <3>2. /\ Len(f[i]) = (IF s[i] \in S THEN a + 1 ELSE a)
          /\ Len(g[i]) = (IF s[i] \in T THEN b + 1 ELSE b)
          /\ Len(h[i]) = (IF s[i] \in S \/ s[i] \in T THEN c + 1 ELSE c)
      BY <2>1, <2>2, <2>3
    <3>3. ~(s[i] \in S /\ s[i] \in T)
      OBVIOUS
    <3> HIDE DEF a, b, c
    <3> QED
      BY <3>1, <3>2, <3>3
  <2> QED
    BY <1>4, <2>5
<1>7. 0 .. Len(s) \subseteq Y
  <2> HIDE DEF Y
  <2> QED
    BY <1>4, <1>5, <1>6, Reaches
<1> QED
  BY <1>1, <1>2, <1>3, <1>4, <1>7

\* The removal of an element that is not in S changes nothing for S.
LEMMA PickedWithout ==
  ASSUME NEW D, NEW s \in Seq(D), NEW S, NEW k \in DOMAIN s, s[k] \notin S
  PROVE  Picked(RemoveAt(s, k), S) = Picked(s, S)
<1>1. PICK f \in [0 .. Len(s) -> Seq(D \cap S)] :
        PicksBy(f, s, S) /\ Picked(s, S) = f[Len(s)]
  BY PickedIs
<1>2. PICK n \in Nat : n = Len(s)
  OBVIOUS
<1> DEFINE r == RemoveAt(s, k)
           h == [i \in 0 .. n - 1 |-> IF i < k THEN f[i] ELSE f[i + 1]]
<1>3. k \in 1 .. n
  BY <1>2
<1>4. /\ r \in Seq(D) /\ Len(r) = n - 1
      /\ \A i \in 1 .. n - 1 : r[i] = IF i < k THEN s[i] ELSE s[i + 1]
  <2> DEFINE u == SubSeq(s, 1, k - 1)
             v == SubSeq(s, k + 1, n)
  <2>1. /\ u \in Seq(D) /\ Len(u) = k - 1 /\ \A i \in 1 .. k - 1 : u[i] = s[i]
    BY <1>2, <1>3
  <2>2. /\ v \in Seq(D) /\ Len(v) = n - k /\ \A i \in 1 .. n - k : v[i] = s[k + i]
    BY <1>2, <1>3
  <2>3. r = u \o v
    BY <1>2 DEF RemoveAt
  <2> HIDE DEF u, v, r
  <2>4. /\ u \o v \in Seq(D) /\ Len(u \o v) = n - 1
        /\ \A i \in 1 .. n - 1 : (u \o v)[i] = IF i <= k - 1 THEN u[i] ELSE v[i - (k - 1)]
    <3>1. /\ u \o v \in Seq(D) /\ Len(u \o v) = Len(u) + Len(v)
          /\ \A i \in 1 .. Len(u) + Len(v) :
               (u \o v)[i] = IF i <= Len(u) THEN u[i] ELSE v[i - Len(u)]
      BY <2>1, <2>2, ConcatProperties
    <3>2. Len(u) = k - 1 /\ Len(u) + Len(v) = n - 1
      BY <1>3, <2>1, <2>2
    <3> QED
      BY <3>1, <3>2
  <2>5. \A i \in 1 .. n - 1 : ~(i <= k - 1) => v[i - (k - 1)] = s[i + 1]
    <3> SUFFICES ASSUME NEW i \in 1 .. n - 1, ~(i <= k - 1)
                 PROVE  v[i - (k - 1)] = s[i + 1]
      OBVIOUS
    <3>1. i - (k - 1) \in 1 .. n - k /\ k + (i - (k - 1)) = i + 1
      BY <1>3
    <3> QED
      BY <2>2, <3>1
  <2>6. \A i \in 1 .. n - 1 : i < k <=> i <= k - 1
    BY <1>3
  <2>7. \A i \in 1 .. n - 1 : i < k => i \in 1 .. k - 1
    BY <1>3
  <2> QED
    BY <2>1, <2>3, <2>4, <2>5, <2>6, <2>7
<1>5. /\ f[0] = <<>>
      /\ \A i \in 1 .. n : f[i] = IF s[i] \in S THEN Append(f[i - 1], s[i]) ELSE f[i - 1]
  BY <1>1, <1>2 DEF PicksBy
<1>6. f[k] = f[k - 1]
  BY <1>3, <1>5
<1>7. \A i \in 0 .. n - 1 : h[i] = IF i < k THEN f[i] ELSE f[i + 1]
  OBVIOUS
<1> HIDE DEF h, r
<1>8. h[0] = <<>>
  BY <1>3, <1>5, <1>7
<1>9. ASSUME NEW i \in 1 .. n - 1
      PROVE  h[i] = IF r[i] \in S THEN Append(h[i - 1], r[i]) ELSE h[i - 1]
  <2>1. CASE i < k
    <3>1. h[i] = f[i] /\ h[i - 1] = f[i - 1] /\ r[i] = s[i] /\ i \in 1 .. n
      BY <1>3, <1>4, <1>7, <2>1
    <3> QED
      BY <1>5, <3>1
  <2>2. CASE ~(i < k)
    <3>1. h[i] = f[i + 1] /\ r[i] = s[i + 1] /\ i + 1 \in 1 .. n /\ (i + 1) - 1 = i
      BY <1>3, <1>4, <1>7, <2>2
    <3>2. h[i - 1] = f[i]
      BY <1>3, <1>6, <1>7, <2>2
    <3> QED
      BY <1>5, <3>1, <3>2
  <2> QED
    BY <2>1, <2>2
<1>10. PicksBy(h, r, S)
  BY <1>4, <1>8, <1>9 DEF PicksBy
<1>11. Picked(r, S) = h[n - 1]
  BY <1>4, <1>10, PickedBy
<1>12. h[n - 1] = f[n]
  BY <1>3, <1>6, <1>7
<1> QED
  BY <1>1, <1>2, <1>11, <1>12 DEF r

-----------------------------------------------------------------------------
(* Written: the rows of an account after its writes.                        *)

Writes ==
  {BlockRow(b) : b \in Accounts} \cup {UnblockRows(b) : b \in Accounts}
    \cup {StoreMail(m) : m \in Mails}
    \cup {DeleteMails(kind, at) : kind \in Kinds, at \in Seconds} \cup {AddItem}
Rows == [blocks : [Accounts -> Nat], mails : Seq(Mails), items : Nat]

Row(blocks, mails, items) == [blocks |-> blocks, mails |-> mails, items |-> items]

LEMMA PickedHead ==
  ASSUME NEW D, NEW s \in Seq(D), NEW S, s # <<>>
  PROVE  Len(Picked(s, S)) = Len(Picked(Tail(s), S)) + (IF Head(s) \in S THEN 1 ELSE 0)
<1>1. PICK n \in Nat : n + 1 = Len(s)
  <2>1. Len(s) \in Nat /\ Len(s) # 0
    OBVIOUS
  <2>2. Len(s) - 1 \in Nat /\ (Len(s) - 1) + 1 = Len(s)
    BY <2>1
  <2> QED
    BY <2>2
<1>2. PICK t \in Seq(D) : t = Tail(s)
  BY HeadTailProperties
<1>3. Head(s) = s[1] /\ Len(t) = n /\ \A i \in 1 .. n : t[i] = s[i + 1]
  BY <1>1, <1>2
<1>4. PICK f \in [0 .. Len(s) -> Seq(D \cap S)] : PicksBy(f, s, S) /\ Picked(s, S) = f[Len(s)]
  BY PickedIs
<1>5. PICK h \in [0 .. Len(t) -> Seq(D \cap S)] : PicksBy(h, t, S) /\ Picked(t, S) = h[Len(t)]
  BY PickedIs
<1>6. PICK d \in {0, 1} : d = IF s[1] \in S THEN 1 ELSE 0
  OBVIOUS
<1> DEFINE Y == {i \in 0 .. n : Len(f[i + 1]) = Len(h[i]) + d}
<1>7. /\ \A i \in 1 .. n + 1 : f[i] = IF s[i] \in S THEN Append(f[i - 1], s[i]) ELSE f[i - 1]
      /\ \A i \in 1 .. n : h[i] = IF t[i] \in S THEN Append(h[i - 1], t[i]) ELSE h[i - 1]
      /\ f[0] = <<>> /\ h[0] = <<>>
  BY <1>1, <1>3, <1>4, <1>5 DEF PicksBy
<1>8. /\ \A i \in 0 .. n + 1 : f[i] \in Seq(D \cap S)
      /\ \A i \in 0 .. n : h[i] \in Seq(D \cap S)
  BY <1>1, <1>3, <1>4, <1>5
<1>9. 0 \in Y
  <2>1. f[1] = IF s[1] \in S THEN Append(f[0], s[1]) ELSE f[0]
    <3>1. 1 \in 1 .. n + 1 /\ 1 - 1 = 0
      OBVIOUS
    <3> QED
      BY <1>7, <3>1
  <2>2. Len(f[1]) = d /\ Len(h[0]) = 0
    BY <1>6, <1>7, <2>1
  <2>3. 0 \in 0 .. n /\ 0 + 1 = 1 /\ 0 + d = d
    OBVIOUS
  <2> QED
    BY <2>2, <2>3
<1>10. ASSUME NEW i \in 1 .. n, i - 1 \in Y
       PROVE  i \in Y
  <2>1. i + 1 \in 1 .. n + 1 /\ (i + 1) - 1 = i /\ (i - 1) + 1 = i /\ i - 1 \in 0 .. n
        /\ i \in 0 .. n /\ i \in 0 .. n + 1
    OBVIOUS
  <2>2. f[i + 1] = IF s[i + 1] \in S THEN Append(f[i], s[i + 1]) ELSE f[i]
    BY <1>7, <2>1
  <2>3. h[i] = IF s[i + 1] \in S THEN Append(h[i - 1], s[i + 1]) ELSE h[i - 1]
    BY <1>3, <1>7
  <2>4. Len(f[i]) = Len(h[i - 1]) + d
    BY <1>10, <2>1
  <2>5. f[i] \in Seq(D \cap S) /\ h[i - 1] \in Seq(D \cap S)
    BY <1>8, <2>1
  <2>6. PICK e : e = s[i + 1]
    OBVIOUS
  <2>7. Len(f[i + 1]) = Len(h[i]) + d
    <3>1. CASE e \in S
      <4>1. PICK x \in Seq(D \cap S) : x = f[i]
        BY <2>5
      <4>2. PICK y \in Seq(D \cap S) : y = h[i - 1]
        BY <2>5
      <4>3. Len(Append(x, e)) = Len(x) + 1 /\ Len(Append(y, e)) = Len(y) + 1
        OBVIOUS
      <4>4. Len(x) \in Nat /\ Len(y) \in Nat
        OBVIOUS
      <4>5. Len(f[i + 1]) = Len(x) + 1 /\ Len(h[i]) = Len(y) + 1 /\ Len(x) = Len(y) + d
        BY <2>2, <2>3, <2>4, <2>6, <3>1, <4>1, <4>2, <4>3
      <4> QED
        BY <4>4, <4>5
    <3>2. CASE e \notin S
      BY <2>2, <2>3, <2>4, <2>6, <3>2
    <3> QED
      BY <3>1, <3>2
  <2> QED
    BY <2>1, <2>7
<1>11. n \in Y
  <2>1. n \in 0 .. n
    OBVIOUS
  <2> HIDE DEF Y
  <2>2. 0 .. n \subseteq Y
    BY <1>9, <1>10, Reaches
  <2> QED
    BY <2>1, <2>2
<1> QED
  BY <1>1, <1>2, <1>3, <1>4, <1>5, <1>6, <1>11

LEMMA RowsOf ==
  /\ \A r \in Rows : /\ r.blocks \in [Accounts -> Nat] /\ r.mails \in Seq(Mails) /\ r.items \in Nat
                     /\ r = Row(r.blocks, r.mails, r.items)
  /\ \A x \in [Accounts -> Nat], y \in Seq(Mails), z \in Nat :
       /\ Row(x, y, z) \in Rows
       /\ Row(x, y, z).blocks = x /\ Row(x, y, z).mails = y /\ Row(x, y, z).items = z
BY DEF Rows, Row

LEMMA AppliedIs ==
  ASSUME NEW r \in Rows
  PROVE  /\ \A b \in Accounts :
              /\ Applied(r, BlockRow(b)) =
                   Row([r.blocks EXCEPT ![b] = r.blocks[b] + 1], r.mails, r.items)
              /\ Applied(r, UnblockRows(b)) =
                   Row([r.blocks EXCEPT ![b] = 0], r.mails, r.items)
         /\ \A m \in Mails :
              Applied(r, StoreMail(m)) = Row(r.blocks, Append(r.mails, m), r.items)
         /\ \A kind \in Kinds, at \in Seconds :
              Applied(r, DeleteMails(kind, at)) =
                Row(r.blocks, Picked(r.mails, Mails \ Those(kind, at)), r.items)
         /\ Applied(r, AddItem) = Row(r.blocks, r.mails, r.items + 1)
<1>1. ASSUME NEW b \in Accounts
      PROVE  Applied(r, BlockRow(b)) =
               Row([r.blocks EXCEPT ![b] = r.blocks[b] + 1], r.mails, r.items)
  BY DEF Applied, BlockRow, Rows, Row
<1>2. ASSUME NEW b \in Accounts
      PROVE  Applied(r, UnblockRows(b)) = Row([r.blocks EXCEPT ![b] = 0], r.mails, r.items)
  BY DEF Applied, UnblockRows, Rows, Row
<1>3. ASSUME NEW m \in Mails
      PROVE  Applied(r, StoreMail(m)) = Row(r.blocks, Append(r.mails, m), r.items)
  BY DEF Applied, StoreMail, Rows, Row
<1>4. ASSUME NEW kind \in Kinds, NEW at \in Seconds
      PROVE  Applied(r, DeleteMails(kind, at)) =
               Row(r.blocks, Picked(r.mails, Mails \ Those(kind, at)), r.items)
  BY DEF Applied, DeleteMails, Rows, Row
<1>5. Applied(r, AddItem) = Row(r.blocks, r.mails, r.items + 1)
  BY DEF Applied, AddItem, Rows, Row
<1> QED
  BY <1>1, <1>2, <1>3, <1>4, <1>5

LEMMA AppliedTyped ==
  ASSUME NEW r \in Rows, NEW w \in Writes
  PROVE  Applied(r, w) \in Rows
<1>1. r.blocks \in [Accounts -> Nat] /\ r.mails \in Seq(Mails) /\ r.items \in Nat
  BY RowsOf
<1>2. ASSUME NEW b \in Accounts, w \in {BlockRow(b), UnblockRows(b)}
      PROVE  Applied(r, w) \in Rows
  <2>1. [r.blocks EXCEPT ![b] = r.blocks[b] + 1] \in [Accounts -> Nat]
        /\ [r.blocks EXCEPT ![b] = 0] \in [Accounts -> Nat]
    BY <1>1
  <2>2. /\ Row([r.blocks EXCEPT ![b] = r.blocks[b] + 1], r.mails, r.items) \in Rows
        /\ Row([r.blocks EXCEPT ![b] = 0], r.mails, r.items) \in Rows
    BY <1>1, <2>1, RowsOf
  <2>3. /\ Applied(r, BlockRow(b)) = Row([r.blocks EXCEPT ![b] = r.blocks[b] + 1], r.mails, r.items)
        /\ Applied(r, UnblockRows(b)) = Row([r.blocks EXCEPT ![b] = 0], r.mails, r.items)
    BY AppliedIs
  <2> QED
    BY <1>2, <2>2, <2>3
<1>3. ASSUME NEW m \in Mails, w = StoreMail(m)
      PROVE  Applied(r, w) \in Rows
  <2>1. Append(r.mails, m) \in Seq(Mails)
    BY <1>1
  <2>2. Row(r.blocks, Append(r.mails, m), r.items) \in Rows
    BY <1>1, <2>1, RowsOf
  <2>3. Applied(r, StoreMail(m)) = Row(r.blocks, Append(r.mails, m), r.items)
    BY AppliedIs
  <2> QED
    BY <1>3, <2>2, <2>3
<1>4. ASSUME NEW kind \in Kinds, NEW at \in Seconds, w = DeleteMails(kind, at)
      PROVE  Applied(r, w) \in Rows
  <2>1. Picked(r.mails, Mails \ Those(kind, at)) \in Seq(Mails)
    BY <1>1, PickedType
  <2>2. Row(r.blocks, Picked(r.mails, Mails \ Those(kind, at)), r.items) \in Rows
    BY <1>1, <2>1, RowsOf
  <2>3. Applied(r, DeleteMails(kind, at)) =
          Row(r.blocks, Picked(r.mails, Mails \ Those(kind, at)), r.items)
    BY AppliedIs
  <2> QED
    BY <1>4, <2>2, <2>3
<1>5. CASE w = AddItem
  BY <1>1, <1>5, AppliedIs, RowsOf
<1> QED
  BY <1>2, <1>3, <1>4, <1>5 DEF Writes

LEMMA BlockedRow ==
  ASSUME NEW r \in Rows, NEW b \in Accounts
  PROVE  [r EXCEPT !.blocks[b] = @ + 1] = Applied(r, BlockRow(b)) /\ Applied(r, BlockRow(b)) \in Rows
<1>1. [r EXCEPT !.blocks[b] = @ + 1] = Applied(r, BlockRow(b))
  BY DEF Applied, BlockRow
<1> QED
  BY <1>1, AppliedTyped DEF Writes

LEMMA MailedRow ==
  ASSUME NEW r \in Rows, NEW m \in Mails
  PROVE  [r EXCEPT !.mails = Append(@, m)] = Applied(r, StoreMail(m)) /\ Applied(r, StoreMail(m)) \in Rows
<1>1. [r EXCEPT !.mails = Append(@, m)] = Applied(r, StoreMail(m))
  BY DEF Applied, StoreMail
<1> QED
  BY <1>1, AppliedTyped DEF Writes

WritesBy(f, r, q) == f[0] = r /\ \A i \in 1 .. Len(q) : f[i] = Applied(f[i - 1], q[i])

\* The function in Written exists, and Written is its last value.
LEMMA WrittenIs ==
  ASSUME NEW r \in Rows, NEW q \in Seq(Writes)
  PROVE  \E f \in [0 .. Len(q) -> Rows] : WritesBy(f, r, q) /\ Written(r, q) = f[Len(q)]
<1> DEFINE n == Len(q)
           g == [p \in Rows \X (1 .. n) |-> Applied(p[1], q[p[2]])]
           Is(h) == h = [i \in 0 .. n |-> IF i = 0 THEN r ELSE Applied(h[i - 1], q[i])]
<1>1. n \in Nat /\ \A i \in 1 .. n : q[i] \in Writes /\ i \in 0 .. n /\ i - 1 \in 0 .. n /\ i # 0
  OBVIOUS
<1>2. \A x \in Rows, i \in 1 .. n : g[<<x, i>>] = Applied(x, q[i])
  <2> HIDE DEF n
  <2> QED
    OBVIOUS
<1>3. DOMAIN g = Rows \X (1 .. n) /\ g = [p \in DOMAIN g |-> g[p]]
  OBVIOUS
<1> HIDE DEF n, g
<1>4. \A p \in Rows \X (1 .. n) : g[p] \in Rows
  <2>1. ASSUME NEW x \in Rows, NEW i \in 1 .. n
        PROVE  g[<<x, i>>] \in Rows
    BY <1>1, <1>2, AppliedTyped
  <2> QED
    BY <2>1
<1>5. g \in [Rows \X (1 .. n) -> Rows]
  BY <1>3, <1>4
<1>6. PICK h : Iterates(h, r, g, n, Rows)
  BY <1>1, <1>5, IteratesExist
<1>7. Is(h)
  <2>1. h \in [0 .. n -> Rows] /\ h[0] = r /\ \A i \in 1 .. n : h[i] = g[<<h[i - 1], i>>]
    BY <1>6 DEF Iterates
  <2>2. \A i \in 1 .. n : h[i] = Applied(h[i - 1], q[i])
    BY <1>1, <1>2, <2>1
  <2>3. \A i \in 0 .. n : i # 0 => i \in 1 .. n
    BY <1>1
  <2> QED
    BY <2>1, <2>2, <2>3
<1>8. PICK f : f = CHOOSE k : Is(k)
  OBVIOUS
<1>9. Is(f)
  <2> HIDE DEF Is
  <2> QED
    BY <1>7, <1>8
<1>10. Written(r, q) = f[n]
  BY <1>8 DEF Written, n
<1>11. 0 \in 0 .. n
  BY <1>1
<1>12. f[0] = r /\ \A i \in 1 .. n : f[i] = Applied(f[i - 1], q[i])
  <2>1. f[0] = r
    BY <1>9, <1>11
  <2>2. \A i \in 1 .. n : f[i] = Applied(f[i - 1], q[i])
    BY <1>1, <1>9
  <2> QED
    BY <2>1, <2>2
<1>13. \A i \in 0 .. n : f[i] \in Rows
  <2> DEFINE Y == {i \in 0 .. n : f[i] \in Rows}
  <2>1. 0 \in Y
    BY <1>11, <1>12
  <2>2. \A i \in 1 .. n : i - 1 \in Y => i \in Y
    BY <1>1, <1>12, AppliedTyped
  <2>3. 0 .. n \subseteq Y
    <3> HIDE DEF Y
    <3> QED
      BY <1>1, <2>1, <2>2, Reaches
  <2> QED
    BY <2>3
<1>14. f \in [0 .. n -> Rows]
  BY <1>9, <1>13
<1> QED
  BY <1>10, <1>12, <1>14 DEF n, WritesBy

LEMMA WrittenBy ==
  ASSUME NEW r \in Rows, NEW q \in Seq(Writes), NEW f, WritesBy(f, r, q)
  PROVE  Written(r, q) = f[Len(q)]
<1>1. PICK h \in [0 .. Len(q) -> Rows] : WritesBy(h, r, q) /\ Written(r, q) = h[Len(q)]
  BY WrittenIs
<1>2. Len(q) \in Nat
  OBVIOUS
<1> DEFINE Y == {i \in 0 .. Len(q) : f[i] = h[i]}
<1>3. 0 \in Y
  BY <1>1, <1>2 DEF WritesBy
<1>4. \A i \in 1 .. Len(q) : i - 1 \in Y => i \in Y
  BY <1>1, <1>2 DEF WritesBy
<1>5. 0 .. Len(q) \subseteq Y
  <2> HIDE DEF Y
  <2> QED
    BY <1>2, <1>3, <1>4, Reaches
<1>6. Len(q) \in 0 .. Len(q)
  BY <1>2
<1> QED
  BY <1>1, <1>5, <1>6

LEMMA WrittenTyped ==
  ASSUME NEW r \in Rows, NEW q \in Seq(Writes)
  PROVE  Written(r, q) \in Rows
<1>1. PICK f \in [0 .. Len(q) -> Rows] : WritesBy(f, r, q) /\ Written(r, q) = f[Len(q)]
  BY WrittenIs
<1>2. Len(q) \in 0 .. Len(q)
  OBVIOUS
<1> QED
  BY <1>1, <1>2

LEMMA WrittenNothing ==
  ASSUME NEW r \in Rows
  PROVE  Written(r, <<>>) = r
<1>1. <<>> \in Seq(Writes) /\ Len(<<>>) = 0
  OBVIOUS
<1>2. WritesBy([i \in {0} |-> r], r, <<>>)
  BY <1>1 DEF WritesBy
<1> QED
  BY <1>1, <1>2, WrittenBy

LEMMA WrittenAppend ==
  ASSUME NEW r \in Rows, NEW q \in Seq(Writes), NEW w \in Writes
  PROVE  Written(r, Append(q, w)) = Applied(Written(r, q), w)
<1>1. PICK f \in [0 .. Len(q) -> Rows] : WritesBy(f, r, q) /\ Written(r, q) = f[Len(q)]
  BY WrittenIs
<1>2. PICK n \in Nat : n = Len(q)
  OBVIOUS
<1> DEFINE t == Append(q, w)
           h == [i \in 0 .. n + 1 |-> IF i = n + 1 THEN Applied(f[n], w) ELSE f[i]]
<1>3. t \in Seq(Writes) /\ Len(t) = n + 1 /\ t[n + 1] = w /\ \A i \in 1 .. n : t[i] = q[i]
  BY <1>2
<1>4. h[n + 1] = Applied(f[n], w) /\ \A i \in 0 .. n : h[i] = f[i]
  BY <1>2
<1>5. f[0] = r /\ \A i \in 1 .. n : f[i] = Applied(f[i - 1], q[i])
  BY <1>1, <1>2 DEF WritesBy
<1> HIDE DEF h, t
<1>6. /\ 0 \in 0 .. n /\ n \in 0 .. n /\ \A i \in 1 .. n : i \in 0 .. n /\ i - 1 \in 0 .. n
      /\ \A i \in 1 .. n + 1 : i \in 1 .. n \/ i = n + 1
      /\ (n + 1) - 1 = n
  OBVIOUS
<1>7. h[0] = r /\ \A i \in 1 .. n + 1 : h[i] = Applied(h[i - 1], t[i])
  <2>1. h[0] = r
    BY <1>4, <1>5, <1>6
  <2>2. \A i \in 1 .. n : h[i] = Applied(h[i - 1], t[i])
    BY <1>3, <1>4, <1>5, <1>6
  <2>3. h[n + 1] = Applied(h[(n + 1) - 1], t[n + 1])
    BY <1>3, <1>4, <1>6
  <2> QED
    BY <1>6, <2>1, <2>2, <2>3
<1>8. WritesBy(h, r, t)
  BY <1>3, <1>7 DEF WritesBy
<1>9. Written(r, t) = h[n + 1]
  BY <1>3, <1>8, WrittenBy
<1> QED
  BY <1>1, <1>2, <1>4, <1>9 DEF t

\* The first write may be done on its own.
LEMMA WrittenTail ==
  ASSUME NEW r \in Rows, NEW q \in Seq(Writes), q # <<>>
  PROVE  Written(Applied(r, Head(q)), Tail(q)) = Written(r, q)
<1>1. PICK f \in [0 .. Len(q) -> Rows] : WritesBy(f, r, q) /\ Written(r, q) = f[Len(q)]
  BY WrittenIs
<1>2. PICK n \in Nat : n + 1 = Len(q)
  <2>1. Len(q) \in Nat /\ Len(q) # 0
    OBVIOUS
  <2>2. Len(q) - 1 \in Nat /\ (Len(q) - 1) + 1 = Len(q)
    BY <2>1
  <2> QED
    BY <2>2
<1>3. /\ Head(q) = q[1] /\ Head(q) \in Writes /\ Tail(q) \in Seq(Writes) /\ Len(Tail(q)) = n
      /\ \A i \in 1 .. n : Tail(q)[i] = q[i + 1]
  BY <1>2
<1>4. PICK t : t = Tail(q)
  OBVIOUS
<1>5. PICK v : v = Applied(r, Head(q))
  OBVIOUS
<1>6. v \in Rows
  BY <1>3, <1>5, AppliedTyped
<1>7. f[0] = r /\ \A i \in 1 .. n + 1 : f[i] = Applied(f[i - 1], q[i])
  BY <1>1, <1>2 DEF WritesBy
<1>8. f[1] = v
  <2>1. 1 \in 1 .. n + 1 /\ 1 - 1 = 0
    OBVIOUS
  <2> QED
    BY <1>3, <1>5, <1>7, <2>1
<1>9. PICK h : h = [i \in 0 .. n |-> f[i + 1]]
  OBVIOUS
<1>10. \A i \in 0 .. n : h[i] = f[i + 1]
  BY <1>9
<1>11. \A i \in 1 .. n : /\ i - 1 \in 0 .. n /\ i \in 0 .. n /\ i + 1 \in 1 .. n + 1
                         /\ (i + 1) - 1 = i /\ (i - 1) + 1 = i
  OBVIOUS
<1>12. \A i \in 1 .. n : h[i] = Applied(h[i - 1], t[i])
  <2> SUFFICES ASSUME NEW i \in 1 .. n
               PROVE  h[i] = Applied(h[i - 1], t[i])
    OBVIOUS
  <2>1. h[i] = f[i + 1] /\ h[i - 1] = f[i] /\ t[i] = q[i + 1]
    BY <1>3, <1>4, <1>10, <1>11
  <2>2. f[i + 1] = Applied(f[i], q[i + 1])
    BY <1>7, <1>11
  <2> QED
    BY <2>1, <2>2
<1>13. h[0] = v /\ h[n] = f[n + 1]
  <2>1. 0 \in 0 .. n /\ n \in 0 .. n /\ 0 + 1 = 1
    OBVIOUS
  <2> QED
    BY <1>8, <1>10, <2>1
<1>14. WritesBy(h, v, t)
  BY <1>3, <1>4, <1>12, <1>13 DEF WritesBy
<1>15. Written(v, t) = h[n]
  BY <1>3, <1>4, <1>6, <1>14, WrittenBy
<1> QED
  BY <1>1, <1>2, <1>4, <1>5, <1>13, <1>15

-----------------------------------------------------------------------------
(* The shape of the state: every variable but the friends and their rows.   *)

Blank ==
  \A a \in Accounts \ online :
    blocked[a] = None /\ box[a] = <<>> /\ held[a] = {} /\ asked[a] = {}
Shape ==
  /\ playing \subseteq online /\ online \subseteq Users /\ online \subseteq Accounts
  /\ blocked \in [Accounts -> [Accounts -> Nat]]
  /\ box \in [Accounts -> Seq(Mails)]
  /\ queue \in [Accounts -> Seq(Writes)]
  /\ held \in [Accounts -> SUBSET Accounts] /\ asked \in [Accounts -> SUBSET Accounts]
  /\ pendingRows \in [Accounts -> SUBSET Accounts]
  /\ honoured \in [Accounts -> SUBSET Accounts]
  /\ rows \in [Accounts -> Rows]
  /\ given \in [Accounts -> Nat] /\ torn \in [Accounts -> Nat]
  /\ cut \subseteq Accounts
  /\ orphans \subseteq Accounts \X (Kinds \ {"gift"}) \X Seconds
  /\ Blank

LEMMA WritesAre ==
  /\ \A b \in Accounts : BlockRow(b) \in Writes /\ UnblockRows(b) \in Writes
  /\ \A m \in Mails : StoreMail(m) \in Writes
  /\ \A kind \in Kinds, at \in Seconds : DeleteMails(kind, at) \in Writes
  /\ AddItem \in Writes
BY DEF Writes

LEMMA MailsAre ==
  ASSUME NEW kind \in Kinds, NEW a \in Accounts, NEW at \in Seconds
  PROVE  Mail(kind, a, at) \in Mails
BY DEF Mail, Mails

LEMMA LoadsAre ==
  ASSUME NEW count \in [Accounts -> Nat], NEW part \in Loads(count)
  PROVE  part \in [Accounts -> Nat] /\ \A b \in Accounts : part[b] <= count[b]
<1>1. CASE Size(count) <= MaxFriends
  BY <1>1 DEF Loads
<1>2. CASE ~(Size(count) <= MaxFriends)
  BY <1>2 DEF Loads, Counts
<1> QED
  BY <1>1, <1>2

LEMMA SettledTyped ==
  ASSUME Shape
  PROVE  \A a \in Accounts : Settled(a) \in Rows
BY WrittenTyped DEF Shape, Settled

LEMMA QueuedTyped ==
  ASSUME Shape, NEW a \in Accounts, NEW writes \in Seq(Writes), Queued(a, writes)
  PROVE  /\ queue' \in [Accounts -> Seq(Writes)] /\ queue'[a] = queue[a] \o writes
         /\ \A b \in Accounts \ {a} : queue'[b] = queue[b]
BY DEF Shape, Queued

\* A write that waits, and what is left after it.
LEMMA HeadOf ==
  ASSUME Shape, NEW a \in Accounts, queue[a] # <<>>
  PROVE  /\ Head(queue[a]) \in Writes /\ Tail(queue[a]) \in Seq(Writes)
         /\ rows[a] \in Rows /\ Applied(rows[a], Head(queue[a])) \in Rows
         /\ Written(Applied(rows[a], Head(queue[a])), Tail(queue[a])) = Settled(a)
<1>1. PICK q \in Seq(Writes) : q = queue[a]
  BY DEF Shape
<1>2. q # <<>>
  BY <1>1
<1>3. Head(q) \in Writes /\ Tail(q) \in Seq(Writes)
  BY <1>2
<1>4. rows[a] \in Rows
  BY DEF Shape
<1>5. PICK r \in Rows : r = rows[a]
  BY <1>4
<1>6. Applied(r, Head(q)) \in Rows
  BY <1>3, AppliedTyped
<1>7. Written(Applied(r, Head(q)), Tail(q)) = Written(r, q)
  BY <1>2, WrittenTail
<1> QED
  BY <1>1, <1>3, <1>5, <1>6, <1>7 DEF Settled

LEMMA PersistShape ==
  ASSUME Shape, NEW a \in Accounts, Persist(a)
  PROVE  Shape'
<1>1. /\ Applied(rows[a], Head(queue[a])) \in Rows /\ Tail(queue[a]) \in Seq(Writes)
      /\ rows' = [rows EXCEPT ![a] = Applied(rows[a], Head(queue[a]))]
      /\ queue' = [queue EXCEPT ![a] = Tail(queue[a])]
  BY HeadOf DEF Persist
<1>2. rows' \in [Accounts -> Rows] /\ queue' \in [Accounts -> Seq(Writes)]
  BY <1>1 DEF Shape
<1>3. UNCHANGED <<session, friendRows, pendingRows, history>>
  BY DEF Persist
<1> QED
  BY <1>2, <1>3 DEF Shape, Blank, session, history

LEMMA CrashShape ==
  ASSUME Shape, Crash
  PROVE  Shape'
<1>1. /\ online' = {} /\ playing' = {} /\ orphans' = {}
      /\ blocked' = [a \in Accounts |-> None]
      /\ box' = [a \in Accounts |-> <<>>] /\ queue' = [a \in Accounts |-> <<>>]
      /\ held' = [a \in Accounts |-> {}] /\ asked' = [a \in Accounts |-> {}]
      /\ honoured' = [a \in Accounts |-> honoured[a] \cap Occurring(rows[a].blocks)]
      /\ torn' = [a \in Accounts |-> IF Opening(a) THEN torn[a] + 1 ELSE torn[a]]
      /\ UNCHANGED <<friendRows, pendingRows, rows, given, cut>>
  BY DEF Crash, database
<1>2. honoured' \in [Accounts -> SUBSET Accounts] /\ torn' \in [Accounts -> Nat]
  BY <1>1 DEF Shape
<1>3. blocked' \in [Accounts -> [Accounts -> Nat]]
  BY <1>1 DEF None
<1>4. /\ box' \in [Accounts -> Seq(Mails)] /\ queue' \in [Accounts -> Seq(Writes)]
      /\ held' \in [Accounts -> SUBSET Accounts] /\ asked' \in [Accounts -> SUBSET Accounts]
  BY <1>1
<1>5. Blank'
  BY <1>1 DEF Blank
<1> QED
  BY <1>1, <1>2, <1>3, <1>4, <1>5 DEF Shape

LEMMA LoginShape ==
  ASSUME Shape, NEW a \in Accounts, Login(a)
  PROVE  Shape'
<1>1. PICK part \in Loads(FriendsOf(a)), list \in Loads(rows[a].blocks) :
        /\ blocked' = [blocked EXCEPT ![a] = list]
        /\ cut' = IF /\ Occurring(part) = Occurring(FriendsOf(a))
                     /\ Occurring(list) = Occurring(rows[a].blocks) THEN cut ELSE cut \cup {a}
  BY DEF Login
<1>2. list \in [Accounts -> Nat]
  <2>1. rows[a].blocks \in [Accounts -> Nat]
    BY RowsOf DEF Shape
  <2> QED
    BY <2>1, LoadsAre
<1>3. blocked' \in [Accounts -> [Accounts -> Nat]] /\ cut' \subseteq Accounts
  BY <1>1, <1>2 DEF Shape
<1>4. box' \in [Accounts -> Seq(Mails)]
  <2>1. rows[a].mails \in Seq(Mails)
    BY RowsOf DEF Shape
  <2> QED
    BY <2>1 DEF Shape, Login
<1>5. /\ online' = online \cup {a} /\ a \in Users
      /\ UNCHANGED <<playing, held, asked, queue, friendRows, pendingRows, rows, given, honoured,
                     orphans, torn>>
  BY DEF Login, database
<1>6. Blank'
  <2>1. \A b \in Accounts \ online' : /\ b # a /\ b \in Accounts \ online
                                     /\ blocked'[b] = blocked[b] /\ box'[b] = box[b]
    BY <1>1, <1>5 DEF Login, Shape
  <2> QED
    BY <1>5, <2>1 DEF Shape, Blank
<1> QED
  BY <1>3, <1>4, <1>5, <1>6 DEF Shape

LEMMA LogoutShape ==
  ASSUME Shape, NEW a \in Accounts, Logout(a)
  PROVE  Shape'
<1>1. /\ online' = online \ {a} /\ playing' = playing \ {a}
      /\ blocked' = [blocked EXCEPT ![a] = None]
      /\ box' = [box EXCEPT ![a] = <<>>]
      /\ held' = [held EXCEPT ![a] = {}] /\ asked' = [asked EXCEPT ![a] = {}]
      /\ orphans' \subseteq orphans
      /\ UNCHANGED <<queue, friendRows, pendingRows, rows, given, honoured, cut, torn>>
  BY DEF Logout, database
<1>2. blocked' \in [Accounts -> [Accounts -> Nat]]
  BY <1>1 DEF Shape, None
<1>3. /\ box' \in [Accounts -> Seq(Mails)]
      /\ held' \in [Accounts -> SUBSET Accounts] /\ asked' \in [Accounts -> SUBSET Accounts]
  BY <1>1 DEF Shape
<1>4. Blank'
  <2> SUFFICES ASSUME NEW b \in Accounts \ online'
               PROVE  /\ blocked'[b] = None /\ box'[b] = <<>>
                      /\ held'[b] = {} /\ asked'[b] = {}
    BY DEF Blank
  <2>1. CASE b = a
    BY <1>1, <2>1 DEF Shape
  <2>2. CASE b # a
    BY <1>1, <2>2 DEF Shape, Blank
  <2> QED
    BY <2>1, <2>2
<1> QED
  BY <1>1, <1>2, <1>3, <1>4 DEF Shape

\* Steps that concern matches, requests and friends.
LEMMA FriendStepsShape ==
  ASSUME Shape, NEW a \in Accounts, NEW b \in Accounts,
         \/ EnterMatch(a) \/ LeaveMatch(a) \/ FetchRequests(a)
         \/ AskOnline(a, b) \/ AskOffline(a, b) \/ Accept(a, b) \/ DeleteFriend(a, b)
  PROVE  Shape'
<1>1. CASE EnterMatch(a)
  BY <1>1 DEF Shape, Blank, EnterMatch, database, history
<1>2. CASE LeaveMatch(a)
  BY <1>2 DEF Shape, Blank, LeaveMatch, database, history
<1>3. CASE FetchRequests(a)
  BY <1>3 DEF Shape, Blank, FetchRequests, database, history
<1>4. CASE AskOnline(a, b)
  <2>1. /\ b \in online
        /\ UNCHANGED <<online, playing, friends, blocked, box, queue, database, history>>
        /\ \/ held' = [held EXCEPT ![b] = @ \cup {a}] /\ asked' = asked
           \/ asked' = [asked EXCEPT ![b] = @ \cup {a}] /\ held' = held
    BY <1>4 DEF AskOnline
  <2>2. held' \in [Accounts -> SUBSET Accounts] /\ asked' \in [Accounts -> SUBSET Accounts]
    <3>1. held \in [Accounts -> SUBSET Accounts] /\ asked \in [Accounts -> SUBSET Accounts]
      BY DEF Shape
    <3>2. /\ [held EXCEPT ![b] = held[b] \cup {a}] \in [Accounts -> SUBSET Accounts]
          /\ [asked EXCEPT ![b] = asked[b] \cup {a}] \in [Accounts -> SUBSET Accounts]
      BY <3>1
    <3> QED
      BY <2>1, <3>1, <3>2
  <2>3. \A c \in Accounts : c # b => held'[c] = held[c] /\ asked'[c] = asked[c]
    BY <2>1 DEF Shape
  <2> QED
    BY <2>1, <2>2, <2>3 DEF Shape, Blank, database, history
<1>5. CASE AskOffline(a, b)
  BY <1>5 DEF Shape, Blank, AskOffline, session, database, history
<1>6. CASE Accept(a, b)
  <2>1. a \in online
    BY <1>6 DEF Accept
  <2> QED
    BY <1>6, <2>1 DEF Shape, Blank, Accept, database, history
<1>7. CASE DeleteFriend(a, b)
  BY <1>7 DEF Shape, Blank, DeleteFriend, database, history
<1> QED
  BY <1>1, <1>2, <1>3, <1>4, <1>5, <1>6, <1>7

\* Blocks, mails and gifts: a write of a player who is online waits.
LEMMA BlocksShape ==
  ASSUME Shape, NEW a \in Accounts, NEW b \in Accounts,
         BlockOnline(a, b) \/ BlockOffline(a, b) \/ Unblock(a, b)
  PROVE  Shape'
<1>0. /\ BlockRow(b) \in Writes /\ UnblockRows(b) \in Writes
      /\ <<BlockRow(b)>> \in Seq(Writes) /\ <<UnblockRows(b)>> \in Seq(Writes)
      /\ \A c \in Accounts : blocked[c] \in [Accounts -> Nat]
  BY WritesAre DEF Shape
<1>1. a \in online
  BY DEF BlockOnline, BlockOffline, Unblock, Shape, Blank, None
<1>2. ASSUME Blocking(a, b)
      PROVE  /\ blocked' \in [Accounts -> [Accounts -> Nat]]
             /\ queue' \in [Accounts -> Seq(Writes)]
             /\ honoured' \in [Accounts -> SUBSET Accounts]
             /\ \A c \in Accounts \ {a} : blocked'[c] = blocked[c] /\ queue'[c] = queue[c]
  <2>1. blocked' = [blocked EXCEPT ![a][b] = @ + 1]
        /\ honoured' = [honoured EXCEPT ![a] = @ \cup {b}] /\ Queued(a, <<BlockRow(b)>>)
    BY <1>2 DEF Blocking
  <2>2. [blocked[a] EXCEPT ![b] = blocked[a][b] + 1] \in [Accounts -> Nat]
    BY <1>0
  <2>3. /\ blocked' \in [Accounts -> [Accounts -> Nat]]
        /\ honoured' \in [Accounts -> SUBSET Accounts]
        /\ \A c \in Accounts \ {a} : blocked'[c] = blocked[c]
    BY <1>0, <2>1, <2>2 DEF Shape
  <2>4. queue' \in [Accounts -> Seq(Writes)] /\ \A c \in Accounts \ {a} : queue'[c] = queue[c]
    BY <1>0, <2>1, QueuedTyped
  <2> QED
    BY <2>3, <2>4
<1>3. CASE BlockOnline(a, b)
  BY <1>1, <1>2, <1>3 DEF Shape, Blank, BlockOnline
<1>4. CASE BlockOffline(a, b)
  <2>1. rows' \in [Accounts -> Rows]
    <3>1. rows' = [rows EXCEPT ![a].blocks[b] = @ + 1]
      BY <1>4 DEF BlockOffline
    <3>2. rows[a] \in Rows
      BY DEF Shape
    <3>3. [rows[a] EXCEPT !.blocks[b] = @ + 1] \in Rows
      BY <3>2, BlockedRow
    <3> QED
      BY <3>1, <3>3 DEF Shape
  <2>2. Blocking(a, b) \/ UNCHANGED <<blocked, queue, honoured>>
    BY <1>4 DEF BlockOffline
  <2>3. UNCHANGED <<online, playing, box, held, asked, pendingRows, given, cut, orphans, torn>>
    BY <1>4 DEF BlockOffline
  <2>4. CASE Blocking(a, b)
    BY <1>1, <1>2, <2>1, <2>3, <2>4 DEF Shape, Blank
  <2>5. CASE UNCHANGED <<blocked, queue, honoured>>
    BY <2>1, <2>3, <2>5 DEF Shape, Blank
  <2> QED
    BY <2>2, <2>4, <2>5
<1>5. CASE Unblock(a, b)
  <2>1. blocked' = [blocked EXCEPT ![a][b] = 0]
        /\ honoured' = [honoured EXCEPT ![a] = @ \ {b}] /\ Queued(a, <<UnblockRows(b)>>)
        /\ UNCHANGED <<online, playing, box, held, asked, pendingRows, rows, given, cut, orphans, torn>>
    BY <1>5 DEF Unblock, database
  <2>2. [blocked[a] EXCEPT ![b] = 0] \in [Accounts -> Nat]
    BY <1>0
  <2>3. /\ blocked' \in [Accounts -> [Accounts -> Nat]]
        /\ honoured' \in [Accounts -> SUBSET Accounts]
        /\ \A c \in Accounts \ {a} : blocked'[c] = blocked[c]
    BY <1>0, <2>1, <2>2 DEF Shape
  <2>4. queue' \in [Accounts -> Seq(Writes)] /\ \A c \in Accounts \ {a} : queue'[c] = queue[c]
    BY <1>0, <2>1, QueuedTyped
  <2>5. UNCHANGED <<online, playing, box, held, asked, pendingRows, rows, given, cut, orphans, torn>>
    BY <2>1
  <2>6. Blank'
    <3> SUFFICES ASSUME NEW c \in Accounts \ online'
                 PROVE  /\ blocked'[c] = None /\ box'[c] = <<>>
                        /\ held'[c] = {} /\ asked'[c] = {}
      BY DEF Blank
    <3>1. c \notin online /\ c # a
      BY <1>1, <2>5
    <3>2. blocked'[c] = blocked[c] /\ queue'[c] = queue[c]
      BY <2>3, <2>4, <3>1
    <3> QED
      BY <2>5, <3>1, <3>2 DEF Shape, Blank
  <2> QED
    BY <2>3, <2>4, <2>5, <2>6 DEF Shape
<1> QED
  BY <1>3, <1>4, <1>5

LEMMA FirstIs ==
  ASSUME NEW s \in Seq(Mails), NEW kind, NEW at, \E k \in DOMAIN s : s[k] \in Those(kind, at)
  PROVE  First(s, kind, at) \in DOMAIN s /\ s[First(s, kind, at)] \in Those(kind, at)
<1> DEFINE T == {k \in DOMAIN s : s[k] \in Those(kind, at)}
<1>1. PICK k \in T : \A j \in T : k <= j
  <2>1. T \in SUBSET Nat /\ T # {}
    OBVIOUS
  <2> HIDE DEF T
  <2> QED
    BY <2>1, LeastNatural
<1>2. \A j \in 1 .. k - 1 : s[j] \notin Those(kind, at)
  BY <1>1
<1> QED
  BY <1>1, <1>2 DEF First

LEMMA RemoveAtTyped ==
  ASSUME NEW D, NEW s \in Seq(D), NEW k \in DOMAIN s
  PROVE  RemoveAt(s, k) \in Seq(D)
<1>1. Len(s) \in Nat /\ k \in 1 .. Len(s)
  OBVIOUS
<1>2. SubSeq(s, 1, k - 1) \in Seq(D) /\ SubSeq(s, k + 1, Len(s)) \in Seq(D)
  BY <1>1
<1> QED
  BY <1>2 DEF RemoveAt

\* One element more at the end of one sequence of f.
OneAppended(f, a, x, S) ==
  LET g == Appended(f, a, x)
  IN  /\ g \in [Accounts -> Seq(S)] /\ g[a] = Append(f[a], x)
      /\ \A c \in Accounts \ {a} : g[c] = f[c]

LEMMA AppendedIs ==
  ASSUME NEW S, NEW f \in [Accounts -> Seq(S)], NEW a \in Accounts, NEW x \in S
  PROVE  OneAppended(f, a, x, S)
<1>1. Append(f[a], x) \in Seq(S)
  OBVIOUS
<1> QED
  BY <1>1 DEF OneAppended, Appended

\* The mail that is received is stored before the one that is sent.
BothAppended(f, a, b, x, y, S) ==
  LET g == Appended(Appended(f, b, y), a, x)
  IN  /\ g \in [Accounts -> Seq(S)]
      /\ g[a] = Append(IF a = b THEN Append(f[b], y) ELSE f[a], x)
      /\ a # b => g[b] = Append(f[b], y)
      /\ \A c \in Accounts \ {a, b} : g[c] = f[c]

LEMMA BothAppendedIs ==
  ASSUME NEW S, NEW f \in [Accounts -> Seq(S)], NEW a \in Accounts, NEW b \in Accounts,
         NEW x \in S, NEW y \in S
  PROVE  BothAppended(f, a, b, x, y, S)
<1>1. PICK h : h = Appended(f, b, y)
  OBVIOUS
<1>2. OneAppended(f, b, y, S)
  BY AppendedIs
<1>3. /\ h \in [Accounts -> Seq(S)] /\ h[b] = Append(f[b], y)
      /\ \A c \in Accounts \ {b} : h[c] = f[c]
  BY <1>1, <1>2 DEF OneAppended
<1>4. OneAppended(h, a, x, S)
  BY <1>3, AppendedIs
<1>5. PICK g : g = Appended(h, a, x)
  OBVIOUS
<1>6. /\ g \in [Accounts -> Seq(S)] /\ g[a] = Append(h[a], x)
      /\ \A c \in Accounts \ {a} : g[c] = h[c]
  BY <1>4, <1>5 DEF OneAppended
<1>7. g = Appended(Appended(f, b, y), a, x)
  BY <1>1, <1>5
<1> QED
  BY <1>3, <1>6, <1>7 DEF BothAppended

LEMMA MailsShape ==
  ASSUME Shape, NEW a \in Accounts, NEW b \in Accounts, NEW at \in Seconds,
         MailOnline(a, b, at) \/ MailOffline(a, b, at)
  PROVE  Shape'
<1> DEFINE x == Mail("sent", b, at)
           y == Mail("received", a, at)
<1>1. /\ x \in Mails /\ y \in Mails /\ StoreMail(x) \in Writes /\ StoreMail(y) \in Writes
      /\ <<StoreMail(x)>> \in Seq(Writes)
  BY MailsAre, WritesAre DEF Kinds
<1>2. /\ \A c \in Accounts : box[c] \in Seq(Mails) /\ queue[c] \in Seq(Writes)
      /\ \A c \in Accounts : rows[c] \in Rows /\ rows[c].mails \in Seq(Mails)
  BY RowsOf DEF Shape
<1> HIDE DEF x, y
<1>3. CASE MailOnline(a, b, at)
  <2>1. /\ a \in online /\ b \in online
        /\ box' = Appended(Appended(box, b, y), a, x)
        /\ queue' = Appended(Appended(queue, b, StoreMail(y)), a, StoreMail(x))
        /\ UNCHANGED <<online, playing, friends, blocked, held, asked, database, history>>
    BY <1>3 DEF MailOnline, x, y
  <2>2. box \in [Accounts -> Seq(Mails)] /\ queue \in [Accounts -> Seq(Writes)]
    BY DEF Shape
  <2>3. /\ BothAppended(box, a, b, x, y, Mails)
        /\ BothAppended(queue, a, b, StoreMail(x), StoreMail(y), Writes)
    BY <1>1, <2>2, BothAppendedIs
  <2>4. box' \in [Accounts -> Seq(Mails)] /\ \A c \in Accounts \ {a, b} : box'[c] = box[c]
    BY <2>1, <2>3 DEF BothAppended
  <2>5. queue' \in [Accounts -> Seq(Writes)] /\ \A c \in Accounts \ {a, b} : queue'[c] = queue[c]
    BY <2>1, <2>3 DEF BothAppended
  <2>6. \A c \in Accounts : c \notin {a, b} => box'[c] = box[c] /\ queue'[c] = queue[c]
    BY <2>4, <2>5
  <2> QED
    BY <2>1, <2>4, <2>5, <2>6 DEF Shape, Blank, database, history
<1>4. CASE MailOffline(a, b, at)
  <2>1. /\ a \in online
        /\ rows' = [rows EXCEPT ![b].mails = Append(@, y)]
        /\ box' = [box EXCEPT ![a] = Append(@, x)]
        /\ Queued(a, <<StoreMail(x)>>)
        /\ UNCHANGED <<online, playing, friends, blocked, held, asked, friendRows, pendingRows,
                       history>>
    BY <1>4 DEF MailOffline, x, y
  <2>2. box' \in [Accounts -> Seq(Mails)] /\ \A c \in Accounts \ {a} : box'[c] = box[c]
    BY <1>1, <1>2, <2>1 DEF Shape
  <2>3. queue' \in [Accounts -> Seq(Writes)] /\ \A c \in Accounts \ {a} : queue'[c] = queue[c]
    BY <1>1, <2>1, QueuedTyped
  <2>4. rows' \in [Accounts -> Rows]
    <3>1. [rows[b] EXCEPT !.mails = Append(@, y)] \in Rows
      BY <1>1, <1>2, MailedRow
    <3> QED
      BY <2>1, <3>1 DEF Shape
  <2> QED
    BY <2>1, <2>2, <2>3, <2>4 DEF Shape, Blank, history
<1> QED
  BY <1>3, <1>4

LEMMA DeleteMailShape ==
  ASSUME Shape, NEW a \in Accounts, NEW kind \in Kinds \ {"gift"}, NEW at \in Seconds,
         DeleteMail(a, kind, at)
  PROVE  Shape'
<1>1. /\ \E k \in DOMAIN box[a] : box[a][k] \in Those(kind, at)
      /\ box' = [box EXCEPT ![a] = RemoveAt(@, First(@, kind, at))]
      /\ Queued(a, <<DeleteMails(kind, at)>>)
      /\ orphans' \in {orphans \cup {<<a, kind, at>>}, orphans \ {<<a, kind, at>>}}
      /\ UNCHANGED <<online, playing, friends, blocked, held, asked, database, given,
                     honoured, cut, torn>>
  BY DEF DeleteMail
<1>2. box[a] \in Seq(Mails) /\ <<DeleteMails(kind, at)>> \in Seq(Writes)
  BY WritesAre DEF Shape
<1>3. RemoveAt(box[a], First(box[a], kind, at)) \in Seq(Mails)
  BY <1>1, <1>2, FirstIs, RemoveAtTyped
<1>4. box' \in [Accounts -> Seq(Mails)] /\ \A c \in Accounts \ {a} : box'[c] = box[c]
  BY <1>1, <1>3 DEF Shape
<1>5. queue' \in [Accounts -> Seq(Writes)] /\ \A c \in Accounts \ {a} : queue'[c] = queue[c]
  BY <1>1, <1>2, QueuedTyped
<1>6. a \in online
  BY <1>1 DEF Shape, Blank
<1>7. orphans' \subseteq Accounts \X (Kinds \ {"gift"}) \X Seconds
  BY <1>1 DEF Shape
<1> QED
  BY <1>1, <1>4, <1>5, <1>6, <1>7 DEF Shape, Blank, database

LEMMA GiftShape ==
  ASSUME Shape, NEW a \in Accounts, NEW at \in Seconds, Gift(a, at)
  PROVE  Shape'
<1> DEFINE x == Mail("gift", a, at)
<1>1. x \in Mails /\ StoreMail(x) \in Writes /\ <<StoreMail(x)>> \in Seq(Writes)
  BY MailsAre, WritesAre DEF Kinds
<1>2. rows[a] \in Rows /\ box[a] \in Seq(Mails)
  BY DEF Shape
<1> HIDE DEF x
<1>3. given' \in [Accounts -> Nat]
  BY DEF Gift, Shape
<1>4. UNCHANGED <<online, playing, friends, blocked, held, asked, friendRows, pendingRows,
                 honoured, cut, orphans, torn>>
  BY DEF Gift
<1>5. CASE /\ a \in online
           /\ box' = [box EXCEPT ![a] = Append(@, x)]
           /\ Queued(a, <<StoreMail(x)>>)
           /\ rows' = rows
  <2>1. Append(box[a], x) \in Seq(Mails)
    BY <1>1, <1>2
  <2>2. box' \in [Accounts -> Seq(Mails)] /\ \A c \in Accounts \ {a} : box'[c] = box[c]
    BY <1>5, <2>1 DEF Shape
  <2>3. queue' \in [Accounts -> Seq(Writes)] /\ \A c \in Accounts \ {a} : queue'[c] = queue[c]
    BY <1>1, <1>5, QueuedTyped
  <2> QED
    BY <1>3, <1>4, <1>5, <2>2, <2>3 DEF Shape, Blank
<1>6. CASE /\ rows' = [rows EXCEPT ![a].mails = Append(@, x)]
           /\ UNCHANGED <<box, queue>>
  <2>1. [rows[a] EXCEPT !.mails = Append(@, x)] \in Rows
    BY <1>1, <1>2, MailedRow
  <2>2. rows' \in [Accounts -> Rows]
    BY <1>6, <2>1 DEF Shape
  <2> QED
    BY <1>3, <1>4, <1>6, <2>2 DEF Shape, Blank
<1> QED
  BY <1>5, <1>6 DEF Gift, x

LEMMA OpenGiftShape ==
  ASSUME Shape, NEW a \in Accounts, NEW at \in Seconds, OpenGift(a, at)
  PROVE  Shape'
<1>1. /\ \E k \in DOMAIN box[a] : box[a][k] \in Those("gift", at)
      /\ box' = [box EXCEPT ![a] = Picked(@, Mails \ Those("gift", at))]
      /\ Queued(a, <<AddItem, DeleteMails("gift", at)>>)
      /\ UNCHANGED <<online, playing, friends, blocked, held, asked, database, history>>
  BY DEF OpenGift
<1>2. box[a] \in Seq(Mails) /\ <<AddItem, DeleteMails("gift", at)>> \in Seq(Writes)
  BY WritesAre DEF Shape, Kinds
<1>3. Picked(box[a], Mails \ Those("gift", at)) \in Seq(Mails)
  BY <1>2, PickedType
<1>4. box' \in [Accounts -> Seq(Mails)] /\ \A c \in Accounts \ {a} : box'[c] = box[c]
  BY <1>1, <1>3 DEF Shape
<1>5. queue' \in [Accounts -> Seq(Writes)] /\ \A c \in Accounts \ {a} : queue'[c] = queue[c]
  BY <1>1, <1>2, QueuedTyped
<1>6. a \in online
  BY <1>1 DEF Shape, Blank
<1> QED
  BY <1>1, <1>4, <1>5, <1>6 DEF Shape, Blank, database, history

LEMMA ShapeStep ==
  ASSUME Shape, [Next]_vars
  PROVE  Shape'
<1>1. CASE Crash
  BY <1>1, CrashShape
<1>2. ASSUME NEW a \in Accounts, Persist(a) \/ Login(a) \/ Logout(a)
      PROVE  Shape'
  BY <1>2, PersistShape, LoginShape, LogoutShape
<1>3. ASSUME NEW a \in Accounts, EnterMatch(a) \/ LeaveMatch(a) \/ FetchRequests(a)
      PROVE  Shape'
  BY <1>3, FriendStepsShape
<1>4. ASSUME NEW a \in Accounts, NEW b \in Accounts,
             AskOnline(a, b) \/ AskOffline(a, b) \/ Accept(a, b) \/ DeleteFriend(a, b)
      PROVE  Shape'
  BY <1>4, FriendStepsShape
<1>5. ASSUME NEW a \in Accounts, NEW b \in Accounts,
             BlockOnline(a, b) \/ BlockOffline(a, b) \/ Unblock(a, b)
      PROVE  Shape'
  BY <1>5, BlocksShape
<1>6. ASSUME NEW a \in Accounts, NEW at \in Seconds, Gift(a, at) \/ OpenGift(a, at)
      PROVE  Shape'
  BY <1>6, GiftShape, OpenGiftShape
<1>7. ASSUME NEW a \in Accounts, NEW at \in Seconds, NEW kind \in Kinds \ {"gift"},
             DeleteMail(a, kind, at)
      PROVE  Shape'
  BY <1>7, DeleteMailShape
<1>8. ASSUME NEW a \in Accounts, NEW at \in Seconds, NEW b \in Accounts,
             MailOnline(a, b, at) \/ MailOffline(a, b, at)
      PROVE  Shape'
  BY <1>8, MailsShape
<1>9. CASE UNCHANGED vars
  BY <1>9 DEF Shape, Blank, vars
<1> QED
  BY <1>1, <1>2, <1>3, <1>4, <1>5, <1>6, <1>7, <1>8, <1>9 DEF Next

LEMMA InitShape == Init => Shape
<1> SUFFICES ASSUME Init
             PROVE  Shape
  OBVIOUS
<1>1. None \in [Accounts -> Nat] /\ <<>> \in Seq(Mails) /\ <<>> \in Seq(Writes)
  BY DEF None
<1>2. [blocks |-> None, mails |-> <<>>, items |-> 0] \in Rows
  BY <1>1 DEF Rows
<1> QED
  BY <1>1, <1>2 DEF Init, Shape, Blank

-----------------------------------------------------------------------------
(* Friends.  A list has no id without rows, a session that one of two sees  *)
(* is seen by the other, a list that was not cut has every user of the rows, *)
(* and the rows are the same for both.                                      *)

Lists == UNION {[S -> BOOLEAN] : S \in SUBSET Accounts}
RowsMutual ==
  /\ friendRows \in [Accounts -> [Accounts -> Counts]]
  /\ \A a, b \in Accounts : friendRows[a][b] = friendRows[b][a]
ListsBacked ==
  /\ friends \in [Accounts -> Lists]
  /\ \A a \in Accounts : \A b \in DOMAIN friends[a] : friendRows[a][b] > 0
  /\ \A a \in Accounts \ online : friends[a] = NoFriends
SeenMutually ==
  \A a \in Accounts : \A b \in DOMAIN friends[a] :
    friends[a][b] => b \in online /\ a \in DOMAIN friends[b] /\ friends[b][a]
ListsWhole ==
  \A a \in online \ cut : \A b \in Users :
    friendRows[a][b] > 0 =>
      b \in DOMAIN friends[a] /\ (b \in online \ cut => friends[a][b])
FriendsInv == RowsMutual /\ ListsBacked /\ SeenMutually /\ ListsWhole

LEMMA ListsAre ==
  /\ \A f \in Lists : DOMAIN f \subseteq Accounts /\ \A b \in DOMAIN f : f[b] \in BOOLEAN
  /\ \A S \in SUBSET Accounts : \A f \in [S -> BOOLEAN] : f \in Lists
  /\ NoFriends \in Lists /\ DOMAIN NoFriends = {}
<1>1. \A f \in Lists : DOMAIN f \subseteq Accounts /\ \A b \in DOMAIN f : f[b] \in BOOLEAN
  BY DEF Lists
<1>2. \A S \in SUBSET Accounts : \A f \in [S -> BOOLEAN] : f \in Lists
  BY DEF Lists
<1>3. NoFriends \in [{} -> BOOLEAN] /\ DOMAIN NoFriends = {}
  BY DEF NoFriends
<1> QED
  BY <1>1, <1>2, <1>3

LEMMA WithIs ==
  ASSUME NEW f \in Lists, NEW b \in Accounts, NEW v \in BOOLEAN
  PROVE  /\ With(f, b, v) \in Lists /\ DOMAIN With(f, b, v) = DOMAIN f \cup {b}
         /\ With(f, b, v)[b] = v
         /\ \A c \in DOMAIN f : c # b => With(f, b, v)[c] = f[c]
<1>1. /\ DOMAIN With(f, b, v) = DOMAIN f \cup {b} /\ With(f, b, v)[b] = v
      /\ \A c \in DOMAIN f : c # b => With(f, b, v)[c] = f[c]
  BY DEF With
<1>2. With(f, b, v) \in [DOMAIN f \cup {b} -> BOOLEAN]
  BY ListsAre DEF With
<1>3. DOMAIN f \cup {b} \in SUBSET Accounts
  BY ListsAre
<1> QED
  BY <1>1, <1>2, <1>3, ListsAre

\* What a session that begins or ends leaves of the lists.
LEMMA ToldIs ==
  ASSUME NEW a \in Accounts, NEW others, NEW v, NEW own,
         friends' = [Told(friends, others, a, v) EXCEPT ![a] = own]
  PROVE  /\ friends' = [b \in Accounts |-> friends'[b]] /\ friends'[a] = own
         /\ \A b \in Accounts \ {a} :
              friends'[b] = IF b \in others THEN With(friends[b], a, v) ELSE friends[b]
<1>1. friends' = [b \in Accounts |->
                    IF b = a THEN own
                    ELSE IF b \in others THEN With(friends[b], a, v) ELSE friends[b]]
  BY DEF Told
<1> QED
  BY <1>1

FriendVars == <<online, friends, friendRows, cut>>

LEMMA FriendsUnchanged ==
  ASSUME FriendsInv, UNCHANGED FriendVars
  PROVE  FriendsInv'
BY DEF FriendsInv, RowsMutual, ListsBacked, SeenMutually, ListsWhole, FriendVars

LEMMA CrashFriends ==
  ASSUME Shape, FriendsInv, Crash
  PROVE  FriendsInv'
<1>1. /\ online' = {} /\ friends' = [a \in Accounts |-> NoFriends]
      /\ UNCHANGED <<friendRows, cut>>
  BY DEF Crash, database
<1>2. ListsBacked' /\ SeenMutually'
  <2>1. \A a \in Accounts : friends'[a] = NoFriends
    BY <1>1
  <2>2. friends' \in [Accounts -> Lists]
    BY <1>1, ListsAre
  <2> QED
    BY <2>1, <2>2, ListsAre DEF ListsBacked, SeenMutually
<1> QED
  BY <1>1, <1>2 DEF FriendsInv, RowsMutual, ListsWhole

LEMMA LoginFriends ==
  ASSUME Shape, FriendsInv, NEW a \in Accounts, Login(a)
  PROVE  FriendsInv'
<1>1. PICK part \in Loads(FriendsOf(a)) :
        /\ friends' = [Told(friends, Occurring(part) \cap online, a, TRUE)
                         EXCEPT ![a] = [b \in Occurring(part) |-> b \in online']]
        /\ (cut' = cut /\ Occurring(part) = Occurring(FriendsOf(a))) \/ cut' = cut \cup {a}
  BY DEF Login
<1> DEFINE P == Occurring(part)
<1>2. /\ a \notin online /\ a \in Users /\ online' = online \cup {a}
      /\ friendRows' = friendRows /\ online' \subseteq Users
  BY DEF Login, database, Shape
<1>3. /\ \A b, c \in Accounts : friendRows[b][c] = friendRows[c][b] /\ friendRows[b][c] \in Nat
      /\ \A b \in Users : b \in Accounts
  BY AccountsAssumption DEF FriendsInv, RowsMutual, Counts
<1>4. P \subseteq Accounts /\ \A b \in P : friendRows[a][b] > 0
  <2>1. /\ FriendsOf(a) \in [Accounts -> Nat]
        /\ \A b \in Accounts : FriendsOf(a)[b] > 0 => friendRows[a][b] > 0
    BY <1>3 DEF FriendsOf
  <2>2. part \in [Accounts -> Nat] /\ \A b \in Accounts : part[b] <= FriendsOf(a)[b]
    BY <2>1, LoadsAre
  <2>3. \A b \in Accounts : part[b] > 0 => FriendsOf(a)[b] > 0
    <3> SUFFICES ASSUME NEW b \in Accounts, part[b] > 0
                 PROVE  FriendsOf(a)[b] > 0
      OBVIOUS
    <3>1. part[b] \in Nat /\ FriendsOf(a)[b] \in Nat /\ part[b] <= FriendsOf(a)[b]
      BY <2>1, <2>2
    <3> QED
      BY <3>1
  <2> QED
    BY <2>1, <2>3 DEF Occurring
<1>5. a \notin cut' => \A b \in Users : friendRows[a][b] > 0 => b \in P
  BY <1>1, <1>3 DEF Occurring, FriendsOf
<1>6. friends \in [Accounts -> Lists]
  BY DEF FriendsInv, ListsBacked
<1>7. PICK own : own = [b \in P |-> b \in online']
  OBVIOUS
<1>8. PICK others : others = P \cap online
  OBVIOUS
<1>9. friends' = [Told(friends, others, a, TRUE) EXCEPT ![a] = own]
  BY <1>1, <1>7, <1>8
<1> HIDE DEF P
<1>10. /\ friends' = [b \in Accounts |-> friends'[b]] /\ friends'[a] = own
       /\ \A b \in Accounts \ {a} :
            friends'[b] = IF b \in others THEN With(friends[b], a, TRUE) ELSE friends[b]
  BY <1>9, ToldIs
<1>11. own \in Lists /\ DOMAIN own = P /\ \A b \in P : own[b] = (b \in online')
  <2>1. own \in [P -> BOOLEAN] /\ DOMAIN own = P /\ \A b \in P : own[b] = (b \in online')
    BY <1>7
  <2> QED
    BY <1>4, <2>1, ListsAre
<1>12. \A b \in Accounts \ {a} : b \in others =>
        /\ friends'[b] \in Lists /\ DOMAIN friends'[b] = DOMAIN friends[b] \cup {a}
        /\ friends'[b][a]
        /\ \A c \in DOMAIN friends[b] : c # a => friends'[b][c] = friends[b][c]
  <2> SUFFICES ASSUME NEW b \in Accounts \ {a}, b \in others
               PROVE  /\ friends'[b] \in Lists /\ DOMAIN friends'[b] = DOMAIN friends[b] \cup {a}
                      /\ friends'[b][a]
                      /\ \A c \in DOMAIN friends[b] : c # a => friends'[b][c] = friends[b][c]
    OBVIOUS
  <2>1. friends[b] \in Lists /\ friends'[b] = With(friends[b], a, TRUE)
    BY <1>6, <1>10
  <2>2. With(friends[b], a, TRUE) \in Lists
    BY <2>1, WithIs
  <2>3. friends'[b] = [c \in DOMAIN friends[b] \cup {a} |-> IF c = a THEN TRUE ELSE friends[b][c]]
    BY <2>1 DEF With
  <2> QED
    BY <2>1, <2>2, <2>3
<1>13. \A b \in Accounts \ {a} : b \notin others => friends'[b] = friends[b]
  BY <1>10
<1>14. ListsBacked'
  <2>1. \A b \in Accounts : friends'[b] \in Lists
    BY <1>6, <1>10, <1>11, <1>12, <1>13
  <2>3. friends' \in [Accounts -> Lists]
    <3>1. friends' = [b \in Accounts |-> friends'[b]]
      BY <1>10
    <3> QED
      BY <2>1, <3>1
  <2>4. \A b \in Accounts : \A c \in DOMAIN friends'[b] : friendRows[b][c] > 0
    <3> SUFFICES ASSUME NEW b \in Accounts, NEW c \in DOMAIN friends'[b]
                 PROVE  friendRows[b][c] > 0
      OBVIOUS
    <3>1. CASE b = a
      BY <1>4, <1>10, <1>11, <3>1
    <3>2. CASE b # a /\ c # a
      BY <1>12, <1>13, <3>2 DEF FriendsInv, ListsBacked
    <3>3. CASE b # a /\ c = a
      <4>1. CASE b \in P
        BY <1>3, <1>4, <3>3, <4>1
      <4>2. CASE b \notin P
        BY <1>8, <1>13, <3>3, <4>2 DEF FriendsInv, ListsBacked
      <4> QED
        BY <4>1, <4>2
    <3> QED
      BY <3>1, <3>2, <3>3
  <2>5. \A b \in Accounts \ online' : friends'[b] = NoFriends
    BY <1>2, <1>8, <1>13 DEF FriendsInv, ListsBacked
  <2> QED
    BY <1>2, <2>3, <2>4, <2>5 DEF ListsBacked
<1>15. SeenMutually'
  <2> SUFFICES ASSUME NEW b \in Accounts, NEW c \in DOMAIN friends'[b], friends'[b][c]
               PROVE  c \in online' /\ b \in DOMAIN friends'[c] /\ friends'[c][b]
    BY DEF SeenMutually
  <2>1. CASE b = a
    <3>1. c \in P /\ c \in online' /\ c \in Accounts
      BY <1>4, <1>10, <1>11, <2>1
    <3>2. CASE c = a
      BY <1>10, <1>11, <2>1, <3>1, <3>2
    <3>3. CASE c # a
      BY <1>2, <1>8, <1>12, <2>1, <3>1, <3>3
    <3> QED
      BY <3>2, <3>3
  <2>2. CASE b # a /\ b \in others /\ c = a
    BY <1>2, <1>8, <1>10, <1>11, <2>2
  <2>3. CASE b # a /\ c = a /\ b \notin others
    BY <1>2, <1>13, <2>3 DEF FriendsInv, SeenMutually
  <2>4. CASE b # a /\ c # a
    <3>1. c \in DOMAIN friends[b] /\ friends[b][c]
      BY <1>12, <1>13, <2>4
    <3>2. c \in online /\ b \in DOMAIN friends[c] /\ friends[c][b] /\ c \in Accounts
      BY <3>1 DEF FriendsInv, SeenMutually, Shape
    <3> QED
      BY <1>2, <1>12, <1>13, <2>4, <3>2
  <2> QED
    BY <2>1, <2>2, <2>3, <2>4
<1>16. ListsWhole'
  <2> SUFFICES ASSUME NEW b \in online' \ cut', NEW c \in Users, friendRows[b][c] > 0
               PROVE  c \in DOMAIN friends'[b] /\ (c \in online' \ cut' => friends'[b][c])
    BY <1>2 DEF ListsWhole
  <2>1. b \notin cut /\ (c \notin cut' => c \notin cut) /\ b \in Accounts /\ c \in Accounts
        /\ b \in Users
    BY <1>1, <1>2, <1>3
  <2>3. CASE b = a
    <3>1. c \in P
      BY <1>5, <2>3
    <3> QED
      BY <1>10, <1>11, <2>3, <3>1
  <2>4. CASE b # a /\ c = a
    <3>1. b \in online /\ c \in DOMAIN friends[b]
      BY <1>2, <2>1, <2>4 DEF FriendsInv, ListsWhole
    <3>2. CASE c \in cut'
      BY <1>12, <1>13, <2>1, <2>4, <3>1, <3>2
    <3>3. CASE c \notin cut'
      <4>1. b \in P
        BY <1>3, <1>5, <2>1, <2>4, <3>3
      <4> QED
        BY <1>8, <1>12, <2>1, <2>4, <3>1, <4>1
    <3> QED
      BY <3>2, <3>3
  <2>5. CASE b # a /\ c # a
    <3>1. b \in online /\ c \in DOMAIN friends[b] /\ (c \in online \ cut => friends[b][c])
      BY <1>2, <2>1, <2>5 DEF FriendsInv, ListsWhole
    <3> QED
      BY <1>2, <1>12, <1>13, <2>1, <2>5, <3>1
  <2> QED
    BY <2>3, <2>4, <2>5
<1> QED
  BY <1>2, <1>14, <1>15, <1>16 DEF FriendsInv, RowsMutual

LEMMA LogoutFriends ==
  ASSUME Shape, FriendsInv, NEW a \in Accounts, Logout(a)
  PROVE  FriendsInv'
<1>1. PICK others : others = {b \in DOMAIN friends[a] : friends[a][b]}
  OBVIOUS
<1>2. /\ online' = online \ {a}
      /\ UNCHANGED <<friendRows, cut>>
      /\ friends' = [Told(friends, others, a, FALSE) EXCEPT ![a] = NoFriends]
  BY <1>1 DEF Logout, database
<1>3. /\ friends' = [b \in Accounts |-> friends'[b]] /\ friends'[a] = NoFriends
      /\ \A b \in Accounts \ {a} :
           friends'[b] = IF b \in others THEN With(friends[b], a, FALSE) ELSE friends[b]
  BY <1>2, ToldIs
<1>4. friends \in [Accounts -> Lists] /\ NoFriends \in Lists /\ DOMAIN NoFriends = {}
  BY ListsAre DEF FriendsInv, ListsBacked
<1>5. \A b \in Accounts \ {a} : b \in others => a \in DOMAIN friends[b] /\ friends[b][a]
  BY <1>1 DEF FriendsInv, SeenMutually
<1>6. \A b \in Accounts \ {a} : b \in others =>
        /\ friends'[b] \in Lists /\ DOMAIN friends'[b] = DOMAIN friends[b]
        /\ ~friends'[b][a]
        /\ \A c \in DOMAIN friends[b] : c # a => friends'[b][c] = friends[b][c]
  <2> SUFFICES ASSUME NEW b \in Accounts \ {a}, b \in others
               PROVE  /\ friends'[b] \in Lists /\ DOMAIN friends'[b] = DOMAIN friends[b]
                      /\ ~friends'[b][a]
                      /\ \A c \in DOMAIN friends[b] : c # a => friends'[b][c] = friends[b][c]
    OBVIOUS
  <2>1. friends[b] \in Lists /\ friends'[b] = With(friends[b], a, FALSE)
    BY <1>3, <1>4
  <2>2. With(friends[b], a, FALSE) \in Lists
    BY <2>1, WithIs
  <2>3. friends'[b] = [c \in DOMAIN friends[b] \cup {a} |-> IF c = a THEN FALSE ELSE friends[b][c]]
    BY <2>1 DEF With
  <2>4. DOMAIN friends[b] \cup {a} = DOMAIN friends[b]
    BY <1>5
  <2> QED
    BY <2>1, <2>2, <2>3, <2>4
<1>7. \A b \in Accounts \ {a} : b \notin others => friends'[b] = friends[b]
  BY <1>3
<1>8. \A b \in Accounts \ {a} :
        /\ friends'[b] \in Lists /\ DOMAIN friends'[b] = DOMAIN friends[b]
        /\ \A c \in DOMAIN friends[b] : c # a => friends'[b][c] = friends[b][c]
  BY <1>4, <1>6, <1>7
<1>9. ListsBacked'
  <2>1. friends' \in [Accounts -> Lists]
    BY <1>3, <1>4, <1>8
  <2>2. \A b \in Accounts : \A c \in DOMAIN friends'[b] : friendRows[b][c] > 0
    BY <1>3, <1>4, <1>8 DEF FriendsInv, ListsBacked
  <2>3. \A b \in Accounts \ online' : friends'[b] = NoFriends
    <3> SUFFICES ASSUME NEW b \in Accounts \ online', b # a
                 PROVE  friends'[b] = NoFriends
      BY <1>3
    <3>1. friends[b] = NoFriends /\ a \notin DOMAIN friends[b]
      BY <1>2, <1>4 DEF FriendsInv, ListsBacked
    <3> QED
      BY <1>5, <1>7, <3>1
  <2> QED
    BY <1>2, <2>1, <2>2, <2>3 DEF ListsBacked
<1>10. SeenMutually'
  <2> SUFFICES ASSUME NEW b \in Accounts, NEW c \in DOMAIN friends'[b], friends'[b][c]
               PROVE  c \in online' /\ b \in DOMAIN friends'[c] /\ friends'[c][b]
    BY DEF SeenMutually
  <2>1. b # a
    BY <1>3, <1>4
  <2>2. c \in DOMAIN friends[b] /\ (c # a => friends[b][c])
    BY <1>8, <2>1
  <2>3. c # a
    <3> SUFFICES ASSUME c = a
                 PROVE  FALSE
      OBVIOUS
    <3>1. b \notin others
      BY <1>6, <2>1
    <3>2. friends[b][a]
      BY <1>7, <2>1, <3>1
    <3>3. b \in DOMAIN friends[a] /\ friends[a][b]
      BY <2>2, <3>2 DEF FriendsInv, SeenMutually
    <3> QED
      BY <1>1, <3>1, <3>3
  <2>4. c \in online /\ b \in DOMAIN friends[c] /\ friends[c][b] /\ c \in Accounts
    BY <2>2, <2>3 DEF FriendsInv, SeenMutually, Shape
  <2>5. DOMAIN friends'[c] = DOMAIN friends[c] /\ friends'[c][b] = friends[c][b]
    BY <1>8, <2>1, <2>3, <2>4
  <2>6. c \in online'
    BY <1>2, <2>3, <2>4
  <2> QED
    BY <2>4, <2>5, <2>6
<1>11. ListsWhole'
  <2> SUFFICES ASSUME NEW b \in online' \ cut', NEW c \in Users, friendRows[b][c] > 0
               PROVE  c \in DOMAIN friends'[b] /\ (c \in online' \ cut' => friends'[b][c])
    BY <1>2 DEF ListsWhole
  <2>1. /\ b \in online \ cut /\ b \in Accounts /\ b # a /\ c \in Accounts
        /\ (c \in online' => c \in online /\ c # a)
    BY <1>2, AccountsAssumption DEF Shape
  <2>2. c \in DOMAIN friends[b] /\ (c \in online \ cut => friends[b][c])
    BY <2>1 DEF FriendsInv, ListsWhole
  <2> QED
    BY <1>2, <1>8, <2>1, <2>2
<1> QED
  BY <1>2, <1>9, <1>10, <1>11 DEF FriendsInv, RowsMutual

\* One row of d for c more.
OneMore(f, c, d) ==
  LET g == Inserted(f, c, d)
  IN  /\ g \in [Accounts -> [Accounts -> Nat]]
      /\ \A x, y \in Accounts : g[x][y] = IF x = c /\ y = d THEN f[x][y] + 1 ELSE f[x][y]

LEMMA InsertedIs ==
  ASSUME NEW f \in [Accounts -> [Accounts -> Nat]], NEW c \in Accounts, NEW d \in Accounts
  PROVE  OneMore(f, c, d)
<1>1. PICK g : g = [f[c] EXCEPT ![d] = f[c][d] + 1]
  OBVIOUS
<1>2. /\ g \in [Accounts -> Nat]
      /\ \A y \in Accounts : g[y] = IF y = d THEN f[c][y] + 1 ELSE f[c][y]
  BY <1>1
<1>3. Inserted(f, c, d) = [f EXCEPT ![c] = g]
  BY <1>1 DEF Inserted
<1>4. /\ Inserted(f, c, d) \in [Accounts -> [Accounts -> Nat]]
      /\ \A x \in Accounts : Inserted(f, c, d)[x] = IF x = c THEN g ELSE f[x]
  BY <1>2, <1>3
<1> QED
  BY <1>2, <1>4 DEF OneMore

\* An acceptance makes a row of each for the other and the friend of one, or of
\* both who are online; they may be the same player.
LEMMA AcceptFriends ==
  ASSUME Shape, FriendsInv, NEW a \in Accounts, NEW b \in Accounts, Accept(a, b)
  PROVE  FriendsInv'
<1>1. /\ a \in online /\ friendRows'[a][b] <= MaxRows
      /\ friendRows' = Inserted(Inserted(friendRows, a, b), b, a)
      /\ UNCHANGED <<online, cut>>
  BY DEF Accept, Befriended, history
<1>3. friends \in [Accounts -> Lists] /\ friends[a] \in Lists /\ friends[b] \in Lists
  BY DEF FriendsInv, ListsBacked
<1>4. /\ friendRows \in [Accounts -> [Accounts -> Counts]] /\ MaxRows \in Nat
      /\ \A c, d \in Accounts : friendRows[c][d] = friendRows[d][c] /\ friendRows[c][d] \in Nat
      /\ \A c \in Users : c \in Accounts
  BY NumericAssumption, AccountsAssumption DEF FriendsInv, RowsMutual, Counts
<1> DEFINE Pair(c, d) == (c = a /\ d = b) \/ (c = b /\ d = a)
<1>2. PICK one \in {1, 2} : one = IF a = b THEN 2 ELSE 1
  OBVIOUS
<1>11. PICK f : f = Inserted(friendRows, a, b)
  OBVIOUS
<1>12. friendRows \in [Accounts -> [Accounts -> Nat]]
  <2>1. Counts \subseteq Nat
    BY DEF Counts
  <2> QED
    BY <1>4, <2>1
<1>13. /\ f \in [Accounts -> [Accounts -> Nat]]
       /\ \A c, d \in Accounts : f[c][d] = IF c = a /\ d = b THEN friendRows[c][d] + 1
                                           ELSE friendRows[c][d]
  <2>1. OneMore(friendRows, a, b)
    BY <1>12, InsertedIs
  <2> QED
    BY <1>11, <2>1 DEF OneMore
<1>14. /\ friendRows' \in [Accounts -> [Accounts -> Nat]]
       /\ \A c, d \in Accounts : friendRows'[c][d] = IF c = b /\ d = a THEN f[c][d] + 1 ELSE f[c][d]
  <2>1. friendRows' = Inserted(f, b, a)
    BY <1>1, <1>11
  <2> QED
    <3>1. OneMore(f, b, a)
      BY <1>13, InsertedIs
    <3> QED
      BY <2>1, <3>1 DEF OneMore
<1>5. \A c, d \in Accounts :
        friendRows'[c][d] = IF Pair(c, d) THEN friendRows[a][b] + one ELSE friendRows[c][d]
  <2> SUFFICES ASSUME NEW c \in Accounts, NEW d \in Accounts
               PROVE  friendRows'[c][d] = IF Pair(c, d) THEN friendRows[a][b] + one
                                          ELSE friendRows[c][d]
    OBVIOUS
  <2>1. CASE a = b
    <3>1. CASE c = a /\ d = a
      <4>1. friendRows'[c][d] = (friendRows[a][a] + 1) + 1
        BY <1>13, <1>14, <2>1, <3>1
      <4> QED
        BY <1>2, <1>4, <2>1, <3>1, <4>1
    <3>2. CASE ~(c = a /\ d = a)
      BY <1>13, <1>14, <2>1, <3>2
    <3> QED
      BY <3>1, <3>2
  <2>2. CASE a # b
    BY <1>2, <1>4, <1>13, <1>14, <2>2
  <2> QED
    BY <2>1, <2>2
<1>6. RowsMutual'
  <2>3. \A c, d \in Accounts : friendRows'[c][d] \in Counts
    <3> SUFFICES ASSUME NEW c \in Accounts, NEW d \in Accounts
                 PROVE  friendRows'[c][d] \in Counts
      OBVIOUS
    <3>1. friendRows'[a][b] = friendRows[a][b] + one /\ friendRows[a][b] \in Nat
      BY <1>4, <1>5
    <3>2. friendRows[a][b] + one \in Counts
      BY <1>1, <1>4, <3>1 DEF Counts
    <3> QED
      BY <1>4, <1>5, <3>2
  <2>4. friendRows' \in [Accounts -> [Accounts -> Counts]]
    <3>1. \A c \in Accounts : friendRows'[c] \in [Accounts -> Nat]
      BY <1>14
    <3>2. \A c \in Accounts : friendRows'[c] \in [Accounts -> Counts]
      BY <2>3, <3>1
    <3> QED
      BY <1>14, <3>2
  <2>5. \A c, d \in Accounts : friendRows'[c][d] = friendRows'[d][c]
    BY <1>4, <1>5
  <2> QED
    BY <2>4, <2>5 DEF RowsMutual
<1>7. \A c, d \in Accounts : /\ friendRows[c][d] > 0 => friendRows'[c][d] > 0
                             /\ Pair(c, d) => friendRows'[c][d] > 0
                             /\ ~Pair(c, d) => friendRows'[c][d] = friendRows[c][d]
  <2>1. friendRows[a][b] + one > 0
    BY <1>4
  <2> QED
    BY <1>4, <1>5, <2>1
<1> HIDE DEF Pair
<1>8. CASE b \in online
  <2>1. friends' = SetFriend(SetFriend(friends, a, b, TRUE), b, a, TRUE)
    BY <1>8 DEF Accept
  <2>2. friends' = [c \in Accounts |-> IF c = a THEN With(friends[a], b, TRUE)
                                       ELSE IF c = b THEN With(friends[b], a, TRUE)
                                       ELSE friends[c]]
    <3>1. CASE a = b
      <4>1. With(With(friends[a], a, TRUE), a, TRUE) = With(friends[a], a, TRUE)
        BY DEF With
      <4> QED
        BY <1>3, <2>1, <3>1, <4>1 DEF SetFriend
    <3>2. CASE a # b
      BY <1>3, <2>1, <3>2 DEF SetFriend
    <3> QED
      BY <3>1, <3>2
  <2>3. With(friends[a], b, TRUE) \in Lists /\ With(friends[b], a, TRUE) \in Lists
    BY <1>3, WithIs
  <2>4. /\ DOMAIN friends'[a] = DOMAIN friends[a] \cup {b}
        /\ DOMAIN friends'[b] = DOMAIN friends[b] \cup {a}
        /\ friends'[a][b] /\ friends'[b][a]
        /\ \A c \in DOMAIN friends[a] : c # b => friends'[a][c] = friends[a][c]
        /\ \A c \in DOMAIN friends[b] : c # a => friends'[b][c] = friends[b][c]
    BY <2>2 DEF With
  <2>5. \A c \in Accounts \ {a, b} : friends'[c] = friends[c]
    BY <2>2
  <2>6. ListsBacked'
    <3>1. friends' \in [Accounts -> Lists]
      BY <1>3, <2>2, <2>3
    <3>2. \A c \in Accounts : \A d \in DOMAIN friends'[c] : friendRows'[c][d] > 0
      <4> SUFFICES ASSUME NEW c \in Accounts, NEW d \in DOMAIN friends'[c]
                   PROVE  friendRows'[c][d] > 0
        OBVIOUS
      <4>1. d \in Accounts
        BY <3>1, ListsAre
      <4>2. d \in DOMAIN friends[c] \/ Pair(c, d)
        BY <2>4, <2>5 DEF Pair
      <4>3. d \in DOMAIN friends[c] => friendRows[c][d] > 0
        BY DEF FriendsInv, ListsBacked
      <4> QED
        BY <1>7, <4>1, <4>2, <4>3
    <3>3. \A c \in Accounts \ online' : friends'[c] = NoFriends
      BY <1>1, <1>8, <2>5 DEF FriendsInv, ListsBacked
    <3> QED
      BY <3>1, <3>2, <3>3 DEF ListsBacked
  <2>7. SeenMutually'
    <3> SUFFICES ASSUME NEW c \in Accounts, NEW d \in DOMAIN friends'[c], friends'[c][d]
                 PROVE  d \in online' /\ c \in DOMAIN friends'[d] /\ friends'[d][c]
      BY DEF SeenMutually
    <3>1. CASE Pair(c, d)
      BY <1>1, <1>8, <2>4, <3>1 DEF Pair
    <3>2. CASE ~Pair(c, d)
      <4>1. d \in DOMAIN friends[c] /\ friends[c][d]
        BY <2>4, <2>5, <3>2 DEF Pair
      <4>2. d \in online /\ c \in DOMAIN friends[d] /\ friends[d][c] /\ d \in Accounts
        BY <4>1 DEF FriendsInv, SeenMutually, Shape
      <4> QED
        BY <1>1, <2>4, <2>5, <3>2, <4>2 DEF Pair
    <3> QED
      BY <3>1, <3>2
  <2>8. ListsWhole'
    <3> SUFFICES ASSUME NEW c \in online' \ cut', NEW d \in Users, friendRows'[c][d] > 0
                 PROVE  d \in DOMAIN friends'[c] /\ (d \in online' \ cut' => friends'[c][d])
      BY DEF ListsWhole
    <3>1. c \in online \ cut /\ c \in Accounts /\ d \in Accounts
      BY <1>1, <1>4 DEF Shape
    <3>2. CASE Pair(c, d)
      BY <2>4, <3>2 DEF Pair
    <3>3. CASE ~Pair(c, d)
      <4>1. friendRows[c][d] > 0
        BY <1>7, <3>1, <3>3
      <4>2. d \in DOMAIN friends[c] /\ (d \in online \ cut => friends[c][d])
        BY <3>1, <4>1 DEF FriendsInv, ListsWhole
      <4> QED
        BY <1>1, <2>4, <2>5, <3>1, <3>3, <4>2 DEF Pair
    <3> QED
      BY <3>2, <3>3
  <2> QED
    BY <1>6, <2>6, <2>7, <2>8 DEF FriendsInv
<1>9. CASE b \notin online
  <2>0. a # b
    BY <1>1, <1>9
  <2>1. friends' = SetFriend(friends, a, b, FALSE)
    BY <1>9 DEF Accept
  <2>2. friends' = [c \in Accounts |-> IF c = a THEN With(friends[a], b, FALSE) ELSE friends[c]]
    BY <1>3, <2>1 DEF SetFriend
  <2>3. With(friends[a], b, FALSE) \in Lists
    BY <1>3, WithIs
  <2>4. /\ DOMAIN friends'[a] = DOMAIN friends[a] \cup {b} /\ ~friends'[a][b]
        /\ \A c \in DOMAIN friends[a] : c # b => friends'[a][c] = friends[a][c]
    BY <2>2 DEF With
  <2>5. \A c \in Accounts \ {a} : friends'[c] = friends[c]
    BY <2>2
  <2>6. ListsBacked'
    <3>1. friends' \in [Accounts -> Lists]
      BY <1>3, <2>2, <2>3
    <3>2. \A c \in Accounts : \A d \in DOMAIN friends'[c] : friendRows'[c][d] > 0
      <4> SUFFICES ASSUME NEW c \in Accounts, NEW d \in DOMAIN friends'[c]
                   PROVE  friendRows'[c][d] > 0
        OBVIOUS
      <4>1. d \in Accounts
        BY <3>1, ListsAre
      <4>2. d \in DOMAIN friends[c] \/ Pair(c, d)
        BY <2>4, <2>5 DEF Pair
      <4>3. d \in DOMAIN friends[c] => friendRows[c][d] > 0
        BY DEF FriendsInv, ListsBacked
      <4> QED
        BY <1>7, <4>1, <4>2, <4>3
    <3>3. \A c \in Accounts \ online' : friends'[c] = NoFriends
      BY <1>1, <2>5 DEF FriendsInv, ListsBacked
    <3> QED
      BY <3>1, <3>2, <3>3 DEF ListsBacked
  <2>7. SeenMutually'
    <3> SUFFICES ASSUME NEW c \in Accounts, NEW d \in DOMAIN friends'[c], friends'[c][d]
                 PROVE  d \in online' /\ c \in DOMAIN friends'[d] /\ friends'[d][c]
      BY DEF SeenMutually
    <3>1. d \in DOMAIN friends[c] /\ friends[c][d] /\ ~(c = a /\ d = b)
      BY <2>4, <2>5
    <3>2. d \in online /\ c \in DOMAIN friends[d] /\ friends[d][c] /\ d \in Accounts
      BY <3>1 DEF FriendsInv, SeenMutually, Shape
    <3>3. c # b
      <4>1. DOMAIN friends[b] = {}
        BY <1>9, ListsAre DEF FriendsInv, ListsBacked
      <4> QED
        BY <3>1, <4>1
    <3> QED
      BY <1>1, <2>4, <2>5, <3>2, <3>3
  <2>8. ListsWhole'
    <3> SUFFICES ASSUME NEW c \in online' \ cut', NEW d \in Users, friendRows'[c][d] > 0
                 PROVE  d \in DOMAIN friends'[c] /\ (d \in online' \ cut' => friends'[c][d])
      BY DEF ListsWhole
    <3>1. c \in online \ cut /\ c \in Accounts /\ c # b /\ d \in Accounts
      BY <1>1, <1>4, <1>9 DEF Shape
    <3>2. CASE c = a /\ d = b
      BY <1>1, <1>9, <2>4, <3>2
    <3>3. CASE ~(c = a /\ d = b)
      <4>1. friendRows[c][d] > 0
        BY <1>7, <3>1, <3>3 DEF Pair
      <4>2. d \in DOMAIN friends[c] /\ (d \in online \ cut => friends[c][d])
        BY <3>1, <4>1 DEF FriendsInv, ListsWhole
      <4> QED
        BY <1>1, <2>4, <2>5, <3>1, <3>3, <4>2
    <3> QED
      BY <3>2, <3>3
  <2> QED
    BY <1>6, <2>6, <2>7, <2>8 DEF FriendsInv
<1> QED
  BY <1>8, <1>9

\* A deletion or a block takes both from the lists of the other, and their rows.
LEMMA PartedFriends ==
  ASSUME Shape, FriendsInv, NEW a \in Accounts, NEW b \in Accounts, a \in online,
         friends' = Unfriended(a, b), friendRows' = Parted(a, b),
         UNCHANGED <<online, cut>>
  PROVE  FriendsInv'
<1>1. friends \in [Accounts -> Lists] /\ friends[a] \in Lists /\ friends[b] \in Lists
  BY DEF FriendsInv, ListsBacked
<1>2. /\ friendRows \in [Accounts -> [Accounts -> Counts]] /\ MaxRows \in Nat
      /\ \A c, d \in Accounts : friendRows[c][d] = friendRows[d][c] /\ friendRows[c][d] \in Nat
      /\ \A c \in Users : c \in Accounts
  BY NumericAssumption, AccountsAssumption DEF FriendsInv, RowsMutual, Counts
<1>3. PICK f, g : /\ f = [d \in DOMAIN friends[a] \ {b} |-> friends[a][d]]
                  /\ g = [d \in DOMAIN friends[b] \ {a} |-> friends[b][d]]
  OBVIOUS
<1>4. friends' = [c \in Accounts |-> IF c = a THEN f ELSE IF c = b THEN g ELSE friends[c]]
  <2>1. CASE a = b
    <3>1. friends' = [friends EXCEPT ![a] = [d \in DOMAIN f \ {a} |-> f[d]]]
      BY <1>1, <1>3, <2>1 DEF Unfriended, Dropped
    <3>2. [d \in DOMAIN f \ {a} |-> f[d]] = f
      BY <1>3, <2>1
    <3> QED
      BY <1>1, <2>1, <3>1, <3>2
  <2>2. CASE a # b
    BY <1>1, <1>3, <2>2 DEF Unfriended, Dropped
  <2> QED
    BY <2>1, <2>2
<1>5. f \in Lists /\ g \in Lists
  <2>1. f \in [DOMAIN friends[a] \ {b} -> BOOLEAN] /\ g \in [DOMAIN friends[b] \ {a} -> BOOLEAN]
    BY <1>1, <1>3, ListsAre
  <2>2. DOMAIN friends[a] \ {b} \in SUBSET Accounts /\ DOMAIN friends[b] \ {a} \in SUBSET Accounts
    BY <1>1, ListsAre
  <2> QED
    BY <2>1, <2>2, ListsAre
<1>6. \A c \in Accounts :
        /\ friends'[c] \in Lists
        /\ DOMAIN friends'[c] = {d \in DOMAIN friends[c] : ~(c = a /\ d = b) /\ ~(c = b /\ d = a)}
        /\ \A d \in DOMAIN friends'[c] : friends'[c][d] = friends[c][d]
  <2> SUFFICES ASSUME NEW c \in Accounts
               PROVE  /\ friends'[c] \in Lists
                      /\ DOMAIN friends'[c] =
                           {d \in DOMAIN friends[c] : ~(c = a /\ d = b) /\ ~(c = b /\ d = a)}
                      /\ \A d \in DOMAIN friends'[c] : friends'[c][d] = friends[c][d]
    OBVIOUS
  <2>1. CASE c = a
    <3>1. friends'[c] = f
      BY <1>4, <2>1
    <3> QED
      BY <1>3, <1>5, <2>1, <3>1
  <2>2. CASE c = b /\ c # a
    <3>1. friends'[c] = g
      BY <1>4, <2>2
    <3> QED
      BY <1>3, <1>5, <2>2, <3>1
  <2>3. CASE c # a /\ c # b
    BY <1>1, <1>4, <2>3
  <2> QED
    BY <2>1, <2>2, <2>3
<1>7. \A c, d \in Accounts :
        friendRows'[c][d] = IF (c = a /\ d = b) \/ (c = b /\ d = a) THEN 0 ELSE friendRows[c][d]
  BY <1>2 DEF Parted
<1>8. RowsMutual'
  <2>1. friendRows' = [c \in Accounts |-> friendRows'[c]]
    BY <1>2 DEF Parted
  <2>2. \A c \in Accounts : friendRows'[c] = [d \in Accounts |-> friendRows'[c][d]]
    BY <1>2 DEF Parted
  <2>3. \A c, d \in Accounts : friendRows'[c][d] \in Counts
    BY <1>2, <1>7 DEF Counts
  <2>4. friendRows' \in [Accounts -> [Accounts -> Counts]]
    BY <2>1, <2>2, <2>3
  <2> QED
    BY <1>2, <1>7, <2>4 DEF RowsMutual
<1>9. ListsBacked'
  <2>1. friends' \in [Accounts -> Lists]
    BY <1>4, <1>6
  <2>2. \A c \in Accounts : \A d \in DOMAIN friends'[c] : friendRows'[c][d] > 0
    <3> SUFFICES ASSUME NEW c \in Accounts, NEW d \in DOMAIN friends'[c]
                 PROVE  friendRows'[c][d] > 0
      OBVIOUS
    <3>1. d \in DOMAIN friends[c] /\ d \in Accounts /\ ~(c = a /\ d = b) /\ ~(c = b /\ d = a)
      BY <1>6, ListsAre
    <3> QED
      BY <1>7, <3>1 DEF FriendsInv, ListsBacked
  <2>3. \A c \in Accounts \ online' : friends'[c] = NoFriends
    <3> SUFFICES ASSUME NEW c \in Accounts \ online'
                 PROVE  friends'[c] = NoFriends
      OBVIOUS
    <3>1. friends[c] = NoFriends /\ DOMAIN friends[c] = {}
      BY ListsAre DEF FriendsInv, ListsBacked
    <3>2. c # a
      OBVIOUS
    <3>3. CASE c = b
      <4>1. DOMAIN friends[b] \ {a} = {}
        BY <3>1, <3>3
      <4>2. friends'[c] = g
        BY <1>4, <3>2, <3>3
      <4>3. g = NoFriends
        BY <1>3, <4>1 DEF NoFriends
      <4> QED
        BY <4>2, <4>3
    <3>4. CASE c # b
      BY <1>4, <3>1, <3>2, <3>4
    <3> QED
      BY <3>3, <3>4
  <2> QED
    BY <2>1, <2>2, <2>3 DEF ListsBacked
<1>10. SeenMutually'
  <2> SUFFICES ASSUME NEW c \in Accounts, NEW d \in DOMAIN friends'[c], friends'[c][d]
               PROVE  d \in online' /\ c \in DOMAIN friends'[d] /\ friends'[d][c]
    BY DEF SeenMutually
  <2>1. /\ d \in DOMAIN friends[c] /\ friends[c][d]
        /\ ~(c = a /\ d = b) /\ ~(c = b /\ d = a)
    BY <1>6
  <2>2. d \in online /\ c \in DOMAIN friends[d] /\ friends[d][c] /\ d \in Accounts
    BY <2>1 DEF FriendsInv, SeenMutually, Shape
  <2> QED
    BY <1>6, <2>1, <2>2
<1>11. ListsWhole'
  <2> SUFFICES ASSUME NEW c \in online' \ cut', NEW d \in Users, friendRows'[c][d] > 0
               PROVE  d \in DOMAIN friends'[c] /\ (d \in online' \ cut' => friends'[c][d])
    BY DEF ListsWhole
  <2>1. c \in online \ cut /\ c \in Accounts /\ d \in Accounts
    BY <1>2 DEF Shape
  <2>2. friendRows[c][d] > 0 /\ ~(c = a /\ d = b) /\ ~(c = b /\ d = a)
    BY <1>7, <2>1
  <2>3. d \in DOMAIN friends[c] /\ (d \in online \ cut => friends[c][d])
    BY <2>1, <2>2 DEF FriendsInv, ListsWhole
  <2> QED
    BY <1>6, <2>1, <2>2, <2>3
<1> QED
  BY <1>8, <1>9, <1>10, <1>11 DEF FriendsInv

LEMMA DeleteFriendFriends ==
  ASSUME Shape, FriendsInv, NEW a \in Accounts, NEW b \in Accounts, DeleteFriend(a, b)
  PROVE  FriendsInv'
<1>1. a \in online /\ friends' = Unfriended(a, b) /\ friendRows' = Parted(a, b)
  BY DEF DeleteFriend
<1>2. UNCHANGED <<online, cut>>
  BY DEF DeleteFriend, history
<1> QED
  BY <1>1, <1>2, PartedFriends

LEMMA BlockFriends ==
  ASSUME Shape, FriendsInv, NEW a \in Accounts, NEW b \in Accounts,
         BlockOnline(a, b) \/ BlockOffline(a, b)
  PROVE  FriendsInv'
<1>1. \/ a \in online /\ friends' = Unfriended(a, b) /\ friendRows' = Parted(a, b)
      \/ UNCHANGED <<friends, friendRows>>
  BY DEF BlockOnline, BlockOffline, Blocking
<1>2. UNCHANGED <<online, cut>>
  BY DEF BlockOnline, BlockOffline
<1>3. CASE UNCHANGED <<friends, friendRows>>
  BY <1>2, <1>3, FriendsUnchanged DEF FriendVars
<1> QED
  BY <1>1, <1>2, <1>3, PartedFriends

LEMMA OthersFriends ==
  ASSUME FriendsInv, NEW a \in Accounts,
         \/ Persist(a) \/ EnterMatch(a) \/ LeaveMatch(a) \/ FetchRequests(a)
         \/ \E b \in Accounts : AskOnline(a, b) \/ AskOffline(a, b) \/ Unblock(a, b)
         \/ \E at \in Seconds :
              \/ Gift(a, at) \/ OpenGift(a, at)
              \/ \E kind \in Kinds \ {"gift"} : DeleteMail(a, kind, at)
              \/ \E b \in Accounts : MailOnline(a, b, at) \/ MailOffline(a, b, at)
  PROVE  FriendsInv'
<1>1. UNCHANGED FriendVars
  BY DEF Persist, EnterMatch, LeaveMatch, FetchRequests, AskOnline, AskOffline, Unblock, Gift,
         OpenGift, DeleteMail, MailOnline, MailOffline, FriendVars, session, database, history
<1> QED
  BY <1>1, FriendsUnchanged

LEMMA FriendsStep ==
  ASSUME Shape, FriendsInv, [Next]_vars
  PROVE  FriendsInv'
<1>1. CASE UNCHANGED vars
  BY <1>1, FriendsUnchanged DEF vars, FriendVars
<1>3. CASE Crash
  BY <1>3, CrashFriends
<1>4. ASSUME NEW a \in Accounts,
             \/ Persist(a) \/ Login(a) \/ Logout(a) \/ EnterMatch(a) \/ LeaveMatch(a)
             \/ FetchRequests(a)
      PROVE  FriendsInv'
  BY <1>4, LoginFriends, LogoutFriends, OthersFriends
<1>5. ASSUME NEW a \in Accounts, NEW b \in Accounts,
             \/ AskOnline(a, b) \/ AskOffline(a, b) \/ Accept(a, b) \/ DeleteFriend(a, b)
             \/ BlockOnline(a, b) \/ BlockOffline(a, b) \/ Unblock(a, b)
      PROVE  FriendsInv'
  BY <1>5, AcceptFriends, DeleteFriendFriends, BlockFriends, OthersFriends
<1>6. ASSUME NEW a \in Accounts, NEW at \in Seconds,
             \/ Gift(a, at) \/ OpenGift(a, at)
             \/ \E kind \in Kinds \ {"gift"} : DeleteMail(a, kind, at)
             \/ \E b \in Accounts : MailOnline(a, b, at) \/ MailOffline(a, b, at)
      PROVE  FriendsInv'
  BY <1>6, OthersFriends
<1> QED
  BY <1>1, <1>3, <1>4, <1>5, <1>6 DEF Next

LEMMA InitFriends == Init => FriendsInv
<1> SUFFICES ASSUME Init
             PROVE  FriendsInv
  OBVIOUS
<1>1. friends = [a \in Accounts |-> NoFriends] /\ friendRows = [a \in Accounts |-> None]
      /\ online = {}
  BY DEF Init
<1>2. \A a \in Accounts : friends[a] = NoFriends
  BY <1>1
<1>3. ListsBacked /\ SeenMutually
  BY <1>1, <1>2, ListsAre DEF ListsBacked, SeenMutually
<1>4. RowsMutual
  BY <1>1, NumericAssumption DEF RowsMutual, None, Counts
<1> QED
  BY <1>1, <1>3, <1>4 DEF FriendsInv, ListsWhole

LEMMA FriendsMirror ==
  ASSUME Shape, FriendsInv
  PROVE  FriendsMirrorRows
<1> SUFFICES ASSUME NEW a \in online \ cut
             PROVE  /\ DOMAIN friends[a] \cap Users = Friendlist(a) \cap Users
                    /\ DOMAIN friends[a] \subseteq Friendlist(a)
                    /\ \A b \in DOMAIN friends[a] \ cut :
                         friends[a][b] = (b \in online) /\ friendRows[b][a] = friendRows[a][b]
  BY DEF FriendsMirrorRows
<1>1. a \in Accounts /\ friends[a] \in Lists
  BY DEF Shape, FriendsInv, ListsBacked
<1>2. DOMAIN friends[a] \subseteq Accounts /\ \A b \in DOMAIN friends[a] : friends[a][b] \in BOOLEAN
  BY <1>1, ListsAre
<1>3. /\ DOMAIN friends[a] \cap Users = Friendlist(a) \cap Users
      /\ DOMAIN friends[a] \subseteq Friendlist(a)
  BY <1>1, <1>2 DEF FriendsInv, ListsBacked, ListsWhole, Friendlist, Occurring
<1>4. ASSUME NEW b \in DOMAIN friends[a] \ cut
      PROVE  friends[a][b] = (b \in online) /\ friendRows[b][a] = friendRows[a][b]
  <2>1. b \in Accounts /\ friends[a][b] \in BOOLEAN
    BY <1>2
  <2>2. friends[a][b] => b \in online
    BY <1>1 DEF FriendsInv, SeenMutually
  <2>3. b \in online => friends[a][b]
    BY <1>1, <2>1 DEF FriendsInv, ListsBacked, ListsWhole, Shape
  <2> QED
    BY <1>1, <2>1, <2>2, <2>3 DEF FriendsInv, RowsMutual
<1> QED
  BY <1>3, <1>4

-----------------------------------------------------------------------------
(* What the writes make of the rows.                                        *)

LEMMA AppliedFields ==
  ASSUME NEW r \in Rows
  PROVE  /\ \A b \in Accounts : \A w \in {BlockRow(b), UnblockRows(b)} :
              Applied(r, w).mails = r.mails /\ Applied(r, w).items = r.items
         /\ \A b \in Accounts :
              /\ Applied(r, BlockRow(b)).blocks = [r.blocks EXCEPT ![b] = r.blocks[b] + 1]
              /\ Applied(r, UnblockRows(b)).blocks = [r.blocks EXCEPT ![b] = 0]
         /\ \A m \in Mails : /\ Applied(r, StoreMail(m)).mails = Append(r.mails, m)
                             /\ Applied(r, StoreMail(m)).items = r.items
                             /\ Applied(r, StoreMail(m)).blocks = r.blocks
         /\ \A kind \in Kinds, at \in Seconds :
              /\ Applied(r, DeleteMails(kind, at)).mails = Picked(r.mails, Mails \ Those(kind, at))
              /\ Applied(r, DeleteMails(kind, at)).items = r.items
              /\ Applied(r, DeleteMails(kind, at)).blocks = r.blocks
         /\ /\ Applied(r, AddItem).mails = r.mails
            /\ Applied(r, AddItem).items = r.items + 1
            /\ Applied(r, AddItem).blocks = r.blocks
<1>1. r.blocks \in [Accounts -> Nat] /\ r.mails \in Seq(Mails) /\ r.items \in Nat
  BY RowsOf
<1>2. \A x \in [Accounts -> Nat], y \in Seq(Mails), z \in Nat :
        Row(x, y, z).blocks = x /\ Row(x, y, z).mails = y /\ Row(x, y, z).items = z
  BY RowsOf
<1>3. ASSUME NEW b \in Accounts
      PROVE  /\ Applied(r, BlockRow(b)).mails = r.mails /\ Applied(r, BlockRow(b)).items = r.items
             /\ Applied(r, BlockRow(b)).blocks = [r.blocks EXCEPT ![b] = r.blocks[b] + 1]
  <2>1. PICK x \in [Accounts -> Nat] : x = [r.blocks EXCEPT ![b] = r.blocks[b] + 1]
    <3>1. [r.blocks EXCEPT ![b] = r.blocks[b] + 1] \in [Accounts -> Nat]
      BY <1>1
    <3> QED
      BY <3>1
  <2>2. Applied(r, BlockRow(b)) = Row([r.blocks EXCEPT ![b] = r.blocks[b] + 1], r.mails, r.items)
    BY AppliedIs
  <2>3. Row(x, r.mails, r.items).blocks = x /\ Row(x, r.mails, r.items).mails = r.mails
        /\ Row(x, r.mails, r.items).items = r.items
    BY <1>1, <1>2
  <2> QED
    BY <2>1, <2>2, <2>3
<1>4. ASSUME NEW b \in Accounts
      PROVE  /\ Applied(r, UnblockRows(b)).mails = r.mails /\ Applied(r, UnblockRows(b)).items = r.items
             /\ Applied(r, UnblockRows(b)).blocks = [r.blocks EXCEPT ![b] = 0]
  <2>1. PICK x \in [Accounts -> Nat] : x = [r.blocks EXCEPT ![b] = 0]
    BY <1>1
  <2>2. Applied(r, UnblockRows(b)) = Row([r.blocks EXCEPT ![b] = 0], r.mails, r.items)
    BY AppliedIs
  <2>3. Row(x, r.mails, r.items).blocks = x /\ Row(x, r.mails, r.items).mails = r.mails
        /\ Row(x, r.mails, r.items).items = r.items
    BY <1>1, <1>2
  <2> QED
    BY <2>1, <2>2, <2>3
<1>5. ASSUME NEW m \in Mails
      PROVE  /\ Applied(r, StoreMail(m)).mails = Append(r.mails, m)
             /\ Applied(r, StoreMail(m)).items = r.items
             /\ Applied(r, StoreMail(m)).blocks = r.blocks
  <2>1. PICK y \in Seq(Mails) : y = Append(r.mails, m)
    <3>1. Append(r.mails, m) \in Seq(Mails)
      BY <1>1
    <3> QED
      BY <3>1
  <2>2. Applied(r, StoreMail(m)) = Row(r.blocks, Append(r.mails, m), r.items)
    BY AppliedIs
  <2>3. Row(r.blocks, y, r.items).blocks = r.blocks /\ Row(r.blocks, y, r.items).mails = y
        /\ Row(r.blocks, y, r.items).items = r.items
    BY <1>1, <1>2
  <2> QED
    BY <2>1, <2>2, <2>3
<1>6. ASSUME NEW kind \in Kinds, NEW at \in Seconds
      PROVE  /\ Applied(r, DeleteMails(kind, at)).mails = Picked(r.mails, Mails \ Those(kind, at))
             /\ Applied(r, DeleteMails(kind, at)).items = r.items
             /\ Applied(r, DeleteMails(kind, at)).blocks = r.blocks
  <2>1. Picked(r.mails, Mails \ Those(kind, at)) \in Seq(Mails)
    BY <1>1, PickedType
  <2>2. PICK y \in Seq(Mails) : y = Picked(r.mails, Mails \ Those(kind, at))
    BY <2>1
  <2>3. Applied(r, DeleteMails(kind, at)) =
          Row(r.blocks, Picked(r.mails, Mails \ Those(kind, at)), r.items)
    BY AppliedIs
  <2>4. Row(r.blocks, y, r.items).blocks = r.blocks /\ Row(r.blocks, y, r.items).mails = y
        /\ Row(r.blocks, y, r.items).items = r.items
    BY <1>1, <1>2
  <2> QED
    BY <2>2, <2>3, <2>4
<1>7. /\ Applied(r, AddItem).mails = r.mails
      /\ Applied(r, AddItem).items = r.items + 1
      /\ Applied(r, AddItem).blocks = r.blocks
  <2>1. Applied(r, AddItem) = Row(r.blocks, r.mails, r.items + 1) /\ r.items + 1 \in Nat
    BY <1>1, AppliedIs
  <2> QED
    BY <1>1, <1>2, <2>1
<1> QED
  BY <1>3, <1>4, <1>5, <1>6, <1>7

LEMMA DeletedFields ==
  ASSUME NEW r \in Rows, NEW kind \in Kinds, NEW at \in Seconds,
         NEW w, w = DeleteMails(kind, at), NEW S, S = Mails \ Those(kind, at)
  PROVE  /\ Applied(r, w).mails = Picked(r.mails, S)
         /\ Applied(r, w).items = r.items /\ Applied(r, w).blocks = r.blocks
BY AppliedFields

\* One write: rows with the same mails and items keep them the same, rows with
\* no more blocks have no more after it, and a block has one row more at most.
LEMMA AppliedLike ==
  ASSUME NEW r \in Rows, NEW v \in Rows, NEW w \in Writes
  PROVE  /\ r.mails = v.mails => Applied(r, w).mails = Applied(v, w).mails
         /\ r.items = v.items => Applied(r, w).items = Applied(v, w).items
         /\ \A b \in Accounts :
              /\ r.blocks[b] <= v.blocks[b] => Applied(r, w).blocks[b] <= Applied(v, w).blocks[b]
              /\ Applied(r, w).blocks[b] <= r.blocks[b] + 1
<1>1. r.blocks \in [Accounts -> Nat] /\ v.blocks \in [Accounts -> Nat]
  BY RowsOf
<1>2. CASE \E c \in Accounts : w = BlockRow(c)
  <2>1. PICK c \in Accounts : w = BlockRow(c)
    BY <1>2
  <2>2. /\ Applied(r, w).mails = r.mails /\ Applied(r, w).items = r.items
        /\ Applied(v, w).mails = v.mails /\ Applied(v, w).items = v.items
        /\ Applied(r, w).blocks = [r.blocks EXCEPT ![c] = r.blocks[c] + 1]
        /\ Applied(v, w).blocks = [v.blocks EXCEPT ![c] = v.blocks[c] + 1]
    BY <2>1, AppliedFields
  <2> QED
    BY <1>1, <2>2
<1>3. CASE \E c \in Accounts : w = UnblockRows(c)
  <2>1. PICK c \in Accounts : w = UnblockRows(c)
    BY <1>3
  <2>2. /\ Applied(r, w).mails = r.mails /\ Applied(r, w).items = r.items
        /\ Applied(v, w).mails = v.mails /\ Applied(v, w).items = v.items
        /\ Applied(r, w).blocks = [r.blocks EXCEPT ![c] = 0]
        /\ Applied(v, w).blocks = [v.blocks EXCEPT ![c] = 0]
    BY <2>1, AppliedFields
  <2> QED
    BY <1>1, <2>2
<1>4. CASE \E m \in Mails : w = StoreMail(m)
  <2>1. PICK m \in Mails : w = StoreMail(m)
    BY <1>4
  <2>2. /\ Applied(r, w).mails = Append(r.mails, m) /\ Applied(r, w).items = r.items
        /\ Applied(v, w).mails = Append(v.mails, m) /\ Applied(v, w).items = v.items
        /\ Applied(r, w).blocks = r.blocks /\ Applied(v, w).blocks = v.blocks
    BY <2>1, AppliedFields
  <2>3. ASSUME r.mails = v.mails
        PROVE  Applied(r, w).mails = Applied(v, w).mails
    BY <2>2, <2>3
  <2>4. ASSUME NEW b \in Accounts
        PROVE  /\ r.blocks[b] <= v.blocks[b] => Applied(r, w).blocks[b] <= Applied(v, w).blocks[b]
               /\ Applied(r, w).blocks[b] <= r.blocks[b] + 1
    <3>1. r.blocks[b] \in Nat
      BY <1>1
    <3>2. Applied(r, w).blocks[b] = r.blocks[b] /\ Applied(v, w).blocks[b] = v.blocks[b]
      BY <2>2
    <3> QED
      BY <3>1, <3>2
  <2>5. r.items = v.items => Applied(r, w).items = Applied(v, w).items
    BY <2>2
  <2> QED
    BY <2>3, <2>4, <2>5
<1>5. CASE \E kind \in Kinds, at \in Seconds : w = DeleteMails(kind, at)
  <2>1. PICK kind \in Kinds, at \in Seconds : w = DeleteMails(kind, at)
    BY <1>5
  <2>2. PICK S : S = Mails \ Those(kind, at)
    OBVIOUS
  <2>3. /\ Applied(r, w).mails = Picked(r.mails, S)
        /\ Applied(v, w).mails = Picked(v.mails, S)
        /\ Applied(r, w).items = r.items /\ Applied(v, w).items = v.items
        /\ Applied(r, w).blocks = r.blocks /\ Applied(v, w).blocks = v.blocks
    BY <2>1, <2>2, DeletedFields
  <2>4. ASSUME r.mails = v.mails
        PROVE  Applied(r, w).mails = Applied(v, w).mails
    BY <2>3, <2>4
  <2>5. ASSUME NEW b \in Accounts
        PROVE  /\ r.blocks[b] <= v.blocks[b] => Applied(r, w).blocks[b] <= Applied(v, w).blocks[b]
               /\ Applied(r, w).blocks[b] <= r.blocks[b] + 1
    <3>1. r.blocks[b] \in Nat
      BY <1>1
    <3>2. Applied(r, w).blocks[b] = r.blocks[b] /\ Applied(v, w).blocks[b] = v.blocks[b]
      BY <2>3
    <3> QED
      BY <3>1, <3>2
  <2>6. r.items = v.items => Applied(r, w).items = Applied(v, w).items
    BY <2>3
  <2> QED
    BY <2>4, <2>5, <2>6
<1>6. CASE w = AddItem
  <2>2. /\ Applied(r, w).mails = r.mails /\ Applied(r, w).items = r.items + 1
        /\ Applied(v, w).mails = v.mails /\ Applied(v, w).items = v.items + 1
        /\ Applied(r, w).blocks = r.blocks /\ Applied(v, w).blocks = v.blocks
    BY <1>6, AppliedFields
  <2> QED
    BY <1>1, <2>2
<1> QED
  BY <1>2, <1>3, <1>4, <1>5, <1>6 DEF Writes

LEMMA WrittenLike ==
  ASSUME NEW r \in Rows, NEW v \in Rows, NEW q \in Seq(Writes),
         r.mails = v.mails, r.items = v.items
  PROVE  /\ Written(r, q).mails = Written(v, q).mails
         /\ Written(r, q).items = Written(v, q).items
<1>1. PICK f \in [0 .. Len(q) -> Rows] : WritesBy(f, r, q) /\ Written(r, q) = f[Len(q)]
  BY WrittenIs
<1>2. PICK g \in [0 .. Len(q) -> Rows] : WritesBy(g, v, q) /\ Written(v, q) = g[Len(q)]
  BY WrittenIs
<1>3. PICK n \in Nat : n = Len(q)
  OBVIOUS
<1> DEFINE Y == {i \in 0 .. n : f[i].mails = g[i].mails /\ f[i].items = g[i].items}
<1>4. 0 \in Y
  BY <1>1, <1>2, <1>3 DEF WritesBy
<1>5. ASSUME NEW i \in 1 .. n, i - 1 \in Y
      PROVE  i \in Y
  <2>1. f[i] = Applied(f[i - 1], q[i]) /\ g[i] = Applied(g[i - 1], q[i])
    BY <1>1, <1>2, <1>3 DEF WritesBy
  <2>2. f[i - 1] \in Rows /\ g[i - 1] \in Rows /\ q[i] \in Writes
    BY <1>1, <1>2, <1>3
  <2>3. f[i - 1].mails = g[i - 1].mails /\ f[i - 1].items = g[i - 1].items
    BY <1>5
  <2>4. f[i].mails = g[i].mails /\ f[i].items = g[i].items
    BY <2>1, <2>2, <2>3, AppliedLike
  <2> QED
    BY <2>4
<1> HIDE DEF Y
<1>6. 0 .. n \subseteq Y
  BY <1>4, <1>5, Reaches
<1>7. n \in 0 .. n
  OBVIOUS
<1> QED
  BY <1>1, <1>2, <1>3, <1>6, <1>7 DEF Y

LEMMA WrittenBlocks ==
  ASSUME NEW r \in Rows, NEW v \in Rows, NEW q \in Seq(Writes), NEW b \in Accounts
  PROVE  /\ r.blocks[b] <= v.blocks[b] => Written(r, q).blocks[b] <= Written(v, q).blocks[b]
         /\ Written(r, q).blocks[b] <= r.blocks[b] + Len(q)
<1>1. PICK f \in [0 .. Len(q) -> Rows] : WritesBy(f, r, q) /\ Written(r, q) = f[Len(q)]
  BY WrittenIs
<1>2. PICK g \in [0 .. Len(q) -> Rows] : WritesBy(g, v, q) /\ Written(v, q) = g[Len(q)]
  BY WrittenIs
<1>3. PICK n \in Nat : n = Len(q)
  OBVIOUS
<1>4. \A i \in 0 .. n : f[i].blocks[b] \in Nat /\ g[i].blocks[b] \in Nat
  <2>1. \A i \in 0 .. n : f[i] \in Rows /\ g[i] \in Rows
    BY <1>1, <1>2, <1>3
  <2>2. \A x \in Rows : x.blocks[b] \in Nat
    BY RowsOf
  <2> QED
    BY <2>1, <2>2
<1> DEFINE Y == {i \in 0 .. n : /\ r.blocks[b] <= v.blocks[b] => f[i].blocks[b] <= g[i].blocks[b]
                                /\ f[i].blocks[b] <= r.blocks[b] + i}
<1>5. f[0] = r /\ g[0] = v /\ 0 \in 0 .. n
  BY <1>1, <1>2, <1>3 DEF WritesBy
<1>6. 0 \in Y
  BY <1>4, <1>5
<1>7. ASSUME NEW i \in 1 .. n, i - 1 \in Y
      PROVE  i \in Y
  <2>1. f[i] = Applied(f[i - 1], q[i]) /\ g[i] = Applied(g[i - 1], q[i])
    BY <1>1, <1>2, <1>3 DEF WritesBy
  <2>2. f[i - 1] \in Rows /\ g[i - 1] \in Rows /\ q[i] \in Writes
    BY <1>1, <1>2, <1>3
  <2>3. /\ f[i - 1].blocks[b] <= g[i - 1].blocks[b] => f[i].blocks[b] <= g[i].blocks[b]
        /\ f[i].blocks[b] <= f[i - 1].blocks[b] + 1
    BY <2>1, <2>2, AppliedLike
  <2>4. /\ r.blocks[b] <= v.blocks[b] => f[i - 1].blocks[b] <= g[i - 1].blocks[b]
        /\ f[i - 1].blocks[b] <= r.blocks[b] + (i - 1)
    BY <1>7
  <2>5. i \in 0 .. n /\ i - 1 \in 0 .. n /\ r.blocks[b] \in Nat
    BY <1>4, <1>5
  <2>6. f[i].blocks[b] <= r.blocks[b] + i
    <3>1. PICK x \in Nat : x = r.blocks[b]
      BY <2>5
    <3>2. PICK y \in Nat : y = f[i - 1].blocks[b]
      BY <1>4, <2>5
    <3>3. PICK z \in Nat : z = f[i].blocks[b]
      BY <1>4, <2>5
    <3>4. z <= y + 1 /\ y <= x + (i - 1)
      BY <2>3, <2>4, <3>1, <3>2, <3>3
    <3>5. z <= x + i
      BY <3>4
    <3> QED
      BY <3>1, <3>3, <3>5
  <2> QED
    BY <2>3, <2>4, <2>5, <2>6
<1> HIDE DEF Y
<1>8. 0 .. n \subseteq Y
  BY <1>6, <1>7, Reaches
<1>9. n \in 0 .. n
  OBVIOUS
<1> QED
  BY <1>1, <1>2, <1>3, <1>8, <1>9 DEF Y

-----------------------------------------------------------------------------
(* Mails.  A list and the rows to come agree on every second of which no    *)
(* single mail was deleted.  However many of the writes that wait are done, *)
(* the value of the rows, items won and gifts to open, is at most the       *)
(* number of gifts given and of deaths in the middle of an opening, but for *)
(* one between the two writes of an opening.                                *)

Gifts == {m \in Mails : m.kind = "gift"}
Value(r) == r.items + Len(Of("gift", r.mails))
Agrees(a, list, mails, alone) ==
  \A kind \in Kinds, at \in Seconds :
    <<a, kind, at>> \notin alone => Picked(list, Those(kind, at)) = Picked(mails, Those(kind, at))
LEMMA ValueIs ==
  ASSUME NEW r \in Rows
  PROVE  /\ Value(r) = r.items + Len(Picked(r.mails, Gifts)) /\ Value(r) \in Nat
         /\ r.items \in Nat /\ Len(Picked(r.mails, Gifts)) \in Nat
<1>1. r.items \in Nat /\ r.mails \in Seq(Mails)
  BY RowsOf
<1>2. Value(r) = r.items + Len(Picked(r.mails, Gifts))
  BY DEF Value, Of, Gifts
<1>3. Picked(r.mails, Gifts) \in Seq(Mails)
  BY <1>1, PickedType
<1>4. Len(Picked(r.mails, Gifts)) \in Nat
  BY <1>3
<1> QED
  BY <1>1, <1>2, <1>4

LEMMA ValueStored ==
  ASSUME NEW r \in Rows, NEW m \in Mails
  PROVE  Value(Applied(r, StoreMail(m))) = IF m.kind = "gift" THEN Value(r) + 1 ELSE Value(r)
<1>1. r.mails \in Seq(Mails)
  BY RowsOf
<1>2. PICK v \in Rows : v = Applied(r, StoreMail(m))
  BY AppliedTyped, WritesAre
<1>3. v.mails = Append(r.mails, m) /\ v.items = r.items
  BY <1>2, AppliedFields
<1>4. Picked(Append(r.mails, m), Gifts) =
        IF m \in Gifts THEN Append(Picked(r.mails, Gifts), m) ELSE Picked(r.mails, Gifts)
  BY <1>1, PickedAppend
<1>5. Picked(r.mails, Gifts) \in Seq(Mails)
  BY <1>1, PickedType
<1>6. Len(Append(Picked(r.mails, Gifts), m)) = Len(Picked(r.mails, Gifts)) + 1
  BY <1>5
<1>7. m \in Gifts <=> m.kind = "gift"
  BY DEF Gifts
<1>8. /\ Value(v) = v.items + Len(Picked(v.mails, Gifts))
      /\ Value(r) = r.items + Len(Picked(r.mails, Gifts))
      /\ r.items \in Nat /\ Len(Picked(r.mails, Gifts)) \in Nat
  BY ValueIs
<1>9. Len(Picked(v.mails, Gifts)) =
        IF m.kind = "gift" THEN Len(Picked(r.mails, Gifts)) + 1 ELSE Len(Picked(r.mails, Gifts))
  BY <1>3, <1>4, <1>6, <1>7
<1>10. Value(v) = IF m.kind = "gift" THEN Value(r) + 1 ELSE Value(r)
  <2>1. Value(v) = r.items + Len(Picked(v.mails, Gifts))
    BY <1>3, <1>8
  <2>2. CASE m.kind = "gift"
    <3>1. Value(v) = r.items + (Len(Picked(r.mails, Gifts)) + 1)
      BY <1>9, <2>1, <2>2
    <3>2. Value(v) = Value(r) + 1
      BY <1>8, <3>1
    <3> QED
      BY <2>2, <3>2
  <2>3. CASE m.kind # "gift"
    BY <1>8, <1>9, <2>1, <2>3
  <2> QED
    BY <2>2, <2>3
<1> QED
  BY <1>2, <1>10

LEMMA ValueDeleted ==
  ASSUME NEW r \in Rows, NEW kind \in Kinds \ {"gift"}, NEW at \in Seconds
  PROVE  Value(Applied(r, DeleteMails(kind, at))) = Value(r)
<1>1. r.mails \in Seq(Mails)
  BY RowsOf
<1>2. PICK v \in Rows : v = Applied(r, DeleteMails(kind, at))
  BY AppliedTyped, WritesAre
<1>3. v.mails = Picked(r.mails, Mails \ Those(kind, at)) /\ v.items = r.items
  <2>1. kind \in Kinds
    OBVIOUS
  <2>2. /\ Applied(r, DeleteMails(kind, at)).mails = Picked(r.mails, Mails \ Those(kind, at))
        /\ Applied(r, DeleteMails(kind, at)).items = r.items
    BY <2>1, AppliedFields
  <2> QED
    BY <1>2, <2>2
<1>4. Picked(Picked(r.mails, Mails \ Those(kind, at)), Gifts) =
        Picked(r.mails, Gifts \cap (Mails \ Those(kind, at)))
  BY <1>1, PickedTwice
<1>5. Gifts \cap (Mails \ Those(kind, at)) = Gifts
  BY DEF Gifts, Those
<1>6. Value(v) = v.items + Len(Picked(v.mails, Gifts))
      /\ Value(r) = r.items + Len(Picked(r.mails, Gifts))
  BY ValueIs
<1> QED
  BY <1>2, <1>3, <1>4, <1>5, <1>6

\* One item for all the gift boxes of a second, of which there is one.
LEMMA ValueOpened ==
  ASSUME NEW r \in Rows, NEW at \in Seconds, Picked(r.mails, Those("gift", at)) # <<>>
  PROVE  Value(Applied(Applied(r, AddItem), DeleteMails("gift", at))) <= Value(r)
<1>1. r.mails \in Seq(Mails) /\ "gift" \in Kinds
  BY RowsOf DEF Kinds
<1>2. PICK u \in Rows : u = Applied(r, AddItem)
  BY AppliedTyped, WritesAre
<1>3. u.mails = r.mails /\ u.items = r.items + 1
  BY <1>2, AppliedFields
<1>4. PICK v \in Rows : v = Applied(u, DeleteMails("gift", at))
  BY <1>1, AppliedTyped, WritesAre
<1>5. v.mails = Picked(u.mails, Mails \ Those("gift", at)) /\ v.items = u.items
  <2>1. /\ Applied(u, DeleteMails("gift", at)).mails = Picked(u.mails, Mails \ Those("gift", at))
        /\ Applied(u, DeleteMails("gift", at)).items = u.items
    BY <1>1, AppliedFields
  <2> QED
    BY <1>4, <2>1
<1>6. Picked(Picked(r.mails, Mails \ Those("gift", at)), Gifts) =
        Picked(r.mails, Gifts \cap (Mails \ Those("gift", at)))
  BY <1>1, PickedTwice
<1>7. PICK S : S = Gifts \cap (Mails \ Those("gift", at))
  OBVIOUS
<1>8. PICK T : T = Those("gift", at)
  OBVIOUS
<1>9. S \cap T = {} /\ S \cup T = Gifts
  BY <1>7, <1>8 DEF Gifts, Those
<1>10. Len(Picked(r.mails, S \cup T)) = Len(Picked(r.mails, S)) + Len(Picked(r.mails, T))
  BY <1>1, <1>9, PickedSplits
<1>11. Picked(r.mails, T) \in Seq(Mails) /\ Picked(r.mails, S) \in Seq(Mails)
  BY <1>1, PickedType
<1>12. Len(Picked(r.mails, T)) \in Nat \ {0} /\ Len(Picked(r.mails, S)) \in Nat
  BY <1>8, <1>11
<1>13. /\ Value(v) = v.items + Len(Picked(v.mails, Gifts))
       /\ Value(r) = r.items + Len(Picked(r.mails, Gifts)) /\ r.items \in Nat
  BY ValueIs
<1>14. Picked(v.mails, Gifts) = Picked(r.mails, S)
  BY <1>3, <1>5, <1>6, <1>7
<1>15. Value(v) = r.items + 1 + Len(Picked(r.mails, S))
  BY <1>3, <1>5, <1>13, <1>14
<1>16. Value(r) = r.items + Len(Picked(r.mails, S)) + Len(Picked(r.mails, T))
  <2>1. Len(Picked(r.mails, Gifts)) = Len(Picked(r.mails, S)) + Len(Picked(r.mails, T))
    BY <1>9, <1>10
  <2> QED
    BY <1>12, <1>13, <2>1
<1>17. Value(v) <= Value(r)
  BY <1>12, <1>13, <1>15, <1>16
<1> QED
  BY <1>2, <1>4, <1>17

LEMMA AgreesAppend ==
  ASSUME NEW a, NEW alone, NEW s \in Seq(Mails), NEW t \in Seq(Mails), NEW m \in Mails,
         Agrees(a, s, t, alone)
  PROVE  Agrees(a, Append(s, m), Append(t, m), alone)
<1> SUFFICES ASSUME NEW kind \in Kinds, NEW at \in Seconds, <<a, kind, at>> \notin alone
             PROVE  Picked(Append(s, m), Those(kind, at)) = Picked(Append(t, m), Those(kind, at))
  BY DEF Agrees
<1>1. Picked(s, Those(kind, at)) = Picked(t, Those(kind, at))
  BY DEF Agrees
<1>2. PICK S : S = Those(kind, at)
  OBVIOUS
<1>3. /\ Picked(Append(s, m), S) = IF m \in S THEN Append(Picked(s, S), m) ELSE Picked(s, S)
      /\ Picked(Append(t, m), S) = IF m \in S THEN Append(Picked(t, S), m) ELSE Picked(t, S)
  BY PickedAppend
<1> QED
  BY <1>1, <1>2, <1>3

LEMMA ThoseApart ==
  ASSUME NEW kind \in Kinds, NEW at \in Seconds, NEW x \in Kinds, NEW y \in Seconds
  PROVE  Those(x, y) \cap (Mails \ Those(kind, at)) =
           IF x = kind /\ y = at THEN {} ELSE Those(x, y)
BY DEF Those

\* Lists of which the mails of a second are gone agree as they did before, and
\* on that second as well.
LEMMA AgreesWithout ==
  ASSUME NEW a, NEW alone, NEW s \in Seq(Mails), NEW t \in Seq(Mails),
         NEW kind \in Kinds, NEW at \in Seconds, Agrees(a, s, t, alone)
  PROVE  Agrees(a, Picked(s, Mails \ Those(kind, at)), Picked(t, Mails \ Those(kind, at)), alone)
<1> SUFFICES ASSUME NEW x \in Kinds, NEW y \in Seconds, <<a, x, y>> \notin alone
             PROVE  Picked(Picked(s, Mails \ Those(kind, at)), Those(x, y)) =
                      Picked(Picked(t, Mails \ Those(kind, at)), Those(x, y))
  BY DEF Agrees
<1>1. PICK S : S = Those(x, y)
  OBVIOUS
<1>2. PICK T : T = Mails \ Those(kind, at)
  OBVIOUS
<1>3. Picked(Picked(s, T), S) = Picked(s, S \cap T) /\ Picked(Picked(t, T), S) = Picked(t, S \cap T)
  BY PickedTwice
<1>4. S \cap T = IF x = kind /\ y = at THEN {} ELSE S
  BY <1>1, <1>2, ThoseApart
<1>5. Picked(s, S) = Picked(t, S)
  BY <1>1 DEF Agrees
<1>6. Picked(s, {}) = <<>> /\ Picked(t, {}) = <<>>
  BY PickedNone
<1> QED
  BY <1>1, <1>2, <1>3, <1>4, <1>5, <1>6

\* A mail leaves the list, and the rows of its second the table.
LEMMA AgreesDeleted ==
  ASSUME NEW a, NEW alone, NEW after, NEW s \in Seq(Mails), NEW t \in Seq(Mails),
         NEW kind \in Kinds, NEW at \in Seconds, NEW k \in DOMAIN s, s[k] \in Those(kind, at),
         Agrees(a, s, t, alone),
         \A x \in Kinds, y \in Seconds :
           <<a, x, y>> \notin after /\ <<x, y>> # <<kind, at>> => <<a, x, y>> \notin alone,
         <<a, kind, at>> \notin after =>
           \A j \in DOMAIN RemoveAt(s, k) : RemoveAt(s, k)[j] \notin Those(kind, at)
  PROVE  Agrees(a, RemoveAt(s, k), Picked(t, Mails \ Those(kind, at)), after)
<1> SUFFICES ASSUME NEW x \in Kinds, NEW y \in Seconds, <<a, x, y>> \notin after
             PROVE  Picked(RemoveAt(s, k), Those(x, y)) =
                      Picked(Picked(t, Mails \ Those(kind, at)), Those(x, y))
  BY DEF Agrees
<1>1. PICK S : S = Those(x, y)
  OBVIOUS
<1>2. PICK T : T = Mails \ Those(kind, at)
  OBVIOUS
<1>3. Picked(Picked(t, T), S) = Picked(t, S \cap T)
  BY PickedTwice
<1>4. S \cap T = IF x = kind /\ y = at THEN {} ELSE S
  BY <1>1, <1>2, ThoseApart
<1>5. CASE x = kind /\ y = at
  <2>1. PICK u \in Seq(Mails) : u = RemoveAt(s, k)
    BY RemoveAtTyped
  <2>2. \A j \in DOMAIN u : u[j] \notin S
    BY <1>1, <1>5, <2>1
  <2>3. Picked(u, S) = <<>>
    BY <2>2, PickedNone
  <2>4. Picked(t, {}) = <<>>
    BY PickedNone
  <2> QED
    BY <1>1, <1>2, <1>3, <1>4, <1>5, <2>1, <2>3, <2>4
<1>6. CASE ~(x = kind /\ y = at)
  <2>1. <<a, x, y>> \notin alone
    BY <1>6
  <2>2. Picked(s, S) = Picked(t, S)
    BY <1>1, <2>1 DEF Agrees
  <2>3. s[k] \notin S
    BY <1>1, <1>6 DEF Those
  <2>4. Picked(RemoveAt(s, k), S) = Picked(s, S)
    BY <2>3, PickedWithout
  <2> QED
    BY <1>1, <1>2, <1>3, <1>4, <1>6, <2>2, <2>4
<1> QED
  BY <1>5, <1>6

LEMMA AppendIs ==
  ASSUME NEW D, NEW s \in Seq(D), NEW e \in D, NEW f \in D
  PROVE  s \o <<e>> = Append(s, e) /\ s \o <<e, f>> = Append(Append(s, e), f)
<1>1. s \o <<e>> = Append(s, e)
  OBVIOUS
<1>2. PICK u \in Seq(D) : u = Append(s, e)
  BY AppendProperties
<1>3. PICK v \in Seq(D) : v = Append(u, f)
  BY AppendProperties
<1>4. <<e, f>> \in Seq(D) /\ Len(<<e, f>>) = 2 /\ <<e, f>>[1] = e /\ <<e, f>>[2] = f
  OBVIOUS
<1>5. PICK y \in Seq(D) : y = <<e, f>> /\ Len(y) = 2 /\ y[1] = e /\ y[2] = f
  BY <1>4
<1>6. PICK t \in Seq(D) : t = s \o y
  BY ConcatProperties
<1>7. PICK n \in Nat : n = Len(s)
  OBVIOUS
<1>8. Len(u) = n + 1 /\ (\A i \in 1 .. n : u[i] = s[i]) /\ u[n + 1] = e
  BY <1>2, <1>7, AppendProperties
<1>9. Len(v) = (n + 1) + 1 /\ (\A i \in 1 .. n + 1 : v[i] = u[i]) /\ v[(n + 1) + 1] = f
  BY <1>3, <1>8, AppendProperties
<1>10. /\ Len(t) = n + 2
       /\ \A i \in 1 .. n + 2 : t[i] = IF i <= n THEN s[i] ELSE y[i - n]
  BY <1>5, <1>6, <1>7, ConcatProperties
<1>11. ASSUME NEW i \in 1 .. n + 2
       PROVE  t[i] = v[i]
  <2>1. CASE i \in 1 .. n
    <3>1. t[i] = s[i]
      BY <1>10, <2>1
    <3>2. v[i] = s[i]
      BY <1>8, <1>9, <2>1
    <3> QED
      BY <3>1, <3>2
  <2>2. CASE i = n + 1
    <3>1. t[i] = y[1]
      BY <1>10, <2>2
    <3>2. v[i] = e
      BY <1>8, <1>9, <2>2
    <3> QED
      BY <1>5, <3>1, <3>2
  <2>3. CASE i = n + 2
    <3>1. t[i] = y[2]
      BY <1>10, <2>3
    <3>2. v[i] = f
      BY <1>9, <2>3
    <3> QED
      BY <1>5, <3>1, <3>2
  <2>4. i \in 1 .. n \/ i = n + 1 \/ i = n + 2
    OBVIOUS
  <2> QED
    BY ONLY <2>1, <2>2, <2>3, <2>4
<1>12. Len(t) = n + 2 /\ Len(v) = n + 2
  BY <1>9, <1>10
<1>13. t = v
  BY <1>11, <1>12, SeqEqual
<1> QED
  BY <1>1, <1>2, <1>3, <1>5, <1>6, <1>13

PrefixOf(p, s, k) == Len(p) = k /\ \A i \in 1 .. k : p[i] = s[i]

LEMMA PrefixIs ==
  ASSUME NEW D, NEW s \in Seq(D), NEW k \in 0 .. Len(s)
  PROVE  SubSeq(s, 1, k) \in Seq(D) /\ PrefixOf(SubSeq(s, 1, k), s, k)
<1>1. k \in Nat /\ Len(s) \in Nat /\ k <= Len(s) /\ \A i \in 1 .. k : s[i] \in D
  OBVIOUS
<1>2. /\ SubSeq(s, 1, k) \in Seq(D)
      /\ Len(SubSeq(s, 1, k)) = IF 1 <= k THEN k - 1 + 1 ELSE 0
      /\ \A i \in 1 .. k - 1 + 1 : SubSeq(s, 1, k)[i] = s[1 + i - 1]
  BY <1>1, SubSeqProperties
<1>3. /\ (IF 1 <= k THEN k - 1 + 1 ELSE 0) = k /\ k - 1 + 1 = k
      /\ \A i \in 1 .. k : 1 + i - 1 = i
  BY <1>1
<1> QED
  BY <1>2, <1>3 DEF PrefixOf

LEMMA PrefixEnds ==
  ASSUME NEW D, NEW s \in Seq(D)
  PROVE  SubSeq(s, 1, 0) = <<>> /\ SubSeq(s, 1, Len(s)) = s
<1>1. Len(s) \in Nat /\ 0 \in 0 .. Len(s) /\ Len(s) \in 0 .. Len(s)
  OBVIOUS
<1>2. PICK t \in Seq(D) : t = SubSeq(s, 1, Len(s)) /\ PrefixOf(t, s, Len(s))
  BY <1>1, PrefixIs
<1>3. t = s
  BY <1>2, SeqEqual DEF PrefixOf
<1>4. SubSeq(s, 1, 0) \in Seq(D) /\ PrefixOf(SubSeq(s, 1, 0), s, 0)
  BY <1>1, PrefixIs
<1>5. SubSeq(s, 1, 0) = <<>>
  BY <1>4 DEF PrefixOf
<1> QED
  BY <1>2, <1>3, <1>5

LEMMA PrefixAppend ==
  ASSUME NEW D, NEW s \in Seq(D), NEW w \in D, NEW k \in 0 .. Len(s)
  PROVE  SubSeq(Append(s, w), 1, k) = SubSeq(s, 1, k)
<1>0. PICK n \in Nat : n = Len(s)
  OBVIOUS
<1>1. PICK t \in Seq(D) : t = Append(s, w)
  BY AppendProperties
<1>2. Len(t) = n + 1 /\ \A i \in 1 .. n : t[i] = s[i]
  BY <1>0, <1>1, AppendProperties
<1>3. k \in 0 .. Len(t) /\ \A i \in 1 .. k : i \in 1 .. n
  BY <1>0, <1>2
<1>4. PICK u \in Seq(D) : u = SubSeq(t, 1, k) /\ PrefixOf(u, t, k)
  BY <1>3, PrefixIs
<1>5. PICK v \in Seq(D) : v = SubSeq(s, 1, k) /\ PrefixOf(v, s, k)
  BY PrefixIs
<1>6. u = v
  <2>1. Len(u) = Len(v) /\ \A i \in 1 .. Len(u) : u[i] = v[i]
    BY <1>2, <1>3, <1>4, <1>5 DEF PrefixOf
  <2> QED
    BY <2>1, SeqEqual
<1> QED
  BY <1>1, <1>4, <1>5, <1>6

LEMMA PrefixTail ==
  ASSUME NEW D, NEW s \in Seq(D), s # <<>>, NEW k \in 0 .. Len(Tail(s))
  PROVE  /\ k + 1 \in 0 .. Len(s) /\ SubSeq(s, 1, k + 1) \in Seq(D) /\ SubSeq(s, 1, k + 1) # <<>>
         /\ Head(SubSeq(s, 1, k + 1)) = Head(s)
         /\ Tail(SubSeq(s, 1, k + 1)) = SubSeq(Tail(s), 1, k)
<1>1. PICK n \in Nat : n = Len(s)
  OBVIOUS
<1>2. PICK t \in Seq(D) : t = Tail(s)
  BY HeadTailProperties
<1>3. Len(t) = n - 1 /\ \A i \in 1 .. Len(t) : t[i] = s[i + 1]
  BY <1>1, <1>2
<1>4. /\ k \in 0 .. Len(t) /\ k \in Nat /\ k + 1 \in 0 .. n /\ k + 1 \in Nat
      /\ \A i \in 1 .. k : i + 1 \in 1 .. k + 1 /\ i \in 1 .. Len(t)
  BY <1>2, <1>3
<1>5. PICK u \in Seq(D) : u = SubSeq(s, 1, k + 1) /\ PrefixOf(u, s, k + 1)
  BY <1>1, <1>4, PrefixIs
<1>6. /\ u # <<>> /\ 1 \in 1 .. k + 1 /\ Len(u) = k + 1
      /\ \A i \in 1 .. k + 1 : u[i] = s[i]
  BY <1>4, <1>5 DEF PrefixOf
<1>7. Head(u) = u[1] /\ Head(s) = s[1]
  OBVIOUS
<1>8. PICK x \in Seq(D) : x = Tail(u)
  BY <1>6, HeadTailProperties
<1>9. Len(x) = k /\ \A i \in 1 .. k : x[i] = u[i + 1]
  BY <1>4, <1>6, <1>8
<1>10. PICK v \in Seq(D) : v = SubSeq(t, 1, k) /\ PrefixOf(v, t, k)
  BY <1>4, PrefixIs
<1>11. x = v
  <2>1. Len(x) = Len(v) /\ \A i \in 1 .. Len(x) : x[i] = v[i]
    BY <1>3, <1>4, <1>6, <1>9, <1>10 DEF PrefixOf
  <2> QED
    BY <2>1, SeqEqual
<1> QED
  BY <1>1, <1>2, <1>4, <1>5, <1>6, <1>7, <1>8, <1>10, <1>11

\* However many of the writes are done, the value of the rows is at most g,
\* or one more when the next of them deletes a gift whose item is written.
Extra(w) == IF w.op = "deleteMailbox" /\ w.kind = "gift" THEN 1 ELSE 0
Within(r, q, g, last) ==
  \A k \in 0 .. Len(q) :
    Value(Written(r, SubSeq(q, 1, k))) <= g + (IF k = Len(q) THEN last ELSE Extra(q[k + 1]))

LEMMA WithinNone ==
  ASSUME NEW r \in Rows, NEW g \in Nat, Value(r) <= g
  PROVE  Within(r, <<>>, g, 0)
<1>1. <<>> \in Seq(Writes) /\ Len(<<>>) = 0
  OBVIOUS
<1>2. SubSeq(<<>>, 1, 0) = <<>>
  BY <1>1, PrefixEnds
<1>3. Written(r, <<>>) = r
  BY WrittenNothing
<1> SUFFICES ASSUME NEW k \in 0 .. Len(<<>>)
             PROVE  Value(Written(r, SubSeq(<<>>, 1, k))) <=
                      g + (IF k = Len(<<>>) THEN 0 ELSE Extra(<<>>[k + 1]))
  BY DEF Within
<1>4. k = 0
  BY <1>1
<1>5. Written(r, SubSeq(<<>>, 1, k)) = r
  BY <1>2, <1>3, <1>4
<1>6. Value(r) \in Nat /\ Value(r) <= g + 0
  BY ValueIs
<1> QED
  BY <1>1, <1>4, <1>5, <1>6

LEMMA WithinAll ==
  ASSUME NEW r \in Rows, NEW q \in Seq(Writes), NEW g \in Nat, NEW d \in {0, 1}, Within(r, q, g, d)
  PROVE  Value(Written(r, q)) <= g + d /\ Written(r, q) \in Rows
<1>1. Len(q) \in 0 .. Len(q)
  OBVIOUS
<1>2. SubSeq(q, 1, Len(q)) = q
  BY PrefixEnds
<1> QED
  BY <1>1, <1>2, WrittenTyped DEF Within

LEMMA WithinFirst ==
  ASSUME NEW r \in Rows, NEW q \in Seq(Writes), NEW g \in Nat, Within(r, q, g, 0)
  PROVE  Value(r) <= g + (IF q = <<>> THEN 0 ELSE Extra(Head(q)))
<1>1. 0 \in 0 .. Len(q) /\ (q = <<>> <=> 0 = Len(q)) /\ Head(q) = q[0 + 1]
  OBVIOUS
<1>2. SubSeq(q, 1, 0) = <<>>
  BY PrefixEnds
<1>3. Written(r, <<>>) = r
  BY WrittenNothing
<1> QED
  BY <1>1, <1>2, <1>3 DEF Within

LEMMA WithinTail ==
  ASSUME NEW r \in Rows, NEW q \in Seq(Writes), q # <<>>, NEW g \in Nat, Within(r, q, g, 0)
  PROVE  Within(Applied(r, Head(q)), Tail(q), g, 0)
<1> SUFFICES ASSUME NEW k \in 0 .. Len(Tail(q))
             PROVE  Value(Written(Applied(r, Head(q)), SubSeq(Tail(q), 1, k))) <=
                      g + (IF k = Len(Tail(q)) THEN 0 ELSE Extra(Tail(q)[k + 1]))
  BY DEF Within
<1>1. PICK p \in Seq(Writes) : /\ p = SubSeq(q, 1, k + 1) /\ p # <<>> /\ Head(p) = Head(q)
                               /\ Tail(p) = SubSeq(Tail(q), 1, k) /\ k + 1 \in 0 .. Len(q)
  BY PrefixTail
<1>2. Written(Applied(r, Head(p)), Tail(p)) = Written(r, p)
  BY <1>1, WrittenTail
<1>3. Value(Written(r, p)) <= g + (IF k + 1 = Len(q) THEN 0 ELSE Extra(q[(k + 1) + 1]))
  BY <1>1 DEF Within
<1>4. PICK n \in Nat : n = Len(q) /\ n - 1 \in Nat /\ Len(Tail(q)) = n - 1
  OBVIOUS
<1>5. k \in 0 .. n - 1 /\ (k = n - 1 <=> k + 1 = n)
  BY <1>4
<1>6. k # n - 1 => Tail(q)[k + 1] = q[(k + 1) + 1]
  BY <1>4, <1>5
<1> QED
  BY <1>1, <1>2, <1>3, <1>4, <1>5, <1>6

LEMMA WithinAppend ==
  ASSUME NEW r \in Rows, NEW q \in Seq(Writes), NEW w \in Writes, NEW g \in Nat,
         NEW d \in Nat, NEW e \in Nat, d <= Extra(w), Within(r, q, g, d),
         Value(Applied(Written(r, q), w)) <= g + e
  PROVE  Within(r, Append(q, w), g, e)
<1>0. PICK t \in Seq(Writes) : t = Append(q, w)
  BY AppendProperties
<1>1. /\ t = Append(q, w) /\ Len(t) = Len(q) + 1 /\ t[Len(q) + 1] = w
      /\ \A i \in 1 .. Len(q) : t[i] = q[i]
  BY <1>0, AppendProperties
<1>2. Written(r, t) = Applied(Written(r, q), w)
  BY <1>1, WrittenAppend
<1> SUFFICES ASSUME NEW k \in 0 .. Len(t)
             PROVE  Value(Written(r, SubSeq(t, 1, k))) <=
                      g + (IF k = Len(t) THEN e ELSE Extra(t[k + 1]))
  BY <1>1 DEF Within
<1>3. CASE k = Len(t)
  <2>1. SubSeq(t, 1, k) = t
    BY <1>3, PrefixEnds
  <2> QED
    BY <1>2, <1>3, <2>1
<1>4. CASE k # Len(t)
  <2>1. k \in 0 .. Len(q) /\ Len(q) \in Nat
    BY <1>1, <1>4
  <2>2. SubSeq(t, 1, k) = SubSeq(q, 1, k)
    BY <1>1, <2>1, PrefixAppend
  <2>3. PICK u \in Rows : u = Written(r, SubSeq(q, 1, k))
    <3>1. SubSeq(q, 1, k) \in Seq(Writes)
      BY <2>1, PrefixIs
    <3> QED
      BY <3>1, WrittenTyped
  <2>4. Value(u) <= g + (IF k = Len(q) THEN d ELSE Extra(q[k + 1])) /\ Value(u) \in Nat
    BY <2>1, <2>3, ValueIs DEF Within
  <2>5. Extra(t[k + 1]) \in {0, 1}
    BY DEF Extra
  <2>6. CASE k = Len(q)
    <3>1. t[k + 1] = w
      BY <1>1, <2>6
    <3>2. Value(u) <= g + Extra(w)
      BY <2>4, <2>5, <2>6, <3>1
    <3> QED
      BY <1>4, <2>2, <2>3, <3>1, <3>2
  <2>7. CASE k # Len(q)
    <3>1. t[k + 1] = q[k + 1]
      BY <1>1, <2>1, <2>7
    <3> QED
      BY <1>4, <2>2, <2>3, <2>4, <2>7, <3>1
  <2> QED
    BY <2>6, <2>7
<1> QED
  BY <1>3, <1>4

\* The rows may change in what the value does not count, the bound may grow.
LEMMA WithinLike ==
  ASSUME NEW r \in Rows, NEW v \in Rows, NEW q \in Seq(Writes), NEW g \in Nat, NEW h \in Nat,
         r.mails = v.mails, r.items = v.items, g <= h, Within(r, q, g, 0)
  PROVE  Within(v, q, h, 0)
<1> SUFFICES ASSUME NEW k \in 0 .. Len(q)
             PROVE  Value(Written(v, SubSeq(q, 1, k))) <=
                      h + (IF k = Len(q) THEN 0 ELSE Extra(q[k + 1]))
  BY DEF Within
<1>1. PICK p \in Seq(Writes) : p = SubSeq(q, 1, k)
  BY PrefixIs
<1>2. Written(r, p).mails = Written(v, p).mails /\ Written(r, p).items = Written(v, p).items
  BY WrittenLike
<1>3. Value(Written(r, p)) = Value(Written(v, p))
  BY <1>2 DEF Value
<1>4. Value(Written(r, p)) <= g + (IF k = Len(q) THEN 0 ELSE Extra(q[k + 1]))
  BY <1>1 DEF Within
<1>5. Value(Written(r, p)) \in Nat
  BY WrittenTyped, ValueIs
<1>6. (IF k = Len(q) THEN 0 ELSE Extra(q[k + 1])) \in {0, 1}
  BY DEF Extra
<1> QED
  BY <1>1, <1>3, <1>4, <1>5, <1>6

\* What the session's lists and the rows with their writes have to do with each
\* other.
MailsOf(a) ==
  /\ a \in online => Agrees(a, box[a], Settled(a).mails, orphans)
  /\ Within(rows[a], queue[a], given[a] + torn[a], 0)
MailsInv == \A a \in Accounts : MailsOf(a)

LEMMA MailsStay ==
  ASSUME Shape, Shape', MailsInv, NEW x \in Accounts, x \in online' => x \in online,
         x \in online' => box'[x] = box[x], queue'[x] = queue[x],
         given'[x] + torn'[x] = given[x] + torn[x],
         rows'[x].mails = rows[x].mails, rows'[x].items = rows[x].items,
         x \in online' => \A kind \in Kinds, at \in Seconds :
                            <<x, kind, at>> \in orphans => <<x, kind, at>> \in orphans'
  PROVE  MailsOf(x)'
<1>1. PICK r \in Rows : r = rows[x]
  BY DEF Shape
<1>2. PICK v \in Rows : v = rows'[x]
  BY DEF Shape
<1>3. PICK q \in Seq(Writes) : q = queue[x]
  BY DEF Shape
<1>4. Written(v, q).mails = Written(r, q).mails
  BY <1>1, <1>2, <1>3, WrittenLike
<1>5. PICK g \in Nat : g = given[x] + torn[x]
  BY DEF Shape
<1>6. /\ x \in online => Agrees(x, box[x], Written(r, q).mails, orphans)
      /\ Within(r, q, g, 0)
  BY <1>1, <1>3, <1>5 DEF MailsInv, MailsOf, Settled
<1>7. x \in online' => Agrees(x, box'[x], Written(v, q).mails, orphans')
  BY <1>4, <1>6 DEF Agrees
<1>8. Within(v, q, g, 0)
  BY <1>1, <1>2, <1>6, WithinLike
<1> QED
  BY <1>2, <1>3, <1>5, <1>7, <1>8 DEF MailsOf, Settled

\* A mail that is stored joins both sides.
LEMMA MailAdded ==
  ASSUME NEW a, NEW alone, NEW list \in Seq(Mails), NEW r \in Rows, NEW q \in Seq(Writes),
         NEW m \in Mails, NEW g \in Nat, NEW h \in Nat,
         h = IF m.kind = "gift" THEN g + 1 ELSE g,
         Agrees(a, list, Written(r, q).mails, alone), Within(r, q, g, 0)
  PROVE  /\ Agrees(a, Append(list, m), Written(r, Append(q, StoreMail(m))).mails, alone)
         /\ Within(r, Append(q, StoreMail(m)), h, 0)
<1>1. PICK u \in Rows : u = Written(r, q)
  BY WrittenTyped
<1>2. PICK w \in Writes : w = StoreMail(m)
  BY WritesAre
<1>3. Written(r, Append(q, w)) = Applied(u, w)
  BY <1>1, WrittenAppend
<1>4. Applied(u, w).mails = Append(u.mails, m)
  BY <1>2, AppliedFields
<1>5. Value(Applied(u, w)) = IF m.kind = "gift" THEN Value(u) + 1 ELSE Value(u)
  BY <1>2, ValueStored
<1>6. u.mails \in Seq(Mails)
  BY RowsOf
<1>7. Agrees(a, Append(list, m), Append(u.mails, m), alone)
  BY <1>1, <1>6, AgreesAppend
<1>8. Value(u) <= g /\ Value(u) \in Nat
  BY <1>1, WithinAll, ValueIs
<1>9. Value(Applied(u, w)) <= h + 0
  BY <1>5, <1>8
<1>10. Within(r, q, h, 0)
  BY WithinLike
<1>11. Extra(w) \in {0, 1}
  BY DEF Extra
<1>12. Within(r, Append(q, w), h, 0)
  BY <1>1, <1>9, <1>10, <1>11, WithinAppend
<1> QED
  BY <1>2, <1>3, <1>4, <1>7, <1>12

LEMMA MailStored ==
  ASSUME Shape, MailsInv, NEW x \in online, NEW m \in Mails,
         box'[x] = Append(box[x], m), queue'[x] = Append(queue[x], StoreMail(m)),
         rows'[x] = rows[x], orphans' = orphans, torn' = torn,
         given'[x] = IF m.kind = "gift" THEN given[x] + 1 ELSE given[x]
  PROVE  MailsOf(x)'
<1>1. x \in Accounts
  BY DEF Shape
<1>2. PICK r \in Rows : r = rows[x]
  BY <1>1 DEF Shape
<1>3. PICK q \in Seq(Writes) : q = queue[x]
  BY <1>1 DEF Shape
<1>4. PICK s \in Seq(Mails) : s = box[x]
  BY <1>1 DEF Shape
<1>5. PICK g \in Nat : g = given[x] + torn[x]
  BY <1>1 DEF Shape
<1>6. PICK h \in Nat : h = IF m.kind = "gift" THEN g + 1 ELSE g
  OBVIOUS
<1>7. h = given'[x] + torn'[x]
  BY <1>1, <1>5, <1>6 DEF Shape
<1>8. Agrees(x, s, Written(r, q).mails, orphans) /\ Within(r, q, g, 0)
  BY <1>1, <1>2, <1>3, <1>4, <1>5 DEF MailsInv, MailsOf, Settled
<1>9. /\ Agrees(x, Append(s, m), Written(r, Append(q, StoreMail(m))).mails, orphans)
      /\ Within(r, Append(q, StoreMail(m)), h, 0)
  BY <1>6, <1>8, MailAdded
<1> QED
  BY <1>2, <1>3, <1>4, <1>7, <1>9 DEF MailsOf, Settled

\* A mail to oneself is stored twice.
LEMMA MailsStored ==
  ASSUME Shape, MailsInv, NEW x \in online, NEW m \in Mails, NEW n \in Mails,
         m.kind # "gift", n.kind # "gift",
         box'[x] = Append(Append(box[x], m), n),
         queue'[x] = Append(Append(queue[x], StoreMail(m)), StoreMail(n)),
         UNCHANGED <<rows, orphans, given, torn>>
  PROVE  MailsOf(x)'
<1>1. x \in Accounts
  BY DEF Shape
<1>2. PICK r \in Rows : r = rows[x]
  BY <1>1 DEF Shape
<1>3. PICK q \in Seq(Writes) : q = queue[x]
  BY <1>1 DEF Shape
<1>4. PICK s \in Seq(Mails) : s = box[x]
  BY <1>1 DEF Shape
<1>5. PICK g \in Nat : g = given[x] + torn[x]
  BY <1>1 DEF Shape
<1>6. Agrees(x, s, Written(r, q).mails, orphans) /\ Within(r, q, g, 0)
  BY <1>1, <1>2, <1>3, <1>4, <1>5 DEF MailsInv, MailsOf, Settled
<1>7. PICK t \in Seq(Mails) : t = Append(s, m)
  BY AppendProperties
<1>8. PICK p \in Seq(Writes) : p = Append(q, StoreMail(m))
  BY WritesAre, AppendProperties
<1>9. Agrees(x, t, Written(r, p).mails, orphans) /\ Within(r, p, g, 0)
  BY <1>6, <1>7, <1>8, MailAdded
<1>10. /\ Agrees(x, Append(t, n), Written(r, Append(p, StoreMail(n))).mails, orphans)
       /\ Within(r, Append(p, StoreMail(n)), g, 0)
  BY <1>9, MailAdded
<1> QED
  BY <1>1, <1>2, <1>3, <1>4, <1>5, <1>7, <1>8, <1>10 DEF MailsOf, Settled

\* What is addressed to a player who is offline is a row at once.
LEMMA RowStored ==
  ASSUME Shape, MailsInv, Idle, NEW x \in Accounts \ online, NEW m \in Mails,
         x \notin online', queue' [x] = queue[x], torn' = torn,
         rows'[x] = [rows[x] EXCEPT !.mails = Append(@, m)],
         given'[x] = IF m.kind = "gift" THEN given[x] + 1 ELSE given[x]
  PROVE  MailsOf(x)'
<1>1. PICK r \in Rows : r = rows[x]
  BY DEF Shape
<1>2. PICK v \in Rows : v = rows'[x] /\ v = Applied(r, StoreMail(m))
  BY <1>1, MailedRow
<1>3. queue[x] = <<>> /\ queue'[x] = <<>>
  BY DEF Idle
<1>4. PICK g \in Nat : g = given[x] + torn[x]
  BY DEF Shape
<1>5. Value(v) = IF m.kind = "gift" THEN Value(r) + 1 ELSE Value(r)
  BY <1>2, ValueStored
<1>6. Value(r) <= g /\ Value(r) \in Nat
  <2>1. Within(r, <<>>, g, 0)
    BY <1>1, <1>3, <1>4 DEF MailsInv, MailsOf
  <2>2. PICK q \in Seq(Writes) : q = <<>>
    <3>1. <<>> \in Seq(Writes)
      OBVIOUS
    <3> QED
      BY <3>1
  <2>3. Value(r) <= g + 0
    BY <2>1, <2>2, WithinFirst
  <2> QED
    BY <2>3, ValueIs
<1>7. PICK h \in Nat : h = given'[x] + torn'[x]
  BY DEF Shape
<1>8. h = IF m.kind = "gift" THEN g + 1 ELSE g
  BY <1>4, <1>7 DEF Shape
<1>9. Within(v, <<>>, h, 0)
  BY <1>5, <1>6, <1>8, WithinNone
<1> QED
  BY <1>2, <1>3, <1>7, <1>9 DEF MailsOf

LEMMA PersistMails ==
  ASSUME Shape, Shape', MailsInv, NEW a \in Accounts, Persist(a)
  PROVE  MailsInv'
<1> SUFFICES ASSUME NEW x \in Accounts
             PROVE  MailsOf(x)'
  BY DEF MailsInv
<1>1. /\ queue[a] # <<>>
      /\ rows' = [rows EXCEPT ![a] = Applied(rows[a], Head(queue[a]))]
      /\ queue' = [queue EXCEPT ![a] = Tail(queue[a])]
      /\ UNCHANGED <<online, box, orphans, given, torn>>
  BY DEF Persist, session, history
<1>2. CASE x # a
  <2>1. rows'[x] = rows[x] /\ queue'[x] = queue[x]
    BY <1>1, <1>2 DEF Shape
  <2> QED
    BY <1>1, <2>1, MailsStay
<1>3. CASE x = a
  <2>1. PICK r \in Rows : r = rows[x]
    BY DEF Shape
  <2>2. PICK q \in Seq(Writes) : q = queue[x]
    BY DEF Shape
  <2>3. rows'[x] = Applied(r, Head(q)) /\ queue'[x] = Tail(q) /\ q # <<>>
    BY <1>1, <1>3, <2>1, <2>2 DEF Shape
  <2>4. Written(Applied(r, Head(q)), Tail(q)) = Written(r, q)
    BY <2>3, WrittenTail
  <2>5. PICK g \in Nat : g = given[x] + torn[x]
    BY DEF Shape
  <2>6. /\ x \in online => Agrees(x, box[x], Written(r, q).mails, orphans)
        /\ Within(r, q, g, 0)
    BY <2>1, <2>2, <2>5 DEF MailsInv, MailsOf, Settled
  <2>7. Within(Applied(r, Head(q)), Tail(q), g, 0)
    BY <2>3, <2>6, WithinTail
  <2> QED
    BY <1>1, <2>3, <2>4, <2>5, <2>6, <2>7 DEF MailsOf, Settled
<1> QED
  BY <1>2, <1>3

\* The item of a gift may be written and the gift still be there.
LEMMA CrashMails ==
  ASSUME Shape, MailsInv, Crash
  PROVE  MailsInv'
<1> SUFFICES ASSUME NEW x \in Accounts
             PROVE  MailsOf(x)'
  BY DEF MailsInv
<1>1. PICK r \in Rows : r = rows[x]
  BY DEF Shape
<1>2. PICK q \in Seq(Writes) : q = queue[x]
  BY DEF Shape
<1>3. PICK g \in Nat : g = given[x] + torn[x]
  BY DEF Shape
<1>4. /\ online' = {} /\ rows'[x] = r /\ queue'[x] = <<>> /\ given' = given
      /\ torn'[x] = IF Opening(x) THEN torn[x] + 1 ELSE torn[x]
  BY <1>1 DEF Crash, database
<1>5. Value(r) <= g + (IF q = <<>> THEN 0 ELSE Extra(Head(q))) /\ Value(r) \in Nat
  <2>1. Within(r, q, g, 0)
    BY <1>1, <1>2, <1>3 DEF MailsInv, MailsOf
  <2> QED
    BY <2>1, WithinFirst, ValueIs
<1>6. PICK h \in Nat : h = given'[x] + torn'[x]
  BY <1>4 DEF Shape
<1>7. h = IF Opening(x) THEN g + 1 ELSE g
  BY <1>3, <1>4, <1>6 DEF Shape
<1>8. Value(r) <= h
  BY <1>2, <1>5, <1>7 DEF Opening, Extra
<1>9. Within(r, <<>>, h, 0)
  BY <1>8, WithinNone
<1> QED
  BY <1>4, <1>6, <1>9 DEF MailsOf

LEMMA LoginMails ==
  ASSUME Shape, Shape', MailsInv, Idle, NEW a \in Accounts, Login(a)
  PROVE  MailsInv'
<1> SUFFICES ASSUME NEW x \in Accounts
             PROVE  MailsOf(x)'
  BY DEF MailsInv
<1>1. /\ a \notin online /\ online' = online \cup {a}
      /\ box' = [box EXCEPT ![a] = rows[a].mails]
      /\ UNCHANGED <<queue, rows, given, orphans, torn>>
  BY DEF Login, database
<1>2. CASE x # a
  <2>1. box'[x] = box[x]
    BY <1>1, <1>2 DEF Shape
  <2> QED
    BY <1>1, <1>2, <2>1, MailsStay
<1>3. CASE x = a
  <2>1. PICK r \in Rows : r = rows[x]
    BY DEF Shape
  <2>2. box'[x] = r.mails /\ queue'[x] = <<>> /\ rows'[x] = r
    BY <1>1, <1>3, <2>1 DEF Shape, Idle
  <2>3. Written(r, <<>>) = r
    BY WrittenNothing
  <2>4. Within(rows[x], queue[x], given[x] + torn[x], 0)
    BY DEF MailsInv, MailsOf
  <2>5. Agrees(x, r.mails, r.mails, orphans')
    BY DEF Agrees
  <2> QED
    BY <1>1, <2>2, <2>3, <2>4, <2>5 DEF MailsOf, Settled
<1> QED
  BY <1>2, <1>3

LEMMA LogoutMails ==
  ASSUME Shape, Shape', MailsInv, NEW a \in Accounts, Logout(a)
  PROVE  MailsInv'
<1> SUFFICES ASSUME NEW x \in Accounts
             PROVE  MailsOf(x)'
  BY DEF MailsInv
<1>1. /\ online' = online \ {a} /\ box' = [box EXCEPT ![a] = <<>>]
      /\ orphans' = {o \in orphans : o[1] # a} /\ UNCHANGED <<rows, queue, given, torn>>
  BY DEF Logout, database
<1>2. x \in online' => box'[x] = box[x]
  BY <1>1 DEF Shape
<1>3. x \in online' => \A kind \in Kinds, at \in Seconds :
                         <<x, kind, at>> \in orphans => <<x, kind, at>> \in orphans'
  BY <1>1
<1> QED
  BY <1>1, <1>2, <1>3, MailsStay

LEMMA FriendStepsMails ==
  ASSUME Shape, Shape', MailsInv, NEW a \in Accounts, NEW b \in Accounts,
         \/ EnterMatch(a) \/ LeaveMatch(a) \/ FetchRequests(a) \/ UNCHANGED vars
         \/ AskOnline(a, b) \/ AskOffline(a, b) \/ Accept(a, b) \/ DeleteFriend(a, b)
  PROVE  MailsInv'
<1>1. UNCHANGED <<online, box, queue, rows, given, orphans, torn>>
  BY DEF EnterMatch, LeaveMatch, FetchRequests, vars, AskOnline, AskOffline, Accept, DeleteFriend,
         session, database, history
<1>2. \A x \in Accounts : MailsOf(x)'
  BY <1>1, MailsStay
<1> QED
  BY <1>2 DEF MailsInv

LEMMA QueuedOne ==
  ASSUME Shape, NEW a \in Accounts, NEW w \in Writes, Queued(a, <<w>>)
  PROVE  queue'[a] = Append(queue[a], w) /\ \A x \in Accounts \ {a} : queue'[x] = queue[x]
<1>1. <<w>> \in Seq(Writes) /\ queue[a] \in Seq(Writes)
  BY DEF Shape
<1>2. queue'[a] = queue[a] \o <<w>> /\ \A x \in Accounts \ {a} : queue'[x] = queue[x]
  BY <1>1, QueuedTyped
<1>3. queue[a] \o <<w>> = Append(queue[a], w)
  BY <1>1, AppendIs
<1> QED
  BY <1>2, <1>3

\* A block touches neither the mails nor the items.
LEMMA BlockQueued ==
  ASSUME Shape, Shape', MailsInv, NEW a \in Accounts, NEW b \in Accounts,
         NEW w \in {BlockRow(b), UnblockRows(b)}, queue'[a] = Append(queue[a], w),
         rows'[a].mails = rows[a].mails, rows'[a].items = rows[a].items,
         UNCHANGED <<online, box, orphans, given, torn>>
  PROVE  MailsOf(a)'
<1>1. PICK r \in Rows : r = rows[a]
  BY DEF Shape
<1>2. PICK v \in Rows : v = rows'[a]
  BY DEF Shape
<1>3. PICK q \in Seq(Writes) : q = queue[a]
  BY DEF Shape
<1>4. w \in Writes
  BY WritesAre
<1>5. PICK u \in Rows : u = Written(v, q)
  BY WrittenTyped
<1>6. Written(v, Append(q, w)) = Applied(u, w)
  BY <1>4, <1>5, WrittenAppend
<1>7. Applied(u, w).mails = u.mails /\ Applied(u, w).items = u.items
  BY AppliedFields
<1>8. u.mails = Written(r, q).mails
  BY <1>1, <1>2, <1>5, WrittenLike
<1>9. PICK g \in Nat : g = given[a] + torn[a]
  BY DEF Shape
<1>10. /\ a \in online => Agrees(a, box[a], Written(r, q).mails, orphans)
       /\ Within(r, q, g, 0)
  BY <1>1, <1>3, <1>9 DEF MailsInv, MailsOf, Settled
<1>11. a \in online => Agrees(a, box[a], Applied(u, w).mails, orphans)
  BY <1>7, <1>8, <1>10
<1>12. Within(v, q, g, 0)
  BY <1>1, <1>2, <1>10, WithinLike
<1>13. Value(Applied(u, w)) <= g + 0
  <2>1. Value(u) <= g + 0 /\ Value(u) \in Nat
    BY <1>5, <1>12, WithinAll, ValueIs
  <2>2. Value(Applied(u, w)) = Value(u)
    BY <1>7 DEF Value
  <2> QED
    BY <2>1, <2>2
<1>14. Extra(w) \in {0, 1}
  BY DEF Extra
<1>15. Within(v, Append(q, w), g, 0)
  BY <1>4, <1>5, <1>12, <1>13, <1>14, WithinAppend
<1> QED
  BY <1>2, <1>3, <1>6, <1>9, <1>11, <1>15 DEF MailsOf, Settled

LEMMA BlocksMails ==
  ASSUME Shape, Shape', MailsInv, NEW a \in Accounts, NEW b \in Accounts,
         BlockOnline(a, b) \/ BlockOffline(a, b) \/ Unblock(a, b)
  PROVE  MailsInv'
<1>1. UNCHANGED <<online, box, orphans, given, torn>>
  BY DEF BlockOnline, BlockOffline, Unblock
<1>2. \A x \in Accounts : rows'[x].mails = rows[x].mails /\ rows'[x].items = rows[x].items
  <2>1. CASE rows' = rows
    BY <2>1
  <2>2. CASE rows' = [rows EXCEPT ![a].blocks[b] = @ + 1]
    <3>1. /\ [rows[a] EXCEPT !.blocks[b] = @ + 1].mails = rows[a].mails
          /\ [rows[a] EXCEPT !.blocks[b] = @ + 1].items = rows[a].items
      <4>1. PICK r \in Rows : r = rows[a]
        BY DEF Shape
      <4>2. [r EXCEPT !.blocks[b] = @ + 1] = Applied(r, BlockRow(b))
        BY BlockedRow
      <4> QED
        BY <4>1, <4>2, AppliedFields
    <3> QED
      BY <2>2, <3>1 DEF Shape
  <2> QED
    BY <2>1, <2>2 DEF BlockOnline, BlockOffline, Unblock, database
<1>3. \/ queue' = queue
      \/ Queued(a, <<BlockRow(b)>>) \/ Queued(a, <<UnblockRows(b)>>)
  BY DEF BlockOnline, BlockOffline, Blocking, Unblock
<1>4. CASE queue' = queue
  <2>1. \A x \in Accounts : MailsOf(x)'
    BY <1>1, <1>2, <1>4, MailsStay
  <2> QED
    BY <2>1 DEF MailsInv
<1>5. ASSUME NEW w \in {BlockRow(b), UnblockRows(b)}, Queued(a, <<w>>)
      PROVE  MailsInv'
  <2>1. w \in Writes
    BY WritesAre
  <2>2. queue'[a] = Append(queue[a], w) /\ \A x \in Accounts \ {a} : queue'[x] = queue[x]
    BY <1>5, <2>1, QueuedOne
  <2>3. MailsOf(a)'
    BY <1>1, <1>2, <2>2, BlockQueued
  <2>4. ASSUME NEW x \in Accounts \ {a}
        PROVE  MailsOf(x)'
    BY <1>1, <1>2, <2>2, MailsStay
  <2> QED
    BY <2>3, <2>4 DEF MailsInv
<1> QED
  BY <1>3, <1>4, <1>5

LEMMA SentMails ==
  ASSUME Shape, Shape', MailsInv, Idle, NEW a \in Accounts, NEW b \in Accounts, NEW at \in Seconds,
         MailOnline(a, b, at) \/ MailOffline(a, b, at)
  PROVE  MailsInv'
<1>1. PICK s \in Mails : s = Mail("sent", b, at) /\ s.kind # "gift"
  BY MailsAre DEF Kinds, Mail
<1>2. PICK t \in Mails : t = Mail("received", a, at) /\ t.kind # "gift"
  BY MailsAre DEF Kinds, Mail
<1>3. a \in online /\ UNCHANGED <<online, orphans, given, torn>>
  BY DEF MailOnline, MailOffline, history
<1>4. StoreMail(s) \in Writes /\ StoreMail(t) \in Writes
  BY WritesAre
<1>5. CASE MailOnline(a, b, at)
  <2>1. /\ b \in online /\ rows' = rows
        /\ box' = Appended(Appended(box, b, t), a, s)
        /\ queue' = Appended(Appended(queue, b, StoreMail(t)), a, StoreMail(s))
    BY <1>1, <1>2, <1>5 DEF MailOnline, database
  <2>2. /\ BothAppended(box, a, b, s, t, Mails)
        /\ BothAppended(queue, a, b, StoreMail(s), StoreMail(t), Writes)
    <3>1. box \in [Accounts -> Seq(Mails)] /\ queue \in [Accounts -> Seq(Writes)]
      BY DEF Shape
    <3> QED
      BY <1>4, <3>1, BothAppendedIs
  <2>3. /\ a # b => /\ box'[a] = Append(box[a], s) /\ queue'[a] = Append(queue[a], StoreMail(s))
                    /\ box'[b] = Append(box[b], t) /\ queue'[b] = Append(queue[b], StoreMail(t))
        /\ a = b => /\ box'[a] = Append(Append(box[a], t), s)
                    /\ queue'[a] = Append(Append(queue[a], StoreMail(t)), StoreMail(s))
        /\ \A x \in Accounts \ {a, b} : box'[x] = box[x] /\ queue'[x] = queue[x]
    BY <2>1, <2>2 DEF BothAppended
  <2>4. MailsOf(a)' /\ MailsOf(b)'
    <3>1. CASE a = b
      BY <1>1, <1>2, <1>3, <2>1, <2>3, <3>1, MailsStored
    <3>2. CASE a # b
      BY <1>1, <1>2, <1>3, <2>1, <2>3, <3>2, MailStored
    <3> QED
      BY <3>1, <3>2
  <2>5. ASSUME NEW x \in Accounts \ {a, b}
        PROVE  MailsOf(x)'
    BY <1>3, <2>1, <2>3, MailsStay
  <2> QED
    BY <2>4, <2>5 DEF MailsInv
<1>6. CASE MailOffline(a, b, at)
  <2>1. /\ b \notin online /\ a # b /\ rows' = [rows EXCEPT ![b].mails = Append(@, t)]
        /\ box' = [box EXCEPT ![a] = Append(@, s)] /\ Queued(a, <<StoreMail(s)>>)
    BY <1>1, <1>2, <1>3, <1>6 DEF MailOffline
  <2>2. queue'[a] = Append(queue[a], StoreMail(s)) /\ \A x \in Accounts \ {a} : queue'[x] = queue[x]
    BY <1>4, <2>1, QueuedOne
  <2>3. /\ box'[a] = Append(box[a], s) /\ \A x \in Accounts \ {a} : box'[x] = box[x]
        /\ rows'[b] = [rows[b] EXCEPT !.mails = Append(@, t)]
        /\ \A x \in Accounts \ {b} : rows'[x] = rows[x]
    BY <2>1 DEF Shape
  <2>4. MailsOf(a)'
    BY <1>1, <1>3, <2>1, <2>2, <2>3, MailStored
  <2>5. MailsOf(b)'
    BY <1>2, <1>3, <2>1, <2>2, <2>3, RowStored
  <2>6. ASSUME NEW x \in Accounts \ {a, b}
        PROVE  MailsOf(x)'
    BY <1>3, <2>1, <2>2, <2>3, MailsStay
  <2> QED
    BY <2>4, <2>5, <2>6 DEF MailsInv
<1> QED
  BY <1>5, <1>6

LEMMA GiftMails ==
  ASSUME Shape, Shape', MailsInv, Idle, NEW a \in Accounts, NEW at \in Seconds, Gift(a, at)
  PROVE  MailsInv'
<1>1. PICK m \in Mails : m = Mail("gift", a, at) /\ m.kind = "gift"
  BY MailsAre DEF Kinds, Mail
<1>2. /\ given' = [given EXCEPT ![a] = @ + 1] /\ UNCHANGED <<online, orphans, torn>>
      /\ \/ /\ a \in online /\ box' = [box EXCEPT ![a] = Append(@, m)]
            /\ Queued(a, <<StoreMail(m)>>) /\ rows' = rows
         \/ /\ a \notin online /\ rows' = [rows EXCEPT ![a].mails = Append(@, m)]
            /\ UNCHANGED <<box, queue>>
  BY <1>1 DEF Gift
<1>3. given'[a] = given[a] + 1 /\ \A x \in Accounts \ {a} : given'[x] = given[x]
  BY <1>2 DEF Shape
<1>4. StoreMail(m) \in Writes
  BY WritesAre
<1>5. CASE a \in online
  <2>1. /\ box'[a] = Append(box[a], m) /\ \A x \in Accounts \ {a} : box'[x] = box[x]
        /\ rows' = rows
    BY <1>2, <1>5 DEF Shape
  <2>2. queue'[a] = Append(queue[a], StoreMail(m)) /\ \A x \in Accounts \ {a} : queue'[x] = queue[x]
    BY <1>2, <1>4, <1>5, QueuedOne
  <2>3. MailsOf(a)'
    BY <1>1, <1>2, <1>3, <1>5, <2>1, <2>2, MailStored
  <2>4. ASSUME NEW x \in Accounts \ {a}
        PROVE  MailsOf(x)'
    BY <1>2, <1>3, <2>1, <2>2, MailsStay
  <2> QED
    BY <2>3, <2>4 DEF MailsInv
<1>6. CASE a \notin online
  <2>1. /\ rows'[a] = [rows[a] EXCEPT !.mails = Append(@, m)] /\ UNCHANGED <<box, queue>>
        /\ \A x \in Accounts \ {a} : rows'[x] = rows[x]
    BY <1>2, <1>6 DEF Shape
  <2>2. MailsOf(a)'
    BY <1>1, <1>2, <1>3, <1>6, <2>1, RowStored
  <2>3. ASSUME NEW x \in Accounts \ {a}
        PROVE  MailsOf(x)'
    BY <1>2, <1>3, <2>1, MailsStay
  <2> QED
    BY <2>2, <2>3 DEF MailsInv
<1> QED
  BY <1>5, <1>6

LEMMA DeleteMailMails ==
  ASSUME Shape, Shape', MailsInv, NEW a \in Accounts, NEW kind \in Kinds \ {"gift"},
         NEW at \in Seconds, DeleteMail(a, kind, at)
  PROVE  MailsInv'
<1>1. kind \in Kinds
  OBVIOUS
<1>2. /\ \E k \in DOMAIN box[a] : box[a][k] \in Those(kind, at)
      /\ box' = [box EXCEPT ![a] = RemoveAt(box[a], First(box[a], kind, at))]
      /\ Queued(a, <<DeleteMails(kind, at)>>)
      /\ orphans' = IF \E k \in DOMAIN box'[a] : box'[a][k] \in Those(kind, at)
                    THEN orphans \cup {<<a, kind, at>>} ELSE orphans \ {<<a, kind, at>>}
      /\ UNCHANGED <<online, rows, given, torn>>
  BY DEF DeleteMail, database
<1>3. DeleteMails(kind, at) \in Writes
  BY <1>1, WritesAre
<1>4. /\ queue'[a] = Append(queue[a], DeleteMails(kind, at))
      /\ \A x \in Accounts \ {a} : queue'[x] = queue[x]
  BY <1>2, <1>3, QueuedOne
<1>5. PICK s \in Seq(Mails) : s = box[a]
  BY DEF Shape
<1>6. PICK k \in DOMAIN s : k = First(s, kind, at) /\ s[k] \in Those(kind, at)
  BY <1>2, <1>5, FirstIs
<1>7. box'[a] = RemoveAt(s, k) /\ \A x \in Accounts \ {a} : box'[x] = box[x]
  BY <1>2, <1>5, <1>6 DEF Shape
<1>8. MailsOf(a)'
  <2>1. PICK r \in Rows : r = rows[a]
    BY DEF Shape
  <2>2. PICK q \in Seq(Writes) : q = queue[a]
    BY DEF Shape
  <2>3. PICK u \in Rows : u = Written(r, q)
    BY WrittenTyped
  <2>4. Written(r, Append(q, DeleteMails(kind, at))) = Applied(u, DeleteMails(kind, at))
    BY <1>3, <2>3, WrittenAppend
  <2>5. Applied(u, DeleteMails(kind, at)).mails = Picked(u.mails, Mails \ Those(kind, at))
    BY <1>1, AppliedFields
  <2>6. Value(Applied(u, DeleteMails(kind, at))) = Value(u)
    BY ValueDeleted
  <2>7. PICK g \in Nat : g = given[a] + torn[a]
    BY DEF Shape
  <2>9. (a \in online => Agrees(a, s, u.mails, orphans)) /\ Within(r, q, g, 0)
    BY <1>5, <2>1, <2>2, <2>3, <2>7 DEF MailsInv, MailsOf, Settled
  <2>10. Within(r, Append(q, DeleteMails(kind, at)), g, 0)
    <3>1. Value(u) <= g + 0 /\ Value(u) \in Nat
      BY <2>3, <2>9, WithinAll, ValueIs
    <3>2. Value(Applied(u, DeleteMails(kind, at))) <= g + 0
      BY <2>6, <3>1
    <3>3. Extra(DeleteMails(kind, at)) \in {0, 1}
      BY DEF Extra
    <3> QED
      BY <1>3, <2>3, <2>9, <3>2, <3>3, WithinAppend
  <2>8. ASSUME a \in online
        PROVE  Agrees(a, RemoveAt(s, k), Picked(u.mails, Mails \ Those(kind, at)), orphans')
    <3>1. u.mails \in Seq(Mails) /\ Agrees(a, s, u.mails, orphans)
      BY <2>8, <2>9, RowsOf
    <3>2. \A x \in Kinds, y \in Seconds :
            <<a, x, y>> \notin orphans' /\ <<x, y>> # <<kind, at>> => <<a, x, y>> \notin orphans
      BY <1>2
    <3>3. <<a, kind, at>> \notin orphans' =>
            \A j \in DOMAIN RemoveAt(s, k) : RemoveAt(s, k)[j] \notin Those(kind, at)
      BY <1>2, <1>7
    <3> QED
      BY <1>1, <1>6, <3>1, <3>2, <3>3, AgreesDeleted
  <2> QED
    BY <1>2, <1>4, <1>7, <2>1, <2>2, <2>4, <2>5, <2>7, <2>8, <2>10 DEF MailsOf, Settled
<1>9. ASSUME NEW x \in Accounts \ {a}
      PROVE  MailsOf(x)'
  <2>1. \A y \in Kinds, z \in Seconds : <<x, y, z>> \in orphans => <<x, y, z>> \in orphans'
    BY <1>2
  <2> QED
    BY <1>2, <1>4, <1>7, <2>1, MailsStay
<1> QED
  BY <1>8, <1>9 DEF MailsInv

LEMMA OpenGiftMails ==
  ASSUME Shape, Shape', MailsInv, NEW a \in Accounts, NEW at \in Seconds, OpenGift(a, at)
  PROVE  MailsInv'
<1>1. "gift" \in Kinds /\ AddItem \in Writes /\ DeleteMails("gift", at) \in Writes
  BY WritesAre DEF Kinds
<1>2. /\ \E k \in DOMAIN box[a] : box[a][k] \in Those("gift", at)
      /\ box' = [box EXCEPT ![a] = Picked(box[a], Mails \ Those("gift", at))]
      /\ Queued(a, <<AddItem, DeleteMails("gift", at)>>)
      /\ UNCHANGED <<online, rows, given, orphans, torn>>
  BY DEF OpenGift, database, history
<1>3. PICK w \in Writes : w = DeleteMails("gift", at)
  BY <1>1
<1>4. /\ queue'[a] = Append(Append(queue[a], AddItem), w)
      /\ \A x \in Accounts \ {a} : queue'[x] = queue[x]
  <2>1. <<AddItem, w>> \in Seq(Writes) /\ queue[a] \in Seq(Writes)
    BY <1>1 DEF Shape
  <2>2. Queued(a, <<AddItem, w>>)
    BY <1>2, <1>3
  <2>3. queue'[a] = queue[a] \o <<AddItem, w>> /\ \A x \in Accounts \ {a} : queue'[x] = queue[x]
    BY <2>1, <2>2, QueuedTyped
  <2>4. queue[a] \o <<AddItem, w>> = Append(Append(queue[a], AddItem), w)
    BY <1>1, <2>1, AppendIs
  <2> QED
    BY <2>3, <2>4
<1>5. PICK s \in Seq(Mails) : s = box[a]
  BY DEF Shape
<1>6. /\ box'[a] = Picked(s, Mails \ Those("gift", at))
      /\ \A x \in Accounts \ {a} : box'[x] = box[x]
  BY <1>2, <1>5 DEF Shape
<1>7. a \in online
  BY <1>2 DEF Shape, Blank
<1>8. MailsOf(a)'
  <2>1. PICK r \in Rows : r = rows[a]
    BY DEF Shape
  <2>2. PICK q \in Seq(Writes) : q = queue[a]
    BY DEF Shape
  <2>3. PICK u \in Rows : u = Written(r, q)
    BY WrittenTyped
  <2>4. PICK v \in Rows : v = Applied(u, AddItem)
    BY <1>1, AppliedTyped
  <2>5. Append(q, AddItem) \in Seq(Writes)
    BY <1>1, AppendProperties
  <2>6. Written(r, Append(q, AddItem)) = v
    BY <1>1, <2>3, <2>4, WrittenAppend
  <2>7. Written(r, Append(Append(q, AddItem), w)) = Applied(v, w)
    BY <2>5, <2>6, WrittenAppend
  <2>8. v.mails = u.mails
    BY <2>4, AppliedFields
  <2>9. Applied(v, w).mails = Picked(u.mails, Mails \ Those("gift", at))
    <3>1. Applied(v, DeleteMails("gift", at)).mails = Picked(v.mails, Mails \ Those("gift", at))
      BY <1>1, AppliedFields
    <3> QED
      BY <1>3, <2>8, <3>1
  <2>14. PICK g \in Nat : g = given[a] + torn[a]
    BY DEF Shape
  <2>10. Agrees(a, s, u.mails, orphans) /\ Within(r, q, g, 0)
    BY <1>5, <1>7, <2>1, <2>2, <2>3, <2>14 DEF MailsInv, MailsOf, Settled
  <2>11. Agrees(a, Picked(s, Mails \ Those("gift", at)), Picked(u.mails, Mails \ Those("gift", at)),
                orphans)
    <3>1. u.mails \in Seq(Mails)
      BY RowsOf
    <3> QED
      BY <1>1, <2>10, <3>1, AgreesWithout
  <2>12. Value(Applied(v, w)) <= Value(u)
    <3>1. Picked(s, Those("gift", at)) # <<>>
      BY <1>2, <1>5, PickedSome
    <3>2. <<a, "gift", at>> \notin orphans
      BY DEF Shape
    <3>3. Picked(u.mails, Those("gift", at)) # <<>>
      BY <1>1, <2>10, <3>1, <3>2 DEF Agrees
    <3>4. Value(Applied(Applied(u, AddItem), DeleteMails("gift", at))) <= Value(u)
      BY <3>3, ValueOpened
    <3> QED
      BY <1>3, <2>4, <3>4
  <2>13. Within(r, Append(Append(q, AddItem), w), g, 0)
    <3>1. Value(u) <= g + 0 /\ Value(u) \in Nat
      BY <2>3, <2>10, WithinAll, ValueIs
    <3>2. Value(v) <= g + 1 /\ Value(v) \in Nat
      <4>1. v.items = u.items + 1 /\ v.mails = u.mails
        BY <2>4, AppliedFields
      <4>2. Value(v) = Value(u) + 1
        <5>1. /\ Value(v) = v.items + Len(Picked(v.mails, Gifts))
              /\ Value(u) = u.items + Len(Picked(u.mails, Gifts))
              /\ u.items \in Nat /\ Len(Picked(u.mails, Gifts)) \in Nat
          BY ValueIs
        <5> QED
          BY <4>1, <5>1
      <4> QED
        BY <3>1, <4>2
    <3>3. Extra(AddItem) \in {0, 1} /\ Extra(w) = 1
      BY <1>3 DEF Extra, DeleteMails
    <3>4. Within(r, Append(q, AddItem), g, 1)
      BY <1>1, <2>3, <2>4, <2>10, <3>2, <3>3, WithinAppend
    <3>5. Value(Applied(v, w)) <= g + 0
      <4>1. PICK y \in Rows : y = Applied(v, w)
        BY AppliedTyped
      <4>2. Value(y) \in Nat /\ Value(y) <= Value(u)
        BY <2>12, <4>1, ValueIs
      <4> QED
        BY <3>1, <4>1, <4>2
    <3>6. PICK p \in Seq(Writes) : p = Append(q, AddItem)
      BY <2>5
    <3>7. Within(r, p, g, 1) /\ Written(r, p) = v /\ 1 <= Extra(w)
      BY <2>6, <3>3, <3>4, <3>6
    <3>8. Within(r, Append(p, w), g, 0)
      BY <3>5, <3>7, WithinAppend
    <3> QED
      BY <3>6, <3>8
  <2> QED
    BY <1>2, <1>4, <1>6, <2>1, <2>2, <2>7, <2>9, <2>11, <2>13, <2>14 DEF MailsOf, Settled
<1>9. ASSUME NEW x \in Accounts \ {a}
      PROVE  MailsOf(x)'
  BY <1>2, <1>4, <1>6, MailsStay
<1> QED
  BY <1>8, <1>9 DEF MailsInv

LEMMA MailsStep ==
  ASSUME Shape, Shape', MailsInv, [Next]_vars
  PROVE  MailsInv'
<1>1. CASE UNCHANGED vars
  BY <1>1, MailsStay DEF vars, MailsInv
<1>2. CASE Crash
  BY <1>2, CrashMails
<1>10. ASSUME NEW a \in Accounts, Persist(a)
       PROVE  MailsInv'
  BY <1>10, PersistMails
<1>3. ASSUME NEW a \in Accounts, Idle, Login(a) \/ Logout(a)
      PROVE  MailsInv'
  BY <1>3, LoginMails, LogoutMails
<1>4. ASSUME NEW a \in Accounts, EnterMatch(a) \/ LeaveMatch(a) \/ FetchRequests(a)
      PROVE  MailsInv'
  BY <1>4, FriendStepsMails
<1>5. ASSUME NEW a \in Accounts, NEW b \in Accounts,
             AskOnline(a, b) \/ AskOffline(a, b) \/ Accept(a, b) \/ DeleteFriend(a, b)
      PROVE  MailsInv'
  BY <1>5, FriendStepsMails
<1>6. ASSUME NEW a \in Accounts, NEW b \in Accounts,
             BlockOnline(a, b) \/ BlockOffline(a, b) \/ Unblock(a, b)
      PROVE  MailsInv'
  BY <1>6, BlocksMails
<1>7. ASSUME NEW a \in Accounts, Idle, NEW at \in Seconds, Gift(a, at) \/ OpenGift(a, at)
      PROVE  MailsInv'
  BY <1>7, GiftMails, OpenGiftMails
<1>8. ASSUME NEW a \in Accounts, NEW at \in Seconds, NEW kind \in Kinds \ {"gift"},
             DeleteMail(a, kind, at)
      PROVE  MailsInv'
  BY <1>8, DeleteMailMails
<1>9. ASSUME NEW a \in Accounts, Idle, NEW at \in Seconds, NEW b \in Accounts,
             MailOnline(a, b, at) \/ MailOffline(a, b, at)
      PROVE  MailsInv'
  BY <1>9, SentMails
<1> QED
  BY <1>1, <1>2, <1>3, <1>4, <1>5, <1>6, <1>7, <1>8, <1>9, <1>10 DEF Next

LEMMA InitMails == Init => MailsInv
<1> SUFFICES ASSUME Init, NEW x \in Accounts
             PROVE  MailsOf(x)
  BY DEF MailsInv
<1>1. online = {} /\ queue[x] = <<>> /\ given[x] = 0 /\ torn[x] = 0
      /\ rows[x] = [blocks |-> None, mails |-> <<>>, items |-> 0]
  BY DEF Init
<1>2. PICK r \in Rows : r = rows[x]
  BY InitShape DEF Shape
<1>3. r.mails = <<>> /\ r.items = 0
  BY <1>1, <1>2
<1>4. Value(r) = r.items + Len(Picked(r.mails, Gifts))
  BY ValueIs
<1>5. Picked(<<>>, Gifts) = <<>>
  BY PickedEmpty
<1>6. Value(r) = 0
  BY <1>3, <1>4, <1>5
<1>7. Within(r, <<>>, 0, 0)
  BY <1>6, WithinNone
<1>8. given[x] + torn[x] = 0
  BY <1>1
<1> QED
  BY <1>1, <1>2, <1>7, <1>8 DEF MailsOf

LEMMA MailsAgree ==
  ASSUME Shape, MailsInv
  PROVE  MailsKept /\ GiftsOpenedOnce
<1>1. MailsKept
  <2> SUFFICES ASSUME NEW a \in online, NEW kind \in Kinds, NEW at \in Seconds,
                      <<a, kind, at>> \notin orphans
               PROVE  Picked(box[a], Those(kind, at)) = Picked(Settled(a).mails, Those(kind, at))
    BY DEF MailsKept
  <2>1. MailsOf(a)
    BY DEF MailsInv, Shape
  <2> QED
    BY <2>1 DEF MailsOf, Agrees
<1>2. GiftsOpenedOnce
  <2> SUFFICES ASSUME NEW a \in Accounts
               PROVE  Settled(a).items + Len(Of("gift", Settled(a).mails)) <= given[a] + torn[a]
    BY DEF GiftsOpenedOnce
  <2>1. PICK r \in Rows : r = rows[a]
    BY DEF Shape
  <2>2. PICK q \in Seq(Writes) : q = queue[a]
    BY DEF Shape
  <2>3. PICK g \in Nat : g = given[a] + torn[a]
    BY DEF Shape
  <2>4. Within(r, q, g, 0)
    BY <2>1, <2>2, <2>3 DEF MailsInv, MailsOf
  <2>5. PICK u \in Rows : u = Written(r, q) /\ Value(u) <= g + 0 /\ Value(u) \in Nat
    BY <2>4, WithinAll, ValueIs
  <2>6. Value(u) <= g
    BY <2>5
  <2> QED
    BY <2>1, <2>2, <2>3, <2>5, <2>6 DEF Settled, Value
<1> QED
  BY <1>1, <1>2

-----------------------------------------------------------------------------
(* How many entries a list of blocks has.                                   *)

LEMMA CopiesFinite ==
  ASSUME NEW count \in [Accounts -> Nat]
  PROVE  IsFiniteSet(Copies(count)) /\ Size(count) \in Nat
<1> DEFINE f == [b \in Accounts |-> {b} \X (1 .. count[b])]
           W == {{b} \X (1 .. count[b]) : b \in Accounts}
<1>1. f \in Surjection(Accounts, W)
  BY DEF Surjection
<1>2. \A b \in Accounts : IsFiniteSet({b} \X (1 .. count[b]))
  <2> SUFFICES ASSUME NEW b \in Accounts
               PROVE  IsFiniteSet({b} \X (1 .. count[b]))
    OBVIOUS
  <2>1. IsFiniteSet({b})
    BY FS_Singleton
  <2>2. PICK n \in Nat : n = count[b]
    OBVIOUS
  <2>3. 1 \in Int /\ n \in Int
    OBVIOUS
  <2>4. IsFiniteSet(1 .. n)
    BY <2>3, FS_Interval
  <2>5. IsFiniteSet({b} \X (1 .. n))
    BY <2>1, <2>4, FS_Product
  <2> QED
    BY <2>2, <2>5
<1>3. \A T \in W : IsFiniteSet(T)
  BY <1>2
<1> HIDE DEF f, W
<1>4. IsFiniteSet(W)
  BY <1>1, AccountsAssumption, FS_Surjection
<1>5. IsFiniteSet(UNION W)
  BY <1>3, <1>4, FS_UNION
<1>6. Copies(count) = UNION W
  BY DEF Copies, W
<1> QED
  BY <1>5, <1>6, FS_CardinalityType DEF Size

LEMMA CopiesAre ==
  ASSUME NEW count \in [Accounts -> Nat]
  PROVE  \A p : p \in Copies(count) <=>
                  \E b \in Accounts : \E i \in Nat : p = <<b, i>> /\ 1 <= i /\ i <= count[b]
BY DEF Copies

LEMMA SizeMore ==
  ASSUME NEW count \in [Accounts -> Nat], NEW b \in Accounts
  PROVE  Size([count EXCEPT ![b] = count[b] + 1]) = Size(count) + 1
<1>1. PICK after \in [Accounts -> Nat] : after = [count EXCEPT ![b] = count[b] + 1]
  <2>1. [count EXCEPT ![b] = count[b] + 1] \in [Accounts -> Nat]
    OBVIOUS
  <2> QED
    BY <2>1
<1>2. PICK n \in Nat : n = count[b]
  OBVIOUS
<1>3. after[b] = n + 1 /\ \A c \in Accounts \ {b} : after[c] = count[c]
  BY <1>1, <1>2
<1>4. Copies(after) = Copies(count) \cup {<<b, n + 1>>}
  <2>1. ASSUME NEW p \in Copies(after)
        PROVE  p \in Copies(count) \cup {<<b, n + 1>>}
    <3>1. PICK c \in Accounts, i \in Nat : p = <<c, i>> /\ 1 <= i /\ i <= after[c]
      BY <2>1, CopiesAre
    <3>2. CASE c = b /\ i = n + 1
      BY <3>1, <3>2
    <3>3. CASE ~(c = b /\ i = n + 1)
      <4>1. i <= count[c]
        BY <1>2, <1>3, <3>1, <3>3
      <4> QED
        BY <3>1, <4>1, CopiesAre
    <3> QED
      BY <3>2, <3>3
  <2>2. ASSUME NEW p \in Copies(count)
        PROVE  p \in Copies(after)
    <3>1. PICK c \in Accounts, i \in Nat : p = <<c, i>> /\ 1 <= i /\ i <= count[c]
      BY <2>2, CopiesAre
    <3>2. i <= after[c]
      BY <1>2, <1>3, <3>1
    <3> QED
      BY <3>1, <3>2, CopiesAre
  <2>3. <<b, n + 1>> \in Copies(after)
    <3>1. n + 1 \in Nat /\ 1 <= n + 1 /\ n + 1 <= after[b]
      BY <1>3
    <3> QED
      BY <3>1, CopiesAre
  <2> QED
    BY <2>1, <2>2, <2>3
<1>5. <<b, n + 1>> \notin Copies(count)
  <2> SUFFICES ASSUME <<b, n + 1>> \in Copies(count)
               PROVE  FALSE
    OBVIOUS
  <2>1. PICK c \in Accounts, i \in Nat : <<b, n + 1>> = <<c, i>> /\ 1 <= i /\ i <= count[c]
    BY CopiesAre
  <2> QED
    BY <1>2, <2>1
<1>6. PICK S : S = Copies(count)
  OBVIOUS
<1>7. IsFiniteSet(S)
  BY <1>6, CopiesFinite
<1>8. Cardinality(S \cup {<<b, n + 1>>}) = Cardinality(S) + 1
  BY <1>5, <1>6, <1>7, FS_AddElement
<1> QED
  BY <1>1, <1>4, <1>6, <1>8 DEF Size

LEMMA SizeLess ==
  ASSUME NEW count \in [Accounts -> Nat], NEW part \in [Accounts -> Nat],
         \A b \in Accounts : part[b] <= count[b]
  PROVE  Size(part) <= Size(count)
<1>1. Copies(part) \subseteq Copies(count)
  <2> SUFFICES ASSUME NEW p \in Copies(part)
               PROVE  p \in Copies(count)
    OBVIOUS
  <2>1. PICK b \in Accounts, i \in Nat : p = <<b, i>> /\ 1 <= i /\ i <= part[b]
    BY CopiesAre
  <2>2. i <= count[b]
    BY <2>1
  <2> QED
    BY <2>1, <2>2, CopiesAre
<1>2. IsFiniteSet(Copies(count))
  BY CopiesFinite
<1>3. Cardinality(Copies(part)) <= Cardinality(Copies(count))
  BY <1>1, <1>2, FS_Subset
<1> QED
  BY <1>3 DEF Size

LEMMA SizeNone == None \in [Accounts -> Nat] /\ Size(None) = 0
<1>1. None \in [Accounts -> Nat] /\ \A b \in Accounts : None[b] = 0
  BY DEF None
<1>2. Copies(None) = {}
  <2> SUFFICES ASSUME NEW p \in Copies(None)
               PROVE  FALSE
    OBVIOUS
  <2>1. PICK b \in Accounts, i \in Nat : p = <<b, i>> /\ 1 <= i /\ i <= None[b]
    BY <1>1, CopiesAre
  <2> QED
    BY <1>1, <2>1
<1> QED
  BY <1>1, <1>2, FS_EmptySet DEF Size

LEMMA SizeAbove ==
  ASSUME NEW count \in [Accounts -> Nat], NEW a \in Accounts
  PROVE  count[a] <= Size(count)
<1>1. PICK n \in Nat : n = count[a]
  OBVIOUS
<1>2. PICK S : S = 1 .. n
  OBVIOUS
<1>3. IsFiniteSet(S) /\ Cardinality(S) = n
  <2>1. 1 \in Int /\ n \in Int
    OBVIOUS
  <2>2. IsFiniteSet(1 .. n) /\ Cardinality(1 .. n) = IF 1 > n THEN 0 ELSE n - 1 + 1
    BY <2>1, FS_Interval
  <2>3. Cardinality(1 .. n) = n
    BY <2>2
  <2> QED
    BY <1>2, <2>2, <2>3
<1>4. IsFiniteSet({a}) /\ Cardinality({a}) = 1
  BY FS_Singleton
<1>5. IsFiniteSet({a} \X S) /\ Cardinality({a} \X S) = Cardinality({a}) * Cardinality(S)
  BY <1>3, <1>4, FS_Product
<1>6. Cardinality({a} \X S) = n
  BY <1>3, <1>4, <1>5
<1>7. {a} \X S \subseteq Copies(count)
  BY <1>1, <1>2 DEF Copies
<1>8. IsFiniteSet(Copies(count))
  BY CopiesFinite
<1>9. Cardinality({a} \X S) <= Cardinality(Copies(count))
  BY <1>7, <1>8, FS_Subset
<1> QED
  BY <1>1, <1>6, <1>9 DEF Size

-----------------------------------------------------------------------------
(* Blocks.  The list of a session is backed by the rows to come, and a      *)
(* block that is honoured is in the list, or in the rows to come of a       *)
(* player who is offline.  However many of the writes that wait are done,   *)
(* the rows are within their bound.                                         *)

Fits(r, q) ==
  \A k \in 0 .. Len(q), b \in Accounts : Written(r, SubSeq(q, 1, k)).blocks[b] <= MaxRows
BlocksOf(a) ==
  /\ Size(blocked[a]) <= MaxFriends /\ Len(queue[a]) <= MaxQueue
  /\ Fits(rows[a], queue[a])
  /\ \A b \in Accounts : blocked[a][b] <= Settled(a).blocks[b]
  /\ a \notin cut =>
       \A b \in honoured[a] :
         IF a \in online THEN blocked[a][b] > 0 ELSE Settled(a).blocks[b] > 0
BlocksInv == Size(given) <= MaxGifts /\ \A a \in Accounts : BlocksOf(a)

LEMMA FitsEnds ==
  ASSUME NEW r \in Rows, NEW q \in Seq(Writes), Fits(r, q), NEW b \in Accounts
  PROVE  r.blocks[b] <= MaxRows /\ Written(r, q).blocks[b] <= MaxRows
<1>1. 0 \in 0 .. Len(q) /\ Len(q) \in 0 .. Len(q)
  OBVIOUS
<1>2. SubSeq(q, 1, 0) = <<>> /\ SubSeq(q, 1, Len(q)) = q
  BY PrefixEnds
<1>3. Written(r, <<>>) = r
  BY WrittenNothing
<1> QED
  BY <1>1, <1>2, <1>3 DEF Fits

LEMMA FitsNow ==
  ASSUME Shape, BlocksInv, NEW a \in Accounts, NEW b \in Accounts
  PROVE  rows[a].blocks[b] <= MaxRows /\ Settled(a).blocks[b] <= MaxRows
<1>1. PICK r \in Rows : r = rows[a]
  BY DEF Shape
<1>2. PICK q \in Seq(Writes) : q = queue[a]
  BY DEF Shape
<1>3. Fits(r, q)
  BY <1>1, <1>2 DEF BlocksInv, BlocksOf
<1> QED
  BY <1>1, <1>2, <1>3, FitsEnds DEF Settled

LEMMA FitsNone ==
  ASSUME NEW r \in Rows, \A b \in Accounts : r.blocks[b] <= MaxRows
  PROVE  Fits(r, <<>>)
<1> SUFFICES ASSUME NEW k \in 0 .. Len(<<>>), NEW b \in Accounts
             PROVE  Written(r, SubSeq(<<>>, 1, k)).blocks[b] <= MaxRows
  BY DEF Fits
<1>1. <<>> \in Seq(Writes) /\ Len(<<>>) = 0 /\ k = 0
  OBVIOUS
<1>2. SubSeq(<<>>, 1, 0) = <<>>
  BY <1>1, PrefixEnds
<1>3. Written(r, <<>>) = r
  BY WrittenNothing
<1> QED
  BY <1>1, <1>2, <1>3

LEMMA FitsTail ==
  ASSUME NEW r \in Rows, NEW q \in Seq(Writes), q # <<>>, Fits(r, q)
  PROVE  Fits(Applied(r, Head(q)), Tail(q))
<1> SUFFICES ASSUME NEW k \in 0 .. Len(Tail(q)), NEW b \in Accounts
             PROVE  Written(Applied(r, Head(q)), SubSeq(Tail(q), 1, k)).blocks[b] <= MaxRows
  BY DEF Fits
<1>1. PICK p \in Seq(Writes) : /\ p = SubSeq(q, 1, k + 1) /\ p # <<>> /\ Head(p) = Head(q)
                               /\ Tail(p) = SubSeq(Tail(q), 1, k) /\ k + 1 \in 0 .. Len(q)
  BY PrefixTail
<1>2. Written(Applied(r, Head(p)), Tail(p)) = Written(r, p)
  BY <1>1, WrittenTail
<1>3. Written(r, p).blocks[b] <= MaxRows
  BY <1>1 DEF Fits
<1> QED
  BY <1>1, <1>2, <1>3

LEMMA FitsAppend ==
  ASSUME NEW r \in Rows, NEW q \in Seq(Writes), NEW w \in Writes, Fits(r, q),
         \A b \in Accounts : Applied(Written(r, q), w).blocks[b] <= MaxRows
  PROVE  Fits(r, Append(q, w))
<1>1. PICK t \in Seq(Writes) : t = Append(q, w)
  BY AppendProperties
<1>2. Len(t) = Len(q) + 1
  BY <1>1, AppendProperties
<1>3. Written(r, t) = Applied(Written(r, q), w)
  BY <1>1, WrittenAppend
<1> SUFFICES ASSUME NEW k \in 0 .. Len(t), NEW b \in Accounts
             PROVE  Written(r, SubSeq(t, 1, k)).blocks[b] <= MaxRows
  BY <1>1 DEF Fits
<1>4. CASE k = Len(t)
  <2>1. SubSeq(t, 1, k) = t
    BY <1>4, PrefixEnds
  <2> QED
    BY <1>3, <2>1
<1>5. CASE k # Len(t)
  <2>1. k \in 0 .. Len(q)
    BY <1>2, <1>5
  <2>2. SubSeq(t, 1, k) = SubSeq(q, 1, k)
    BY <1>1, <2>1, PrefixAppend
  <2> QED
    BY <2>1, <2>2 DEF Fits
<1> QED
  BY <1>4, <1>5

\* Rows of which no more are than of others that fit, or few enough for
\* any writes.
LEMMA FitsMore ==
  ASSUME NEW r \in Rows, NEW v \in Rows, NEW q \in Seq(Writes), Fits(r, q),
         \A b \in Accounts : v.blocks[b] <= r.blocks[b] \/ v.blocks[b] + Len(q) <= MaxRows
  PROVE  Fits(v, q)
<1> SUFFICES ASSUME NEW k \in 0 .. Len(q), NEW b \in Accounts
             PROVE  Written(v, SubSeq(q, 1, k)).blocks[b] <= MaxRows
  BY DEF Fits
<1>1. PICK p \in Seq(Writes) : p = SubSeq(q, 1, k) /\ Len(p) = k
  BY PrefixIs DEF PrefixOf
<1>2. /\ v.blocks[b] <= r.blocks[b] => Written(v, p).blocks[b] <= Written(r, p).blocks[b]
      /\ Written(v, p).blocks[b] <= v.blocks[b] + k
  BY <1>1, WrittenBlocks
<1>3. Written(r, p).blocks[b] <= MaxRows
  BY <1>1 DEF Fits
<1>4. PICK x \in Rows : x = Written(v, p)
  BY WrittenTyped
<1>5. PICK y \in Rows : y = Written(r, p)
  BY WrittenTyped
<1>6. x.blocks[b] \in Nat /\ y.blocks[b] \in Nat /\ v.blocks[b] \in Nat /\ MaxRows \in Nat
  BY RowsOf, NumericAssumption
<1>7. k \in Nat /\ Len(q) \in Nat /\ k <= Len(q)
  OBVIOUS
<1>8. CASE v.blocks[b] <= r.blocks[b]
  BY <1>1, <1>2, <1>3, <1>4, <1>5, <1>6, <1>8
<1>9. CASE v.blocks[b] + Len(q) <= MaxRows
  BY <1>1, <1>2, <1>4, <1>6, <1>7, <1>9
<1> QED
  BY <1>8, <1>9

LEMMA BlocksTyped ==
  ASSUME Shape, NEW a \in Accounts
  PROVE  /\ rows[a].blocks \in [Accounts -> Nat] /\ Settled(a).blocks \in [Accounts -> Nat]
         /\ blocked[a] \in [Accounts -> Nat] /\ Len(queue[a]) \in Nat
         /\ Size(blocked[a]) \in Nat /\ honoured[a] \subseteq Accounts
         /\ {MaxFriends, MaxMailbox, MaxRows, MaxQueue, MaxGifts} \subseteq Nat
<1>1. rows[a] \in Rows /\ Settled(a) \in Rows
  BY SettledTyped DEF Shape
<1>2. blocked[a] \in [Accounts -> Nat] /\ Len(queue[a]) \in Nat /\ honoured[a] \subseteq Accounts
  BY DEF Shape
<1>3. Size(blocked[a]) \in Nat
  BY <1>2, CopiesFinite
<1> QED
  BY <1>1, <1>2, <1>3, RowsOf, NumericAssumption

\* A step that leaves the list and the blocks in the rows to come.
LEMMA BlocksStay ==
  ASSUME Shape, Shape', BlocksInv, NEW x \in Accounts, blocked'[x] = blocked[x],
         Fits(rows'[x], queue'[x]),
         \A b \in Accounts : Written(rows'[x], queue'[x]).blocks[b] = Settled(x).blocks[b],
         Len(queue'[x]) <= MaxQueue, honoured'[x] = honoured[x],
         (x \in online') <=> (x \in online), cut' = cut
  PROVE  BlocksOf(x)'
<1>1. honoured[x] \subseteq Accounts
  BY DEF Shape
<1> QED
  BY <1>1 DEF BlocksInv, BlocksOf, Settled

LEMMA QueueKept ==
  ASSUME Shape, Shape', NEW x \in Accounts, queue'[x] = queue[x],
         rows'[x].blocks = rows[x].blocks, Fits(rows[x], queue[x])
  PROVE  /\ \A b \in Accounts : Written(rows'[x], queue'[x]).blocks[b] = Settled(x).blocks[b]
         /\ Fits(rows'[x], queue'[x])
<1>1. PICK r \in Rows : r = rows[x]
  BY DEF Shape
<1>2. PICK v \in Rows : v = rows'[x]
  BY DEF Shape
<1>3. PICK q \in Seq(Writes) : q = queue[x]
  BY DEF Shape
<1>4. \A b \in Accounts : /\ r.blocks[b] <= v.blocks[b] => Written(r, q).blocks[b] <= Written(v, q).blocks[b]
                          /\ v.blocks[b] <= r.blocks[b] => Written(v, q).blocks[b] <= Written(r, q).blocks[b]
  BY WrittenBlocks
<1>5. r.blocks = v.blocks
  BY <1>1, <1>2
<1>6. PICK s \in Rows : s = Written(r, q)
  BY WrittenTyped
<1>7. PICK t \in Rows : t = Written(v, q)
  BY WrittenTyped
<1>8. r.blocks \in [Accounts -> Nat] /\ s.blocks \in [Accounts -> Nat] /\ t.blocks \in [Accounts -> Nat]
  BY RowsOf
<1>9. \A b \in Accounts : s.blocks[b] <= t.blocks[b] /\ t.blocks[b] <= s.blocks[b]
  <2> SUFFICES ASSUME NEW b \in Accounts
               PROVE  s.blocks[b] <= t.blocks[b] /\ t.blocks[b] <= s.blocks[b]
    OBVIOUS
  <2>1. r.blocks[b] <= v.blocks[b] /\ v.blocks[b] <= r.blocks[b]
    BY <1>5, <1>8
  <2> QED
    BY <1>4, <1>6, <1>7, <2>1
<1>10. \A b \in Accounts : t.blocks[b] = s.blocks[b]
  BY <1>8, <1>9
<1>11. Fits(v, q)
  <2>1. Fits(r, q) /\ \A b \in Accounts : v.blocks[b] <= r.blocks[b]
    BY <1>1, <1>3, <1>5, <1>8
  <2> QED
    BY <2>1, FitsMore
<1> QED
  BY <1>1, <1>2, <1>3, <1>6, <1>7, <1>10, <1>11 DEF Settled

\* The writes that concern mails and items.
MailWrites ==
  {StoreMail(m) : m \in Mails} \cup {DeleteMails(kind, at) : kind \in Kinds, at \in Seconds}
    \cup {AddItem}

LEMMA MailWriteBlocks ==
  ASSUME NEW r \in Rows, NEW q \in Seq(Writes), NEW w \in MailWrites
  PROVE  /\ w \in Writes /\ Written(r, Append(q, w)).blocks = Written(r, q).blocks
         /\ Fits(r, q) => Fits(r, Append(q, w))
<1>1. w \in Writes
  BY DEF MailWrites, Writes
<1>2. PICK u \in Rows : u = Written(r, q)
  BY WrittenTyped
<1>3. Written(r, Append(q, w)) = Applied(u, w)
  BY <1>1, <1>2, WrittenAppend
<1>4. Applied(u, w).blocks = u.blocks
  <2>1. CASE \E m \in Mails : w = StoreMail(m)
    BY <2>1, AppliedFields
  <2>2. CASE \E kind \in Kinds, at \in Seconds : w = DeleteMails(kind, at)
    <3>1. PICK kind \in Kinds, at \in Seconds : w = DeleteMails(kind, at)
      BY <2>2
    <3>2. Applied(u, DeleteMails(kind, at)).blocks = u.blocks
      BY AppliedFields
    <3> QED
      BY <3>1, <3>2
  <2>3. CASE w = AddItem
    BY <2>3, AppliedFields
  <2> QED
    BY <2>1, <2>2, <2>3 DEF MailWrites
<1>5. Fits(r, q) => Fits(r, Append(q, w))
  <2> SUFFICES ASSUME Fits(r, q)
               PROVE  Fits(r, Append(q, w))
    OBVIOUS
  <2>1. \A b \in Accounts : Written(r, q).blocks[b] <= MaxRows
    BY FitsEnds
  <2> QED
    BY <1>1, <1>2, <1>4, <2>1, FitsAppend
<1> QED
  BY <1>1, <1>2, <1>3, <1>4, <1>5

LEMMA MailWriteQueued ==
  ASSUME Shape, Shape', BlocksInv, NEW x \in Accounts, NEW w \in MailWrites,
         queue'[x] = Append(queue[x], w), Len(queue'[x]) <= MaxQueue,
         UNCHANGED <<online, blocked, honoured, cut>>, rows'[x] = rows[x]
  PROVE  BlocksOf(x)'
<1>1. PICK r \in Rows : r = rows[x]
  BY DEF Shape
<1>2. PICK q \in Seq(Writes) : q = queue[x]
  BY DEF Shape
<1>3. Written(r, Append(q, w)).blocks = Written(r, q).blocks /\ Fits(r, Append(q, w))
  <2>1. Fits(r, q)
    BY <1>1, <1>2 DEF BlocksInv, BlocksOf
  <2> QED
    BY <2>1, MailWriteBlocks
<1>4. Written(rows'[x], queue'[x]).blocks = Settled(x).blocks /\ Fits(rows'[x], queue'[x])
  BY <1>1, <1>2, <1>3 DEF Settled
<1>5. /\ \A b \in Accounts : Written(rows'[x], queue'[x]).blocks[b] = Settled(x).blocks[b]
      /\ blocked'[x] = blocked[x] /\ honoured'[x] = honoured[x]
      /\ (x \in online' <=> x \in online) /\ cut' = cut
  BY <1>4
<1> QED
  BY <1>4, <1>5, BlocksStay

LEMMA MailWritesQueued ==
  ASSUME Shape, Shape', BlocksInv, NEW a \in Accounts, NEW x \in MailWrites, NEW w \in MailWrites,
         queue'[a] = Append(Append(queue[a], x), w), Len(queue'[a]) <= MaxQueue,
         UNCHANGED <<online, blocked, honoured, cut>>, rows'[a] = rows[a]
  PROVE  BlocksOf(a)'
<1>1. PICK r \in Rows : r = rows[a]
  BY DEF Shape
<1>2. PICK q \in Seq(Writes) : q = queue[a]
  BY DEF Shape
<1>3. x \in Writes /\ w \in Writes
  BY <1>1, <1>2, MailWriteBlocks
<1>4. PICK p \in Seq(Writes) : p = Append(q, x)
  BY <1>3, AppendProperties
<1>5. Fits(r, q)
  BY <1>1, <1>2 DEF BlocksInv, BlocksOf
<1>6. Written(r, p).blocks = Written(r, q).blocks /\ Fits(r, p)
  BY <1>4, <1>5, MailWriteBlocks
<1>7. Written(r, Append(p, w)).blocks = Written(r, p).blocks /\ Fits(r, Append(p, w))
  BY <1>6, MailWriteBlocks
<1>8. Written(rows'[a], queue'[a]).blocks = Settled(a).blocks /\ Fits(rows'[a], queue'[a])
  BY <1>1, <1>2, <1>4, <1>6, <1>7 DEF Settled
<1>9. /\ \A b \in Accounts : Written(rows'[a], queue'[a]).blocks[b] = Settled(a).blocks[b]
      /\ blocked'[a] = blocked[a] /\ honoured'[a] = honoured[a]
      /\ (a \in online' <=> a \in online) /\ cut' = cut
  BY <1>8
<1> QED
  BY <1>8, <1>9, BlocksStay

LEMMA OnlyBlocksStay ==
  ASSUME Shape, Shape', BlocksInv, NEW x \in Accounts, blocked'[x] = blocked[x],
         queue'[x] = queue[x], rows'[x].blocks = rows[x].blocks, honoured'[x] = honoured[x],
         UNCHANGED <<online, cut>>
  PROVE  BlocksOf(x)'
<1>1. /\ \A b \in Accounts : Written(rows'[x], queue'[x]).blocks[b] = Settled(x).blocks[b]
      /\ Fits(rows'[x], queue'[x]) /\ Len(queue'[x]) <= MaxQueue /\ (x \in online' <=> x \in online) /\ cut' = cut
  BY QueueKept DEF BlocksInv, BlocksOf
<1> QED
  BY <1>1, BlocksStay

LEMMA PersistBlocks ==
  ASSUME Shape, Shape', BlocksInv, NEW a \in Accounts, Persist(a)
  PROVE  BlocksInv'
<1>1. /\ queue[a] # <<>>
      /\ rows' = [rows EXCEPT ![a] = Applied(rows[a], Head(queue[a]))]
      /\ queue' = [queue EXCEPT ![a] = Tail(queue[a])]
      /\ UNCHANGED <<online, blocked, honoured, cut, given>>
  BY DEF Persist, session, history
<1>2. BlocksOf(a)'
  <2>1. PICK r \in Rows : r = rows[a]
    BY DEF Shape
  <2>2. PICK q \in Seq(Writes) : q = queue[a]
    BY DEF Shape
  <2>3. rows'[a] = Applied(r, Head(q)) /\ queue'[a] = Tail(q) /\ q # <<>>
    BY <1>1, <2>1, <2>2 DEF Shape
  <2>4. Written(rows'[a], queue'[a]) = Settled(a)
    BY <2>1, <2>2, <2>3, WrittenTail DEF Settled
  <2>5. Fits(rows'[a], queue'[a])
    <3>1. Fits(r, q)
      BY <2>1, <2>2 DEF BlocksInv, BlocksOf
    <3> QED
      BY <2>3, <3>1, FitsTail
  <2>6. Len(queue'[a]) <= MaxQueue
    <3>1. Len(q) <= MaxQueue /\ MaxQueue \in Nat
      BY <2>2, NumericAssumption DEF BlocksInv, BlocksOf
    <3>2. Len(Tail(q)) = Len(q) - 1 /\ Len(q) \in Nat
      BY <2>3, HeadTailProperties
    <3> QED
      BY <2>3, <3>1, <3>2
  <2>7. /\ \A b \in Accounts : Written(rows'[a], queue'[a]).blocks[b] = Settled(a).blocks[b]
        /\ blocked'[a] = blocked[a] /\ honoured'[a] = honoured[a]
        /\ (a \in online' <=> a \in online) /\ cut' = cut
    BY <1>1, <2>4
  <2> QED
    BY <2>5, <2>6, <2>7, BlocksStay
<1>3. ASSUME NEW x \in Accounts \ {a}
      PROVE  BlocksOf(x)'
  <2>1. rows'[x] = rows[x] /\ queue'[x] = queue[x]
    BY <1>1 DEF Shape
  <2> QED
    BY <1>1, <2>1, OnlyBlocksStay
<1> QED
  BY <1>1, <1>2, <1>3 DEF BlocksInv

LEMMA CrashBlocks ==
  ASSUME Shape, Shape', BlocksInv, Crash
  PROVE  BlocksInv'
<1>1. /\ online' = {} /\ UNCHANGED <<rows, given, cut>>
      /\ \A x \in Accounts : /\ blocked'[x] = None /\ queue'[x] = <<>>
                             /\ honoured'[x] = honoured[x] \cap Occurring(rows[x].blocks)
  BY DEF Crash, database
<1>2. ASSUME NEW x \in Accounts
      PROVE  BlocksOf(x)'
  <2>1. PICK r \in Rows : r = rows[x]
    BY DEF Shape
  <2>2. Written(r, <<>>) = r
    BY WrittenNothing
  <2>3. Len(<<>>) <= MaxQueue /\ Size(None) <= MaxFriends
    BY NumericAssumption, SizeNone
  <2>4. \A b \in Accounts : None[b] <= r.blocks[b]
    BY RowsOf DEF None
  <2>5. \A b \in honoured'[x] : r.blocks[b] > 0
    BY <1>1, <2>1 DEF Occurring
  <2>6. Fits(r, <<>>)
    <3>1. \A b \in Accounts : r.blocks[b] <= MaxRows
      BY <2>1, FitsNow
    <3> QED
      BY <3>1, FitsNone
  <2> QED
    BY <1>1, <2>1, <2>2, <2>3, <2>4, <2>5, <2>6 DEF BlocksOf, Settled
<1> QED
  BY <1>1, <1>2 DEF BlocksInv

LEMMA LoginBlocks ==
  ASSUME Shape, Shape', BlocksInv, Idle, NEW a \in Accounts, Login(a)
  PROVE  BlocksInv'
<1>1. PICK list \in Loads(rows[a].blocks) :
        /\ blocked' = [blocked EXCEPT ![a] = list]
        /\ (cut' = cut /\ Occurring(list) = Occurring(rows[a].blocks)) \/ cut' = cut \cup {a}
  BY DEF Login
<1>2. /\ a \notin online /\ online' = online \cup {a} /\ UNCHANGED <<queue, rows, given, honoured>>
  BY DEF Login, database
<1>3. BlocksOf(a)'
  <2>1. PICK r \in Rows : r = rows[a]
    BY DEF Shape
  <2>2. queue[a] = <<>> /\ Written(r, <<>>) = r
    BY <1>2, WrittenNothing DEF Idle
  <2>3. Len(<<>>) <= MaxQueue
    BY NumericAssumption
  <2>4. r.blocks \in [Accounts -> Nat]
    BY RowsOf
  <2>5. list \in [Accounts -> Nat] /\ \A b \in Accounts : list[b] <= r.blocks[b]
    BY <2>1, <2>4, LoadsAre
  <2>6. Size(list) <= MaxFriends
    <3>1. Size(list) \in Nat /\ MaxFriends \in Nat
      BY <2>5, CopiesFinite, NumericAssumption
    <3> QED
      BY <3>1 DEF Loads
  <2>7. a \notin cut' => a \notin cut /\ \A b \in honoured[a] : list[b] > 0
    <3> SUFFICES ASSUME a \notin cut', NEW b \in honoured[a]
                 PROVE  a \notin cut /\ list[b] > 0
      BY <1>1
    <3>1. a \notin cut /\ Occurring(list) = Occurring(rows[a].blocks) /\ b \in Accounts
      BY <1>1 DEF Shape
    <3>2. rows[a].blocks[b] > 0
      BY <1>2, <2>1, <2>2, <3>1 DEF BlocksInv, BlocksOf, Settled
    <3>3. b \in Occurring(rows[a].blocks)
      BY <3>1, <3>2 DEF Occurring
    <3> QED
      BY <3>1, <3>3 DEF Occurring
  <2>8. blocked'[a] = list /\ a \in online'
    BY <1>1, <1>2 DEF Shape
  <2> QED
    BY <1>2, <2>1, <2>2, <2>3, <2>5, <2>6, <2>7, <2>8 DEF BlocksInv, BlocksOf, Settled
<1>4. ASSUME NEW x \in Accounts \ {a}
      PROVE  BlocksOf(x)'
  <2>1. blocked'[x] = blocked[x] /\ (x \in online' <=> x \in online) /\ (x \in cut' <=> x \in cut)
    BY <1>1, <1>2 DEF Shape
  <2> QED
    BY <1>2, <2>1 DEF BlocksInv, BlocksOf, Settled
<1> QED
  BY <1>2, <1>3, <1>4 DEF BlocksInv

LEMMA LogoutBlocks ==
  ASSUME Shape, Shape', BlocksInv, NEW a \in Accounts, Logout(a)
  PROVE  BlocksInv'
<1>1. /\ a \in online /\ online' = online \ {a} /\ blocked' = [blocked EXCEPT ![a] = None]
      /\ UNCHANGED <<rows, queue, given, honoured, cut>>
  BY DEF Logout, database
<1>2. BlocksOf(a)'
  <2>1. PICK u \in Rows : u = Settled(a)
    BY SettledTyped
  <2>2. Settled(a)' = u /\ blocked'[a] = None /\ a \notin online'
    BY <1>1, <2>1 DEF Shape, Settled
  <2>3. Size(None) <= MaxFriends
    BY NumericAssumption, SizeNone
  <2>4. u.blocks \in [Accounts -> Nat] /\ blocked[a] \in [Accounts -> Nat]
    BY <2>1, BlocksTyped
  <2>5. \A b \in Accounts : None[b] <= u.blocks[b]
    BY <2>4 DEF None
  <2>6. a \notin cut => \A b \in honoured[a] : u.blocks[b] > 0
    <3> SUFFICES ASSUME a \notin cut, NEW b \in honoured[a]
                 PROVE  u.blocks[b] > 0
      OBVIOUS
    <3>1. b \in Accounts /\ blocked[a][b] > 0 /\ blocked[a][b] <= u.blocks[b]
      BY <1>1, <2>1 DEF BlocksInv, BlocksOf, Shape
    <3> QED
      BY <2>4, <3>1
  <2> QED
    BY <1>1, <2>2, <2>3, <2>5, <2>6 DEF BlocksInv, BlocksOf
<1>3. ASSUME NEW x \in Accounts \ {a}
      PROVE  BlocksOf(x)'
  <2>1. blocked'[x] = blocked[x] /\ (x \in online' <=> x \in online)
    BY <1>1 DEF Shape
  <2> QED
    BY <1>1, <2>1 DEF BlocksInv, BlocksOf, Settled
<1> QED
  BY <1>1, <1>2, <1>3 DEF BlocksInv

LEMMA FriendStepsBlocks ==
  ASSUME Shape, Shape', BlocksInv, NEW a \in Accounts, NEW b \in Accounts,
         \/ EnterMatch(a) \/ LeaveMatch(a) \/ FetchRequests(a) \/ UNCHANGED vars
         \/ AskOnline(a, b) \/ AskOffline(a, b) \/ Accept(a, b) \/ DeleteFriend(a, b)
  PROVE  BlocksInv'
<1>1. UNCHANGED <<online, blocked, queue, rows, given, honoured, cut>>
  BY DEF EnterMatch, LeaveMatch, FetchRequests, vars, AskOnline, AskOffline, Accept, DeleteFriend,
         session, database, history
<1>2. \A x \in Accounts : BlocksOf(x)'
  BY <1>1, OnlyBlocksStay
<1> QED
  BY <1>1, <1>2 DEF BlocksInv

\* The player blocks b: the row is queued, after one written at once or not.
LEMMA BlockingBlocks ==
  ASSUME Shape, Shape', BlocksInv, NEW a \in online, NEW b \in Accounts, Blocking(a, b),
         Size(blocked[a]) < MaxFriends,
         \/ rows'[a] = rows[a] /\ rows[a].blocks[b] + Len(queue[a]) < MaxRows
         \/ /\ rows'[a] = [rows[a] EXCEPT !.blocks[b] = @ + 1]
            /\ rows[a].blocks[b] + Len(queue[a]) + 1 < MaxRows,
         UNCHANGED <<online, cut>>
  PROVE  BlocksOf(a)'
<1>1. a \in Accounts
  BY DEF Shape
<1>2. PICK r \in Rows : r = rows[a]
  BY <1>1 DEF Shape
<1>3. PICK q \in Seq(Writes) : q = queue[a]
  BY <1>1 DEF Shape
<1>4. PICK v \in Rows : v = rows'[a]
  BY <1>1 DEF Shape
<1>5. PICK l \in [Accounts -> Nat] : l = blocked[a]
  BY <1>1 DEF Shape
<1>6. PICK w \in Writes : w = BlockRow(b)
  BY WritesAre
<1>7. PICK n \in Nat : n = Len(q)
  OBVIOUS
<1>8. r.blocks \in [Accounts -> Nat] /\ v.blocks \in [Accounts -> Nat] /\ MaxRows \in Nat
      /\ MaxFriends \in Nat
  BY RowsOf, NumericAssumption
<1>9. /\ \A c \in Accounts \ {b} : v.blocks[c] = r.blocks[c]
      /\ r.blocks[b] <= v.blocks[b] /\ v.blocks[b] <= MaxRows /\ v.blocks[b] + n < MaxRows
  <2>1. CASE v = r /\ r.blocks[b] + n < MaxRows
    BY <1>8, <2>1
  <2>2. CASE v = [r EXCEPT !.blocks[b] = @ + 1] /\ r.blocks[b] + n + 1 < MaxRows
    <3>1. v = Applied(r, BlockRow(b))
      BY <2>2, BlockedRow
    <3>2. v.blocks = [r.blocks EXCEPT ![b] = r.blocks[b] + 1]
      BY <3>1, AppliedFields
    <3>3. v.blocks[b] = r.blocks[b] + 1 /\ \A c \in Accounts \ {b} : v.blocks[c] = r.blocks[c]
      BY <1>8, <3>2
    <3> QED
      BY <1>8, <2>2, <3>3
  <2> QED
    BY <1>2, <1>3, <1>4, <1>7, <2>1, <2>2
<1>10. PICK s \in Rows : s = Written(r, q)
  BY WrittenTyped
<1>11. PICK t \in Rows : t = Written(v, q)
  BY WrittenTyped
<1>12. PICK u \in Rows : u = Applied(t, w)
  BY AppliedTyped
<1>13. Written(v, Append(q, w)) = u
  BY <1>11, <1>12, WrittenAppend
<1>14. u.blocks = [t.blocks EXCEPT ![b] = t.blocks[b] + 1]
  BY <1>6, <1>12, AppliedFields
<1>15. s.blocks \in [Accounts -> Nat] /\ t.blocks \in [Accounts -> Nat] /\ u.blocks \in [Accounts -> Nat]
  BY RowsOf
<1>16. \A c \in Accounts : /\ r.blocks[c] <= v.blocks[c] => s.blocks[c] <= t.blocks[c]
                           /\ v.blocks[c] <= r.blocks[c] => t.blocks[c] <= s.blocks[c]
                           /\ t.blocks[c] <= v.blocks[c] + n
  BY <1>7, <1>10, <1>11, WrittenBlocks
<1>17. \A c \in Accounts : /\ s.blocks[c] <= MaxRows /\ r.blocks[c] <= MaxRows /\ l[c] <= s.blocks[c]
  <2>1. \A c \in Accounts : rows[a].blocks[c] <= MaxRows /\ Settled(a).blocks[c] <= MaxRows
    BY <1>1, FitsNow
  <2> QED
    BY <1>1, <1>2, <1>3, <1>5, <1>10, <2>1 DEF BlocksInv, BlocksOf, Settled
<1>18. u.blocks[b] = t.blocks[b] + 1 /\ \A c \in Accounts \ {b} : u.blocks[c] = t.blocks[c]
  BY <1>14, <1>15
<1>19. PICK k \in [Accounts -> Nat] : k = [l EXCEPT ![b] = l[b] + 1]
  <2>1. [l EXCEPT ![b] = l[b] + 1] \in [Accounts -> Nat]
    BY <1>5
  <2> QED
    BY <2>1
<1>20. k[b] = l[b] + 1 /\ \A c \in Accounts \ {b} : k[c] = l[c]
  BY <1>19
<1>21. /\ blocked'[a] = k /\ Queued(a, <<w>>)
       /\ honoured'[a] = honoured[a] \cup {b}
  BY <1>1, <1>5, <1>6, <1>19 DEF Blocking, Shape
<1>22. queue'[a] = Append(q, w) /\ Len(queue'[a]) <= MaxQueue
  <2>1. queue'[a] = Append(queue[a], w)
    BY <1>1, <1>21, QueuedOne
  <2>2. Len(queue[a] \o <<w>>) <= MaxQueue
    BY <1>21 DEF Queued
  <2>3. queue[a] \o <<w>> = Append(queue[a], w)
    BY <1>3, AppendIs
  <2> QED
    BY <1>3, <2>1, <2>2, <2>3
<1>23. Size(k) <= MaxFriends
  <2>1. Size(k) = Size(l) + 1 /\ Size(l) \in Nat
    BY <1>19, SizeMore, CopiesFinite
  <2> QED
    BY <1>5, <1>8, <2>1
<1>24. ASSUME NEW c \in Accounts
       PROVE  v.blocks[c] <= MaxRows /\ u.blocks[c] <= MaxRows /\ k[c] <= u.blocks[c]
  <2>1. CASE c = b
    <3>1. s.blocks[b] <= t.blocks[b] /\ t.blocks[b] <= v.blocks[b] + n /\ l[b] <= s.blocks[b]
      BY <1>9, <1>16, <1>17
    <3>2. v.blocks[b] <= MaxRows /\ v.blocks[b] + n < MaxRows /\ v.blocks[b] \in Nat /\ MaxRows \in Nat
      BY <1>8, <1>9
    <3>3. s.blocks[b] \in Nat /\ t.blocks[b] \in Nat /\ l[b] \in Nat
      BY <1>15
    <3>4. u.blocks[b] = t.blocks[b] + 1 /\ k[b] = l[b] + 1
      BY <1>18, <1>20
    <3>5. u.blocks[b] <= MaxRows /\ k[b] <= u.blocks[b]
      <4>1. PICK x \in Nat : x = s.blocks[b]
        BY <3>3
      <4>2. PICK y \in Nat : y = t.blocks[b]
        BY <3>3
      <4>3. PICK z \in Nat : z = v.blocks[b]
        BY <3>2
      <4>4. PICK h \in Nat : h = l[b]
        BY <3>3
      <4>5. x <= y /\ y <= z + n /\ h <= x /\ z + n < MaxRows /\ MaxRows \in Nat
        BY <3>1, <3>2, <4>1, <4>2, <4>3, <4>4
      <4>6. y + 1 <= MaxRows /\ h + 1 <= y + 1
        BY <4>5
      <4> QED
        BY <3>4, <4>2, <4>4, <4>6
    <3> QED
      BY <2>1, <3>2, <3>5
  <2>2. CASE c # b
    <3>1. v.blocks[c] = r.blocks[c] /\ r.blocks[c] \in Nat
      BY <1>8, <1>9, <2>2
    <3>2. s.blocks[c] <= t.blocks[c] /\ t.blocks[c] <= s.blocks[c]
      BY <1>16, <3>1
    <3>3. s.blocks[c] \in Nat /\ t.blocks[c] \in Nat /\ l[c] \in Nat
      BY <1>15
    <3>4. s.blocks[c] <= MaxRows /\ r.blocks[c] <= MaxRows /\ l[c] <= s.blocks[c]
      BY <1>17
    <3>5. u.blocks[c] = t.blocks[c] /\ k[c] = l[c]
      BY <1>18, <1>20, <2>2
    <3>6. t.blocks[c] = s.blocks[c]
      BY <3>2, <3>3
    <3> QED
      BY <3>1, <3>4, <3>5, <3>6
  <2> QED
    BY <2>1, <2>2
<1>25. a \notin cut => \A c \in honoured[a] \cup {b} : k[c] > 0
  <2> SUFFICES ASSUME a \notin cut, NEW c \in honoured[a] \cup {b}
               PROVE  k[c] > 0
    OBVIOUS
  <2>1. CASE c = b
    BY <1>5, <1>20, <2>1
  <2>2. CASE c # b
    <3>1. c \in honoured[a] /\ c \in Accounts
      BY <1>1, <2>2 DEF Shape
    <3>2. l[c] > 0
      BY <1>1, <1>5, <3>1 DEF BlocksInv, BlocksOf
    <3> QED
      BY <1>20, <2>2, <3>1, <3>2
  <2> QED
    BY <2>1, <2>2
<1>26. Fits(v, Append(q, w))
  <2>1. Fits(r, q)
    BY <1>1, <1>2, <1>3 DEF BlocksInv, BlocksOf
  <2>2. ASSUME NEW c \in Accounts
        PROVE  v.blocks[c] <= r.blocks[c] \/ v.blocks[c] + Len(q) <= MaxRows
    <3>1. CASE c = b
      <4>1. v.blocks[b] \in Nat /\ v.blocks[b] + n < MaxRows
        BY <1>8, <1>9
      <4> QED
        BY <1>7, <1>8, <3>1, <4>1
    <3>2. CASE c # b
      <4>1. v.blocks[c] = r.blocks[c] /\ r.blocks[c] \in Nat
        BY <1>8, <1>9, <3>2
      <4> QED
        BY <4>1
    <3> QED
      BY <3>1, <3>2
  <2>3. Fits(v, q)
    BY <2>1, <2>2, FitsMore
  <2> QED
    BY <1>11, <1>12, <1>24, <2>3, FitsAppend
<1> QED
  BY <1>1, <1>4, <1>13, <1>21, <1>22, <1>23, <1>24, <1>25, <1>26 DEF BlocksOf, Settled

LEMMA BlockStepsBlocks ==
  ASSUME Shape, Shape', BlocksInv, NEW a \in Accounts, NEW b \in Accounts,
         BlockOnline(a, b) \/ BlockOffline(a, b)
  PROVE  BlocksInv'
<1>1. a \in online /\ UNCHANGED <<online, given, cut>>
  BY DEF BlockOnline, BlockOffline
<1>2. \A x \in Accounts \ {a} : rows'[x] = rows[x]
  BY DEF BlockOnline, BlockOffline, Shape
<1>3. CASE Blocking(a, b) /\ Size(blocked[a]) < MaxFriends
  <2>1. \/ rows'[a] = rows[a] /\ rows[a].blocks[b] + Len(queue[a]) < MaxRows
        \/ /\ rows'[a] = [rows[a] EXCEPT !.blocks[b] = @ + 1]
           /\ rows[a].blocks[b] + Len(queue[a]) + 1 < MaxRows
    BY DEF BlockOnline, BlockOffline, Shape
  <2>2. BlocksOf(a)'
    BY <1>1, <1>3, <2>1, BlockingBlocks
  <2>3. Queued(a, <<BlockRow(b)>>) /\ BlockRow(b) \in Writes
    BY <1>3, WritesAre DEF Blocking
  <2>4. \A x \in Accounts \ {a} : queue'[x] = queue[x]
    BY <2>3, QueuedOne
  <2>5. \A x \in Accounts \ {a} : blocked'[x] = blocked[x] /\ honoured'[x] = honoured[x]
    BY <1>3 DEF Blocking, Shape
  <2>6. ASSUME NEW x \in Accounts \ {a}
        PROVE  BlocksOf(x)'
    BY <1>1, <1>2, <2>4, <2>5, OnlyBlocksStay
  <2> QED
    BY <1>1, <2>2, <2>6 DEF BlocksInv
<1>4. CASE /\ BlockOffline(a, b) /\ UNCHANGED <<blocked, queue, honoured>>
  <2>1. PICK r \in Rows : r = rows[a]
    BY DEF Shape
  <2>2. PICK v \in Rows : v = rows'[a] /\ v = Applied(r, BlockRow(b))
    <3>1. rows'[a] = [rows[a] EXCEPT !.blocks[b] = @ + 1]
      BY <1>4 DEF BlockOffline, Shape
    <3> QED
      BY <2>1, <3>1, BlockedRow
  <2>3. PICK q \in Seq(Writes) : q = queue[a]
    BY DEF Shape
  <2>4. PICK s \in Rows : s = Written(r, q)
    BY WrittenTyped
  <2>5. PICK t \in Rows : t = Written(v, q)
    BY WrittenTyped
  <2>6. PICK n \in Nat : n = Len(q)
    OBVIOUS
  <2>7. /\ r.blocks \in [Accounts -> Nat] /\ v.blocks \in [Accounts -> Nat]
        /\ s.blocks \in [Accounts -> Nat] /\ t.blocks \in [Accounts -> Nat]
        /\ MaxRows \in Nat /\ blocked[a] \in [Accounts -> Nat]
    <3>1. MaxRows \in Nat /\ blocked[a] \in [Accounts -> Nat]
      BY NumericAssumption DEF Shape
    <3> QED
      BY <3>1, RowsOf
  <2>8. v.blocks = [r.blocks EXCEPT ![b] = r.blocks[b] + 1]
    <3>1. Applied(r, BlockRow(b)).blocks = [r.blocks EXCEPT ![b] = r.blocks[b] + 1]
      BY AppliedFields
    <3> QED
      BY <2>2, <3>1
  <2>9. v.blocks[b] = r.blocks[b] + 1 /\ \A c \in Accounts \ {b} : v.blocks[c] = r.blocks[c]
    BY <2>7, <2>8
  <2>10. \A c \in Accounts : /\ r.blocks[c] <= v.blocks[c] => s.blocks[c] <= t.blocks[c]
                             /\ v.blocks[c] <= r.blocks[c] => t.blocks[c] <= s.blocks[c]
                             /\ t.blocks[c] <= v.blocks[c] + n
    BY <2>4, <2>5, <2>6, WrittenBlocks
  <2>11. r.blocks[b] + n + 1 < MaxRows
    BY <1>4, <2>1, <2>3, <2>6 DEF BlockOffline
  <2>12. /\ \A c \in Accounts : /\ r.blocks[c] <= MaxRows /\ s.blocks[c] <= MaxRows
                                /\ blocked[a][c] <= s.blocks[c]
         /\ Size(blocked[a]) <= MaxFriends /\ Len(queue[a]) <= MaxQueue
         /\ a \notin cut => \A c \in honoured[a] : blocked[a][c] > 0
    <3>1. \A c \in Accounts : rows[a].blocks[c] <= MaxRows /\ Settled(a).blocks[c] <= MaxRows
      BY FitsNow
    <3> QED
      BY <1>1, <2>1, <2>3, <2>4, <3>1 DEF BlocksInv, BlocksOf, Settled
  <2>13. ASSUME NEW c \in Accounts
         PROVE  v.blocks[c] <= MaxRows /\ t.blocks[c] <= MaxRows /\ blocked[a][c] <= t.blocks[c]
    <3>0. /\ r.blocks[c] \in Nat /\ v.blocks[c] \in Nat /\ s.blocks[c] \in Nat /\ t.blocks[c] \in Nat
          /\ blocked[a][c] \in Nat
      BY <2>7
    <3>1. CASE c = b
      <4>1. v.blocks[c] = r.blocks[c] + 1
        BY <2>9, <3>1
      <4>2. r.blocks[c] + n + 1 < MaxRows
        BY <2>11, <3>1
      <4>3. r.blocks[c] <= v.blocks[c]
        BY <3>0, <4>1
      <4>4. s.blocks[c] <= t.blocks[c] /\ t.blocks[c] <= v.blocks[c] + n
        BY <2>10, <4>3
      <4>5. blocked[a][c] <= s.blocks[c] /\ MaxRows \in Nat
        BY <2>7, <2>12
      <4> QED
        <5>1. v.blocks[c] <= MaxRows
          BY <3>0, <4>1, <4>2, <4>5
        <5>2. t.blocks[c] <= MaxRows
          <6>1. PICK x \in Nat : x = t.blocks[c]
            BY <3>0
          <6>2. PICK y \in Nat : y = r.blocks[c]
            BY <3>0
          <6>3. x <= y + 1 + n /\ y + n + 1 < MaxRows
            BY <4>1, <4>2, <4>4, <6>1, <6>2
          <6>4. x <= MaxRows
            BY <4>5, <6>3
          <6> QED
            BY <6>1, <6>4
        <5>3. blocked[a][c] <= t.blocks[c]
          BY <3>0, <4>4, <4>5
        <5> QED
          BY <5>1, <5>2, <5>3
    <3>2. CASE c # b
      <4>1. v.blocks[c] = r.blocks[c]
        BY <2>9, <3>2
      <4>2. s.blocks[c] <= t.blocks[c] /\ t.blocks[c] <= s.blocks[c]
        BY <2>10, <3>0, <4>1
      <4>3. t.blocks[c] = s.blocks[c]
        BY <3>0, <4>2
      <4> QED
        BY <2>12, <4>1, <4>3
    <3> QED
      BY <3>1, <3>2
  <2>16. Fits(v, q)
    <3>1. Fits(r, q)
      BY <2>1, <2>3 DEF BlocksInv, BlocksOf
    <3>2. ASSUME NEW c \in Accounts
          PROVE  v.blocks[c] <= r.blocks[c] \/ v.blocks[c] + Len(q) <= MaxRows
      <4>1. CASE c = b
        <5>1. v.blocks[b] = r.blocks[b] + 1 /\ r.blocks[b] \in Nat
          BY <2>7, <2>9
        <5>2. v.blocks[b] + n <= MaxRows
          BY <2>7, <2>11, <5>1
        <5> QED
          BY <2>6, <4>1, <5>2
      <4>2. CASE c # b
        <5>1. v.blocks[c] = r.blocks[c] /\ r.blocks[c] \in Nat
          BY <2>7, <2>9, <4>2
        <5> QED
          BY <5>1
      <4> QED
        BY <4>1, <4>2
    <3> QED
      BY <3>1, <3>2, FitsMore
  <2>14. BlocksOf(a)'
    BY <1>1, <1>4, <2>2, <2>3, <2>5, <2>12, <2>13, <2>16 DEF BlocksOf, Settled
  <2>15. ASSUME NEW x \in Accounts \ {a}
         PROVE  BlocksOf(x)'
    BY <1>1, <1>2, <1>4, OnlyBlocksStay
  <2> QED
    BY <1>1, <2>14, <2>15 DEF BlocksInv
<1> QED
  BY <1>3, <1>4 DEF BlockOnline, BlockOffline

LEMMA UnblockBlocks ==
  ASSUME Shape, Shape', BlocksInv, NEW a \in Accounts, NEW b \in Accounts, Unblock(a, b)
  PROVE  BlocksInv'
<1>1. /\ blocked[a][b] > 0 /\ blocked' = [blocked EXCEPT ![a][b] = 0]
      /\ Queued(a, <<UnblockRows(b)>>) /\ honoured' = [honoured EXCEPT ![a] = @ \ {b}]
      /\ UNCHANGED <<online, rows, given, cut>>
  BY DEF Unblock, database
<1>2. PICK r \in Rows : r = rows[a]
  BY DEF Shape
<1>3. PICK q \in Seq(Writes) : q = queue[a]
  BY DEF Shape
<1>4. PICK l \in [Accounts -> Nat] : l = blocked[a]
  BY DEF Shape
<1>5. PICK w \in Writes : w = UnblockRows(b)
  BY WritesAre
<1>6. PICK s \in Rows : s = Written(r, q)
  BY WrittenTyped
<1>7. PICK u \in Rows : u = Applied(s, w)
  BY AppliedTyped
<1>8. Written(r, Append(q, w)) = u
  BY <1>6, <1>7, WrittenAppend
<1>9. u.blocks = [s.blocks EXCEPT ![b] = 0]
  BY <1>5, <1>7, AppliedFields
<1>10. s.blocks \in [Accounts -> Nat] /\ MaxRows \in Nat /\ MaxFriends \in Nat
  BY RowsOf, NumericAssumption
<1>11. u.blocks[b] = 0 /\ \A c \in Accounts \ {b} : u.blocks[c] = s.blocks[c]
  BY <1>9, <1>10
<1>12. PICK k \in [Accounts -> Nat] : k = [l EXCEPT ![b] = 0]
  <2>1. [l EXCEPT ![b] = 0] \in [Accounts -> Nat]
    BY <1>4
  <2> QED
    BY <2>1
<1>13. k[b] = 0 /\ \A c \in Accounts \ {b} : k[c] = l[c]
  BY <1>12
<1>14. /\ blocked'[a] = k /\ honoured'[a] = honoured[a] \ {b}
       /\ \A x \in Accounts \ {a} : blocked'[x] = blocked[x] /\ honoured'[x] = honoured[x]
  BY <1>1, <1>4, <1>12 DEF Shape
<1>15. queue'[a] = Append(q, w) /\ \A x \in Accounts \ {a} : queue'[x] = queue[x]
  BY <1>1, <1>3, <1>5, QueuedOne
<1>16. Len(queue'[a]) <= MaxQueue
  BY <1>1 DEF Queued, Shape
<1>17. Size(k) <= Size(l) /\ Size(k) \in Nat /\ Size(l) \in Nat
  <2>1. \A c \in Accounts : k[c] <= l[c]
    BY <1>13
  <2> QED
    BY <2>1, SizeLess, CopiesFinite
<1>18. /\ \A c \in Accounts : /\ r.blocks[c] <= MaxRows /\ s.blocks[c] <= MaxRows
                              /\ l[c] <= s.blocks[c]
       /\ Size(l) <= MaxFriends
       /\ a \in online
       /\ a \notin cut => \A c \in honoured[a] : l[c] > 0
  <2>1. a \in online
    BY <1>1 DEF Shape, Blank, None
  <2>2. \A c \in Accounts : rows[a].blocks[c] <= MaxRows /\ Settled(a).blocks[c] <= MaxRows
    BY FitsNow
  <2> QED
    BY <1>2, <1>3, <1>4, <1>6, <2>1, <2>2 DEF BlocksInv, BlocksOf, Settled
<1>19. Size(k) <= MaxFriends
  BY <1>10, <1>17, <1>18
<1>20. \A c \in Accounts : u.blocks[c] <= MaxRows /\ k[c] <= u.blocks[c]
  <2> SUFFICES ASSUME NEW c \in Accounts
               PROVE  u.blocks[c] <= MaxRows /\ k[c] <= u.blocks[c]
    OBVIOUS
  <2>1. CASE c = b
    BY <1>10, <1>11, <1>13, <2>1
  <2>2. CASE c # b
    BY <1>11, <1>13, <1>18, <2>2
  <2> QED
    BY <2>1, <2>2
<1>21. BlocksOf(a)'
  <2>1. a \notin cut => \A c \in honoured'[a] : k[c] > 0
    BY <1>13, <1>14, <1>18 DEF Shape
  <2>2. Fits(r, Append(q, w))
    <3>1. Fits(r, q)
      BY <1>2, <1>3 DEF BlocksInv, BlocksOf
    <3> QED
      BY <1>6, <1>7, <1>20, <3>1, FitsAppend
  <2> QED
    BY <1>1, <1>2, <1>8, <1>14, <1>15, <1>16, <1>18, <1>19, <1>20, <2>1, <2>2 DEF BlocksOf, Settled
<1>22. ASSUME NEW x \in Accounts \ {a}
       PROVE  BlocksOf(x)'
  BY <1>1, <1>14, <1>15, OnlyBlocksStay
<1> QED
  BY <1>1, <1>21, <1>22 DEF BlocksInv

LEMMA MailedBlocks ==
  ASSUME NEW r \in Rows, NEW m \in Mails
  PROVE  [r EXCEPT !.mails = Append(@, m)].blocks = r.blocks
<1>1. [r EXCEPT !.mails = Append(@, m)] = Applied(r, StoreMail(m))
  BY MailedRow
<1>2. Applied(r, StoreMail(m)).blocks = r.blocks
  BY AppliedFields
<1> QED
  BY <1>1, <1>2

LEMMA SentBlocks ==
  ASSUME Shape, Shape', BlocksInv, NEW a \in Accounts, NEW b \in Accounts, NEW at \in Seconds,
         MailOnline(a, b, at) \/ MailOffline(a, b, at)
  PROVE  BlocksInv'
<1>1. PICK s \in Mails : s = Mail("sent", b, at)
  BY MailsAre DEF Kinds
<1>2. PICK t \in Mails : t = Mail("received", a, at)
  BY MailsAre DEF Kinds
<1>3. a \in online /\ UNCHANGED <<online, blocked, given, honoured, cut>>
  BY DEF MailOnline, MailOffline, history
<1>4. PICK x \in MailWrites : x = StoreMail(s) /\ x \in Writes
  BY WritesAre DEF MailWrites
<1>5. PICK y \in MailWrites : y = StoreMail(t) /\ y \in Writes
  BY WritesAre DEF MailWrites
<1>6. CASE MailOnline(a, b, at)
  <2>1. /\ queue' = Appended(Appended(queue, b, y), a, x) /\ rows' = rows
        /\ Len(queue'[a]) <= MaxQueue /\ Len(queue'[b]) <= MaxQueue
    BY <1>1, <1>2, <1>4, <1>5, <1>6 DEF MailOnline, database
  <2>2. BothAppended(queue, a, b, x, y, Writes)
    <3>1. queue \in [Accounts -> Seq(Writes)]
      BY DEF Shape
    <3> QED
      BY <1>4, <1>5, <3>1, BothAppendedIs
  <2>3. /\ a # b => queue'[a] = Append(queue[a], x) /\ queue'[b] = Append(queue[b], y)
        /\ a = b => queue'[a] = Append(Append(queue[a], y), x)
        /\ \A c \in Accounts \ {a, b} : queue'[c] = queue[c]
    BY <2>1, <2>2 DEF BothAppended
  <2>4. BlocksOf(a)' /\ BlocksOf(b)'
    <3>1. CASE a # b
      BY <1>3, <2>1, <2>3, <3>1, MailWriteQueued
    <3>2. CASE a = b
      BY <1>3, <1>4, <1>5, <2>1, <2>3, <3>2, MailWritesQueued
    <3> QED
      BY <3>1, <3>2
  <2>5. ASSUME NEW c \in Accounts \ {a, b}
        PROVE  BlocksOf(c)'
    BY <1>3, <2>1, <2>3, OnlyBlocksStay
  <2> QED
    BY <1>3, <2>4, <2>5 DEF BlocksInv
<1>7. CASE MailOffline(a, b, at)
  <2>1. rows' = [rows EXCEPT ![b].mails = Append(@, t)] /\ Queued(a, <<x>>) /\ a # b
    BY <1>1, <1>2, <1>3, <1>4, <1>7 DEF MailOffline
  <2>2. queue'[a] = Append(queue[a], x) /\ \A c \in Accounts \ {a} : queue'[c] = queue[c]
    BY <1>4, <2>1, QueuedOne
  <2>3. Len(queue'[a]) <= MaxQueue
    BY <2>1 DEF Queued, Shape
  <2>4. \A c \in Accounts \ {b} : rows'[c] = rows[c]
    BY <2>1 DEF Shape
  <2>5. rows'[b].blocks = rows[b].blocks
    <3>1. rows'[b] = [rows[b] EXCEPT !.mails = Append(@, t)] /\ rows[b] \in Rows
      BY <2>1 DEF Shape
    <3> QED
      BY <3>1, MailedBlocks
  <2>6. BlocksOf(a)'
    BY <1>3, <2>1, <2>2, <2>3, <2>4, MailWriteQueued
  <2>7. ASSUME NEW c \in Accounts \ {a}
        PROVE  BlocksOf(c)'
    BY <1>3, <2>2, <2>4, <2>5, OnlyBlocksStay
  <2> QED
    BY <1>3, <2>6, <2>7 DEF BlocksInv
<1> QED
  BY <1>6, <1>7

LEMMA GiftBlocks ==
  ASSUME Shape, Shape', BlocksInv, NEW a \in Accounts, NEW at \in Seconds, Gift(a, at)
  PROVE  BlocksInv'
<1>1. PICK m \in Mails : m = Mail("gift", a, at)
  BY MailsAre DEF Kinds
<1>2. PICK w \in MailWrites : w = StoreMail(m) /\ w \in Writes
  BY WritesAre DEF MailWrites
<1>3. /\ Size(given) < MaxGifts /\ given' = [given EXCEPT ![a] = @ + 1]
      /\ UNCHANGED <<online, blocked, honoured, cut>>
      /\ \/ Queued(a, <<w>>) /\ rows' = rows
         \/ rows' = [rows EXCEPT ![a].mails = Append(@, m)] /\ queue' = queue
  BY <1>1, <1>2 DEF Gift
<1>4. Size(given)' <= MaxGifts
  <2>1. given \in [Accounts -> Nat] /\ MaxGifts \in Nat
    BY NumericAssumption DEF Shape
  <2>2. Size([given EXCEPT ![a] = given[a] + 1]) = Size(given) + 1 /\ Size(given) \in Nat
    BY <2>1, SizeMore, CopiesFinite
  <2>3. Size(given') = Size(given) + 1
    BY <1>3, <2>2
  <2> QED
    BY <1>3, <2>1, <2>2, <2>3
<1>5. CASE Queued(a, <<w>>) /\ rows' = rows
  <2>1. queue'[a] = Append(queue[a], w) /\ \A c \in Accounts \ {a} : queue'[c] = queue[c]
    BY <1>2, <1>5, QueuedOne
  <2>2. Len(queue'[a]) <= MaxQueue
    BY <1>5 DEF Queued, Shape
  <2>3. BlocksOf(a)'
    BY <1>3, <1>5, <2>1, <2>2, MailWriteQueued
  <2>4. ASSUME NEW c \in Accounts \ {a}
        PROVE  BlocksOf(c)'
    BY <1>3, <1>5, <2>1, OnlyBlocksStay
  <2> QED
    BY <1>4, <2>3, <2>4 DEF BlocksInv
<1>6. CASE rows' = [rows EXCEPT ![a].mails = Append(@, m)] /\ queue' = queue
  <2>1. \A c \in Accounts \ {a} : rows'[c] = rows[c]
    BY <1>6 DEF Shape
  <2>2. rows'[a].blocks = rows[a].blocks
    <3>1. rows'[a] = [rows[a] EXCEPT !.mails = Append(@, m)] /\ rows[a] \in Rows
      BY <1>6 DEF Shape
    <3> QED
      BY <3>1, MailedBlocks
  <2>3. ASSUME NEW c \in Accounts
        PROVE  BlocksOf(c)'
    BY <1>3, <1>6, <2>1, <2>2, OnlyBlocksStay
  <2> QED
    BY <1>4, <2>3 DEF BlocksInv
<1> QED
  BY <1>3, <1>5, <1>6

LEMMA DeleteMailBlocks ==
  ASSUME Shape, Shape', BlocksInv, NEW a \in Accounts, NEW kind \in Kinds \ {"gift"},
         NEW at \in Seconds, DeleteMail(a, kind, at)
  PROVE  BlocksInv'
<1>1. PICK w \in MailWrites : w = DeleteMails(kind, at) /\ w \in Writes
  BY WritesAre DEF MailWrites
<1>2. Queued(a, <<w>>) /\ UNCHANGED <<online, blocked, honoured, cut, rows, given>>
  BY <1>1 DEF DeleteMail, database
<1>3. queue'[a] = Append(queue[a], w) /\ \A c \in Accounts \ {a} : queue'[c] = queue[c]
  BY <1>1, <1>2, QueuedOne
<1>4. Len(queue'[a]) <= MaxQueue
  BY <1>2 DEF Queued, Shape
<1>5. BlocksOf(a)'
  BY <1>2, <1>3, <1>4, MailWriteQueued
<1>6. ASSUME NEW c \in Accounts \ {a}
      PROVE  BlocksOf(c)'
  BY <1>2, <1>3, OnlyBlocksStay
<1> QED
  BY <1>2, <1>5, <1>6 DEF BlocksInv

LEMMA OpenGiftBlocks ==
  ASSUME Shape, Shape', BlocksInv, NEW a \in Accounts, NEW at \in Seconds, OpenGift(a, at)
  PROVE  BlocksInv'
<1>1. PICK w \in MailWrites : w = DeleteMails("gift", at) /\ w \in Writes
  BY WritesAre DEF MailWrites, Kinds
<1>2. PICK x \in MailWrites : x = AddItem /\ x \in Writes
  BY WritesAre DEF MailWrites
<1>3. Queued(a, <<x, w>>) /\ UNCHANGED <<online, blocked, honoured, cut, rows, given>>
  BY <1>1, <1>2 DEF OpenGift, database, history
<1>4. PICK q \in Seq(Writes) : q = queue[a]
  BY DEF Shape
<1>5. <<x, w>> \in Seq(Writes)
  BY <1>1, <1>2
<1>6. queue'[a] = Append(Append(q, x), w) /\ \A c \in Accounts \ {a} : queue'[c] = queue[c]
  <2>1. queue'[a] = queue[a] \o <<x, w>> /\ \A c \in Accounts \ {a} : queue'[c] = queue[c]
    BY <1>3, <1>5, QueuedTyped
  <2>2. q \o <<x, w>> = Append(Append(q, x), w)
    BY <1>1, <1>2, AppendIs
  <2> QED
    BY <1>4, <2>1, <2>2
<1>7. Len(queue'[a]) <= MaxQueue
  BY <1>3 DEF Queued, Shape
<1>8. BlocksOf(a)'
  BY <1>3, <1>4, <1>6, <1>7, MailWritesQueued
<1>9. ASSUME NEW c \in Accounts \ {a}
      PROVE  BlocksOf(c)'
  BY <1>3, <1>6, OnlyBlocksStay
<1> QED
  BY <1>3, <1>8, <1>9 DEF BlocksInv

LEMMA BlocksStep ==
  ASSUME Shape, Shape', BlocksInv, [Next]_vars
  PROVE  BlocksInv'
<1>1. CASE UNCHANGED vars
  BY <1>1 DEF vars, BlocksInv, BlocksOf, Settled
<1>2. CASE Crash
  BY <1>2, CrashBlocks
<1>10. ASSUME NEW a \in Accounts, Persist(a)
       PROVE  BlocksInv'
  BY <1>10, PersistBlocks
<1>3. ASSUME NEW a \in Accounts, Idle, Login(a) \/ Logout(a)
      PROVE  BlocksInv'
  BY <1>3, LoginBlocks, LogoutBlocks
<1>4. ASSUME NEW a \in Accounts, EnterMatch(a) \/ LeaveMatch(a) \/ FetchRequests(a)
      PROVE  BlocksInv'
  BY <1>4, FriendStepsBlocks
<1>5. ASSUME NEW a \in Accounts, NEW b \in Accounts,
             AskOnline(a, b) \/ AskOffline(a, b) \/ Accept(a, b) \/ DeleteFriend(a, b)
      PROVE  BlocksInv'
  BY <1>5, FriendStepsBlocks
<1>6. ASSUME NEW a \in Accounts, NEW b \in Accounts,
             BlockOnline(a, b) \/ BlockOffline(a, b) \/ Unblock(a, b)
      PROVE  BlocksInv'
  BY <1>6, BlockStepsBlocks, UnblockBlocks
<1>7. ASSUME NEW a \in Accounts, NEW at \in Seconds, Gift(a, at) \/ OpenGift(a, at)
      PROVE  BlocksInv'
  BY <1>7, GiftBlocks, OpenGiftBlocks
<1>8. ASSUME NEW a \in Accounts, NEW at \in Seconds, NEW kind \in Kinds \ {"gift"},
             DeleteMail(a, kind, at)
      PROVE  BlocksInv'
  BY <1>8, DeleteMailBlocks
<1>9. ASSUME NEW a \in Accounts, NEW at \in Seconds, NEW b \in Accounts,
             MailOnline(a, b, at) \/ MailOffline(a, b, at)
      PROVE  BlocksInv'
  BY <1>9, SentBlocks
<1> QED
  BY <1>1, <1>2, <1>3, <1>4, <1>5, <1>6, <1>7, <1>8, <1>9, <1>10 DEF Next

LEMMA InitBlocks == Init => BlocksInv
<1> SUFFICES ASSUME Init
             PROVE  BlocksInv
  OBVIOUS
<1>1. Size(given) <= MaxGifts
  <2>1. given = None
    BY DEF Init, None
  <2> QED
    BY <2>1, SizeNone, NumericAssumption
<1>2. ASSUME NEW a \in Accounts
      PROVE  BlocksOf(a)
  <2>1. /\ blocked[a] = None /\ queue[a] = <<>> /\ honoured[a] = {}
        /\ rows[a] = [blocks |-> None, mails |-> <<>>, items |-> 0]
    BY DEF Init
  <2>2. PICK r \in Rows : r = rows[a]
    BY InitShape DEF Shape
  <2>3. Written(r, <<>>) = r
    BY WrittenNothing
  <2>4. \A b \in Accounts : None[b] = 0
    BY DEF None
  <2>5. r.blocks = None
    BY <2>1, <2>2
  <2>6. Len(<<>>) <= MaxQueue /\ Size(None) <= MaxFriends /\ 0 <= MaxRows
    BY NumericAssumption, SizeNone
  <2>7. Fits(r, <<>>)
    <3>1. \A b \in Accounts : r.blocks[b] <= MaxRows
      BY <2>4, <2>5, <2>6
    <3> QED
      BY <3>1, FitsNone
  <2> QED
    BY <2>1, <2>2, <2>3, <2>4, <2>5, <2>6, <2>7 DEF BlocksOf, Settled
<1> QED
  BY <1>1, <1>2 DEF BlocksInv

LEMMA Typed ==
  ASSUME Shape, FriendsInv, BlocksInv
  PROVE  TypeOK
<1>1. blocked \in [Accounts -> [Accounts -> Counts]]
  <2>1. ASSUME NEW a \in Accounts, NEW b \in Accounts
        PROVE  blocked[a][b] \in Counts
    <3>1. /\ Settled(a).blocks[b] \in Nat /\ blocked[a][b] \in Nat /\ MaxRows \in Nat
      BY BlocksTyped
    <3>2. blocked[a][b] <= Settled(a).blocks[b] /\ Settled(a).blocks[b] <= MaxRows
      BY FitsNow DEF BlocksInv, BlocksOf
    <3> QED
      BY <3>1, <3>2 DEF Counts
  <2> QED
    BY <2>1 DEF Shape
<1>2. given \in [Accounts -> 0 .. MaxGifts]
  <2>1. ASSUME NEW a \in Accounts
        PROVE  given[a] \in 0 .. MaxGifts
    <3>1. given \in [Accounts -> Nat] /\ MaxGifts \in Nat
      BY NumericAssumption DEF Shape
    <3>2. given[a] <= Size(given) /\ Size(given) \in Nat /\ Size(given) <= MaxGifts
      BY <3>1, SizeAbove, CopiesFinite DEF BlocksInv
    <3> QED
      BY <3>1, <3>2
  <2> QED
    BY <2>1 DEF Shape
<1>3. ASSUME NEW a \in Accounts
      PROVE  /\ DOMAIN friends[a] \subseteq Accounts
             /\ friends[a] \in [DOMAIN friends[a] -> BOOLEAN]
             /\ a \notin online => friends[a] = NoFriends /\ asked[a] = {}
             /\ Size(blocked[a]) <= MaxFriends
             /\ {box[a][k] : k \in DOMAIN box[a]} \subseteq Mails
             /\ Len(queue[a]) <= MaxQueue
             /\ rows[a].items \in Nat
  <2>1. friends[a] \in Lists
    BY DEF FriendsInv, ListsBacked
  <2>2. DOMAIN friends[a] \subseteq Accounts
    BY <2>1, ListsAre
  <2>3. friends[a] \in [DOMAIN friends[a] -> BOOLEAN]
    BY <2>1 DEF Lists
  <2>4. a \notin online => friends[a] = NoFriends /\ asked[a] = {}
    BY DEF FriendsInv, ListsBacked, Shape, Blank
  <2>5. Size(blocked[a]) <= MaxFriends /\ Len(queue[a]) <= MaxQueue
    BY DEF BlocksInv, BlocksOf
  <2>6. box[a] \in Seq(Mails) /\ rows[a].items \in Nat
    BY RowsOf DEF Shape
  <2>7. {box[a][k] : k \in DOMAIN box[a]} \subseteq Mails
    BY <2>6
  <2> QED
    BY <2>2, <2>3, <2>4, <2>5, <2>6, <2>7
<1>4. friendRows \in [Accounts -> [Accounts -> Counts]]
  BY DEF FriendsInv, RowsMutual
<1>5. orphans \subseteq Accounts \X Kinds \X Seconds
  BY DEF Shape
<1> QED
  BY <1>1, <1>2, <1>3, <1>4, <1>5 DEF TypeOK, Shape

-----------------------------------------------------------------------------
(* What reaches a player.  A write brings at most one mail, and only a      *)
(* storeMailbox of a mail that one receives from b brings one of b.         *)

Deliveries(b) == {StoreMail(m) : m \in From(b)}
Known(a) == asked[a] \cup held[a] \cup pendingRows[a]

LEMMA DeliveriesAre ==
  ASSUME NEW b \in Accounts
  PROVE  /\ From(b) \subseteq Mails
         /\ \A m \in Mails : StoreMail(m) \in Deliveries(b) <=> m \in From(b)
         /\ \A c \in Accounts : BlockRow(c) \notin Deliveries(b) /\ UnblockRows(c) \notin Deliveries(b)
         /\ \A kind \in Kinds, at \in Seconds : DeleteMails(kind, at) \notin Deliveries(b)
         /\ AddItem \notin Deliveries(b)
<1>1. From(b) \subseteq Mails
  BY DEF From
<1>2. \A m \in Mails, n \in Mails : StoreMail(m) = StoreMail(n) => m = n
  BY DEF StoreMail
<1>3. \A m \in Mails : StoreMail(m) \in Deliveries(b) <=> m \in From(b)
  BY <1>1, <1>2 DEF Deliveries
<1>4. \A w \in Deliveries(b) : w.op = "storeMailbox"
  BY DEF Deliveries, StoreMail
<1>5. /\ \A c \in Accounts : BlockRow(c).op # "storeMailbox" /\ UnblockRows(c).op # "storeMailbox"
      /\ \A kind \in Kinds, at \in Seconds : DeleteMails(kind, at).op # "storeMailbox"
      /\ AddItem.op # "storeMailbox"
  BY DEF BlockRow, UnblockRows, DeleteMails, AddItem
<1> QED
  BY <1>1, <1>3, <1>4, <1>5

LEMMA AppliedArrives ==
  ASSUME NEW r \in Rows, NEW w \in Writes, NEW b \in Accounts
  PROVE  Len(Picked(Applied(r, w).mails, From(b))) <=
           Len(Picked(r.mails, From(b))) + (IF w \in Deliveries(b) THEN 1 ELSE 0)
<1>1. r.mails \in Seq(Mails)
  BY RowsOf
<1>2. PICK v \in Rows : v = Applied(r, w)
  BY AppliedTyped
<1>3. PICK p \in Seq(Mails) : p = Picked(r.mails, From(b))
  BY <1>1, PickedType
<1>4. Len(p) \in Nat
  OBVIOUS
<1>5. CASE v.mails = r.mails
  BY <1>2, <1>3, <1>4, <1>5
<1>6. CASE \E m \in Mails : w = StoreMail(m)
  <2>1. PICK m \in Mails : w = StoreMail(m)
    BY <1>6
  <2>2. v.mails = Append(r.mails, m)
    BY <1>2, <2>1, AppliedFields
  <2>3. Picked(Append(r.mails, m), From(b)) =
          IF m \in From(b) THEN Append(Picked(r.mails, From(b)), m) ELSE Picked(r.mails, From(b))
    BY <1>1, PickedAppend
  <2>4. w \in Deliveries(b) <=> m \in From(b)
    BY <2>1, DeliveriesAre
  <2>5. Len(Append(p, m)) = Len(p) + 1
    BY AppendProperties
  <2> QED
    BY <1>2, <1>3, <1>4, <2>2, <2>3, <2>4, <2>5
<1>7. CASE \E kind \in Kinds, at \in Seconds : w = DeleteMails(kind, at)
  <2>1. PICK kind \in Kinds, at \in Seconds : w = DeleteMails(kind, at)
    BY <1>7
  <2>2. PICK S : S = Mails \ Those(kind, at)
    OBVIOUS
  <2>3. v.mails = Picked(r.mails, S)
    <3>1. Applied(r, DeleteMails(kind, at)).mails = Picked(r.mails, Mails \ Those(kind, at))
      BY AppliedFields
    <3> QED
      BY <1>2, <2>1, <2>2, <3>1
  <2>4. Picked(Picked(r.mails, S), From(b)) = Picked(r.mails, From(b) \cap S)
    BY <1>1, PickedTwice
  <2>5. Len(Picked(r.mails, (From(b) \cap S) \cup (From(b) \ S))) =
          Len(Picked(r.mails, From(b) \cap S)) + Len(Picked(r.mails, From(b) \ S))
    BY <1>1, PickedSplits
  <2>6. (From(b) \cap S) \cup (From(b) \ S) = From(b)
    OBVIOUS
  <2>7. PICK x \in Seq(Mails) : x = Picked(r.mails, From(b) \cap S)
    BY <1>1, PickedType
  <2>8. PICK y \in Seq(Mails) : y = Picked(r.mails, From(b) \ S)
    BY <1>1, PickedType
  <2>9. Len(p) = Len(x) + Len(y) /\ Len(x) \in Nat /\ Len(y) \in Nat
    <3>1. p = Picked(r.mails, (From(b) \cap S) \cup (From(b) \ S))
      BY <1>3, <2>6
    <3>2. Len(p) = Len(x) + Len(y)
      BY <2>5, <2>7, <2>8, <3>1
    <3> QED
      BY <3>2
  <2>10. Picked(v.mails, From(b)) = x
    BY <2>3, <2>4, <2>7
  <2> QED
    BY <1>2, <1>3, <1>4, <2>9, <2>10
<1>8. CASE \/ \E c \in Accounts : w = BlockRow(c) \/ w = UnblockRows(c)
           \/ w = AddItem
  BY <1>2, <1>5, <1>8, AppliedFields
<1> QED
  BY <1>6, <1>7, <1>8 DEF Writes

\* A step that lets nothing of b reach a.
Unreached(a, b) ==
  /\ Arrived(a, b)' <= Arrived(a, b)
  /\ b \in Known(a)' => b \in Known(a)

LEMMA ArrivedIs ==
  ASSUME Shape, NEW a \in Accounts, NEW b \in Accounts
  PROVE  /\ Arrived(a, b) = Len(Picked(rows[a].mails, From(b))) + Len(Picked(queue[a], Deliveries(b)))
         /\ Len(Picked(rows[a].mails, From(b))) \in Nat
         /\ Len(Picked(queue[a], Deliveries(b))) \in Nat
<1>1. rows[a].mails \in Seq(Mails) /\ queue[a] \in Seq(Writes)
  BY RowsOf DEF Shape
<1>2. Picked(rows[a].mails, From(b)) \in Seq(Mails) /\ Picked(queue[a], Deliveries(b)) \in Seq(Writes)
  BY <1>1, PickedType
<1> QED
  BY <1>2 DEF Arrived, Deliveries

\* The mails in the rows are those before, or the first write is done.
LEMMA ArrivedStay ==
  ASSUME Shape, Shape', NEW a \in Accounts, NEW b \in Accounts,
         /\ Picked(rows'[a].mails, From(b)) = Picked(rows[a].mails, From(b))
         /\ Picked(queue'[a], Deliveries(b)) = Picked(queue[a], Deliveries(b)) \/ queue'[a] = <<>>
  PROVE  Arrived(a, b)' <= Arrived(a, b)
<1> DEFINE S == Deliveries(b)
           F == From(b)
<1>1. Arrived(a, b)' = Len(Picked(rows'[a].mails, F)) + Len(Picked(queue'[a], S))
  BY DEF Arrived, Deliveries
<1>2. /\ Arrived(a, b) = Len(Picked(rows[a].mails, F)) + Len(Picked(queue[a], S))
      /\ Len(Picked(rows[a].mails, F)) \in Nat /\ Len(Picked(queue[a], S)) \in Nat
  BY ArrivedIs
<1>3. queue'[a] = <<>> => Len(Picked(queue'[a], S)) = 0
  <2>1. Picked(<<>>, S) = <<>>
    BY PickedEmpty
  <2> QED
    BY <2>1
<1> HIDE DEF F, S
<1> QED
  BY <1>1, <1>2, <1>3 DEF F, S

LEMMA ArrivedWritten ==
  ASSUME Shape, NEW a \in Accounts, NEW b \in Accounts, queue[a] # <<>>,
         rows'[a] = Applied(rows[a], Head(queue[a])), queue'[a] = Tail(queue[a])
  PROVE  Arrived(a, b)' <= Arrived(a, b)
<1>1. PICK q \in Seq(Writes) : q = queue[a]
  BY DEF Shape
<1>2. PICK r \in Rows : r = rows[a]
  BY DEF Shape
<1>3. PICK w \in Writes : w = Head(q)
  BY <1>1, HeadTailProperties
<1>4. PICK v \in Rows : v = Applied(r, w)
  BY AppliedTyped
<1>5. PICK t \in Seq(Writes) : t = Tail(q)
  BY <1>1, HeadTailProperties
<1>6. PICK d \in {0, 1} : d = IF w \in Deliveries(b) THEN 1 ELSE 0
  OBVIOUS
<1>7. PICK x \in Seq(Mails) : x = Picked(r.mails, From(b))
  BY RowsOf, PickedType
<1>8. PICK y \in Seq(Mails) : y = Picked(v.mails, From(b))
  BY RowsOf, PickedType
<1>9. PICK z \in Seq(Writes) : z = Picked(t, Deliveries(b))
  BY PickedType
<1>10. Len(y) <= Len(x) + d
  BY <1>4, <1>6, <1>7, <1>8, AppliedArrives
<1>11. Len(Picked(q, Deliveries(b))) = Len(z) + d
  BY <1>1, <1>3, <1>5, <1>6, <1>9, PickedHead
<1>12. Arrived(a, b) = Len(x) + (Len(z) + d)
  BY <1>1, <1>2, <1>7, <1>11 DEF Arrived, Deliveries
<1>13. rows'[a] = v /\ queue'[a] = t
  BY <1>1, <1>2, <1>3, <1>4, <1>5
<1>14. Arrived(a, b)' = Len(y) + Len(z)
  BY <1>8, <1>9, <1>13 DEF Arrived, Deliveries
<1>15. Len(x) \in Nat /\ Len(y) \in Nat /\ Len(z) \in Nat
  OBVIOUS
<1> QED
  BY <1>10, <1>12, <1>14, <1>15

\* A write that brings nothing of b.
LEMMA OtherWrite ==
  ASSUME Shape, NEW a \in Accounts, NEW b \in Accounts, NEW w \in Writes, w \notin Deliveries(b)
  PROVE  Picked(Append(queue[a], w), Deliveries(b)) = Picked(queue[a], Deliveries(b))
<1>1. queue[a] \in Seq(Writes)
  BY DEF Shape
<1> QED
  BY <1>1, PickedAppend

\* A mail in the rows that is not of b.
LEMMA OtherMail ==
  ASSUME Shape, NEW a \in Accounts, NEW b \in Accounts, NEW m \in Mails, m \notin From(b)
  PROVE  Picked([rows[a] EXCEPT !.mails = Append(@, m)].mails, From(b)) = Picked(rows[a].mails, From(b))
<1>1. PICK r \in Rows : r = rows[a]
  BY DEF Shape
<1>2. [r EXCEPT !.mails = Append(@, m)] = Applied(r, StoreMail(m))
  BY MailedRow
<1>3. Applied(r, StoreMail(m)).mails = Append(r.mails, m)
  BY AppliedFields
<1>4. r.mails \in Seq(Mails)
  BY RowsOf
<1>5. Picked(Append(r.mails, m), From(b)) = Picked(r.mails, From(b))
  BY <1>4, PickedAppend
<1> QED
  BY <1>1, <1>2, <1>3, <1>5

\* A block of the list or of the rows, as long as it is honoured.
LEMMA Honoured ==
  ASSUME Shape, BlocksInv, Idle, NEW a \in Accounts \ cut, NEW b \in honoured[a]
  PROVE  /\ b \in Accounts
         /\ a \in online => blocked[a][b] # 0
         /\ a \notin online => rows[a].blocks[b] # 0
<1>1. b \in Accounts
  BY DEF Shape
<1>2. IF a \in online THEN blocked[a][b] > 0 ELSE rows[a].blocks[b] > 0
  <2>1. IF a \in online THEN blocked[a][b] > 0 ELSE Settled(a).blocks[b] > 0
    BY DEF BlocksInv, BlocksOf
  <2>2. a \notin online => Settled(a) = rows[a]
    <3>1. rows[a] \in Rows
      BY DEF Shape
    <3> QED
      BY <3>1, WrittenNothing DEF Idle, Settled
  <2> QED
    BY <2>1, <2>2
<1>3. blocked[a] \in [Accounts -> Nat] /\ rows[a].blocks \in [Accounts -> Nat]
  BY BlocksTyped
<1> QED
  BY <1>1, <1>2, <1>3

LEMMA SessionsUnreached ==
  ASSUME Shape, Shape', NEW a \in Accounts, NEW b \in Accounts,
         \/ Crash
         \/ \E x \in Accounts : \/ Persist(x) \/ Login(x) \/ Logout(x)
                                \/ EnterMatch(x) \/ LeaveMatch(x) \/ FetchRequests(x)
  PROVE  Unreached(a, b)
<1>1. ASSUME NEW x \in Accounts, Persist(x)
      PROVE  Unreached(a, b)
  <2>1. /\ queue[x] # <<>> /\ UNCHANGED <<asked, held, pendingRows>>
        /\ rows' = [rows EXCEPT ![x] = Applied(rows[x], Head(queue[x]))]
        /\ queue' = [queue EXCEPT ![x] = Tail(queue[x])]
    BY <1>1 DEF Persist, session
  <2>2. Arrived(a, b)' <= Arrived(a, b)
    <3>1. CASE a = x
      <4>1. rows'[a] = Applied(rows[a], Head(queue[a])) /\ queue'[a] = Tail(queue[a])
        BY <2>1, <3>1 DEF Shape
      <4> QED
        BY <2>1, <3>1, <4>1, ArrivedWritten
    <3>2. CASE a # x
      <4>1. rows'[a] = rows[a] /\ queue'[a] = queue[a]
        BY <2>1, <3>2 DEF Shape
      <4> QED
        BY <4>1, ArrivedStay
    <3> QED
      BY <3>1, <3>2
  <2> QED
    BY <2>1, <2>2 DEF Unreached, Known
<1>2. CASE Crash
  <2>1. /\ rows' = rows /\ queue'[a] = <<>> /\ pendingRows' = pendingRows
        /\ asked'[a] = {} /\ held'[a] = {}
    BY <1>2 DEF Crash, database
  <2>2. Arrived(a, b)' <= Arrived(a, b)
    BY <2>1, ArrivedStay
  <2> QED
    BY <2>1, <2>2 DEF Unreached, Known
<1>3. ASSUME NEW x \in Accounts, Login(x)
      PROVE  Unreached(a, b)
  <2>1. UNCHANGED <<rows, queue, asked, held, pendingRows>>
    BY <1>3 DEF Login, database
  <2>2. Arrived(a, b)' <= Arrived(a, b)
    BY <2>1, ArrivedStay
  <2> QED
    BY <2>1, <2>2 DEF Unreached, Known
<1>4. ASSUME NEW x \in Accounts, Logout(x)
      PROVE  Unreached(a, b)
  <2>1. /\ rows' = rows /\ queue' = queue /\ pendingRows' = pendingRows
        /\ held' = [held EXCEPT ![x] = {}] /\ asked' = [asked EXCEPT ![x] = {}]
    BY <1>4 DEF Logout, database
  <2>2. Arrived(a, b)' <= Arrived(a, b)
    BY <2>1, ArrivedStay
  <2>3. held'[a] \subseteq held[a] /\ asked'[a] \subseteq asked[a]
    BY <2>1 DEF Shape
  <2> QED
    BY <2>1, <2>2, <2>3 DEF Unreached, Known
<1>5. ASSUME NEW x \in Accounts, EnterMatch(x) \/ LeaveMatch(x) \/ FetchRequests(x)
      PROVE  Unreached(a, b)
  <2>1. UNCHANGED <<rows, queue>>
    BY <1>5 DEF EnterMatch, LeaveMatch, FetchRequests, database
  <2>2. Arrived(a, b)' <= Arrived(a, b)
    BY <2>1, ArrivedStay
  <2>3. Known(a)' = Known(a)
    <3>1. CASE EnterMatch(x)
      BY <3>1 DEF EnterMatch, Known, database
    <3>2. CASE LeaveMatch(x)
      BY <3>2 DEF LeaveMatch, Known, database, Shape
    <3>3. CASE FetchRequests(x)
      BY <3>3 DEF FetchRequests, Known, Shape
    <3> QED
      BY <1>5, <3>1, <3>2, <3>3
  <2> QED
    BY <2>2, <2>3 DEF Unreached
<1> QED
  BY <1>1, <1>2, <1>3, <1>4, <1>5

\* A request is refused by the block.
LEMMA RequestsUnreached ==
  ASSUME Shape, Shape', BlocksInv, Idle, NEW a \in Accounts \ cut, NEW b \in honoured[a],
         NEW x \in Accounts, NEW y \in Accounts,
         AskOnline(x, y) \/ AskOffline(x, y) \/ Accept(x, y) \/ DeleteFriend(x, y)
  PROVE  Unreached(a, b)
<1>1. b \in Accounts /\ (a \in online => blocked[a][b] # 0)
      /\ (a \notin online => rows[a].blocks[b] # 0)
  BY Honoured
<1>2. UNCHANGED <<rows, queue>>
  BY DEF AskOnline, AskOffline, Accept, DeleteFriend, database
<1>3. Arrived(a, b)' <= Arrived(a, b)
  BY <1>1, <1>2, ArrivedStay
<1>4. b \in Known(a)' => b \in Known(a)
  <2>1. CASE AskOnline(x, y)
    <3>1. ~(x = b /\ y = a)
      BY <1>1, <2>1 DEF AskOnline
    <3>2. /\ pendingRows' = pendingRows
          /\ \/ held' = [held EXCEPT ![y] = @ \cup {x}] /\ asked' = asked
             \/ asked' = [asked EXCEPT ![y] = @ \cup {x}] /\ held' = held
      BY <2>1 DEF AskOnline, database
    <3>3. a # y => held'[a] = held[a] /\ asked'[a] = asked[a]
      BY <3>2 DEF Shape
    <3>4. held'[a] \cup asked'[a] \subseteq held[a] \cup asked[a] \cup {x}
      <4>1. held'[a] \subseteq held[a] \cup {x} /\ asked'[a] \subseteq asked[a] \cup {x}
        <5>1. CASE held' = [held EXCEPT ![y] = @ \cup {x}] /\ asked' = asked
          <6>1. held'[a] = held[a] \/ held'[a] = held[a] \cup {x}
            BY <5>1 DEF Shape
          <6> QED
            BY <5>1, <6>1
        <5>2. CASE asked' = [asked EXCEPT ![y] = @ \cup {x}] /\ held' = held
          <6>1. asked'[a] = asked[a] \/ asked'[a] = asked[a] \cup {x}
            BY <5>2 DEF Shape
          <6> QED
            BY <5>2, <6>1
        <5> QED
          BY <3>2, <5>1, <5>2
      <4> QED
        BY <4>1
    <3> QED
      BY <3>1, <3>2, <3>3, <3>4 DEF Known
  <2>2. CASE AskOffline(x, y)
    <3>1. ~(x = b /\ y = a)
      BY <1>1, <2>2 DEF AskOffline
    <3> QED
      BY <2>2, <3>1 DEF AskOffline, Known, session, Shape
  <2>3. CASE Accept(x, y)
    BY <2>3 DEF Accept, Known, Shape
  <2>4. CASE DeleteFriend(x, y)
    BY <2>4 DEF DeleteFriend, Known
  <2> QED
    BY <2>1, <2>2, <2>3, <2>4
<1> QED
  BY <1>3, <1>4 DEF Unreached

\* A step that queues a write, or none, and leaves the mails in the rows.
LEMMA WriteUnreached ==
  ASSUME Shape, Shape', NEW a \in Accounts, NEW b \in Accounts, NEW x \in Accounts,
         NEW w \in Writes, w \notin Deliveries(b), UNCHANGED <<asked, held, pendingRows>>,
         rows'[a].mails = rows[a].mails, Queued(x, <<w>>) \/ queue' = queue
  PROVE  Unreached(a, b)
<1>1. queue'[a] = Append(queue[a], w) \/ queue'[a] = queue[a]
  BY QueuedOne
<1>2. Picked(queue'[a], Deliveries(b)) = Picked(queue[a], Deliveries(b))
  BY <1>1, OtherWrite
<1>3. Arrived(a, b)' <= Arrived(a, b)
  BY <1>2, ArrivedStay
<1> QED
  BY <1>3 DEF Unreached, Known

LEMMA BlockStepsUnreached ==
  ASSUME Shape, Shape', NEW a \in Accounts, NEW b \in Accounts, NEW x \in Accounts, NEW y \in Accounts,
         BlockOnline(x, y) \/ BlockOffline(x, y) \/ Unblock(x, y)
  PROVE  Unreached(a, b)
<1>1. UNCHANGED <<asked, held, pendingRows>>
  BY DEF BlockOnline, BlockOffline, Unblock, database
<1>2. CASE Unblock(x, y)
  <2>1. Queued(x, <<UnblockRows(y)>>) /\ rows' = rows
    BY <1>2 DEF Unblock, database
  <2> QED
    BY <1>1, <2>1, WriteUnreached, WritesAre, DeliveriesAre
<1>3. CASE BlockOnline(x, y) \/ BlockOffline(x, y)
  <2>1. Queued(x, <<BlockRow(y)>>) \/ queue' = queue
    BY <1>3 DEF BlockOnline, BlockOffline, Blocking
  <2>2. rows' = rows \/ rows' = [rows EXCEPT ![x].blocks[y] = @ + 1]
    BY <1>3 DEF BlockOnline, BlockOffline
  <2>3. rows'[a].mails = rows[a].mails
    <3>1. PICK r \in Rows : r = rows[a]
      BY DEF Shape
    <3>2. Applied(r, BlockRow(y)).mails = r.mails
      BY AppliedFields
    <3>3. [r EXCEPT !.blocks[y] = @ + 1] = Applied(r, BlockRow(y))
      BY BlockedRow
    <3>4. rows'[a] = rows[a] \/ rows'[a] = [rows[a] EXCEPT !.blocks[y] = @ + 1]
      BY <2>2 DEF Shape
    <3> QED
      BY <3>1, <3>2, <3>3, <3>4
  <2> QED
    BY <1>1, <2>1, <2>3, WriteUnreached, WritesAre, DeliveriesAre
<1> QED
  BY <1>2, <1>3

\* A mail is refused by the block, in the list or in the rows.
LEMMA MailUnreached ==
  ASSUME Shape, Shape', BlocksInv, Idle, NEW a \in Accounts \ cut, NEW b \in honoured[a],
         NEW x \in Accounts, NEW y \in Accounts, NEW at \in Seconds,
         MailOnline(x, y, at) \/ MailOffline(x, y, at)
  PROVE  Unreached(a, b)
<1>1. b \in Accounts /\ (a \in online => blocked[a][b] # 0)
      /\ (a \notin online => rows[a].blocks[b] # 0)
  BY Honoured
<1>2. UNCHANGED <<asked, held, pendingRows>>
  BY DEF MailOnline, MailOffline, database
<1>3. PICK s \in Mails : s = Mail("sent", y, at)
  BY MailsAre DEF Kinds
<1>4. PICK t \in Mails : t = Mail("received", x, at)
  BY MailsAre DEF Kinds
<1>5. s \notin From(b) /\ (t \in From(b) => x = b)
  BY <1>3, <1>4 DEF From, Mail
<1>6. PICK v \in Writes : v = StoreMail(s)
  BY WritesAre
<1>7. PICK w \in Writes : w = StoreMail(t)
  BY WritesAre
<1>8. v \notin Deliveries(b) /\ (w \in Deliveries(b) => x = b)
  BY <1>1, <1>5, <1>6, <1>7, DeliveriesAre
<1>9. CASE MailOnline(x, y, at)
  <2>1. /\ queue' = Appended(Appended(queue, y, w), x, v)
        /\ rows' = rows /\ y \in online /\ blocked[y][x] = 0
    BY <1>3, <1>4, <1>6, <1>7, <1>9 DEF MailOnline, database
  <2>2. a = y => w \notin Deliveries(b)
    BY <1>1, <1>8, <2>1
  <2>3. BothAppended(queue, x, y, v, w, Writes)
    <3>1. queue \in [Accounts -> Seq(Writes)]
      BY DEF Shape
    <3> QED
      BY <3>1, BothAppendedIs
  <2>4. /\ queue'[x] = Append(IF x = y THEN Append(queue[y], w) ELSE queue[x], v)
        /\ x # y => queue'[y] = Append(queue[y], w)
        /\ \A c \in Accounts \ {x, y} : queue'[c] = queue[c]
    BY <2>1, <2>3 DEF BothAppended
  <2>5. Picked(queue'[a], Deliveries(b)) = Picked(queue[a], Deliveries(b))
    <3>1. CASE a = x /\ a = y
      <4>1. PICK q \in Seq(Writes) : q = queue[a]
        BY DEF Shape
      <4>2. PICK u \in Seq(Writes) : u = Append(q, w)
        BY AppendProperties
      <4>3. Picked(u, Deliveries(b)) = Picked(q, Deliveries(b))
        BY <2>2, <3>1, <4>2, PickedAppend
      <4>4. Picked(Append(u, v), Deliveries(b)) = Picked(u, Deliveries(b))
        BY <1>8, PickedAppend
      <4>5. queue'[a] = Append(u, v)
        BY <2>4, <3>1, <4>1, <4>2
      <4> QED
        BY <4>1, <4>3, <4>4, <4>5
    <3>2. CASE a = x /\ a # y
      <4>1. queue'[a] = Append(queue[a], v)
        BY <2>4, <3>2
      <4> QED
        BY <1>1, <1>8, <4>1, OtherWrite
    <3>3. CASE a # x /\ a = y
      <4>1. queue'[a] = Append(queue[a], w)
        BY <2>4, <3>3
      <4> QED
        BY <1>1, <2>2, <3>3, <4>1, OtherWrite
    <3>4. CASE a # x /\ a # y
      BY <2>4, <3>4
    <3> QED
      BY <3>1, <3>2, <3>3, <3>4
  <2>6. Arrived(a, b)' <= Arrived(a, b)
    BY <1>1, <2>1, <2>5, ArrivedStay
  <2> QED
    BY <1>2, <2>6 DEF Unreached, Known
<1>10. CASE MailOffline(x, y, at)
  <2>1. /\ rows' = [rows EXCEPT ![y].mails = Append(@, t)] /\ Queued(x, <<v>>)
        /\ y \notin online /\ rows[y].blocks[x] = 0
    BY <1>3, <1>4, <1>6, <1>10 DEF MailOffline
  <2>2. queue'[a] = Append(queue[a], v) \/ queue'[a] = queue[a]
    BY <2>1, QueuedOne
  <2>3. Picked(queue'[a], Deliveries(b)) = Picked(queue[a], Deliveries(b))
    BY <1>1, <1>8, <2>2, OtherWrite
  <2>4. a = y => t \notin From(b)
    BY <1>1, <1>5, <2>1
  <2>5. \/ rows'[a] = rows[a]
        \/ a = y /\ rows'[a] = [rows[a] EXCEPT !.mails = Append(@, t)]
    <3>1. PICK o : o = [rows[y] EXCEPT !.mails = Append(@, t)]
      OBVIOUS
    <3>2. rows' = [rows EXCEPT ![y] = o]
      BY <2>1, <3>1
    <3>3. DOMAIN rows = Accounts
      BY DEF Shape
    <3>4. (a = y => rows'[a] = o) /\ (a # y => rows'[a] = rows[a])
      BY <3>2, <3>3
    <3> QED
      BY <3>1, <3>4
  <2>6. Picked(rows'[a].mails, From(b)) = Picked(rows[a].mails, From(b))
    <3>1. PICK o : o = [rows[a] EXCEPT !.mails = Append(@, t)]
      OBVIOUS
    <3>2. a = y => Picked(o.mails, From(b)) = Picked(rows[a].mails, From(b))
      BY <1>1, <2>4, <3>1, OtherMail
    <3>3. rows'[a] = rows[a] \/ (a = y /\ rows'[a] = o)
      BY <2>5, <3>1
    <3> QED
      BY <3>2, <3>3
  <2>7. Arrived(a, b)' <= Arrived(a, b)
    BY <1>1, <2>3, <2>6, ArrivedStay
  <2> QED
    BY <1>2, <2>7 DEF Unreached, Known
<1> QED
  BY <1>9, <1>10

LEMMA GiftsUnreached ==
  ASSUME Shape, Shape', NEW a \in Accounts, NEW b \in Accounts, NEW x \in Accounts, NEW at \in Seconds,
         Gift(x, at) \/ OpenGift(x, at) \/ \E kind \in Kinds \ {"gift"} : DeleteMail(x, kind, at)
  PROVE  Unreached(a, b)
<1>1. UNCHANGED <<asked, held, pendingRows>>
  BY DEF Gift, OpenGift, DeleteMail, database
<1>2. CASE \E kind \in Kinds \ {"gift"} : DeleteMail(x, kind, at)
  <2>1. PICK kind \in Kinds \ {"gift"} : DeleteMail(x, kind, at)
    BY <1>2
  <2>2. Queued(x, <<DeleteMails(kind, at)>>) /\ rows' = rows
    BY <2>1 DEF DeleteMail, database
  <2>3. DeleteMails(kind, at) \in Writes /\ DeleteMails(kind, at) \notin Deliveries(b)
    BY WritesAre, DeliveriesAre
  <2> QED
    BY <1>1, <2>2, <2>3, WriteUnreached
<1>3. CASE OpenGift(x, at)
  <2>1. PICK v \in Writes : v = AddItem /\ v \notin Deliveries(b)
    BY WritesAre, DeliveriesAre
  <2>2. PICK w \in Writes : w = DeleteMails("gift", at) /\ w \notin Deliveries(b)
    BY WritesAre, DeliveriesAre DEF Kinds
  <2>3. PICK q \in Seq(Writes) : q = queue[x]
    BY DEF Shape
  <2>4. PICK u \in Seq(Writes) : u = Append(q, v)
    BY AppendProperties
  <2>5. Queued(x, <<v, w>>) /\ rows' = rows /\ <<v, w>> \in Seq(Writes)
    BY <1>3, <2>1, <2>2 DEF OpenGift, database
  <2>6. q \o <<v, w>> = Append(Append(q, v), w)
    BY AppendIs
  <2>7. queue'[x] = Append(u, w) /\ \A c \in Accounts \ {x} : queue'[c] = queue[c]
    BY <2>3, <2>4, <2>5, <2>6, QueuedTyped
  <2>8. Picked(Append(q, v), Deliveries(b)) = Picked(q, Deliveries(b))
    BY <2>1, PickedAppend
  <2>9. Picked(Append(u, w), Deliveries(b)) = Picked(u, Deliveries(b))
    BY <2>2, PickedAppend
  <2>10. Picked(queue'[a], Deliveries(b)) = Picked(queue[a], Deliveries(b))
    BY <2>3, <2>4, <2>7, <2>8, <2>9
  <2>11. Arrived(a, b)' <= Arrived(a, b)
    BY <2>5, <2>10, ArrivedStay
  <2> QED
    BY <1>1, <2>11 DEF Unreached, Known
<1>4. CASE Gift(x, at)
  <2>1. PICK m \in Mails : m = Mail("gift", x, at)
    BY MailsAre DEF Kinds
  <2>2. m \notin From(b)
    BY <2>1 DEF From, Mail
  <2>3. PICK w \in Writes : w = StoreMail(m) /\ w \notin Deliveries(b)
    BY <2>2, WritesAre, DeliveriesAre
  <2>4. \/ Queued(x, <<w>>) /\ rows' = rows
        \/ rows' = [rows EXCEPT ![x].mails = Append(@, m)] /\ queue' = queue
    BY <1>4, <2>1, <2>3 DEF Gift
  <2>5. CASE Queued(x, <<w>>) /\ rows' = rows
    BY <1>1, <2>3, <2>5, WriteUnreached
  <2>6. CASE rows' = [rows EXCEPT ![x].mails = Append(@, m)] /\ queue' = queue
    <3>1. rows'[a] = rows[a] \/ rows'[a] = [rows[a] EXCEPT !.mails = Append(@, m)]
      BY <2>6 DEF Shape
    <3>2. Picked(rows'[a].mails, From(b)) = Picked(rows[a].mails, From(b))
      BY <2>2, <3>1, OtherMail
    <3>3. Arrived(a, b)' <= Arrived(a, b)
      BY <2>6, <3>2, ArrivedStay
    <3> QED
      BY <1>1, <3>3 DEF Unreached, Known
  <2> QED
    BY <2>4, <2>5, <2>6
<1> QED
  BY <1>2, <1>3, <1>4

LEMMA StepUnreached ==
  ASSUME Shape, Shape', BlocksInv, Next, NEW a \in Accounts \ cut, NEW b \in honoured[a]
  PROVE  Unreached(a, b)
<1>1. b \in Accounts
  BY DEF Shape
<1>2. CASE \/ Crash
           \/ \E x \in Accounts : \/ Persist(x) \/ Login(x) \/ Logout(x)
                                  \/ EnterMatch(x) \/ LeaveMatch(x) \/ FetchRequests(x)
  BY <1>1, <1>2, SessionsUnreached
<1>3. CASE Idle /\ \E x \in Accounts, y \in Accounts :
             AskOnline(x, y) \/ AskOffline(x, y) \/ Accept(x, y) \/ DeleteFriend(x, y)
  BY <1>3, RequestsUnreached
<1>4. CASE \E x \in Accounts, y \in Accounts : BlockOnline(x, y) \/ BlockOffline(x, y) \/ Unblock(x, y)
  BY <1>1, <1>4, BlockStepsUnreached
<1>5. CASE /\ Idle
           /\ \E x \in Accounts, y \in Accounts, at \in Seconds :
                MailOnline(x, y, at) \/ MailOffline(x, y, at)
  BY <1>5, MailUnreached
<1>6. CASE \E x \in Accounts, at \in Seconds :
             Gift(x, at) \/ OpenGift(x, at) \/ \E kind \in Kinds \ {"gift"} : DeleteMail(x, kind, at)
  BY <1>1, <1>6, GiftsUnreached
<1> QED
  BY <1>2, <1>3, <1>4, <1>5, <1>6 DEF Next

-----------------------------------------------------------------------------
(* The theorems.                                                            *)

SocialInv == Shape /\ FriendsInv /\ MailsInv /\ BlocksInv

\* The inductive invariant: what the variables are, the two sides of each
\* friendship, what each list and each row of mails owes the other, and where
\* a block that a player was told of is found.
THEOREM SocialInvAlways == Spec => []SocialInv
<1>1. Init => SocialInv
  BY InitShape, InitFriends, InitMails, InitBlocks DEF SocialInv
<1>2. ASSUME SocialInv, [Next]_vars
      PROVE  SocialInv'
  <2>1. Shape /\ FriendsInv /\ MailsInv /\ BlocksInv
    BY <1>2 DEF SocialInv
  <2>2. Shape'
    BY <1>2, <2>1, ShapeStep
  <2>3. FriendsInv'
    BY <1>2, <2>1, FriendsStep
  <2>4. MailsInv'
    BY <1>2, <2>1, <2>2, MailsStep
  <2>5. BlocksInv'
    BY <1>2, <2>1, <2>2, BlocksStep
  <2> QED
    BY <2>2, <2>3, <2>4, <2>5 DEF SocialInv
<1> QED
  BY <1>1, <1>2, PTL DEF Spec

\* The variables of SocialInfo, of the mailboxes and of the tables keep to
\* their types and their limits: no list of blocks and no queue outgrows them.
THEOREM TypesAlways == Spec => []TypeOK
<1>1. SocialInv => TypeOK
  BY Typed DEF SocialInv
<1> QED
  BY <1>1, SocialInvAlways, PTL

\* The friends in the list of a player who is online are those of the rows,
\* whoever was accepted (acceptFriendRequest asks nothing of the id), and he
\* sees online exactly those who are (updateFriendSession).
THEOREM FriendsAlways == Spec => []FriendsMirrorRows
<1>1. SocialInv => FriendsMirrorRows
  BY FriendsMirror DEF SocialInv
<1> QED
  BY <1>1, SocialInvAlways, PTL

\* What the lists of a session show is what the rows will have when the writes
\* that wait are done, mail by mail of each kind and second.
THEOREM MailsAlways == Spec => []MailsKept
<1>1. SocialInv => MailsKept
  BY MailsAgree DEF SocialInv
<1> QED
  BY <1>1, SocialInvAlways, PTL

\* No gift gives an item twice, through delayed writes, logouts and crashes,
\* but for one more per death after the item of a gift and before its deletion.
THEOREM GiftsAlways == Spec => []GiftsOpenedOnce
<1>1. SocialInv => GiftsOpenedOnce
  BY MailsAgree DEF SocialInv
<1> QED
  BY <1>1, SocialInvAlways, PTL

\* No step lets anything of a player whom another was told to have blocked
\* reach the other, whatever the order of their logins, mails and requests.
THEOREM BlocksAlways == Spec => BlocksHonoured
<1> DEFINE Step ==
      \A a \in Accounts \ cut : \A b \in honoured[a] :
        /\ Arrived(a, b)' <= Arrived(a, b)
        /\ b \in (asked[a] \cup held[a] \cup pendingRows[a])'
             => b \in asked[a] \cup held[a] \cup pendingRows[a]
<1>1. ASSUME SocialInv, SocialInv', [Next]_vars
      PROVE  [Step]_vars
  <2>1. CASE UNCHANGED vars
    BY <2>1
  <2>2. CASE Next
    <3>1. \A a \in Accounts \ cut : \A b \in honoured[a] : Unreached(a, b)
      BY <1>1, <2>2, StepUnreached DEF SocialInv
    <3>2. Step
      BY <3>1 DEF Unreached, Known
    <3> QED
      BY <3>2
  <2> QED
    BY <1>1, <2>1, <2>2
<1> QED
  BY <1>1, SocialInvAlways, PTL DEF Spec, BlocksHonoured
=============================================================================
