--------------------------- MODULE SequenceLemmas ---------------------------
(***************************************************************************)
(* Facts about naturals and sequences that the proofs of several           *)
(* components need: the least element, induction for a set, maxima and     *)
(* minima, what SelectIn selects, and sequences of anything.               *)
(***************************************************************************)
EXTENDS Selection, Integers, FiniteSetsExt, FiniteSetTheorems, SequenceTheorems, WellFoundedInduction, TLAPS

-----------------------------------------------------------------------------
(* Naturals.                                                               *)

(* A set of naturals that is not empty has a least element.                *)
LEMMA NatMin ==
    ASSUME NEW T, T \subseteq Nat, T # {}
    PROVE  \E x \in T : \A y \in T : x <= y
<1>1. \E x \in T : \A y \in T : ~(<<y, x>> \in {ss \in Nat \X Nat : ss[1] < ss[2]})
  BY WFMin, NatLessThanWellFounded DEF OpToRel
<1>2. PICK x \in T : \A y \in T : ~(<<y, x>> \in {ss \in Nat \X Nat : ss[1] < ss[2]})
  BY <1>1
<1>3. ASSUME NEW y \in T
      PROVE  x <= y
  <2>1. x \in Nat /\ y \in Nat
    OBVIOUS
  <2>2. ~(y < x)
    BY <1>2, <2>1
  <2>3. QED
    BY <2>1, <2>2
<1>4. QED
  BY <1>3

(* A set of naturals with 0 and all successors holds every natural.        *)
LEMMA NatInd ==
    ASSUME NEW T, 0 \in T, \A n \in Nat : n \in T => n + 1 \in T
    PROVE  Nat \subseteq T
<1> SUFFICES ASSUME Nat \ T # {} PROVE FALSE
  OBVIOUS
<1>1. PICK x \in Nat \ T : \A y \in Nat \ T : x <= y
  BY NatMin
<1>2. x # 0
  OBVIOUS
<1>3. x - 1 \in Nat /\ ~(x <= x - 1)
  BY <1>2
<1>4. x - 1 \in T
  BY <1>1, <1>3
<1>5. x - 1 + 1 \in T
  BY <1>3, <1>4
<1>6. QED
  BY <1>5

(* Finitely many naturals have a bound.                                    *)
LEMMA Bounded ==
    ASSUME NEW N \in Nat, NEW f, \A k \in 1..N : f[k] \in Nat
    PROVE  \E b \in Nat : \A k \in 1..N : f[k] <= b
<1> DEFINE T == {n \in Nat : n <= N => \E b \in Nat : \A k \in 1..n : f[k] <= b}
<1>1. 0 \in T
  OBVIOUS
<1>2. ASSUME NEW n \in Nat, n \in T
      PROVE  n + 1 \in T
  <2> SUFFICES ASSUME n + 1 <= N
               PROVE  \E b \in Nat : \A k \in 1..(n + 1) : f[k] <= b
    OBVIOUS
  <2>1. PICK b \in Nat : \A k \in 1..n : f[k] <= b
    BY <1>2
  <2>2. f[n + 1] \in Nat /\ \A k \in 1..(n + 1) : k \in 1..n \/ k = n + 1
    OBVIOUS
  <2>3. /\ b + f[n + 1] \in Nat
        /\ \A k \in 1..(n + 1) : f[k] \in Nat /\ f[k] <= b + f[n + 1]
    BY <2>1, <2>2
  <2>4. QED
    BY <2>3
<1>3. N \in T
  <2> HIDE DEF T
  <2>1. Nat \subseteq T
    BY <1>1, <1>2, NatInd
  <2>2. QED
    BY <2>1
<1>4. QED
  BY <1>3

(* The maximum of a bounded set of naturals.                               *)
LEMMA MaxFacts ==
    ASSUME NEW S, S \subseteq Nat, S # {}, NEW b \in Nat, \A x \in S : x <= b
    PROVE  Max(S) \in S /\ \A x \in S : x <= Max(S)
<1> DEFINE U == {u \in Nat : \A x \in S : x <= u}
<1>1. PICK u \in U : \A v \in U : u <= v
  BY NatMin
<1>2. u \in S
  <2> SUFFICES ASSUME u \notin S PROVE FALSE
    OBVIOUS
  <2>1. u \in Nat /\ \A x \in S : x \in Nat /\ x <= u /\ x # u
    OBVIOUS
  <2>2. u # 0
    <3>1. PICK x \in S : TRUE
      OBVIOUS
    <3>2. QED
      BY <2>1, <3>1
  <2>3. u - 1 \in Nat /\ \A x \in S : x <= u - 1
    BY <2>1, <2>2
  <2>4. u - 1 \in U
    BY <2>3
  <2>5. QED
    BY <1>1, <2>1, <2>4
<1>3. \E x \in S : \A y \in S : x >= y
  BY <1>1, <1>2
<1>4. Max(S) \in S /\ \A y \in S : Max(S) >= y
  BY <1>3 DEF Max
<1>5. QED
  BY <1>4

(* The minimum of a set of naturals.                                       *)
LEMMA MinFacts ==
    ASSUME NEW S, S \subseteq Nat, S # {}
    PROVE  Min(S) \in S /\ \A x \in S : Min(S) <= x
  BY NatMin DEF Min

-----------------------------------------------------------------------------
(* Selection.                                                              *)

(* The results of the loop after each iteration.                           *)
Rows(g, N, s, T) ==
    g = [n \in 0..N |-> IF n = 0 THEN << >>
                        ELSE IF s[n] \in T THEN Append(g[n - 1], s[n]) ELSE g[n - 1]]

(* Rows spelled out row by row.                                            *)
LEMMA RowsFacts ==
    ASSUME NEW N \in Nat, NEW s, NEW T, NEW g
    PROVE  Rows(g, N, s, T) <=>
             /\ g = [n \in 0..N |-> g[n]]
             /\ g[0] = << >>
             /\ \A n \in 1..N : g[n] = IF s[n] \in T THEN Append(g[n - 1], s[n]) ELSE g[n - 1]
<1> DEFINE row(n) == IF n = 0 THEN << >>
                     ELSE IF s[n] \in T THEN Append(g[n - 1], s[n]) ELSE g[n - 1]
<1>1. Rows(g, N, s, T) <=> g = [n \in 0..N |-> row(n)]
  BY DEF Rows
<1> HIDE DEF row
<1>2. g = [n \in 0..N |-> row(n)] <=> g = [n \in 0..N |-> g[n]] /\ \A n \in 0..N : g[n] = row(n)
  OBVIOUS
<1>3. (\A n \in 0..N : g[n] = row(n)) <=> row(0) = g[0] /\ \A n \in 1..N : g[n] = row(n)
  OBVIOUS
<1>4. QED
  BY <1>1, <1>2, <1>3 DEF row

(* SelectIn is well defined: its rows exist for every sequence.            *)
LEMMA RowsExist ==
    ASSUME NEW N \in Nat, NEW s, NEW T
    PROVE  \E g : Rows(g, N, s, T)
<1> DEFINE S == {m \in Nat : \E g : Rows(g, m, s, T)}
<1>1. 0 \in S
  <2> DEFINE g == [n \in 0..0 |-> << >>]
  <2>1. Rows(g, 0, s, T)
    BY RowsFacts
  <2>2. QED
    BY <2>1
<1>2. ASSUME NEW m \in Nat, m \in S
      PROVE  m + 1 \in S
  <2>1. PICK g : Rows(g, m, s, T)
    BY <1>2
  <2> DEFINE last == IF s[m + 1] \in T THEN Append(g[m], s[m + 1]) ELSE g[m]
             h == [n \in 0..(m + 1) |-> IF n = m + 1 THEN last ELSE g[n]]
  <2>2. /\ g[0] = << >>
        /\ \A n \in 1..m : g[n] = IF s[n] \in T THEN Append(g[n - 1], s[n]) ELSE g[n - 1]
    BY <2>1, RowsFacts
  <2>3. \A n \in 0..m : h[n] = g[n]
    OBVIOUS
  <2>4. h[m + 1] = last /\ h = [n \in 0..(m + 1) |-> h[n]]
    OBVIOUS
  <2> HIDE DEF h
  <2>5. ASSUME NEW n \in 1..(m + 1)
        PROVE  h[n] = IF s[n] \in T THEN Append(h[n - 1], s[n]) ELSE h[n - 1]
    <3>1. CASE n = m + 1
      <4>1. n - 1 = m /\ h[m] = g[m]
        BY <2>3, <3>1
      <4>2. QED
        BY <2>4, <3>1, <4>1
    <3>2. CASE n # m + 1
      <4>1. n \in 1..m /\ n \in 0..m /\ n - 1 \in 0..m
        BY <3>2
      <4>2. h[n] = g[n] /\ h[n - 1] = g[n - 1]
        BY <2>3, <4>1
      <4>3. QED
        BY <2>2, <4>1, <4>2
    <3>3. QED
      BY <3>1, <3>2
  <2>6. h[0] = << >>
    BY <2>2, <2>3
  <2> HIDE DEF last
  <2>7. Rows(h, m + 1, s, T)
    <3>1. m + 1 \in Nat
      OBVIOUS
    <3>2. QED
      BY <2>4, <2>5, <2>6, <3>1, RowsFacts
  <2>8. QED
    BY <2>7
<1>3. N \in S
  <2> HIDE DEF S
  <2>1. QED
    BY <1>1, <1>2, NatInd
<1>4. QED
  BY <1>3

(* SelectIn returns elements of s in T, and all of them.                   *)
LEMMA SelectFacts ==
    ASSUME NEW A, NEW s \in Seq(A), NEW T
    PROVE  /\ SelectIn(s, T) \in Seq(A)
           /\ \A i \in 1..Len(SelectIn(s, T)) :
                 SelectIn(s, T)[i] \in T /\ \E k \in 1..Len(s) : SelectIn(s, T)[i] = s[k]
           /\ \A k \in 1..Len(s) : s[k] \in T =>
                 \E i \in 1..Len(SelectIn(s, T)) : SelectIn(s, T)[i] = s[k]
<1> DEFINE N == Len(s)
           kept == CHOOSE g : Rows(g, N, s, T)
<1>1. N \in Nat
  OBVIOUS
<1>2. Rows(kept, N, s, T)
  BY <1>1, RowsExist
<1>3. SelectIn(s, T) = kept[N]
  BY DEF SelectIn, Rows
<1> HIDE DEF kept
<1>4. /\ kept[0] = << >>
      /\ \A n \in 1..N : kept[n] = IF s[n] \in T THEN Append(kept[n - 1], s[n]) ELSE kept[n - 1]
  BY <1>1, <1>2, RowsFacts
<1> DEFINE Good(n) ==
             /\ kept[n] \in Seq(A)
             /\ \A i \in 1..Len(kept[n]) :
                   kept[n][i] \in T /\ \E k \in 1..n : kept[n][i] = s[k]
             /\ \A k \in 1..n : s[k] \in T => \E i \in 1..Len(kept[n]) : kept[n][i] = s[k]
           S == {n \in Nat : n <= N => Good(n)}
<1>5. 0 \in S
  <2>1. Good(0)
    BY <1>4
  <2>2. QED
    BY <2>1
<1>6. ASSUME NEW n \in Nat, n \in S
      PROVE  n + 1 \in S
  <2> SUFFICES ASSUME n + 1 <= N PROVE Good(n + 1)
    OBVIOUS
  <2>1. Good(n)
    <3>1. n <= N
      BY <1>1
    <3>2. QED
      BY <1>6, <3>1
  <2>2. /\ n + 1 \in 1..N /\ n + 1 - 1 = n /\ s[n + 1] \in A
        /\ \A k \in 1..(n + 1) : k \in 1..n \/ k = n + 1
    BY <1>1
  <2> HIDE DEF N
  <2>3. CASE s[n + 1] \notin T
    <3>1. kept[n + 1] = kept[n]
      BY <1>4, <2>2, <2>3
    <3>2. QED
      BY <2>1, <2>2, <2>3, <3>1
  <2>4. CASE s[n + 1] \in T
    <3> DEFINE r == kept[n + 1]
               q == kept[n]
    <3>1. r = Append(q, s[n + 1]) /\ q \in Seq(A)
      <4>1. q \in Seq(A)
        BY <2>1
      <4>2. r = IF s[n + 1] \in T THEN Append(kept[n + 1 - 1], s[n + 1]) ELSE kept[n + 1 - 1]
        BY <1>4, <2>2
      <4>3. QED
        BY <2>2, <2>4, <4>1, <4>2
    <3>2. /\ r \in Seq(A) /\ Len(r) = Len(q) + 1 /\ r[Len(q) + 1] = s[n + 1]
          /\ \A i \in 1..Len(q) : r[i] = q[i]
      BY <2>2, <3>1, AppendProperties
    <3>3. /\ \A i \in 1..Len(q) : q[i] \in T /\ \E k \in 1..n : q[i] = s[k]
          /\ \A k \in 1..n : s[k] \in T => \E i \in 1..Len(q) : q[i] = s[k]
          /\ Len(q) \in Nat
      BY <2>1
    <3> HIDE DEF r, q
    <3>4. /\ \A i \in 1..Len(r) : i \in 1..Len(q) \/ i = Len(q) + 1
          /\ \A i \in 1..Len(q) : i \in 1..Len(r)
          /\ Len(q) + 1 \in 1..Len(r) /\ n + 1 \in 1..(n + 1)
          /\ \A k \in 1..n : k \in 1..(n + 1)
      BY <3>2, <3>3
    <3>5. ASSUME NEW i \in 1..Len(r)
          PROVE  r[i] \in T /\ \E k \in 1..(n + 1) : r[i] = s[k]
      <4>1. CASE i = Len(q) + 1
        BY <2>4, <3>2, <3>4, <4>1
      <4>2. CASE i \in 1..Len(q)
        <5>1. r[i] = q[i] /\ q[i] \in T /\ \E k \in 1..n : q[i] = s[k]
          BY <3>2, <3>3, <4>2
        <5>2. QED
          BY <3>4, <5>1
      <4>3. QED
        BY <3>4, <4>1, <4>2
    <3>6. \A k \in 1..(n + 1) : s[k] \in T => \E i \in 1..Len(r) : r[i] = s[k]
      BY <2>2, <3>2, <3>3, <3>4
    <3>7. QED
      BY <3>2, <3>5, <3>6 DEF r
  <2>5. QED
    BY <2>3, <2>4
<1>7. N \in S
  <2> HIDE DEF S
  <2>1. QED
    BY <1>1, <1>5, <1>6, NatInd
<1>8. Good(N)
  BY <1>1, <1>7
<1>9. QED
  BY <1>3, <1>8

(* How many of the first i elements of s are in T.                         *)
CountIn(s, T, i) == Cardinality({k \in 1..i : s[k] \in T})

(* One more element.                                                       *)
LEMMA CountFacts ==
    ASSUME NEW s, NEW T, NEW n \in Nat
    PROVE  /\ CountIn(s, T, 0) = 0 /\ CountIn(s, T, n) \in Nat
           /\ s[n + 1] \in T => CountIn(s, T, n + 1) = CountIn(s, T, n) + 1
           /\ s[n + 1] \notin T => CountIn(s, T, n + 1) = CountIn(s, T, n)
<1> DEFINE C(m) == {k \in 1..m : s[k] \in T}
<1>1. C(0) = {}
  OBVIOUS
<1>2. /\ IsFiniteSet(C(n)) /\ n + 1 \notin C(n)
      /\ C(n + 1) = IF s[n + 1] \in T THEN C(n) \cup {n + 1} ELSE C(n)
  <2>1. 1 \in Int /\ n \in Int
    OBVIOUS
  <2>2. IsFiniteSet(1..n) /\ C(n) \subseteq 1..n
    BY <2>1, FS_Interval
  <2>3. IsFiniteSet(C(n))
    BY <2>2, FS_Subset
  <2>4. QED
    BY <2>3
<1> HIDE DEF C
<1>3. Cardinality(C(n)) \in Nat /\ Cardinality(C(n) \cup {n + 1}) = Cardinality(C(n)) + 1
  BY <1>2, FS_CardinalityType, FS_AddElement
<1>4. Cardinality(C(0)) = 0
  BY <1>1, FS_EmptySet
<1>5. QED
  BY <1>2, <1>3, <1>4 DEF CountIn, C

(* An element in T is in the selection at the place that counting gives.   *)
LEMMA SelectPositions ==
    ASSUME NEW A, NEW s \in Seq(A), NEW T
    PROVE  /\ \A i \in 1..Len(s) : s[i] \in T =>
                 /\ CountIn(s, T, i) \in 1..Len(SelectIn(s, T))
                 /\ SelectIn(s, T)[CountIn(s, T, i)] = s[i]
           /\ \A m \in 1..Len(SelectIn(s, T)) :
                 \E i \in 1..Len(s) : s[i] \in T /\ CountIn(s, T, i) = m
<1> DEFINE N == Len(s)
           kept == CHOOSE g : Rows(g, N, s, T)
<1>1. N \in Nat
  OBVIOUS
<1>2. Rows(kept, N, s, T)
  BY <1>1, RowsExist
<1>3. SelectIn(s, T) = kept[N]
  BY DEF SelectIn, Rows
<1> HIDE DEF kept
<1>4. /\ kept[0] = << >>
      /\ \A n \in 1..N : kept[n] = IF s[n] \in T THEN Append(kept[n - 1], s[n]) ELSE kept[n - 1]
  BY <1>1, <1>2, RowsFacts
<1> DEFINE C(n) == CountIn(s, T, n)
<1>5. /\ C(0) = 0
      /\ \A n \in Nat : C(n) \in Nat /\ C(n + 1) = IF s[n + 1] \in T THEN C(n) + 1 ELSE C(n)
  <2>1. CountIn(s, T, 0) = 0
    <3>1. 0 \in Nat
      OBVIOUS
    <3>2. QED
      BY <3>1, CountFacts
  <2>2. ASSUME NEW n \in Nat
        PROVE  /\ CountIn(s, T, n) \in Nat
               /\ CountIn(s, T, n + 1) = IF s[n + 1] \in T THEN CountIn(s, T, n) + 1
                                         ELSE CountIn(s, T, n)
    BY CountFacts
  <2>3. QED
    BY <2>1, <2>2
<1> HIDE DEF C
<1> DEFINE Placed(n) ==
             /\ kept[n] \in Seq(A) /\ Len(kept[n]) = C(n)
             /\ \A i \in 1..n : s[i] \in T => C(i) \in 1..C(n) /\ kept[n][C(i)] = s[i]
             /\ \A m \in 1..C(n) : \E i \in 1..n : s[i] \in T /\ C(i) = m
           S == {n \in Nat : n <= N => Placed(n)}
<1>6. 0 \in S
  <2>1. Placed(0)
    BY <1>4, <1>5
  <2>2. QED
    BY <2>1
<1>7. ASSUME NEW n \in Nat, n \in S
      PROVE  n + 1 \in S
  <2> SUFFICES ASSUME n + 1 <= N PROVE Placed(n + 1)
    OBVIOUS
  <2>1. Placed(n)
    <3>1. n <= N
      BY <1>1
    <3>2. QED
      BY <1>7, <3>1
  <2>2. /\ n + 1 \in 1..N /\ n + 1 - 1 = n /\ s[n + 1] \in A
        /\ \A i \in 1..(n + 1) : i \in 1..n \/ i = n + 1
        /\ \A i \in 1..n : i \in 1..(n + 1)
        /\ n + 1 \in 1..(n + 1)
    BY <1>1
  <2>3. /\ C(n) \in Nat /\ C(n + 1) = IF s[n + 1] \in T THEN C(n) + 1 ELSE C(n)
    BY <1>5
  <2>4. kept[n + 1] = IF s[n + 1] \in T THEN Append(kept[n], s[n + 1]) ELSE kept[n]
    BY <1>4, <2>2
  <2> HIDE DEF N
  <2>5. CASE s[n + 1] \notin T
    <3>1. kept[n + 1] = kept[n] /\ C(n + 1) = C(n)
      BY <2>3, <2>4, <2>5
    <3>2. QED
      BY <2>1, <2>2, <2>5, <3>1
  <2>6. CASE s[n + 1] \in T
    <3> DEFINE r == kept[n + 1]
               q == kept[n]
               c == C(n)
               d == C(n + 1)
    <3>1. /\ q \in Seq(A) /\ Len(q) = c /\ c \in Nat /\ d = c + 1
          /\ \A i \in 1..n : s[i] \in T => C(i) \in 1..c /\ q[C(i)] = s[i]
          /\ \A m \in 1..c : \E i \in 1..n : s[i] \in T /\ C(i) = m
      BY <2>1, <2>3, <2>6
    <3>2. r = Append(q, s[n + 1])
      BY <2>4, <2>6
    <3>3. d = C(n + 1)
      OBVIOUS
    <3> HIDE DEF r, q, c, d
    <3>4. /\ r \in Seq(A) /\ Len(r) = c + 1 /\ r[c + 1] = s[n + 1]
          /\ \A m \in 1..c : r[m] = q[m]
      <4>1. /\ r \in Seq(A) /\ Len(r) = Len(q) + 1 /\ r[Len(q) + 1] = s[n + 1]
            /\ \A m \in 1..Len(q) : r[m] = q[m]
        <5>1. s[n + 1] \in A /\ q \in Seq(A)
          BY <2>2, <3>1
        <5>2. QED
          BY <3>2, <5>1, AppendProperties
      <4>2. QED
        BY <3>1, <4>1
    <3>5. /\ \A m \in 1..d : m \in 1..c \/ m = d
          /\ \A m \in 1..c : m \in 1..d
          /\ d \in 1..d
      BY <3>1
    <3>6. ASSUME NEW i \in 1..(n + 1), s[i] \in T
          PROVE  C(i) \in 1..d /\ r[C(i)] = s[i]
      <4>1. CASE i = n + 1
        BY <3>1, <3>3, <3>4, <3>5, <4>1
      <4>2. CASE i \in 1..n
        <5>1. C(i) \in 1..c /\ q[C(i)] = s[i]
          BY <3>1, <3>6, <4>2
        <5>2. QED
          BY <3>4, <3>5, <5>1
      <4>3. QED
        BY <2>2, <4>1, <4>2
    <3>7. ASSUME NEW m \in 1..d
          PROVE  \E i \in 1..(n + 1) : s[i] \in T /\ C(i) = m
      <4>1. CASE m = d
        BY <2>2, <2>6, <3>3, <4>1
      <4>2. CASE m \in 1..c
        <5>1. PICK i \in 1..n : s[i] \in T /\ C(i) = m
          BY <3>1, <4>2
        <5>2. QED
          BY <2>2, <5>1
      <4>3. QED
        BY <3>5, <4>1, <4>2
    <3>8. Len(r) = d
      BY <3>1, <3>4
    <3>9. QED
      BY <3>3, <3>4, <3>6, <3>7, <3>8 DEF r
  <2>7. QED
    BY <2>5, <2>6
<1>8. N \in S
  <2> HIDE DEF S
  <2>1. QED
    BY <1>1, <1>6, <1>7, NatInd
<1>9. Placed(N)
  BY <1>1, <1>8
<1>10. QED
  BY <1>3, <1>9 DEF C

-----------------------------------------------------------------------------
(* Sequences of anything.                                                  *)

IsSeq(s) == Len(s) \in Nat /\ s = [k \in 1..Len(s) |-> s[k]]

(* A sequence over a set is a sequence.                                    *)
LEMMA SeqIsSeq ==
    ASSUME NEW S, NEW s \in Seq(S)
    PROVE  IsSeq(s)
  BY DEF IsSeq

(* Domain and length of a sequence.                                        *)
LEMMA IsSeqFacts ==
    ASSUME NEW s, IsSeq(s)
    PROVE  DOMAIN s = 1..Len(s) /\ Len(s) \in Nat
  BY DEF IsSeq

(* The empty sequence.                                                     *)
LEMMA EmptyIsSeq == IsSeq(<< >>) /\ Len(<< >>) = 0
  BY DEF IsSeq

(* Length and elements after an Append.                                    *)
LEMMA AppendFacts ==
    ASSUME NEW s, IsSeq(s), NEW e
    PROVE  /\ IsSeq(Append(s, e))
           /\ Len(Append(s, e)) = Len(s) + 1
           /\ DOMAIN Append(s, e) = 1..(Len(s) + 1)
           /\ Append(s, e)[Len(s) + 1] = e
           /\ \A k \in 1..Len(s) : Append(s, e)[k] = s[k]
<1> DEFINE S == {s[k] : k \in 1..Len(s)} \cup {e}
<1>1. s \in Seq(S)
  BY DEF IsSeq
<1>2. e \in S
  OBVIOUS
<1> HIDE DEF S
<1>3. /\ Append(s, e) \in Seq(S)
      /\ Len(Append(s, e)) = Len(s) + 1
      /\ Append(s, e)[Len(s) + 1] = e
      /\ \A k \in 1..Len(s) : Append(s, e)[k] = s[k]
  BY <1>1, <1>2, AppendProperties
<1>4. IsSeq(Append(s, e))
  BY <1>3, SeqIsSeq
<1>5. QED
  BY <1>3, <1>4, IsSeqFacts

PutAt(r, s, i, e) == r = [s EXCEPT ![i] = e]

(* Length and elements after one element is replaced.                      *)
LEMMA ExceptFacts ==
    ASSUME NEW s, IsSeq(s), NEW i \in 1..Len(s), NEW e, NEW r, PutAt(r, s, i, e)
    PROVE  /\ IsSeq(r) /\ Len(r) = Len(s) /\ r[i] = e
           /\ \A k \in 1..Len(s) : k # i => r[k] = s[k]
<1> DEFINE S == {s[k] : k \in 1..Len(s)} \cup {e}
<1>1. s \in Seq(S)
  BY DEF IsSeq
<1>2. e \in S
  OBVIOUS
<1> HIDE DEF S
<1>3. /\ r \in Seq(S) /\ Len(r) = Len(s)
      /\ \A k \in 1..Len(s) : r[k] = IF k = i THEN e ELSE s[k]
  BY <1>1, <1>2, ExceptSeq DEF PutAt
<1>4. IsSeq(r)
  BY <1>3, SeqIsSeq
<1>5. QED
  BY <1>3, <1>4

(* A sequence without its last element.                                    *)
LEMMA FrontFacts ==
    ASSUME NEW s, IsSeq(s), Len(s) > 0
    PROVE  /\ IsSeq(SubSeq(s, 1, Len(s) - 1))
           /\ Len(SubSeq(s, 1, Len(s) - 1)) = Len(s) - 1
           /\ \A k \in 1..(Len(s) - 1) : SubSeq(s, 1, Len(s) - 1)[k] = s[k]
<1> DEFINE S == {s[k] : k \in 1..Len(s)}
<1>1. s \in Seq(S)
  BY DEF IsSeq
<1>2. Len(s) - 1 \in Nat /\ \A k \in 1..(Len(s) - 1) : s[k] \in S
  BY DEF IsSeq
<1> HIDE DEF S
<1> DEFINE n == Len(s) - 1
<1>3. 1 \in Int /\ n \in Int /\ \A k \in 1..n : s[k] \in S
  BY <1>2
<1> HIDE DEF n
<1>4. /\ SubSeq(s, 1, n) \in Seq(S)
      /\ Len(SubSeq(s, 1, n)) = IF 1 <= n THEN n - 1 + 1 ELSE 0
      /\ \A k \in 1..(n - 1 + 1) : SubSeq(s, 1, n)[k] = s[1 + k - 1]
  BY <1>1, <1>3, SubSeqProperties
<1>5. n \in Nat /\ n = Len(s) - 1
  BY <1>2 DEF n
<1>6. Len(SubSeq(s, 1, n)) = n
  <2> DEFINE length == Len(SubSeq(s, 1, n))
  <2>1. length = IF 1 <= n THEN n - 1 + 1 ELSE 0
    BY <1>4
  <2> HIDE DEF length
  <2>2. length = n
    BY <1>5, <2>1
  <2>3. QED
    BY <2>2 DEF length
<1>7. \A k \in 1..n : SubSeq(s, 1, n)[k] = s[k]
  <2> TAKE k \in 1..n
  <2>1. 1 + k - 1 = k /\ k \in 1..(n - 1 + 1)
    BY <1>5
  <2>2. QED
    BY <1>4, <2>1
<1>8. IsSeq(SubSeq(s, 1, n))
  BY <1>4, SeqIsSeq
<1>9. QED
  BY <1>5, <1>6, <1>7, <1>8

-----------------------------------------------------------------------------
(* Each value of g is the step F makes from the one before it.             *)
Unfolds(g, N, S, a, F) ==
    g \in [0..N -> S] /\ g[0] = a /\ \A n \in 1..N : g[n] = F[n][g[n - 1]]

(* A function that is defined by such steps exists.                        *)
LEMMA RecursionExists ==
    ASSUME NEW N \in Nat, NEW S, NEW a \in S, NEW F \in [1..N -> [S -> S]]
    PROVE  \E g : Unfolds(g, N, S, a, F)
<1> DEFINE Good(g, m) == Unfolds(g, m, S, a, F)
           T == {m \in Nat : m <= N => \E g : Good(g, m)}
<1>1. 0 \in T
  <2>1. Good([n \in 0..0 |-> a], 0)
    BY DEF Unfolds
  <2> HIDE DEF Good
  <2>2. QED
    BY <2>1
<1>2. ASSUME NEW m \in Nat, m \in T
      PROVE  m + 1 \in T
  <2>0. m + 1 \in Nat
    OBVIOUS
  <2> HIDE DEF Good
  <2> SUFFICES ASSUME m + 1 <= N PROVE \E g : Good(g, m + 1)
    BY <2>0, Zenon
  <2>1. m <= N
    OBVIOUS
  <2>2. PICK g : Good(g, m)
    BY <1>2, <2>1
  <2>3. /\ g \in [0..m -> S] /\ g[0] = a /\ \A n \in 1..m : g[n] = F[n][g[n - 1]]
    BY <2>2 DEF Good, Unfolds
  <2>4. m + 1 \in 1..N /\ m \in 0..m
    OBVIOUS
  <2>5. PICK last \in S : last = F[m + 1][g[m]]
    BY <2>3, <2>4
  <2>6. PICK h : h = [n \in 0..(m + 1) |-> IF n = m + 1 THEN last ELSE g[n]]
    OBVIOUS
  <2>7. /\ h \in [0..(m + 1) -> S] /\ h[m + 1] = last
        /\ \A n \in 0..m : h[n] = g[n]
    BY <2>3, <2>6
  <2>8. ASSUME NEW n \in 1..(m + 1)
        PROVE  h[n] = F[n][h[n - 1]]
    <3>1. CASE n = m + 1
      <4>1. n - 1 = m /\ h[m] = g[m]
        BY <2>4, <2>7, <3>1
      <4>2. QED
        BY <2>5, <2>7, <3>1, <4>1
    <3>2. CASE n # m + 1
      <4>1. n \in 1..m /\ n \in 0..m /\ n - 1 \in 0..m
        BY <3>2
      <4>2. QED
        BY <2>3, <2>7, <4>1
    <3>3. QED
      BY <3>1, <3>2
  <2>9. h[0] = a
    BY <2>3, <2>7
  <2>10. QED
    BY <2>7, <2>8, <2>9 DEF Good, Unfolds
<1>3. N \in T
  <2> HIDE DEF T
  <2>1. QED
    BY <1>1, <1>2, NatInd
<1>4. QED
  BY <1>3

=============================================================================
