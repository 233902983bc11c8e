------------------------- MODULE ExportsTrieProofs -------------------------
(***************************************************************************)
(* For every trie, however malformed, and every symbol: what the walk of   *)
(* exports_trie_walk_for_symbol returns is spelled by the labels it took,  *)
(* its budget ends cycles only, and in a trie as the linker writes it the  *)
(* walk finds every symbol that is exported.                               *)
(***************************************************************************)
EXTENDS ExportsTrie, SequenceLemmas, FiniteSetTheorems, TLAPS

-----------------------------------------------------------------------------
(* The tries and the symbols.                                              *)

Given == trie \in Tries /\ symbol \in Symbols

NodeAt(n) == trie.nodes[n]

(* What the assumptions say of the trie and the symbol of a walk.          *)
LEMMA GivenFacts ==
    ASSUME Given
    PROVE  /\ trie.length \in Nat /\ DOMAIN trie.nodes \subseteq 0..(trie.length - 2)
           /\ symbol \in Seq(STRING) /\ Len(symbol) \in Nat
           /\ \A n \in DOMAIN trie.nodes :
                 /\ NodeAt(n).edges \in Seq(Edges)
                 /\ NodeAt(n).terminal \notin {"walking", "out of budget", "bad node", "no edge"}
<1>1. IsTrie(trie) /\ symbol \in Seq(STRING)
  BY TriesAssumption, SymbolsAssumption DEF Given
<1>2. \A n \in DOMAIN trie.nodes :
         /\ NodeAt(n).edges \in Seq(Edges)
         /\ NodeAt(n).terminal \notin {"walking", "out of budget", "bad node", "no edge"}
  BY <1>1 DEF IsTrie, NodeAt
<1>3. trie.length \in Nat /\ DOMAIN trie.nodes \subseteq 0..(trie.length - 2)
  BY <1>1 DEF IsTrie
<1>4. Len(symbol) \in Nat
  BY <1>1
<1>5. QED
  BY <1>1, <1>2, <1>3, <1>4, Zenon

(* The edges of a node are a sequence of typed edges.                      *)
LEMMA EdgeFacts ==
    ASSUME Given, NEW n \in DOMAIN trie.nodes
    PROVE  /\ DOMAIN NodeAt(n).edges = 1..Len(NodeAt(n).edges) /\ Len(NodeAt(n).edges) \in Nat
           /\ \A i \in DOMAIN NodeAt(n).edges :
                 /\ NodeAt(n).edges[i] \in Edges
                 /\ NodeAt(n).edges[i].label \in Seq(STRING)
                 /\ NodeAt(n).edges[i].child \in Nat
                 /\ NodeAt(n).edges[i].truncated \in BOOLEAN
<1>1. NodeAt(n).edges \in Seq(Edges)
  BY GivenFacts
<1>2. /\ DOMAIN NodeAt(n).edges = 1..Len(NodeAt(n).edges) /\ Len(NodeAt(n).edges) \in Nat
      /\ \A i \in DOMAIN NodeAt(n).edges : NodeAt(n).edges[i] \in Edges
  BY <1>1
<1>3. QED
  BY <1>2 DEF Edges

(* What Along holds.                                                       *)
LEMMA AlongFacts ==
    ASSUME Given, NEW n \in DOMAIN trie.nodes, NEW label, NEW c
    PROVE  c \in Along(n, label) <=>
             \E i \in DOMAIN NodeAt(n).edges :
                /\ ~NodeAt(n).edges[i].truncated /\ NodeAt(n).edges[i].label = label
                /\ NodeAt(n).edges[i].child = c
<1> DEFINE es == NodeAt(n).edges
<1>1. \A e : e \in ToSet(es) <=> \E i \in DOMAIN es : e = es[i]
  BY DEF ToSet
<1>2. Along(n, label) = {e.child : e \in {d \in ToSet(es) : ~d.truncated /\ d.label = label}}
  BY DEF Along, NodeAt
<1> HIDE DEF es
<1>3. c \in Along(n, label) <=>
        \E i \in DOMAIN es : ~es[i].truncated /\ es[i].label = label /\ es[i].child = c
  BY <1>1, <1>2
<1>4. QED
  BY <1>3 DEF es

-----------------------------------------------------------------------------
(* Spells.                                                                 *)

(* What the k-th character adds.                                           *)
Added(before, k) ==
    UNION {{<<c, k>> : c \in Along(p[1], SubSeq(symbol, p[2] + 1, k))} :
              p \in {q \in before : q[1] \in DOMAIN trie.nodes}}

SpellRows(g, N) ==
    g = [k \in 0..N |-> IF k = 0 THEN {<<Root, 0>>}
                        ELSE g[k - 1] \cup Added(g[k - 1], k)]

(* SpellRows spelled out row by row.                                       *)
LEMMA SpellRowsFacts ==
    ASSUME NEW N \in Nat, NEW g
    PROVE  SpellRows(g, N) <=>
             /\ g = [k \in 0..N |-> g[k]]
             /\ g[0] = {<<Root, 0>>}
             /\ \A k \in 1..N : g[k] = g[k - 1] \cup Added(g[k - 1], k)
<1> DEFINE row(k) == IF k = 0 THEN {<<Root, 0>>} ELSE g[k - 1] \cup Added(g[k - 1], k)
<1>1. SpellRows(g, N) <=> g = [k \in 0..N |-> row(k)]
  BY DEF SpellRows
<1> HIDE DEF row
<1>2. g = [k \in 0..N |-> row(k)] <=> g = [k \in 0..N |-> g[k]] /\ \A k \in 0..N : g[k] = row(k)
  OBVIOUS
<1>3. (\A k \in 0..N : g[k] = row(k)) <=> row(0) = g[0] /\ \A k \in 1..N : g[k] = row(k)
  OBVIOUS
<1>4. QED
  BY <1>1, <1>2, <1>3 DEF row

(* Spells is well defined: its rows exist for every length.                *)
LEMMA SpellRowsExist ==
    ASSUME NEW N \in Nat
    PROVE  \E g : SpellRows(g, N)
<1> DEFINE S == {m \in Nat : \E g : SpellRows(g, m)}
<1>1. 0 \in S
  <2>1. PICK g : g = [k \in 0..0 |-> {<<Root, 0>>}]
    OBVIOUS
  <2>2. SpellRows(g, 0)
    BY <2>1 DEF SpellRows
  <2>3. QED
    BY <2>2
<1>2. ASSUME NEW m \in Nat, m \in S
      PROVE  m + 1 \in S
  <2>1. PICK g : SpellRows(g, m)
    BY <1>2
  <2> DEFINE last == g[m] \cup Added(g[m], m + 1)
             h == [k \in 0..(m + 1) |-> IF k = m + 1 THEN last ELSE g[k]]
  <2>2. /\ g[0] = {<<Root, 0>>}
        /\ \A k \in 1..m : g[k] = g[k - 1] \cup Added(g[k - 1], k)
    BY <2>1, SpellRowsFacts
  <2>3. /\ \A k \in 0..m : h[k] = g[k]
        /\ h[m + 1] = last /\ h = [k \in 0..(m + 1) |-> h[k]]
    OBVIOUS
  <2> HIDE DEF h
  <2>0. 0 \in 0..m /\ m \in 0..m /\ m + 1 \in Nat /\ m + 1 - 1 = m
    OBVIOUS
  <2>4. ASSUME NEW k \in 1..(m + 1)
        PROVE  h[k] = h[k - 1] \cup Added(h[k - 1], k)
    <3>1. CASE k = m + 1
      <4>1. k - 1 = m /\ h[m] = g[m]
        BY <2>0, <2>3, <3>1
      <4>2. QED
        BY <2>3, <3>1, <4>1
    <3>2. CASE k # m + 1
      <4>1. k \in 1..m /\ k \in 0..m /\ k - 1 \in 0..m
        BY <3>2
      <4>2. h[k] = g[k] /\ h[k - 1] = g[k - 1]
        BY <2>3, <4>1
      <4>3. QED
        BY <2>2, <4>1, <4>2
    <3>3. QED
      BY <3>1, <3>2
  <2>5. h[0] = {<<Root, 0>>} /\ m + 1 \in Nat
    BY <2>0, <2>2, <2>3
  <2> HIDE DEF last
  <2>6. SpellRows(h, m + 1)
    BY <2>3, <2>4, <2>5, SpellRowsFacts
  <2>7. QED
    BY <2>5, <2>6
<1>3. N \in S
  <2> HIDE DEF S
  <2>1. QED
    BY <1>1, <1>2, NatInd
<1>4. QED
  BY <1>3

(* The edge of p that carries the characters from p's to the k-th.         *)
LeadsTo(p, k, c) ==
    /\ p[1] \in DOMAIN trie.nodes /\ p[2] < k
    /\ c \in Along(p[1], SubSeq(symbol, p[2] + 1, k))

IsPair(p, N) == p = <<p[1], p[2]>> /\ p[1] \in Nat /\ p[2] \in 0..N

(* What Added holds.                                                       *)
LEMMA AddedFacts ==
    ASSUME NEW before, NEW k \in Nat, NEW x
    PROVE  x \in Added(before, k) <=>
              \E p \in before : /\ p[1] \in DOMAIN trie.nodes
                                /\ \E c \in Along(p[1], SubSeq(symbol, p[2] + 1, k)) : x = <<c, k>>
  BY DEF Added

(* The first node is the root, every other one is led to by an edge of a   *)
(* node that fewer characters lead to, and all such edges are there.       *)
LEMMA SpellsFacts ==
    ASSUME Given
    PROVE  /\ <<Root, 0>> \in Spells
           /\ \A p \in Spells : IsPair(p, Len(symbol))
           /\ \A p \in Spells : p = <<Root, 0>> \/ \E q \in Spells : LeadsTo(q, p[2], p[1])
           /\ \A p \in Spells : \A k \in 1..Len(symbol) : \A c :
                 LeadsTo(p, k, c) => <<c, k>> \in Spells
<1> DEFINE N == Len(symbol)
           g == CHOOSE f : SpellRows(f, N)
<1>1. N \in Nat
  BY GivenFacts
<1>2. SpellRows(g, N)
  BY <1>1, SpellRowsExist
<1>3. Spells = g[N]
  BY DEF Spells, SpellRows, Added
<1> HIDE DEF g, N
<1>4. /\ g[0] = {<<Root, 0>>}
      /\ \A k \in 1..N : g[k] = g[k - 1] \cup Added(g[k - 1], k)
  BY <1>1, <1>2, SpellRowsFacts
<1>5. \A n \in DOMAIN trie.nodes : \A label : Along(n, label) \subseteq Nat
  <2> SUFFICES ASSUME NEW n \in DOMAIN trie.nodes, NEW label, NEW c \in Along(n, label)
               PROVE  c \in Nat
    OBVIOUS
  <2>1. QED
    BY AlongFacts, EdgeFacts
<1> DEFINE Good(n) ==
             /\ \A p \in g[n] : IsPair(p, n)
             /\ <<Root, 0>> \in g[n]
             /\ \A m \in 0..n : \A p \in g[n] : p[2] <= m => p \in g[m]
             /\ \A m \in 0..n : g[m] \subseteq g[n]
             /\ \A p \in g[n] : p = <<Root, 0>> \/ \E q \in g[n] : LeadsTo(q, p[2], p[1])
           S == {n \in Nat : n <= N => Good(n)}
<1>6. 0 \in S
  <2>1. Good(0)
    BY <1>4 DEF IsPair, Root
  <2>2. QED
    BY <2>1
<1>7. ASSUME NEW n \in Nat, n \in S
      PROVE  n + 1 \in S
  <2> SUFFICES ASSUME n + 1 <= N PROVE Good(n + 1)
    OBVIOUS
  <2>0. n <= N /\ n + 1 \in 1..N /\ n + 1 - 1 = n /\ n + 1 \in Nat
    BY <1>1
  <2>1. Good(n)
    BY <1>7, <2>0
  <2>2. g[n + 1] = g[n] \cup Added(g[n], n + 1)
    BY <1>4, <2>0
  <2>3. ASSUME NEW x \in Added(g[n], n + 1)
        PROVE  /\ x = <<x[1], n + 1>> /\ x[2] = n + 1 /\ x[1] \in Nat
               /\ \E q \in g[n] : LeadsTo(q, n + 1, x[1])
    <3>1. PICK p \in g[n] : /\ p[1] \in DOMAIN trie.nodes
                            /\ \E c \in Along(p[1], SubSeq(symbol, p[2] + 1, n + 1)) :
                                  x = <<c, n + 1>>
      BY <2>0, <2>3, AddedFacts
    <3>2. PICK c \in Along(p[1], SubSeq(symbol, p[2] + 1, n + 1)) : x = <<c, n + 1>>
      BY <3>1
    <3>3. p[2] \in 0..n
      BY <2>1 DEF IsPair
    <3>4. x[1] = c /\ x[2] = n + 1 /\ c \in Nat /\ p[2] < n + 1
      BY <1>5, <3>1, <3>2, <3>3
    <3>5. QED
      BY <3>1, <3>2, <3>4 DEF LeadsTo
  <2>4. \A p \in g[n] : IsPair(p, n + 1) /\ p[2] <= n /\ p[2] \in Nat
    BY <2>1 DEF IsPair
  <2>5. \A p \in g[n + 1] : IsPair(p, n + 1)
    BY <2>0, <2>2, <2>3, <2>4 DEF IsPair
  <2>6. \A m \in 0..(n + 1) : m \in 0..n \/ m = n + 1
    OBVIOUS
  <2>7. ASSUME NEW m \in 0..(n + 1), NEW p \in g[n + 1], p[2] <= m
        PROVE  p \in g[m]
    <3>1. CASE m = n + 1
      BY <3>1
    <3>2. CASE m \in 0..n
      <4>1. p \in g[n]
        BY <2>2, <2>3, <2>7, <3>2
      <4>2. QED
        BY <2>1, <2>7, <3>2, <4>1
    <3>3. QED
      BY <2>6, <3>1, <3>2
  <2>8. \A m \in 0..(n + 1) : g[m] \subseteq g[n + 1]
    BY <2>1, <2>2, <2>6
  <2>9. \A p \in g[n + 1] : p = <<Root, 0>> \/ \E q \in g[n + 1] : LeadsTo(q, p[2], p[1])
    BY <2>1, <2>2, <2>3
  <2>10. <<Root, 0>> \in g[n + 1]
    BY <2>1, <2>2
  <2>11. QED
    BY <2>5, <2>7, <2>8, <2>9, <2>10
<1>8. N \in S
  <2> HIDE DEF S
  <2>1. QED
    BY <1>1, <1>6, <1>7, NatInd
<1>9. Good(N)
  BY <1>1, <1>8
<1>10. ASSUME NEW p \in g[N], NEW k \in 1..N, NEW c, LeadsTo(p, k, c)
       PROVE  <<c, k>> \in g[N]
  <2>1. k - 1 \in 0..N /\ k \in 0..N /\ p[2] \in 0..N /\ p[2] < k /\ k \in Nat
    BY <1>1, <1>9, <1>10 DEF IsPair, LeadsTo
  <2>2. p \in g[k - 1]
    BY <1>9, <2>1
  <2>3. <<c, k>> \in Added(g[k - 1], k)
    BY <1>10, <2>1, <2>2, AddedFacts DEF LeadsTo
  <2>4. <<c, k>> \in g[k]
    BY <1>4, <2>3
  <2>5. QED
    BY <1>9, <2>1, <2>4
<1>11. QED
  BY <1>3, <1>9, <1>10 DEF N

-----------------------------------------------------------------------------
(* Prefixes of what is left of the symbol.                                 *)

(* Length and elements of a part of a sequence.                            *)
LEMMA PartFacts ==
    ASSUME NEW A, NEW s \in Seq(A), NEW a \in 0..Len(s), NEW b \in 0..Len(s)
    PROVE  /\ SubSeq(s, a + 1, b) \in Seq(A)
           /\ Len(SubSeq(s, a + 1, b)) = IF a < b THEN b - a ELSE 0
           /\ \A i \in 1..(b - a) : SubSeq(s, a + 1, b)[i] = s[a + i]
<1>1. a + 1 \in Int /\ b \in Int /\ \A i \in (a + 1)..b : s[i] \in A
  OBVIOUS
<1>2. /\ SubSeq(s, a + 1, b) \in Seq(A)
      /\ Len(SubSeq(s, a + 1, b)) = IF a + 1 <= b THEN b - (a + 1) + 1 ELSE 0
      /\ \A i \in 1..(b - (a + 1) + 1) : SubSeq(s, a + 1, b)[i] = s[a + 1 + i - 1]
  BY <1>1, SubSeqProperties
<1>3. QED
  BY <1>2

(* A part of a part is a part.                                             *)
LEMMA PartOfPart ==
    ASSUME NEW A, NEW s \in Seq(A), NEW a \in 0..Len(s), NEW b \in a..Len(s),
           NEW m \in 0..(b - a), NEW n \in m..(b - a)
    PROVE  SubSeq(SubSeq(s, a + 1, b), m + 1, n) = SubSeq(s, a + m + 1, a + n)
<1> DEFINE t == SubSeq(s, a + 1, b)
           x == SubSeq(t, m + 1, n)
           y == SubSeq(s, a + m + 1, a + n)
<1>1. Len(s) \in Nat /\ a + m \in 0..Len(s) /\ a + n \in 0..Len(s) /\ b \in 0..Len(s)
  OBVIOUS
<1>2. t \in Seq(A) /\ Len(t) = b - a /\ \A i \in 1..(b - a) : t[i] = s[a + i]
  BY <1>1, PartFacts
<1> HIDE DEF t
<1>3. m \in 0..Len(t) /\ n \in 0..Len(t)
  BY <1>1, <1>2
<1>4. /\ x \in Seq(A) /\ Len(x) = n - m
      /\ \A i \in 1..(n - m) : x[i] = t[m + i]
  BY <1>1, <1>2, <1>3, PartFacts
<1>5. /\ y \in Seq(A) /\ Len(y) = n - m
      /\ \A i \in 1..(n - m) : y[i] = s[a + m + i]
  BY <1>1, PartFacts
<1> HIDE DEF x, y
<1>6. \A i \in 1..(n - m) : x[i] = y[i]
  <2> TAKE i \in 1..(n - m)
  <2>1. m + i \in 1..(b - a) /\ a + (m + i) = a + m + i
    BY <1>1
  <2>2. QED
    BY <1>2, <1>4, <1>5, <2>1
<1>7. x = y
  BY <1>4, <1>5, <1>6
<1>8. QED
  BY <1>7 DEF x, y, t

(* A label that starts the rest of the symbol is the next characters of    *)
(* the symbol, and the rest is then that after them.                       *)
LEMMA PrefixIsPart ==
    ASSUME NEW A, NEW s \in Seq(A), NEW a \in 0..Len(s), NEW label \in Seq(A),
           IsPrefix(label, SubSeq(s, a + 1, Len(s)))
    PROVE  /\ a + Len(label) \in a..Len(s) /\ label = SubSeq(s, a + 1, a + Len(label))
           /\ SubSeq(SubSeq(s, a + 1, Len(s)), Len(label) + 1, Len(SubSeq(s, a + 1, Len(s))))
                = SubSeq(s, a + Len(label) + 1, Len(s))
<1> DEFINE t == SubSeq(s, a + 1, Len(s))
           m == Len(label)
<1>1. Len(s) \in Nat /\ m \in Nat /\ Len(s) \in 0..Len(s)
  OBVIOUS
<1>2. t \in Seq(A) /\ Len(t) = Len(s) - a
  BY <1>1, PartFacts
<1>3. m <= Len(t) /\ SubSeq(label, 1, m) = SubSeq(t, 1, m)
  BY DEF IsPrefix
<1>4. SubSeq(label, 1, m) = label
  BY SubSeqFull
<1>5. m \in 0..(Len(s) - a) /\ 0 \in 0..(Len(s) - a) /\ Len(s) - a \in m..(Len(s) - a)
  BY <1>1, <1>2, <1>3
<1>6. SubSeq(t, 0 + 1, m) = SubSeq(s, a + 0 + 1, a + m)
  BY <1>1, <1>5, PartOfPart
<1>7. SubSeq(t, m + 1, Len(s) - a) = SubSeq(s, a + m + 1, a + (Len(s) - a))
  BY <1>1, <1>5, PartOfPart
<1>8. 0 + 1 = 1 /\ a + 0 + 1 = a + 1 /\ a + (Len(s) - a) = Len(s) /\ a + m \in a..Len(s)
  BY <1>1, <1>5
<1> HIDE DEF t, m
<1>9. label = SubSeq(s, a + 1, a + m)
  BY <1>3, <1>4, <1>6, <1>8
<1>10. SubSeq(t, m + 1, Len(t)) = SubSeq(s, a + m + 1, Len(s))
  BY <1>2, <1>7, <1>8
<1>11. QED
  BY <1>8, <1>9, <1>10 DEF t, m

(* Of two parts that start together the shorter is a prefix.               *)
LEMMA PartIsPrefix ==
    ASSUME NEW A, NEW s \in Seq(A), NEW a \in 0..Len(s), NEW k \in a..Len(s),
           NEW j \in k..Len(s)
    PROVE  IsPrefix(SubSeq(s, a + 1, k), SubSeq(s, a + 1, j))
<1> DEFINE x == SubSeq(s, a + 1, k)
           y == SubSeq(s, a + 1, j)
<1>1. Len(s) \in Nat /\ k \in 0..Len(s) /\ j \in 0..Len(s) /\ j \in a..Len(s)
  OBVIOUS
<1>2. x \in Seq(A) /\ Len(x) = k - a /\ Len(y) = j - a
  BY <1>1, PartFacts
<1>3. k - a \in 0..(j - a) /\ 0 \in 0..(j - a) /\ k - a <= j - a
      /\ 0 + 1 = 1 /\ a + 0 + 1 = a + 1 /\ a + (k - a) = k
  BY <1>1
<1>4. SubSeq(y, 0 + 1, k - a) = SubSeq(s, a + 0 + 1, a + (k - a))
  BY <1>1, <1>3, PartOfPart
<1>5. SubSeq(x, 1, Len(x)) = x
  BY <1>2, SubSeqFull
<1>6. SubSeq(y, 1, Len(x)) = x
  BY <1>2, <1>3, <1>4
<1>7. QED
  BY <1>2, <1>3, <1>5, <1>6 DEF IsPrefix

-----------------------------------------------------------------------------
(* child_edge_matching_prefix_find.                                        *)

(* child_edge_matching_prefix_find: an edge it finds matches, and when it  *)
(* finds none in a node that is not truncated, none does.                  *)
LEMMA ChildEdgeFacts ==
    ASSUME Given, current_node_offset \in DOMAIN trie.nodes
    PROVE  /\ ChildEdge # 0 => /\ ChildEdge \in DOMAIN Node.edges
                               /\ EdgeMatches(Node.edges[ChildEdge])
           /\ ChildEdge = 0 /\ (\A i \in DOMAIN Node.edges : ~Node.edges[i].truncated)
                 => \A i \in DOMAIN Node.edges : ~EdgeMatches(Node.edges[i])
           /\ ChildEdge \in Nat
<1> DEFINE es == Node.edges
           I == {i \in 1..Len(es) : es[i].truncated \/ EdgeMatches(es[i])}
           k == IF I # {} THEN Min(I) ELSE 0
<1>1. Len(es) \in Nat /\ DOMAIN es = 1..Len(es)
  BY EdgeFacts DEF Node, NodeAt
<1>2. ChildEdge = IF k > 0 /\ ~es[k].truncated THEN k ELSE 0
  BY DEF ChildEdge, SelectInSeq
<1>3. I \subseteq Nat
  BY <1>1
<1>4. I # {} => Min(I) \in I
  BY <1>3, MinFacts
<1> HIDE DEF es
<1>5. CASE I = {}
  BY <1>1, <1>2, <1>5 DEF es
<1>6. CASE I # {}
  <2>1. k = Min(I) /\ k \in I
    BY <1>4, <1>6
  <2> HIDE DEF k
  <2>2. k \in 1..Len(es) /\ k > 0 /\ k \in Nat /\ (es[k].truncated \/ EdgeMatches(es[k]))
    BY <1>1, <2>1
  <2>3. QED
    BY <1>1, <1>2, <2>2 DEF es
<1>7. QED
  BY <1>5, <1>6

-----------------------------------------------------------------------------
(* The inductive invariant.                                                *)

Pos == Len(symbol) - Len(remaining_suffix)

Typed ==
    /\ Given
    /\ visit_budget \in 0..trie.length /\ current_node_offset \in Nat
    /\ Pos \in 0..Len(symbol)
    /\ remaining_suffix = SubSeq(symbol, Pos + 1, Len(symbol))

(* The walk has taken an edge for every visit but the one under way.       *)
IsWalk(p, v) ==
    /\ p \in [0..v -> Nat] /\ p[0] = Root
    /\ \A i \in 0..(v - 1) : p[i] \in DOMAIN trie.nodes /\ p[i + 1] \in Targets(p[i])

Walked ==
    outcome = "walking" =>
        \E p : /\ IsWalk(p, trie.length - visit_budget)
               /\ p[trie.length - visit_budget] = current_node_offset

(* The characters taken so far lead to the current node, ...               *)
OnPath == <<current_node_offset, Pos>> \in Spells

(* ... in a trie of the linker to no other, and no edge leads past it.     *)
Only(c, pos) ==
    /\ \A p \in Spells : p[2] = pos => p[1] = c
    /\ \A p \in Spells : p[2] < pos =>
          \A k \in 1..Len(symbol) : (\E x : LeadsTo(p, k, x)) => k <= pos

OnlyPath == WellFormed => Only(current_node_offset, Pos)

IInv ==
    /\ Typed /\ Walked /\ OnPath /\ OnlyPath
    /\ TerminalIsSpelled /\ BudgetEndsOnlyCycles /\ ExportedIsFound

(* The trie and the symbol stay, and with them what is said of them alone. *)
LEMMA SameTrie ==
    ASSUME UNCHANGED <<trie, symbol>>
    PROVE  /\ Given' = Given /\ Spells' = Spells /\ Exported' = Exported
           /\ WellFormed' = WellFormed /\ Cyclic' = Cyclic
           /\ \A n, label : Along(n, label)' = Along(n, label)
           /\ \A n : Targets(n)' = Targets(n)
<1>1. Spells' = Spells
  BY DEF Spells, Along
<1>2. \A n : Targets(n)' = Targets(n)
  BY DEF Targets
<1>3. Cyclic' = Cyclic
  BY DEF Cyclic, Beyond, Places, Closed, Targets
<1>4. WellFormed' = WellFormed
  BY <1>3 DEF WellFormed, Targets
<1>5. Exported' = Exported
  BY <1>1 DEF Exported, Spelled
<1>6. Given' = Given
  BY DEF Given
<1>7. \A n, label : Along(n, label)' = Along(n, label)
  BY DEF Along
<1>8. QED
  BY <1>1, <1>2, <1>3, <1>4, <1>5, <1>6, <1>7

-----------------------------------------------------------------------------
(* The budget.                                                             *)

(* From one node of a walk to a later one there is a path.                 *)
LEMMA WalkIsBeyond ==
    ASSUME NEW v \in Nat, NEW p, IsWalk(p, v), NEW x \in 0..(v - 1), NEW y \in (x + 1)..v,
           p[y] \in DOMAIN trie.nodes
    PROVE  p[y] \in Beyond(p[x])
<1> SUFFICES ASSUME NEW S \in SUBSET Places, Targets(p[x]) \subseteq S, Closed(S)
             PROVE  p[y] \in S
  BY DEF Beyond, Places
<1> DEFINE T == {d \in Nat : x + 1 + d <= v => p[x + 1 + d] \in S}
<1>1. 0 \in T
  <2>1. p[x + 1] \in S /\ x + 1 + 0 = x + 1
    BY DEF IsWalk
  <2>2. QED
    BY <2>1
<1>2. ASSUME NEW d \in Nat, d \in T
      PROVE  d + 1 \in T
  <2> SUFFICES ASSUME x + 1 + (d + 1) <= v
               PROVE  p[x + 1 + (d + 1)] \in S
    OBVIOUS
  <2>1. PICK i : i = x + 1 + d
    OBVIOUS
  <2>2. i \in 0..(v - 1) /\ i + 1 = x + 1 + (d + 1) /\ i <= v
    BY <2>1
  <2>3. p[i] \in S
    BY <1>2, <2>1, <2>2
  <2>4. p[i] \in DOMAIN trie.nodes /\ p[i + 1] \in Targets(p[i])
    BY <2>2 DEF IsWalk
  <2>5. p[i + 1] \in S
    BY <2>3, <2>4 DEF Closed
  <2>6. QED
    BY <2>2, <2>5
<1>3. y - (x + 1) \in T
  <2>1. y - (x + 1) \in Nat
    OBVIOUS
  <2> HIDE DEF T
  <2>2. QED
    BY <1>1, <1>2, <2>1, NatInd
<1>4. x + 1 + (y - (x + 1)) = y /\ y <= v
  OBVIOUS
<1>5. QED
  BY <1>3, <1>4

(* As many nodes as there are bytes cannot all be different.               *)
LEMMA LongWalkIsCyclic ==
    ASSUME Given, trie.length # 0, NEW p, IsWalk(p, trie.length)
    PROVE  Cyclic
<1> DEFINE N == trie.length
           f == [i \in 0..(N - 1) |-> p[i]]
<1>0. N \in Nat /\ DOMAIN trie.nodes \subseteq 0..(N - 2) /\ N # 0
  BY GivenFacts, Zenon
<1>1. N \in Nat /\ N > 0 /\ DOMAIN trie.nodes \subseteq 0..(N - 2)
  <2> HIDE DEF N
  <2>1. QED
    BY <1>0
<1>2. \A i \in 0..(N - 1) : p[i] \in DOMAIN trie.nodes
  BY DEF IsWalk
<1>3. f \in [0..(N - 1) -> 0..(N - 2)]
  BY <1>1, <1>2
<1>4. /\ IsFiniteSet(0..(N - 1)) /\ Cardinality(0..(N - 1)) = N
      /\ IsFiniteSet(0..(N - 2)) /\ Cardinality(0..(N - 2)) = N - 1
  <2> HIDE DEF N
  <2>1. N - 1 \in Int /\ N - 2 \in Int /\ 0 \in Int
    BY <1>1
  <2>2. /\ IsFiniteSet(0..(N - 1))
        /\ Cardinality(0..(N - 1)) = IF 0 > N - 1 THEN 0 ELSE N - 1 - 0 + 1
    BY <2>1, FS_Interval
  <2>3. /\ IsFiniteSet(0..(N - 2))
        /\ Cardinality(0..(N - 2)) = IF 0 > N - 2 THEN 0 ELSE N - 2 - 0 + 1
    BY <2>1, FS_Interval
  <2>4. QED
    BY <1>1, <2>2, <2>3
<1> HIDE DEF N
<1>5. \E x, y \in 0..(N - 1) : x # y /\ f[x] = f[y]
  <2> HIDE DEF f
  <2>1. Cardinality(0..(N - 2)) < Cardinality(0..(N - 1))
    BY <1>1, <1>4
  <2>2. QED
    BY <1>3, <1>4, <2>1, FS_PigeonHole
<1>6. PICK x \in 0..(N - 1), y \in 0..(N - 1) : x < y /\ p[x] = p[y]
  BY <1>1, <1>5
<1>7. p[y] \in DOMAIN trie.nodes /\ p[x] \in DOMAIN trie.nodes /\ IsWalk(p, N)
  BY <1>2 DEF N
<1>8. y \in (x + 1)..N
  BY <1>1, <1>6
<1>9. p[x] \in Beyond(p[x])
  BY <1>1, <1>6, <1>7, <1>8, WalkIsBeyond
<1>10. p[x] \in Beyond(Root) \cup {Root}
  <2>1. p[0] = Root
    BY <1>7 DEF IsWalk
  <2>2. CASE x = 0
    BY <2>1, <2>2
  <2>3. CASE x # 0
    <3>1. 0 \in 0..(N - 1) /\ x \in (0 + 1)..N
      BY <1>1, <2>3
    <3>2. p[x] \in Beyond(p[0])
      BY <1>1, <1>7, <3>1, WalkIsBeyond
    <3>3. QED
      BY <2>1, <3>2
  <2>4. QED
    BY <2>2, <2>3
<1>11. QED
  BY <1>7, <1>9, <1>10 DEF Cyclic

-----------------------------------------------------------------------------
(* The only path.                                                          *)

(* Labels that do not begin alike: one edge at most goes on as the symbol. *)
LEMMA UniqueEdge ==
    ASSUME Given, WellFormed, NEW n \in DOMAIN trie.nodes, NEW a \in 0..Len(symbol),
           NEW k \in (a + 1)..Len(symbol), NEW l \in (a + 1)..Len(symbol),
           NEW x \in Along(n, SubSeq(symbol, a + 1, k)),
           NEW y \in Along(n, SubSeq(symbol, a + 1, l))
    PROVE  k = l /\ x = y
<1> DEFINE es == NodeAt(n).edges
<1>1. PICK i \in DOMAIN es : es[i].label = SubSeq(symbol, a + 1, k) /\ es[i].child = x
  <2>1. PICK label : label = SubSeq(symbol, a + 1, k)
    OBVIOUS
  <2>2. x \in Along(n, label)
    BY <2>1
  <2>3. \E u \in DOMAIN NodeAt(n).edges :
            /\ ~NodeAt(n).edges[u].truncated /\ NodeAt(n).edges[u].label = label
            /\ NodeAt(n).edges[u].child = x
    BY <2>2, AlongFacts
  <2>4. QED
    BY <2>1, <2>3
<1>2. PICK j \in DOMAIN es : es[j].label = SubSeq(symbol, a + 1, l) /\ es[j].child = y
  <2>1. PICK label : label = SubSeq(symbol, a + 1, l)
    OBVIOUS
  <2>2. y \in Along(n, label)
    BY <2>1
  <2>3. \E u \in DOMAIN NodeAt(n).edges :
            /\ ~NodeAt(n).edges[u].truncated /\ NodeAt(n).edges[u].label = label
            /\ NodeAt(n).edges[u].child = y
    BY <2>2, AlongFacts
  <2>4. QED
    BY <2>1, <2>3
<1>3. symbol \in Seq(STRING) /\ Len(symbol) \in Nat
  BY GivenFacts
<1>4. \A u, w \in DOMAIN es : u # w => ~IsPrefix(es[u].label, es[w].label)
  BY DEF WellFormed, NodeAt
<1>5. k \in a..Len(symbol) /\ l \in a..Len(symbol) /\ (l \in k..Len(symbol) \/ k \in l..Len(symbol))
      /\ k \in 0..Len(symbol) /\ l \in 0..Len(symbol)
  BY <1>3
<1>6. i = j
  <2>1. CASE l \in k..Len(symbol)
    <3>1. IsPrefix(SubSeq(symbol, a + 1, k), SubSeq(symbol, a + 1, l))
      BY <1>3, <1>5, <2>1, PartIsPrefix
    <3>2. QED
      BY <1>1, <1>2, <1>4, <3>1
  <2>2. CASE k \in l..Len(symbol)
    <3>1. IsPrefix(SubSeq(symbol, a + 1, l), SubSeq(symbol, a + 1, k))
      BY <1>3, <1>5, <2>2, PartIsPrefix
    <3>2. QED
      BY <1>1, <1>2, <1>4, <3>1
  <2>3. QED
    BY <1>5, <2>1, <2>2
<1>7. SubSeq(symbol, a + 1, k) = SubSeq(symbol, a + 1, l) /\ x = y
  BY <1>1, <1>2, <1>6
<1>8. Len(SubSeq(symbol, a + 1, k)) = k - a /\ Len(SubSeq(symbol, a + 1, l)) = l - a
  BY <1>3, <1>5, PartFacts
<1>9. QED
  BY <1>3, <1>5, <1>7, <1>8

(* Nothing lies between a place of the only path and where its edges lead. *)
LEMMA NothingBetween ==
    ASSUME Given, NEW c, NEW a \in 0..Len(symbol), Only(c, a), NEW b \in Nat,
           \A k \in 1..Len(symbol) : \A x : LeadsTo(<<c, a>>, k, x) => k >= b
    PROVE  \A p \in Spells : p[2] > a => p[2] >= b
<1>1. Len(symbol) \in Nat
  BY GivenFacts
<1>2. \A p \in Spells : IsPair(p, Len(symbol))
  BY SpellsFacts
<1> DEFINE D == {d \in Nat : d > a /\ d < b /\ \E p \in Spells : p[2] = d}
<1>3. D = {}
  <2> SUFFICES ASSUME D # {} PROVE FALSE
    OBVIOUS
  <2>1. PICK d \in D : \A x \in D : d <= x
    BY NatMin
  <2>2. PICK p \in Spells : p[2] = d
    BY <2>1
  <2>3. d \in Nat /\ d > a /\ d < b /\ a \in Nat
    BY <1>1, <2>1
  <2>4. d \in 1..Len(symbol) /\ p # <<Root, 0>>
    BY <1>1, <1>2, <2>2, <2>3 DEF IsPair
  <2>5. PICK q \in Spells : LeadsTo(q, d, p[1])
    BY <2>2, <2>4, SpellsFacts
  <2>6. q[2] < d /\ q[2] \in Nat /\ q = <<q[1], q[2]>>
    BY <1>2, <2>5 DEF LeadsTo, IsPair
  <2>7. CASE q[2] < a
    <3>1. d <= a
      BY <2>4, <2>5, <2>7 DEF Only
    <3>2. QED
      BY <2>3, <3>1
  <2>8. CASE q[2] = a
    <3>1. q[1] = c
      BY <2>5, <2>8 DEF Only
    <3>2. LeadsTo(<<c, a>>, d, p[1])
      BY <2>5, <2>6, <2>8, <3>1
    <3>3. QED
      BY <2>3, <2>4, <3>2
  <2>9. CASE q[2] > a
    <3>1. q[2] \in D
      BY <2>3, <2>6, <2>9
    <3>2. QED
      BY <2>1, <2>3, <2>6, <3>1
  <2>10. QED
    BY <2>3, <2>6, <2>7, <2>8, <2>9
<1>4. SUFFICES ASSUME NEW p \in Spells, p[2] > a, ~(p[2] >= b) PROVE FALSE
  OBVIOUS
<1>5. p[2] \in Nat
  BY <1>1, <1>2 DEF IsPair
<1>6. p[2] \in D
  BY <1>4, <1>5
<1>7. QED
  BY <1>3, <1>6

(* The only path goes on along the only edge.                              *)
LEMMA OnlyStep ==
    ASSUME Given, WellFormed, NEW c, NEW a \in 0..Len(symbol), Only(c, a),
           NEW k \in 1..Len(symbol), NEW x, LeadsTo(<<c, a>>, k, x)
    PROVE  Only(x, k)
<1>1. Len(symbol) \in Nat
  BY GivenFacts
<1>2. c \in DOMAIN trie.nodes /\ a < k /\ x \in Along(c, SubSeq(symbol, a + 1, k))
  BY DEF LeadsTo
<1>3. \A l \in 1..Len(symbol) : \A y : LeadsTo(<<c, a>>, l, y) => l = k /\ y = x
  <2> SUFFICES ASSUME NEW l \in 1..Len(symbol), NEW y, LeadsTo(<<c, a>>, l, y)
               PROVE  l = k /\ y = x
    OBVIOUS
  <2>1. a < l /\ y \in Along(c, SubSeq(symbol, a + 1, l))
    BY DEF LeadsTo
  <2>2. k \in (a + 1)..Len(symbol) /\ l \in (a + 1)..Len(symbol)
    BY <1>1, <1>2, <2>1
  <2>3. QED
    BY <1>2, <2>1, <2>2, UniqueEdge
<1>4. \A p \in Spells : p[2] > a => p[2] >= k
  BY <1>1, <1>3, NothingBetween
<1>5. \A p \in Spells : IsPair(p, Len(symbol))
  BY SpellsFacts
<1>6. ASSUME NEW p \in Spells, p[2] = k
      PROVE  p[1] = x
  <2>1. p # <<Root, 0>>
    BY <1>6
  <2>2. PICK q \in Spells : LeadsTo(q, k, p[1])
    BY <1>6, <2>1, SpellsFacts
  <2>3. q[2] < k /\ q[2] \in Nat /\ q = <<q[1], q[2]>>
    BY <1>5, <2>2 DEF LeadsTo, IsPair
  <2>4. ~(q[2] > a)
    BY <1>4, <2>3
  <2>5. ~(q[2] < a)
    BY <1>1, <1>2, <2>2 DEF Only
  <2>6. q[2] = a
    BY <1>1, <2>3, <2>4, <2>5
  <2>7. q = <<c, a>>
    BY <2>3, <2>6 DEF Only
  <2>8. QED
    BY <1>3, <2>2, <2>7
<1>7. ASSUME NEW p \in Spells, p[2] < k, NEW l \in 1..Len(symbol), NEW y, LeadsTo(p, l, y)
      PROVE  l <= k
  <2>1. p[2] \in Nat /\ p = <<p[1], p[2]>>
    BY <1>5 DEF IsPair
  <2>2. ~(p[2] > a)
    BY <1>4, <1>7, <2>1
  <2>3. CASE p[2] < a
    <3>1. l <= a
      BY <1>7, <2>3 DEF Only
    <3>2. QED
      BY <1>1, <1>2, <3>1
  <2>4. CASE p[2] = a
    <3>1. p = <<c, a>>
      BY <2>1, <2>4 DEF Only
    <3>2. QED
      BY <1>3, <1>7, <3>1
  <2>5. QED
    BY <1>1, <2>1, <2>2, <2>3, <2>4
<1>8. QED
  BY <1>6, <1>7 DEF Only

-----------------------------------------------------------------------------
(* The steps.                                                              *)

(* The edge that is followed carries the next characters of the symbol.    *)
LEMMA MatchLeadsTo ==
    ASSUME Typed, current_node_offset \in DOMAIN trie.nodes,
           NEW i \in DOMAIN Node.edges, EdgeMatches(Node.edges[i]),
           NEW e, e = Node.edges[i]
    PROVE  /\ Pos + Len(e.label) \in 1..Len(symbol) /\ e.child \in Nat
           /\ e.child \in Targets(current_node_offset)
           /\ LeadsTo(<<current_node_offset, Pos>>, Pos + Len(e.label), e.child)
           /\ SubSeq(remaining_suffix, Len(e.label) + 1, Len(remaining_suffix))
                 = SubSeq(symbol, Pos + Len(e.label) + 1, Len(symbol))
<1>1. PICK n : n = current_node_offset
  OBVIOUS
<1>2. PICK a : a = Pos
  OBVIOUS
<1>3. PICK label : label = e.label
  OBVIOUS
<1>4. /\ Given /\ symbol \in Seq(STRING) /\ Len(symbol) \in Nat /\ a \in 0..Len(symbol)
      /\ remaining_suffix = SubSeq(symbol, a + 1, Len(symbol))
  BY <1>2, GivenFacts DEF Typed
<1>5. e.label \in Seq(STRING) /\ e.child \in Nat
  BY <1>4, EdgeFacts DEF Node, NodeAt
<1>6. label \in Seq(STRING) /\ ~e.truncated /\ label # << >> /\ IsPrefix(label, remaining_suffix)
  BY <1>3, <1>5 DEF EdgeMatches
<1>7. /\ a + Len(label) \in a..Len(symbol) /\ label = SubSeq(symbol, a + 1, a + Len(label))
      /\ SubSeq(remaining_suffix, Len(label) + 1, Len(remaining_suffix))
            = SubSeq(symbol, a + Len(label) + 1, Len(symbol))
  BY <1>4, <1>6, PrefixIsPart
<1>8. Len(label) \in Nat \ {0}
  BY <1>6
<1>9. a + Len(label) \in 1..Len(symbol) /\ a < a + Len(label)
  BY <1>4, <1>7, <1>8
<1>10. e.child \in Along(n, label)
  <2>1. n \in DOMAIN trie.nodes /\ i \in DOMAIN NodeAt(n).edges /\ NodeAt(n).edges[i] = e
    BY <1>1 DEF Node, NodeAt
  <2>2. QED
    BY <1>3, <1>4, <1>6, <2>1, AlongFacts
<1>11. LeadsTo(<<n, a>>, a + Len(label), e.child)
  <2>1. e.child \in Along(n, SubSeq(symbol, a + 1, a + Len(label)))
    BY <1>7, <1>10
  <2>2. QED
    BY <1>1, <1>9, <2>1 DEF LeadsTo
<1>12. e.child \in Targets(current_node_offset)
  BY DEF Targets, Node
<1>13. QED
  BY <1>1, <1>2, <1>3, <1>5, <1>7, <1>9, <1>11, <1>12

(* Taking an edge extends the path by one node and its label.              *)
LEMMA FollowPreserves ==
    ASSUME IInv, FollowEdge
    PROVE  IInv'
<1>1. /\ Typed /\ Given /\ outcome = "walking" /\ visit_budget \in Nat /\ visit_budget > 0
      /\ current_node_offset \in DOMAIN trie.nodes /\ ChildEdge > 0
      /\ visit_budget' = visit_budget - 1 /\ UNCHANGED <<trie, symbol, outcome>>
      /\ trie.length \in Nat /\ visit_budget \in 0..trie.length
      /\ Len(symbol) \in Nat /\ symbol \in Seq(STRING)
  <2>1. Typed /\ Given /\ visit_budget \in 0..trie.length
    BY DEF IInv, Typed
  <2>2. trie.length \in Nat /\ Len(symbol) \in Nat /\ symbol \in Seq(STRING)
    BY <2>1, GivenFacts
  <2>3. visit_budget \in Nat
    BY <2>1, <2>2
  <2>4. QED
    BY <2>1, <2>2, <2>3 DEF FollowEdge, Visit
<1>2. ChildEdge \in DOMAIN Node.edges /\ EdgeMatches(Node.edges[ChildEdge])
  BY <1>1, ChildEdgeFacts
<1>3. PICK e : e = Node.edges[ChildEdge]
  OBVIOUS
<1>4. PICK k : k = Pos + Len(e.label)
  OBVIOUS
<1>5. /\ remaining_suffix' = SubSeq(remaining_suffix, Len(e.label) + 1, Len(remaining_suffix))
      /\ current_node_offset' = e.child
  BY <1>3 DEF FollowEdge
<1>6. /\ k \in 1..Len(symbol) /\ e.child \in Nat /\ e.child \in Targets(current_node_offset)
      /\ LeadsTo(<<current_node_offset, Pos>>, k, e.child)
      /\ remaining_suffix' = SubSeq(symbol, k + 1, Len(symbol))
  BY <1>1, <1>2, <1>3, <1>4, <1>5, MatchLeadsTo
<1>7. k \in 0..Len(symbol) /\ Len(symbol) \in 0..Len(symbol)
  BY <1>1, <1>6
<1>8. Len(remaining_suffix') = Len(symbol) - k
  BY <1>1, <1>6, <1>7, PartFacts
<1>9. Pos' = k
  BY <1>1, <1>7, <1>8 DEF Pos
<1>10. Typed'
  <2>1. Given'
    BY <1>1, SameTrie
  <2>2. visit_budget' \in 0..trie'.length
    BY <1>1
  <2>3. QED
    BY <1>1, <1>5, <1>6, <1>7, <1>9, <2>1, <2>2 DEF Typed
<1>11. OnPath'
  <2>1. <<current_node_offset, Pos>> \in Spells
    BY DEF IInv, OnPath
  <2>2. <<e.child, k>> \in Spells
    BY <1>1, <1>6, <2>1, SpellsFacts
  <2>3. QED
    BY <1>1, <1>5, <1>9, <2>2, SameTrie DEF OnPath
<1>12. OnlyPath'
  <2>1. CASE WellFormed
    <3>1. Only(current_node_offset, Pos) /\ Pos \in 0..Len(symbol)
      BY <1>1, <2>1 DEF IInv, OnlyPath, Typed
    <3>2. Only(e.child, k)
      BY <1>1, <1>6, <2>1, <3>1, OnlyStep
    <3>3. Only(current_node_offset, Pos)'
      <4>1. \A p, l, x : LeadsTo(p, l, x)' = LeadsTo(p, l, x)
        BY <1>1, SameTrie DEF LeadsTo
      <4>2. Spells' = Spells
        BY <1>1, SameTrie
      <4>3. QED
        BY <1>1, <1>5, <1>9, <3>2, <4>1, <4>2 DEF Only
    <3>4. QED
      BY <3>3 DEF OnlyPath
  <2>2. CASE ~WellFormed
    BY <1>1, <2>2, SameTrie DEF OnlyPath
  <2>3. QED
    BY <2>1, <2>2
<1>13. Walked'
  <2>1. PICK v : v = trie.length - visit_budget
    OBVIOUS
  <2>2. v \in Nat /\ v + 1 = trie'.length - visit_budget'
    BY <1>1, <2>1
  <2>3. PICK p : IsWalk(p, v) /\ p[v] = current_node_offset
    BY <1>1, <2>1 DEF IInv, Walked
  <2>4. PICK q : q = [i \in 0..(v + 1) |-> IF i = v + 1 THEN e.child ELSE p[i]]
    OBVIOUS
  <2>5. /\ p \in [0..v -> Nat] /\ p[0] = Root
        /\ \A i \in 0..(v - 1) : p[i] \in DOMAIN trie.nodes /\ p[i + 1] \in Targets(p[i])
    BY <2>3 DEF IsWalk
  <2>6. /\ \A i \in 0..v : q[i] = p[i] /\ i # v + 1
        /\ q[v + 1] = e.child /\ v \in 0..v /\ 0 \in 0..v
    BY <2>2, <2>4
  <2>7. q \in [0..(v + 1) -> Nat]
    BY <1>6, <2>2, <2>4, <2>5
  <2>8. ASSUME NEW i \in 0..v
        PROVE  q[i] \in DOMAIN trie.nodes /\ q[i + 1] \in Targets(q[i])
    <3>1. CASE i = v
      BY <1>1, <1>6, <2>3, <2>6, <3>1
    <3>2. CASE i # v
      <4>1. i \in 0..(v - 1) /\ i + 1 \in 0..v
        BY <2>2, <3>2
      <4>2. QED
        BY <2>5, <2>6, <4>1
    <3>3. QED
      BY <3>1, <3>2
  <2>9. v + 1 - 1 = v
    BY <2>2
  <2>10. IsWalk(q, v + 1)
    BY <2>5, <2>6, <2>7, <2>8, <2>9 DEF IsWalk
  <2>11. IsWalk(q, v + 1)'
    BY <1>1, <2>10, SameTrie DEF IsWalk
  <2>12. QED
    BY <1>5, <2>2, <2>6, <2>11 DEF Walked, IsWalk
<1>14. TerminalIsSpelled' /\ BudgetEndsOnlyCycles' /\ ExportedIsFound'
  BY <1>1 DEF TerminalIsSpelled, BudgetEndsOnlyCycles, ExportedIsFound, NoneReasons
<1>15. QED
  BY <1>10, <1>11, <1>12, <1>13, <1>14 DEF IInv

(* The end of a walk, whatever the reason, keeps what is known of it.      *)
LEMMA EndPreserves ==
    ASSUME IInv, UNCHANGED <<trie, symbol, current_node_offset, remaining_suffix>>,
           visit_budget' \in 0..trie.length, outcome' # "walking",
           outcome' \notin NoneReasons => outcome' \in Exported,
           outcome' = "out of budget" => Cyclic \/ trie.length = 0,
           outcome' \in NoneReasons /\ WellFormed => Exported \subseteq {"malformed"}
    PROVE  IInv'
<1>1. /\ Given' = Given /\ Spells' = Spells /\ Exported' = Exported
      /\ WellFormed' = WellFormed /\ Cyclic' = Cyclic
  BY SameTrie
<1>2. \A p, l, x : LeadsTo(p, l, x)' = LeadsTo(p, l, x)
  BY SameTrie DEF LeadsTo
<1>3. Typed'
  BY <1>1 DEF IInv, Typed, Pos
<1>4. OnPath'
  BY <1>1 DEF IInv, OnPath, Pos
<1>5. OnlyPath'
  <2>1. Pos' = Pos
    BY DEF Pos
  <2>2. OnlyPath
    BY DEF IInv
  <2>3. Only(current_node_offset, Pos) => Only(current_node_offset, Pos)'
    BY <1>1, <1>2, <2>1 DEF Only
  <2>4. QED
    BY <1>1, <2>2, <2>3 DEF OnlyPath
<1>6. Walked'
  BY DEF Walked
<1>7. TerminalIsSpelled' /\ BudgetEndsOnlyCycles' /\ ExportedIsFound'
  BY <1>1 DEF TerminalIsSpelled, BudgetEndsOnlyCycles, ExportedIsFound, NoneReasons
<1>8. QED
  BY <1>3, <1>4, <1>5, <1>6, <1>7 DEF IInv

(* At the end of the symbol, or where no edge goes on, the walk is at the  *)
(* only node that the symbol can lead to.                                  *)
LEMMA SpelledHere ==
    ASSUME IInv, WellFormed, NEW n \in Spelled,
           \/ Pos = Len(symbol)
           \/ \A k \in 1..Len(symbol) : \A x : ~LeadsTo(<<current_node_offset, Pos>>, k, x)
    PROVE  n = current_node_offset /\ Pos = Len(symbol)
<1>1. Given /\ Pos \in 0..Len(symbol) /\ Only(current_node_offset, Pos)
  BY DEF IInv, Typed, OnlyPath
<1>2. Len(symbol) \in Nat
  BY <1>1, GivenFacts
<1>3. PICK p \in Spells : p[2] = Len(symbol) /\ n = p[1]
  BY DEF Spelled
<1>4. Pos = Len(symbol)
  <2>1. CASE \A k \in 1..Len(symbol) : \A x : ~LeadsTo(<<current_node_offset, Pos>>, k, x)
    <3>1. PICK a : a = Pos
      OBVIOUS
    <3>2. PICK c : c = current_node_offset
      OBVIOUS
    <3>3. Len(symbol) + 1 \in Nat /\ a \in 0..Len(symbol) /\ Only(c, a)
          /\ \A k \in 1..Len(symbol) : \A x : ~LeadsTo(<<c, a>>, k, x)
      BY <1>1, <1>2, <2>1, <3>1, <3>2
    <3>4. \A q \in Spells : q[2] > a => q[2] >= Len(symbol) + 1
      BY <1>1, <3>3, NothingBetween
    <3>5. ~(Len(symbol) > a)
      BY <1>2, <1>3, <3>4
    <3>6. QED
      BY <1>2, <3>1, <3>3, <3>5
  <2>2. QED
    BY <2>1
<1>5. QED
  BY <1>1, <1>3, <1>4 DEF Only

(* As many visits as bytes repeat a node: the walk went around a cycle.    *)
LEMMA OutOfBudgetPreserves ==
    ASSUME IInv, OutOfBudget
    PROVE  IInv'
<1>1. /\ Given /\ outcome = "walking" /\ visit_budget = 0 /\ outcome' = "out of budget"
      /\ UNCHANGED <<trie, symbol, current_node_offset, remaining_suffix, visit_budget>>
      /\ visit_budget \in 0..trie.length
  BY DEF IInv, Typed, OutOfBudget, Return
<1>2. trie.length \in Nat /\ DOMAIN trie.nodes \subseteq 0..(trie.length - 2)
  BY <1>1, GivenFacts
<1>3. trie.length # 0 => Cyclic
  <2>1. PICK p : IsWalk(p, trie.length - visit_budget)
    BY <1>1 DEF IInv, Walked
  <2>2. trie.length - visit_budget = trie.length
    <3>1. visit_budget = 0 /\ trie.length \in Nat
      BY <1>1, <1>2
    <3>2. QED
      BY <3>1
  <2>3. IsWalk(p, trie.length)
    BY <2>1, <2>2
  <2>4. QED
    BY <1>1, <2>3, LongWalkIsCyclic
<1>4. WellFormed => Exported = {}
  <2>1. WellFormed => trie.length = 0
    BY <1>3 DEF WellFormed
  <2>2. trie.length = 0 => DOMAIN trie.nodes = {}
    BY <1>2
  <2>3. QED
    BY <2>1, <2>2 DEF Exported
<1>5. QED
  BY <1>1, <1>3, <1>4, EndPreserves DEF NoneReasons

(* A visit that ends the walk.                                             *)
LEMMA VisitFacts ==
    ASSUME IInv, Visit
    PROVE  /\ Given /\ outcome = "walking" /\ visit_budget' \in 0..trie.length
           /\ Pos \in 0..Len(symbol) /\ symbol \in Seq(STRING) /\ Len(symbol) \in Nat
           /\ remaining_suffix = SubSeq(symbol, Pos + 1, Len(symbol))
<1>1. /\ Given /\ outcome = "walking" /\ visit_budget > 0 /\ visit_budget' = visit_budget - 1
      /\ visit_budget \in 0..trie.length /\ Pos \in 0..Len(symbol)
      /\ remaining_suffix = SubSeq(symbol, Pos + 1, Len(symbol))
  BY DEF IInv, Typed, Visit
<1>2. trie.length \in Nat /\ symbol \in Seq(STRING) /\ Len(symbol) \in Nat
  BY <1>1, GivenFacts
<1>3. visit_budget' \in 0..trie.length
  BY <1>1, <1>2
<1>4. QED
  BY <1>1, <1>2, <1>3

(* A node that cannot be decoded is on no path of a well-formed trie.      *)
LEMMA BadNodePreserves ==
    ASSUME IInv, BadNode
    PROVE  IInv'
<1>1. /\ visit_budget' \in 0..trie.length /\ outcome' = "bad node"
      /\ UNCHANGED <<trie, symbol, current_node_offset, remaining_suffix>>
      /\ current_node_offset \notin DOMAIN trie.nodes
  BY VisitFacts DEF BadNode, Return
<1>2. \A k, x : ~LeadsTo(<<current_node_offset, Pos>>, k, x)
  BY <1>1 DEF LeadsTo
<1>3. WellFormed => Exported = {}
  BY <1>1, <1>2, SpelledHere DEF Exported
<1>4. QED
  BY <1>1, <1>3, EndPreserves DEF NoneReasons

(* In a well-formed trie a node without a matching edge ends the only      *)
(* path.                                                                   *)
LEMMA NoEdgePreserves ==
    ASSUME IInv, NoEdge
    PROVE  IInv'
<1>1. /\ visit_budget' \in 0..trie.length /\ outcome' = "no edge" /\ Given
      /\ UNCHANGED <<trie, symbol, current_node_offset, remaining_suffix>>
      /\ current_node_offset \in DOMAIN trie.nodes /\ ~AtTerminal /\ ChildEdge = 0
      /\ Pos \in 0..Len(symbol) /\ symbol \in Seq(STRING) /\ Len(symbol) \in Nat
      /\ remaining_suffix = SubSeq(symbol, Pos + 1, Len(symbol))
  BY VisitFacts DEF NoEdge, Return
<1>0. Len(symbol) \in Nat /\ Pos \in 0..Len(symbol)
  BY <1>1
<1>00. Given
  BY <1>1
<1>2. ASSUME WellFormed, NEW k \in 1..Len(symbol), NEW x,
             LeadsTo(<<current_node_offset, Pos>>, k, x)
      PROVE  FALSE
  <2>1. \A i \in DOMAIN Node.edges : ~Node.edges[i].truncated
    BY <1>1, <1>2 DEF WellFormed, Node
  <2>2. \A i \in DOMAIN Node.edges : ~EdgeMatches(Node.edges[i])
    BY <1>1, <2>1, ChildEdgeFacts
  <2>3. PICK label : label = SubSeq(symbol, Pos + 1, k)
    OBVIOUS
  <2>4. x \in Along(current_node_offset, label) /\ Pos < k
    BY <1>2, <2>3 DEF LeadsTo
  <2>5. PICK n : n = current_node_offset
    OBVIOUS
  <2>6. x \in Along(n, label) /\ n \in DOMAIN trie.nodes
    BY <1>1, <2>4, <2>5
  <2>7. \E i \in DOMAIN NodeAt(n).edges :
            /\ ~NodeAt(n).edges[i].truncated /\ NodeAt(n).edges[i].label = label
            /\ NodeAt(n).edges[i].child = x
    BY <1>00, <2>6, AlongFacts
  <2>8. PICK i \in DOMAIN Node.edges : Node.edges[i].label = label
    BY <2>5, <2>7 DEF Node, NodeAt
  <2>9. PICK a : a = Pos
    OBVIOUS
  <2>10. /\ a \in 0..Len(symbol) /\ k \in a..Len(symbol) /\ Len(symbol) \in k..Len(symbol)
         /\ k \in 0..Len(symbol) /\ a < k
    BY <1>0, <2>4, <2>9
  <2>11. IsPrefix(label, remaining_suffix)
    BY <1>1, <2>3, <2>9, <2>10, PartIsPrefix
  <2>12. Len(label) = k - a
    BY <1>1, <2>3, <2>9, <2>10, PartFacts
  <2>13. label # << >>
    BY <1>0, <2>10, <2>12
  <2>14. EdgeMatches(Node.edges[i])
    BY <2>1, <2>8, <2>11, <2>13 DEF EdgeMatches
  <2>15. QED
    BY <2>2, <2>14
<1>3. ASSUME WellFormed, NEW n \in Spelled
      PROVE  n = current_node_offset /\ trie.nodes[n].terminal = "none"
  <2>1. n = current_node_offset /\ Pos = Len(symbol)
    BY <1>2, <1>3, SpelledHere
  <2>2. remaining_suffix = << >>
    <3>1. Len(symbol) + 1 \in Int /\ Len(symbol) \in Int /\ Len(symbol) < Len(symbol) + 1
      BY <1>0
    <3>2. SubSeq(symbol, Len(symbol) + 1, Len(symbol)) = << >>
      BY <3>1, SubSeqEmpty
    <3>3. QED
      BY <1>1, <2>1, <3>2
  <2>3. QED
    BY <1>1, <2>1, <2>2 DEF AtTerminal, Node
<1>4. WellFormed => Exported = {}
  BY <1>3 DEF Exported
<1>5. QED
  BY <1>1, <1>4, EndPreserves DEF NoneReasons

(* The terminal returned belongs to a node that the symbol spells.         *)
LEMMA ReadTerminalPreserves ==
    ASSUME IInv, ReadTerminal
    PROVE  IInv'
<1>1. /\ visit_budget' \in 0..trie.length /\ outcome' = Node.terminal /\ Given
      /\ UNCHANGED <<trie, symbol, current_node_offset, remaining_suffix>>
      /\ current_node_offset \in DOMAIN trie.nodes /\ Node.terminal # "none"
      /\ remaining_suffix = << >> /\ Len(symbol) \in Nat
  BY VisitFacts DEF ReadTerminal, Return, AtTerminal
<1>2. Pos = Len(symbol)
  BY <1>1 DEF Pos
<1>3. current_node_offset \in Spelled
  <2>1. <<current_node_offset, Len(symbol)>> \in Spells
    BY <1>2 DEF IInv, OnPath
  <2>2. QED
    BY <2>1 DEF Spelled
<1>4. Node.terminal \in Exported
  BY <1>1, <1>3 DEF Exported, Node
<1>5. Node.terminal \notin {"walking", "out of budget", "bad node", "no edge"}
  BY <1>1, GivenFacts DEF Node, NodeAt
<1>6. WellFormed => Exported \subseteq {Node.terminal}
  BY <1>2, SpelledHere DEF Exported, Node
<1>7. outcome' \in NoneReasons => Node.terminal = "malformed"
  BY <1>1, <1>5 DEF NoneReasons
<1>8. QED
  BY <1>1, <1>4, <1>5, <1>6, <1>7, EndPreserves

-----------------------------------------------------------------------------
(* The theorems.                                                           *)

(* The walk starts at the root with nothing spelled.                       *)
LEMMA InitIInv == Init => IInv
<1> SUFFICES ASSUME Init PROVE IInv
  OBVIOUS
<1>1. /\ Given /\ current_node_offset = Root /\ remaining_suffix = symbol
      /\ visit_budget = trie.length /\ outcome = "walking"
  BY DEF Init, Given
<1>2. trie.length \in Nat /\ symbol \in Seq(STRING) /\ Len(symbol) \in Nat
  BY <1>1, GivenFacts
<1>3. Pos = 0
  BY <1>1, <1>2 DEF Pos
<1>4. Typed
  <2>1. SubSeq(symbol, 1, Len(symbol)) = symbol
    BY <1>2, SubSeqFull
  <2>2. visit_budget \in 0..trie.length /\ 0 \in 0..Len(symbol) /\ 0 + 1 = 1
    BY <1>1, <1>2
  <2>3. QED
    BY <1>1, <1>3, <2>1, <2>2 DEF Typed, Root
<1>5. OnPath
  BY <1>1, <1>3, SpellsFacts DEF OnPath
<1>6. Only(Root, 0)
  <2>1. \A p \in Spells : IsPair(p, Len(symbol))
    BY <1>1, SpellsFacts
  <2>2. \A p \in Spells : p[2] \in Nat
    BY <1>2, <2>1 DEF IsPair
  <2>3. ASSUME NEW p \in Spells, p[2] = 0
        PROVE  p[1] = Root
    <3>1. SUFFICES ASSUME p # <<Root, 0>> PROVE FALSE
      OBVIOUS
    <3>2. PICK q \in Spells : LeadsTo(q, 0, p[1])
      BY <1>1, <2>3, <3>1, SpellsFacts
    <3>3. q[2] < 0 /\ q[2] \in Nat
      BY <2>2, <3>2 DEF LeadsTo
    <3>4. QED
      BY <3>3
  <2>4. \A p \in Spells : ~(p[2] < 0)
    BY <2>2
  <2>5. QED
    BY <2>3, <2>4 DEF Only
<1>7. OnlyPath
  BY <1>1, <1>3, <1>6 DEF OnlyPath
<1>8. Walked
  <2>1. PICK p : p = [i \in 0..0 |-> Root]
    OBVIOUS
  <2>2. trie.length - visit_budget = 0
    BY <1>1, <1>2
  <2>3. p \in [0..0 -> Nat] /\ p[0] = Root
    BY <2>1 DEF Root
  <2>4. IsWalk(p, 0)
    BY <2>3 DEF IsWalk
  <2>5. QED
    BY <1>1, <2>2, <2>3, <2>4 DEF Walked
<1>9. TerminalIsSpelled /\ BudgetEndsOnlyCycles /\ ExportedIsFound
  BY <1>1 DEF TerminalIsSpelled, BudgetEndsOnlyCycles, ExportedIsFound, NoneReasons
<1>10. QED
  BY <1>4, <1>5, <1>7, <1>8, <1>9 DEF IInv

(* Every step of the walk keeps the invariant.                             *)
LEMMA NextIInv == IInv /\ [Next]_vars => IInv'
<1> SUFFICES ASSUME IInv, [Next]_vars PROVE IInv'
  OBVIOUS
<1>1. CASE Ended \/ UNCHANGED vars
  <2>1. /\ UNCHANGED <<trie, symbol, current_node_offset, remaining_suffix>>
        /\ visit_budget' = visit_budget /\ outcome' = outcome
    BY <1>1 DEF Ended, vars
  <2>2. CASE outcome = "walking"
    <3>1. /\ Given' = Given /\ Spells' = Spells
          /\ WellFormed' = WellFormed
      BY <2>1, SameTrie
    <3>2. (\A p, l, x : LeadsTo(p, l, x)' = LeadsTo(p, l, x)) /\ Pos' = Pos
      BY <2>1, SameTrie DEF LeadsTo, Pos
    <3>3. Typed' /\ OnPath'
      BY <2>1, <3>1, <3>2 DEF IInv, Typed, OnPath
    <3>4. Only(current_node_offset, Pos) => Only(current_node_offset, Pos)'
      BY <2>1, <3>1, <3>2 DEF Only
    <3>5. OnlyPath'
      BY <3>1, <3>4 DEF IInv, OnlyPath
    <3>6. \A p, v : IsWalk(p, v)' = IsWalk(p, v)
      BY <2>1, SameTrie DEF IsWalk
    <3>7. Walked'
      <4>1. PICK p : /\ IsWalk(p, trie.length - visit_budget)
                     /\ p[trie.length - visit_budget] = current_node_offset
        BY <2>2 DEF IInv, Walked
      <4>2. PICK v : v = trie.length - visit_budget
        OBVIOUS
      <4>3. IsWalk(p, v)' /\ p[v] = current_node_offset' /\ v = trie'.length - visit_budget'
        BY <2>1, <3>6, <4>1, <4>2
      <4>4. QED
        BY <4>3 DEF Walked, IsWalk
    <3>8. TerminalIsSpelled' /\ BudgetEndsOnlyCycles' /\ ExportedIsFound'
      BY <2>1, <2>2 DEF TerminalIsSpelled, BudgetEndsOnlyCycles, ExportedIsFound, NoneReasons
    <3>9. QED
      BY <3>3, <3>5, <3>7, <3>8 DEF IInv
  <2>3. CASE outcome # "walking"
    BY <2>1, <2>3, EndPreserves
    DEF IInv, Typed, TerminalIsSpelled, BudgetEndsOnlyCycles, ExportedIsFound
  <2>4. QED
    BY <2>2, <2>3
<1>2. QED
  BY <1>1, FollowPreserves, OutOfBudgetPreserves, BadNodePreserves, NoEdgePreserves,
     ReadTerminalPreserves DEF Next

(* Where the walk is, and what it has returned, for every trie and symbol. *)
THEOREM WalkInvariant == Spec => []IInv
  BY InitIInv, NextIInv, PTL DEF Spec

(* exports_trie_walk_for_symbol keeps a suffix of the symbol, and its      *)
(* visit_budget, a usize, never goes below 0.                              *)
THEOREM WalkTypes == Spec => []TypeOK
<1>1. IInv => TypeOK
  <2> SUFFICES ASSUME IInv PROVE TypeOK
    OBVIOUS
  <2>1. /\ Given /\ visit_budget \in 0..trie.length /\ current_node_offset \in Nat
        /\ remaining_suffix = SubSeq(symbol, Pos + 1, Len(symbol))
    BY DEF IInv, Typed
  <2>2. PICK a : a = Pos
    OBVIOUS
  <2>3. a \in 0..Len(symbol) /\ a = Len(symbol) - Len(remaining_suffix)
    BY <2>2 DEF IInv, Typed, Pos
  <2>4. symbol \in Seq(STRING) /\ Len(symbol) \in Nat
    BY <2>1, GivenFacts
  <2>5. Len(symbol) \in 0..Len(symbol)
    BY <2>4
  <2>6. Len(remaining_suffix) = IF a < Len(symbol) THEN Len(symbol) - a ELSE 0
    BY <2>1, <2>2, <2>3, <2>4, <2>5, PartFacts
  <2>7. Len(remaining_suffix) <= Len(symbol)
    BY <2>3, <2>4, <2>6
  <2>8. QED
    BY <2>1, <2>2, <2>3, <2>7 DEF TypeOK
<1>2. QED
  BY <1>1, WalkInvariant, PTL

(* exports_trie_walk_for_symbol never takes one symbol for another: in any *)
(* trie, malformed or cyclic, the terminal it returns is one that the      *)
(* symbol spells.                                                          *)
THEOREM ReturnsSpelledTerminal == Spec => []TerminalIsSpelled
<1>1. IInv => TerminalIsSpelled
  BY DEF IInv
<1>2. QED
  BY <1>1, WalkInvariant, PTL

(* visit_budget: a walk that uses up one visit per byte of a trie has gone *)
(* around a cycle, or the trie has no bytes.                               *)
THEOREM BudgetIsEnough == Spec => []BudgetEndsOnlyCycles
<1>1. IInv => BudgetEndsOnlyCycles
  BY DEF IInv
<1>2. QED
  BY <1>1, WalkInvariant, PTL

(* child_edge_matching_prefix_find takes the first edge that matches and   *)
(* never goes back: in a trie as the linker writes it, None is returned    *)
(* only for symbols that are not exported.                                 *)
THEOREM FindsWhatIsExported == Spec => []ExportedIsFound
<1>1. IInv => ExportedIsFound
  BY DEF IInv
<1>2. QED
  BY <1>1, WalkInvariant, PTL

=============================================================================
