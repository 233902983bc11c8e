---------------------------- MODULE MCExportsTrie ----------------------------
(* Every trie of a root and two nodes with few labels, malformed ones and  *)
(* cycles included, and symbols on, off and beyond its paths.              *)
EXTENDS ExportsTrie

Edge(l, c) == [label |-> l, child |-> c, truncated |-> FALSE]
Truncated == [label |-> <<>>, child |-> Root, truncated |-> TRUE]

(* 9 is no node.  An empty label, and labels that begin alike.             *)
RootEdges ==
    LET e == {Edge(l, c) : l \in {<<"a">>, <<"a", "b">>, <<"b">>}, c \in {1, 2}}
                \cup {Edge(<<>>, 1), Edge(<<"a">>, 9), Truncated}
    IN  {<<>>} \cup {<<p>> : p \in e} \cup {<<p, q>> : p, q \in e}
InnerEdges ==
    {<<>>, <<Truncated>>} \cup {<<Edge(<<l>>, c)>> : l \in {"a", "b"}, c \in {0, 1, 2}}

(* The bytes of a node: the size of the payload, the payload, the number   *)
(* of edges, and for each its label, a zero and an offset.                 *)
Bytes(n) ==
    2 + (IF n.terminal = "none" THEN 0 ELSE 2)
      + FoldSeq(LAMBDA e, sum : sum + Len(e.label) + 2, 0, n.edges)

TrieOf(root, one, two) ==
    [length |-> Bytes(root) + Bytes(one) + Bytes(two),
     nodes |-> [n \in 0..2 |-> <<root, one, two>>[n + 1]]]

(* A library that exports nothing may have a trie of no bytes.             *)
EmptyTrie == [length |-> 0, nodes |-> <<>>]

AllTries ==
    {EmptyTrie} \cup
    {TrieOf([terminal |-> "none", edges |-> r], [terminal |-> t, edges |-> e],
            [terminal |-> u, edges |-> f]) :
        r \in RootEdges, t \in {"none", "one"}, e \in InnerEdges,
        u \in {"two", "malformed"}, f \in InnerEdges}

(* The last one is longer than any of these tries has bytes.               *)
AllSymbols ==
    {<<>>, <<"a">>, <<"a", "b">>, <<"b", "a">>, <<"a", "a", "b">>,
     [i \in 1..30 |-> "a"]}
=============================================================================
