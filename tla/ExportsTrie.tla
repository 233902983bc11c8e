----------------------------- MODULE ExportsTrie -----------------------------
(***************************************************************************)
(* exports_trie_walk_for_symbol (macho_image.rs): the walk of an exports   *)
(* trie that may be malformed, from the root along the edges whose labels  *)
(* spell the symbol, with one visit per byte of the trie.                  *)
(*                                                                         *)
(* A trie is its length in bytes and what TrieNodeReader decodes at each   *)
(* offset: a terminal and the child edges in order.  An offset outside     *)
(* DOMAIN nodes is past the end or cannot be decoded.  A label is a        *)
(* sequence of characters; an edge that the bytes end in is truncated.     *)
(***************************************************************************)
EXTENDS Integers, SequencesExt

CONSTANTS
    Tries,      \* records [length, nodes]
    Symbols     \* sequences of characters

Root == 0

Edges == [label : Seq(STRING), child : Nat, truncated : BOOLEAN]

(* A node takes two bytes at least, the size of its payload and the number *)
(* of its edges.  terminal is none, what the payload says, or malformed.   *)
IsTrie(t) ==
    /\ t.length \in Nat /\ DOMAIN t.nodes \subseteq 0..(t.length - 2)
    /\ \A n \in DOMAIN t.nodes :
        /\ t.nodes[n].edges \in Seq(Edges)
        /\ t.nodes[n].terminal \in STRING \ {"walking", "out of budget", "bad node", "no edge"}

ASSUME TriesAssumption == \A t \in Tries : IsTrie(t)
ASSUME SymbolsAssumption == Symbols \subseteq Seq(STRING)

VARIABLES
    trie,
    symbol,
    current_node_offset,
    remaining_suffix,
    visit_budget,
    outcome     \* walking, the terminal, or why None is returned

vars == <<trie, symbol, current_node_offset, remaining_suffix, visit_budget, outcome>>

(* Mutant of Init: one visit per character of the symbol.                  *)
InitSymbolBudget ==
    /\ trie \in Tries /\ symbol \in Symbols
    /\ current_node_offset = Root
    /\ remaining_suffix = symbol
    /\ visit_budget = Min({Len(symbol), trie.length})
    /\ outcome = "walking"

Init ==
    /\ trie \in Tries /\ symbol \in Symbols
    /\ current_node_offset = Root
    /\ remaining_suffix = symbol
    /\ visit_budget = trie.length
    /\ outcome = "walking"

Node == trie.nodes[current_node_offset]

(* Mutant of Visit: the budget is not looked at.                           *)
VisitUnchecked ==
    /\ outcome = "walking"
    /\ visit_budget' = visit_budget - 1

(* One round of the loop, up to the reading of the node.                   *)
Visit ==
    /\ outcome = "walking" /\ visit_budget > 0
    /\ visit_budget' = visit_budget - 1

(* Return None, or what terminal_payload_read returns.                     *)
Return(o) ==
    /\ outcome' = o
    /\ UNCHANGED <<trie, symbol, current_node_offset, remaining_suffix>>

OutOfBudget ==
    /\ outcome = "walking" /\ visit_budget = 0
    /\ Return("out of budget") /\ UNCHANGED visit_budget

(* TrieNodeReader::open.                                                   *)
BadNode ==
    /\ Visit /\ current_node_offset \notin DOMAIN trie.nodes
    /\ Return("bad node")

(* Mutant of AtTerminal: the rest of the symbol is not looked at.          *)
AtTerminalEarly == Node.terminal # "none"

(* The symbol is spelled and the node has a terminal payload.              *)
AtTerminal == remaining_suffix = <<>> /\ Node.terminal # "none"

(* terminal_payload_read: None when the payload is malformed.              *)
ReadTerminal ==
    /\ Visit /\ current_node_offset \in DOMAIN trie.nodes /\ AtTerminal
    /\ Return(Node.terminal)

EdgeMatches(e) ==
    /\ ~e.truncated /\ e.label # <<>>
    /\ IsPrefix(e.label, remaining_suffix)

(* Mutant of ChildEdge: only the first edge is looked at.                  *)
ChildEdgeFirstOnly ==
    IF Node.edges # <<>> /\ EdgeMatches(Node.edges[1]) THEN 1 ELSE 0

(* child_edge_matching_prefix_find: the first edge that matches, unless    *)
(* the bytes end before it; 0 for None.                                    *)
ChildEdge ==
    LET i == SelectInSeq(Node.edges, LAMBDA e : e.truncated \/ EdgeMatches(e))
    IN  IF i > 0 /\ ~Node.edges[i].truncated THEN i ELSE 0

NoEdge ==
    /\ Visit /\ current_node_offset \in DOMAIN trie.nodes /\ ~AtTerminal
    /\ ChildEdge = 0
    /\ Return("no edge")

FollowEdge ==
    /\ Visit /\ current_node_offset \in DOMAIN trie.nodes /\ ~AtTerminal
    /\ ChildEdge > 0
    /\ LET e == Node.edges[ChildEdge]
       IN  /\ remaining_suffix' =
                  SubSeq(remaining_suffix, Len(e.label) + 1, Len(remaining_suffix))
           /\ current_node_offset' = e.child
    /\ UNCHANGED <<trie, symbol, outcome>>

Ended == outcome # "walking" /\ UNCHANGED vars

Next == OutOfBudget \/ BadNode \/ ReadTerminal \/ NoEdge \/ FollowEdge \/ Ended

Spec == Init /\ [][Next]_vars
-----------------------------------------------------------------------------
(* Properties                                                              *)

NoneReasons == {"out of budget", "bad node", "no edge", "malformed"}

(* The state has its type: the rest is a suffix of the symbol and the      *)
(* budget never goes below 0, where the source's usize would wrap.         *)
TypeOK ==
    /\ visit_budget \in 0..trie.length
    /\ Len(remaining_suffix) <= Len(symbol)
    /\ remaining_suffix =
           SubSeq(symbol, Len(symbol) - Len(remaining_suffix) + 1, Len(symbol))
    /\ current_node_offset \in Nat

Targets(n) == {trie.nodes[n].edges[i].child : i \in DOMAIN trie.nodes[n].edges}

Places == DOMAIN trie.nodes \cup UNION {Targets(n) : n \in DOMAIN trie.nodes}

Closed(S) == \A n \in S \cap DOMAIN trie.nodes : Targets(n) \subseteq S

(* The nodes reached from n along one edge or more.                        *)
Beyond(n) ==
    {m \in Places : \A S \in SUBSET Places : Targets(n) \subseteq S /\ Closed(S) => m \in S}

Cyclic == \E n \in DOMAIN trie.nodes : n \in Beyond(Root) \cup {Root} /\ n \in Beyond(n)

(* The nodes that edges of n with this label lead to.                      *)
Along(n, label) ==
    {e.child : e \in {d \in ToSet(trie.nodes[n].edges) : ~d.truncated /\ d.label = label}}

(* Every node that characters at the start of the symbol lead to,          *)
(* whichever edges are taken, and how many characters they are: reached[k] *)
(* holds those of at most k.                                               *)
Spells ==
    LET reached[k \in 0..Len(symbol)] ==
            IF k = 0 THEN {<<Root, 0>>}
            ELSE LET before == reached[k - 1]
                 IN  before \cup
                     UNION {{<<c, k>> : c \in Along(p[1], SubSeq(symbol, p[2] + 1, k))} :
                                p \in {q \in before : q[1] \in DOMAIN trie.nodes}}
    IN  reached[Len(symbol)]

Spelled == {p[1] : p \in {q \in Spells : q[2] = Len(symbol)}}

Exported == {trie.nodes[n].terminal : n \in Spelled \cap DOMAIN trie.nodes} \ {"none"}

(* Labels that can be read, are not empty and do not begin alike, edges    *)
(* that lead to nodes, and no cycles: what the linker writes.              *)
WellFormed ==
    /\ ~Cyclic
    /\ \A n \in DOMAIN trie.nodes :
        LET edges == trie.nodes[n].edges
        IN  /\ Targets(n) \subseteq DOMAIN trie.nodes
            /\ \A i \in DOMAIN edges : ~edges[i].truncated /\ edges[i].label # <<>>
            /\ \A i, j \in DOMAIN edges :
                i # j => ~IsPrefix(edges[i].label, edges[j].label)

(* Whatever the trie, the terminal the walk returns belongs to a node that *)
(* the labels from the root to it, put together, spell as the symbol: the  *)
(* walk never takes one symbol for another.                                *)
TerminalIsSpelled ==
    outcome \notin {"walking"} \cup NoneReasons => outcome \in Exported

(* In a trie as the linker writes it, the walk without backtracking        *)
(* answers None only for a symbol that is not exported.                    *)
ExportedIsFound ==
    outcome \in NoneReasons /\ WellFormed => Exported \subseteq {"malformed"}

(* "A walk visits at most one node per byte of the trie; anything beyond   *)
(* that is a cycle in malformed data": the budget runs out in cyclic tries *)
(* only, and at once in the trie of no bytes.                              *)
BudgetEndsOnlyCycles == outcome = "out of budget" => Cyclic \/ trie.length = 0
=============================================================================
