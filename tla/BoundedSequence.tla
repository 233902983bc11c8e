-------------------------- MODULE BoundedSequence --------------------------
(***************************************************************************)
(* What array.rs promises: a sequence of at most Capacity elements, which  *)
(* takes elements from its user and gives each of them back or destroys    *)
(* it.  "It cannot grow"; a string is added whole or not at all.           *)
(***************************************************************************)
EXTENDS Naturals, Sequences

CONSTANTS Capacity, Items, Strings

VARIABLES
    seq,        \* the elements
    out         \* the items its user has

vars == <<seq, out>>

Init == seq = << >> /\ out = Items

AddItem(x) ==
    /\ x \in out /\ Len(seq) < Capacity
    /\ seq' = Append(seq, x)
    /\ out' = out \ {x}

AddString(s) ==
    /\ Len(seq) + Len(s) <= Capacity
    /\ seq' = seq \o s
    /\ UNCHANGED out

RemoveLast ==
    /\ seq # << >>
    /\ seq' = SubSeq(seq, 1, Len(seq) - 1)
    /\ out' = out \cup {seq[Len(seq)]}

RemoveFirst ==
    /\ seq # << >>
    /\ seq' = Tail(seq)
    /\ out' = out \cup {Head(seq)}

Discard == seq' = << >> /\ UNCHANGED out

(* An item that the sequence cannot take ends its user.                    *)
Refuse(x) == x \in out /\ Len(seq) = Capacity /\ out' = out \ {x} /\ UNCHANGED seq

Next ==
    \/ \E x \in Items : AddItem(x) \/ Refuse(x)
    \/ \E s \in Strings : AddString(s)
    \/ RemoveLast \/ RemoveFirst \/ Discard

Spec == Init /\ [][Next]_vars
=============================================================================
