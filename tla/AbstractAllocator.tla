-------------------------- MODULE AbstractAllocator --------------------------
(***************************************************************************)
(* What a global allocator promises its callers.  allocator.rs: "alloc_impl*)
(* returns either null or a unique, properly-aligned pointer to at least   *)
(* layout.size() bytes; dealloc_impl preserves those invariants."  A call  *)
(* that returns null changes nothing a caller can see.                     *)
(***************************************************************************)
EXTENDS Integers

CONSTANTS
    Layouts,        \* the layouts requested, records [size, align]
    AddressLimit    \* no block ends above this address

VARIABLE live       \* the blocks callers hold, records [addr, layout]

(* Blocks a and b share no byte of what was asked for.                     *)
Apart(a, b) ==
    \/ a.addr + a.layout.size <= b.addr
    \/ b.addr + b.layout.size <= a.addr

Init == live = {}

Alloc(l) ==
    \E a \in 1..AddressLimit :
        LET b == [addr |-> a, layout |-> l]
        IN  /\ a % l.align = 0
            /\ a + l.size <= AddressLimit
            /\ \A c \in live : Apart(b, c)
            /\ live' = live \cup {b}

Dealloc(b) == live' = live \ {b}

Next == (\E l \in Layouts : Alloc(l)) \/ (\E b \in live : Dealloc(b))

Spec == Init /\ [][Next]_live
=============================================================================
