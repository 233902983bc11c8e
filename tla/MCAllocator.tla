----------------------------- MODULE MCAllocator -----------------------------
(* Every sequence of MaxCalls calls of alloc and dealloc, with layouts     *)
(* that split, reuse and outgrow a chunk of 20 bytes.                      *)
EXTENDS Allocator

CONSTANT MaxCalls       \* calls of alloc and dealloc in a behaviour
VARIABLE calls          \* those made so far

\* Rounded to 4, 6 and 8 bytes: 8 splits into 4 and 4, 6 leaves a remainder
\* that no node fits in.  The fourth one needs a chunk larger than CHUNK_SIZE,
\* the last one is large.
MixedLayouts == {[size |-> 1, align |-> 1], [size |-> 5, align |-> 2],
                 [size |-> 8, align |-> 4], [size |-> 4, align |-> 32],
                 [size |-> 9, align |-> 8]}

\* A large request with an alignment above that of a page.
OveralignedLayouts == {[size |-> 1, align |-> 1], [size |-> 9, align |-> 16]}

BoundedInit == Init /\ calls = 0

BoundedNext ==
    \/ /\ calls < MaxCalls /\ calls' = calls + 1
       /\ \E t \in Threads : Call(t)
    \/ /\ \E t \in Threads : Acquire(t) \/ Section(t)
       /\ UNCHANGED calls
    \/ /\ calls = MaxCalls /\ \A t \in Threads : th[t].pc = "idle"
       /\ UNCHANGED <<vars, calls>>

BoundedSpec == BoundedInit /\ [][BoundedNext]_<<vars, calls>>

FairBoundedSpec ==
    /\ BoundedSpec
    /\ \A t \in Threads : WF_vars(Section(t)) /\ WF_vars(Acquire(t))
=============================================================================
