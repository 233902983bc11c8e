------------------------------ MODULE Allocator ------------------------------
(***************************************************************************)
(* dynld's global allocator (allocator.rs): a bump chunk and a first-fit   *)
(* free list behind a spinlock, over a backend that hands out whole VM     *)
(* regions.  Any number of threads call alloc and dealloc.                 *)
(*                                                                         *)
(* Addresses and sizes are numbers of bytes.  The free list is the         *)
(* sequence of its nodes, head first: in the code every node lies in the   *)
(* first bytes of the block it describes.                                  *)
(***************************************************************************)
EXTENDS Integers, SequencesExt

CONSTANTS
    Threads,
    Layouts,        \* the layouts requested, records [size, align]
    MIN_ALIGN,      \* alignment of a FreeNode, 8
    MIN_REUSE,      \* size of a FreeNode, 16
    CHUNK_SIZE,     \* 64 pages
    VM_PAGE,        \* alignment of the regions the kernel returns
    AddressLimit    \* the backend's regions end below this address

LARGE_THRESHOLD == CHUNK_SIZE \div 2

Layout == [size : Nat, align : Nat \ {0}]

ASSUME LayoutsAssumption == Layouts \subseteq Layout
ASSUME SizesAssumption ==
    /\ MIN_ALIGN \in Nat \ {0} /\ MIN_REUSE \in Nat \ {0}
    /\ CHUNK_SIZE \in Nat \ {0} /\ VM_PAGE \in Nat \ {0} /\ AddressLimit \in Nat
(* Alignments are powers of two, so of two alignments one divides the      *)
(* other; a FreeNode's size is a multiple of its alignment.                *)
ASSUME AlignmentAssumption ==
    /\ \A l \in Layouts : l.align % MIN_ALIGN = 0 \/ MIN_ALIGN % l.align = 0
    /\ MIN_REUSE % MIN_ALIGN = 0 /\ VM_PAGE % MIN_ALIGN = 0
ASSUME NonEmptyAssumption == Threads # {} /\ Layouts # {}

VARIABLES
    locked,     \* the spinlock
    chunk,      \* the bump chunk, NoChunk for None
    free,       \* the free list
    chunks,     \* the regions the backend has handed out as chunks
    live,       \* the blocks callers hold
    th          \* the state of each thread

vars == <<locked, chunk, free, chunks, live, th>>

-----------------------------------------------------------------------------
Max2(a, b) == IF a >= b THEN a ELSE b

(* align_up: the mask of the source, for a power of two align.             *)
AlignUp(addr, align) == ((addr + align - 1) \div align) * align

(* Mutant of NormSize: small requests are not rounded up to a FreeNode.    *)
NormSizeUnpadded(l) == AlignUp(l.size, MIN_ALIGN)

(* normalize, as the size and the alignment it returns.                    *)
NormSize(l) == AlignUp(Max2(l.size, MIN_REUSE), MIN_ALIGN)
NormAlign(l) == Max2(l.align, MIN_ALIGN)
IsLarge(l) == NormSize(l) >= LARGE_THRESHOLD

(* Extents: [addr, size] pairs.  A block that a caller holds remembers the *)
(* layout it must be given back with.                                      *)
Extent == [addr : Nat, size : Nat]
Block == [addr : Nat, layout : Layouts]
ExtentOf(b) == [addr |-> b.addr, size |-> NormSize(b.layout)]

Disjoint(x, y) == x.addr + x.size <= y.addr \/ y.addr + y.size <= x.addr
Inside(x, y) == y.addr <= x.addr /\ x.addr + x.size <= y.addr + y.size

Chunk == [base : Nat, size : Nat, offset : Nat]
NoChunk == [base |-> 0, size |-> 0, offset |-> 0]

Null == 0
Pc == {"idle", "spin", "walk", "take", "bump", "grow", "rebump", "push", "unlock"}
Start(pc, op, l, ptr) == [pc |-> pc, op |-> op, layout |-> l, ptr |-> ptr, cursor |-> 1]
Idle == Start("idle", "alloc", CHOOSE l \in Layouts : TRUE, Null)
ThreadState == [pc : Pc, op : {"alloc", "dealloc"}, layout : Layouts, ptr : Nat, cursor : Nat \ {0}]

Size(t) == NormSize(th[t].layout)
Align(t) == NormAlign(th[t].layout)

Goto(t, pc) == th' = [th EXCEPT ![t].pc = pc]
ReturnPtr(t, ptr) == th' = [th EXCEPT ![t].pc = "unlock", ![t].ptr = ptr]

Init ==
    /\ locked = FALSE
    /\ chunk = NoChunk
    /\ free = << >>
    /\ chunks = {} /\ live = {}
    /\ th = [t \in Threads |-> Idle]

(* The regions the task holds: chunks are never given back, and a large    *)
(* block is a region of its own.                                           *)
Mapped == chunks \cup {ExtentOf(b) : b \in {x \in live : IsLarge(x.layout)}}

(* VM::alloc: the regions vm_allocate may return for a request.            *)
FreshRegions(size) ==
    {r \in [addr : 1..AddressLimit, size : {size}] :
        /\ r.addr % VM_PAGE = 0
        /\ r.addr + r.size <= AddressLimit
        /\ \A m \in Mapped : Disjoint(r, m)}

-----------------------------------------------------------------------------
(* alloc_impl and dealloc_impl: large requests go to the backend, which    *)
(* needs no lock.  The kernel may refuse any request (null is returned and *)
(* nothing changes).                                                       *)

AllocLarge(t, l) ==
    /\ th[t].pc = "idle" /\ IsLarge(l)
    /\ \E r \in FreshRegions(NormSize(l)) :
          live' = live \cup {[addr |-> r.addr, layout |-> l]}
    /\ UNCHANGED <<locked, chunk, free, chunks, th>>

DeallocLarge(t, b) ==
    /\ th[t].pc = "idle" /\ IsLarge(b.layout)
    /\ live' = live \ {b}
    /\ UNCHANGED <<locked, chunk, free, chunks, th>>

AllocSmall(t, l) ==
    /\ th[t].pc = "idle" /\ ~IsLarge(l)
    /\ th' = [th EXCEPT ![t] = Start("spin", "alloc", l, Null)]
    /\ UNCHANGED <<locked, chunk, free, chunks, live>>

(* The block is no longer the caller's as soon as dealloc is called.       *)
DeallocSmall(t, b) ==
    /\ th[t].pc = "idle" /\ ~IsLarge(b.layout)
    /\ th' = [th EXCEPT ![t] = Start("spin", "dealloc", b.layout, b.addr)]
    /\ live' = live \ {b}
    /\ UNCHANGED <<locked, chunk, free, chunks>>

(* Mutant of Acquire: the lock is taken whether or not it is free.         *)
AcquireUnchecked(t) ==
    /\ th[t].pc = "spin"
    /\ locked' = TRUE
    /\ Goto(t, IF th[t].op = "alloc" THEN "walk" ELSE "push")
    /\ UNCHANGED <<chunk, free, chunks, live>>

(* with_state.  A failed compare_exchange_weak, spurious or not, spins and *)
(* changes nothing.                                                        *)
Acquire(t) ==
    /\ th[t].pc = "spin" /\ ~locked
    /\ locked' = TRUE
    /\ Goto(t, IF th[t].op = "alloc" THEN "walk" ELSE "push")
    /\ UNCHANGED <<chunk, free, chunks, live>>

Release(t) ==
    /\ th[t].pc = "unlock"
    /\ locked' = FALSE
    /\ th' = [th EXCEPT ![t] = Idle]
    /\ live' = IF th[t].op = "alloc" /\ th[t].ptr # Null
               THEN live \cup {[addr |-> th[t].ptr, layout |-> th[t].layout]}
               ELSE live
    /\ UNCHANGED <<chunk, free, chunks>>

-----------------------------------------------------------------------------
(* take_from_free_list: the search, one node per step, and the unlinking.  *)

(* Mutant of Fits: a node's alignment is assumed, not checked.             *)
FitsUnaligned(node, size, align) == node.size >= size

Fits(node, size, align) == node.size >= size /\ node.addr % align = 0

Walk(t) ==
    /\ th[t].pc = "walk"
    /\ \/ th[t].cursor > Len(free) /\ Goto(t, "bump")
       \/ /\ th[t].cursor <= Len(free)
          /\ IF Fits(free[th[t].cursor], Size(t), Align(t))
             THEN Goto(t, "take")
             ELSE th' = [th EXCEPT ![t].cursor = @ + 1]
    /\ UNCHANGED <<locked, chunk, free, chunks, live>>

(* Mutant of Leftover: the node that is put back starts where the block does. *)
LeftoverAtHead(node, size) ==
    IF node.size - size >= MIN_REUSE
    THEN <<[addr |-> node.addr, size |-> node.size - size]>>
    ELSE << >>

(* The part of a node that is put back: nothing if it could not hold a     *)
(* FreeNode.                                                               *)
Leftover(node, size) ==
    IF node.size - size >= MIN_REUSE
    THEN <<[addr |-> node.addr + size, size |-> node.size - size]>>
    ELSE << >>

Take(t) ==
    /\ th[t].pc = "take"
    /\ LET node == free[th[t].cursor]
       IN  /\ free' = Leftover(node, Size(t)) \o RemoveAt(free, th[t].cursor)
           /\ ReturnPtr(t, node.addr)
    /\ UNCHANGED <<locked, chunk, chunks, live>>

(* dealloc_impl's FreeNode becomes the head of the list.                   *)
Push(t) ==
    /\ th[t].pc = "push"
    /\ free' = <<[addr |-> th[t].ptr, size |-> Size(t)]>> \o free
    /\ Goto(t, "unlock")
    /\ UNCHANGED <<locked, chunk, chunks, live>>

(* bump_alloc.                                                             *)
BumpAddr(c, align) == AlignUp(c.base + c.offset, align)
(* Mutant of BumpFits: only the start of the block is checked.             *)
BumpFitsStart(c, size, align) ==
    c # NoChunk /\ BumpAddr(c, align) - c.base <= c.size

BumpFits(c, size, align) ==
    c # NoChunk /\ BumpAddr(c, align) + size - c.base <= c.size

(* Mutant of Bumped: the size is subtracted instead of added.              *)
BumpedBackwards(t) ==
    [chunk EXCEPT !.offset = BumpAddr(chunk, Align(t)) - Size(t) - chunk.base]

Bumped(t) ==
    [chunk EXCEPT !.offset = BumpAddr(chunk, Align(t)) + Size(t) - chunk.base]

Bump(t) ==
    /\ th[t].pc = "bump"
    /\ \/ /\ BumpFits(chunk, Size(t), Align(t))
          /\ chunk' = Bumped(t) /\ ReturnPtr(t, BumpAddr(chunk, Align(t)))
       \/ /\ ~BumpFits(chunk, Size(t), Align(t))
          /\ Goto(t, "grow") /\ UNCHANGED chunk
    /\ UNCHANGED <<locked, free, chunks, live>>

(* Mutant of NewChunkSize: no room is left for aligning the first block.   *)
NewChunkSizeUnaligned(t) == Max2(CHUNK_SIZE, Size(t))

NewChunkSize(t) == Max2(CHUNK_SIZE, Size(t) + Align(t))

(* Mutant of Grow: returns null without releasing the lock.                *)
GrowKeepsLock(t) ==
    /\ th[t].pc = "grow"
    /\ \/ /\ \E r \in FreshRegions(NewChunkSize(t)) :
                /\ chunks' = chunks \cup {r}
                /\ chunk' = [base |-> r.addr, size |-> r.size, offset |-> 0]
          /\ Goto(t, "rebump")
       \/ th' = [th EXCEPT ![t] = Idle] /\ UNCHANGED <<chunks, chunk>>
    /\ UNCHANGED <<locked, free, live>>

(* A new chunk, or null when the backend refuses it.                       *)
Grow(t) ==
    /\ th[t].pc = "grow"
    /\ \/ /\ \E r \in FreshRegions(NewChunkSize(t)) :
                /\ chunks' = chunks \cup {r}
                /\ chunk' = [base |-> r.addr, size |-> r.size, offset |-> 0]
          /\ Goto(t, "rebump")
       \/ ReturnPtr(t, Null) /\ UNCHANGED <<chunks, chunk>>
    /\ UNCHANGED <<locked, free, live>>

(* The second bump_alloc: null if even the new chunk is too small.         *)
Rebump(t) ==
    /\ th[t].pc = "rebump"
    /\ LET fits == BumpFits(chunk, Size(t), Align(t))
       IN  /\ chunk' = IF fits THEN Bumped(t) ELSE chunk
           /\ ReturnPtr(t, IF fits THEN BumpAddr(chunk, Align(t)) ELSE Null)
    /\ UNCHANGED <<locked, free, chunks, live>>

-----------------------------------------------------------------------------
Call(t) == \/ \E l \in Layouts : AllocLarge(t, l) \/ AllocSmall(t, l)
           \/ \E b \in live : DeallocLarge(t, b) \/ DeallocSmall(t, b)

Section(t) == Walk(t) \/ Take(t) \/ Bump(t) \/ Grow(t) \/ Rebump(t) \/ Push(t) \/ Release(t)

Next == \E t \in Threads : Call(t) \/ Acquire(t) \/ Section(t)

Spec == Init /\ [][Next]_vars

(* A thread that holds the lock runs to the end of the section; a thread   *)
(* that spins may lose every race for it.                                  *)
FairSpec == /\ Spec
            /\ \A t \in Threads : WF_vars(Section(t)) /\ WF_vars(Acquire(t))

-----------------------------------------------------------------------------
(* Type correctness of the allocator's state.                              *)
TypeOK ==
    /\ locked \in BOOLEAN
    /\ chunk \in Chunk
    /\ free \in Seq(Extent)
    /\ chunks \subseteq Extent
    /\ live \subseteq Block
    /\ th \in [Threads -> ThreadState]

(* The spinlock does its work: at most one thread is between Acquire and   *)
(* Release, and the flag is set exactly then ("all access to `state` is    *)
(* protected by the `locked` spinlock").                                   *)
InSection(t) == th[t].pc \notin {"idle", "spin"}
MutualExclusion ==
    /\ \A t, u \in Threads : InSection(t) /\ InSection(u) => t = u
    /\ locked <=> \E t \in Threads : InSection(t)

(* A block on its way between a caller and the free list: allocated and    *)
(* not yet returned, or given to dealloc and not yet linked.               *)
InFlight(t) ==
    \/ th[t].op = "alloc" /\ th[t].pc = "unlock" /\ th[t].ptr # Null
    \/ th[t].op = "dealloc" /\ th[t].pc \in {"spin", "push"}
Carried(t) == [addr |-> th[t].ptr, size |-> Size(t)]

(* What bump_alloc has not handed out of the current chunk.                *)
Unused == [addr |-> chunk.base + chunk.offset, size |-> chunk.size - chunk.offset]

(* No byte has two owners: the blocks callers hold, the blocks in flight,  *)
(* the nodes of the free list and the unused part of the chunk are         *)
(* pairwise disjoint, through splitting, reuse, growth and any             *)
(* interleaving of threads ("a unique pointer").                           *)
NoOverlap ==
    /\ \A a, b \in live : a # b => Disjoint(ExtentOf(a), ExtentOf(b))
    /\ \A i, j \in DOMAIN free : i # j => Disjoint(free[i], free[j])
    /\ \A a \in live, i \in DOMAIN free : Disjoint(ExtentOf(a), free[i])
    /\ \A a \in live : Disjoint(ExtentOf(a), Unused)
    /\ \A i \in DOMAIN free : Disjoint(free[i], Unused)
    /\ \A t \in Threads : InFlight(t) =>
          /\ \A a \in live : Disjoint(Carried(t), ExtentOf(a))
          /\ \A i \in DOMAIN free : Disjoint(Carried(t), free[i])
          /\ Disjoint(Carried(t), Unused)
          /\ \A u \in Threads : InFlight(u) /\ u # t => Disjoint(Carried(t), Carried(u))

(* Every byte the allocator deals in is memory the kernel gave it, and it  *)
(* stays so after large blocks go back to the kernel.                      *)
InsideChunks ==
    /\ \A i \in DOMAIN free : \E c \in chunks : Inside(free[i], c)
    /\ \A b \in live : IsLarge(b.layout) \/ \E c \in chunks : Inside(ExtentOf(b), c)
    /\ \A t \in Threads : InFlight(t) => \E c \in chunks : Inside(Carried(t), c)

(* Every free block can hold the FreeNode written into it: "every block    *)
(* boundary is FreeNode-aligned, which makes the splitting logic in        *)
(* take_from_free_list trivially sound".                                   *)
NodesFit ==
    \A i \in DOMAIN free : /\ free[i].size >= MIN_REUSE /\ free[i].size % MIN_ALIGN = 0
                           /\ free[i].addr % MIN_ALIGN = 0

(* A fresh chunk always satisfies the request it was mapped for, whatever  *)
(* its alignment: alloc returns null only when the kernel refused memory.  *)
FreshChunkFits ==
    \A t \in Threads : th[t].pc = "rebump" => BumpFits(chunk, Size(t), Align(t))

(* The layouts a page-aligned region serves: alloc_impl ignores the        *)
(* alignment of a large request.                                           *)
LargeLayoutsPageAligned == \A l \in Layouts : IsLarge(l) => VM_PAGE % NormAlign(l) = 0

(* The SAFETY comment of `unsafe impl GlobalAlloc`: the allocator          *)
(* implements the abstract one.                                            *)
Contract == INSTANCE AbstractAllocator
ImplementsContract == Contract!Spec

(* "properly-aligned": every block a caller holds has the alignment asked  *)
(* for.                                                                    *)
ProperlyAligned == \A b \in live : b.addr % b.layout.align = 0

(* The lock is always given back: no thread waits inside the section.      *)
LockIsReleased == locked ~> ~locked
=============================================================================
