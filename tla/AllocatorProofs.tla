--------------------------- MODULE AllocatorProofs ---------------------------
(***************************************************************************)
(* Proofs about Allocator, for any number of threads, any layouts and any  *)
(* sizes of chunk, page and address space: exclusion, uniqueness and       *)
(* containment of memory, then alignment, and that Allocator implements    *)
(* AbstractAllocator.                                                      *)
(***************************************************************************)
EXTENDS Allocator, SequenceTheorems, TLAPS

-----------------------------------------------------------------------------
(* align_up returns the next multiple of the alignment.                    *)
LEMMA AlignUpFacts ==
    ASSUME NEW a \in Nat, NEW n \in Nat \ {0}
    PROVE  /\ AlignUp(a, n) \in Nat
           /\ a <= AlignUp(a, n) /\ AlignUp(a, n) < a + n
           /\ AlignUp(a, n) % n = 0
  BY DEF AlignUp

(* normalize returns at least what was asked for, and room for a FreeNode. *)
LEMMA NormFacts ==
    ASSUME NEW l \in Layouts
    PROVE  /\ NormSize(l) \in Nat /\ NormSize(l) >= MIN_REUSE /\ NormSize(l) > 0
           /\ NormSize(l) >= l.size /\ NormSize(l) % MIN_ALIGN = 0
           /\ NormAlign(l) \in Nat \ {0} /\ NormAlign(l) >= l.align
           /\ l.size \in Nat /\ l.align \in Nat \ {0}
  <1>1. l.size \in Nat /\ l.align \in Nat \ {0}
    BY LayoutsAssumption DEF Layout
  <1>2. Max2(l.size, MIN_REUSE) \in Nat /\ Max2(l.size, MIN_REUSE) >= MIN_REUSE
        /\ Max2(l.size, MIN_REUSE) >= l.size
    BY <1>1, SizesAssumption DEF Max2
  <1>3. NormSize(l) \in Nat /\ NormSize(l) >= Max2(l.size, MIN_REUSE)
        /\ NormSize(l) % MIN_ALIGN = 0
    BY <1>2, AlignUpFacts, SizesAssumption DEF NormSize
  <1> HIDE DEF NormSize
  <1>4. NormAlign(l) \in Nat \ {0} /\ NormAlign(l) >= l.align
    BY <1>1, SizesAssumption DEF NormAlign, Max2
  <1> QED BY <1>1, <1>2, <1>3, <1>4, SizesAssumption

(* Taking node i out of a list leaves the other nodes, in order.           *)
LEMMA RemoveAtFacts ==
    ASSUME NEW S, NEW s \in Seq(S), NEW i \in 1..Len(s)
    PROVE  /\ RemoveAt(s, i) \in Seq(S)
           /\ Len(RemoveAt(s, i)) = Len(s) - 1
           /\ \A k \in 1..Len(s) - 1 : RemoveAt(s, i)[k] = IF k < i THEN s[k] ELSE s[k + 1]
  <1> DEFINE u == SubSeq(s, 1, i - 1)
             v == SubSeq(s, i + 1, Len(s))
  <1>1. u \in Seq(S) /\ Len(u) = i - 1 /\ \A k \in 1..i - 1 : u[k] = s[k]
    OBVIOUS
  <1>2. v \in Seq(S) /\ Len(v) = Len(s) - i /\ \A k \in 1..Len(s) - i : v[k] = s[i + k]
    OBVIOUS
  <1>3. RemoveAt(s, i) = u \o v
    BY DEF RemoveAt
  <1> HIDE DEF u, v
  <1>4. u \o v \in Seq(S) /\ Len(u \o v) = Len(s) - 1
    BY <1>1, <1>2
  <1>5. ASSUME NEW k \in 1..Len(s) - 1
        PROVE  (u \o v)[k] = IF k < i THEN s[k] ELSE s[k + 1]
    <2>1. CASE k < i
      BY <1>1, <1>2, <2>1
    <2>2. CASE ~(k < i)
      <3>1. (u \o v)[k] = v[k - (i - 1)]
        BY <1>1, <1>2, <2>2
      <3>2. k - (i - 1) \in 1..Len(s) - i /\ i + (k - (i - 1)) = k + 1
        BY <2>2
      <3> QED BY <1>2, <2>2, <3>1, <3>2
    <2> QED BY <2>1, <2>2
  <1> QED BY <1>3, <1>4, <1>5

-----------------------------------------------------------------------------
(* The inductive invariant.  NoOverlap alone is not inductive: that a node *)
(* found by the search still fits when it is taken needs the lock, that a  *)
(* fresh region is disjoint from everything needs InsideChunks and that    *)
(* the chunk is one of the regions.                                        *)

ThreadOK(t) ==
    /\ th[t].pc # "idle" => ~IsLarge(th[t].layout)
    /\ th[t].pc \in {"walk", "take", "bump", "grow", "rebump"} => th[t].op = "alloc"
    /\ th[t].pc = "push" => th[t].op = "dealloc"
    /\ th[t].pc = "take" => /\ th[t].cursor <= Len(free)
                            /\ Fits(free[th[t].cursor], Size(t), Align(t))
ThreadsOK == \A t \in Threads : ThreadOK(t)

ChunkOK ==
    /\ chunk.offset <= chunk.size
    /\ chunk # NoChunk => [addr |-> chunk.base, size |-> chunk.size] \in chunks

IInv == TypeOK /\ MutualExclusion /\ ThreadsOK /\ ChunkOK /\ InsideChunks /\ NoOverlap

(* The allocator starts in the invariant.                                  *)
LEMMA InitIInv == Init => IInv
  <1> SUFFICES ASSUME Init PROVE IInv
    OBVIOUS
  <1>1. Idle \in ThreadState /\ Idle.pc = "idle" /\ Idle.op = "alloc"
    <2>1. (CHOOSE l \in Layouts : TRUE) \in Layouts
      BY NonEmptyAssumption
    <2> QED BY <2>1 DEF Idle, Start, ThreadState, Pc, Null
  <1> HIDE DEF Idle
  <1>2. TypeOK
    <2>1. locked \in BOOLEAN /\ chunk \in Chunk /\ chunks \subseteq Extent /\ live \subseteq Block
      BY DEF Init, Chunk, NoChunk
    <2>2. free \in Seq(Extent)
      BY DEF Init
    <2>3. th \in [Threads -> ThreadState]
      BY <1>1 DEF Init
    <2> QED BY <2>1, <2>2, <2>3 DEF TypeOK
  <1>3. \A t \in Threads : th[t].pc = "idle" /\ th[t].op = "alloc"
    BY <1>1 DEF Init
  <1>4. MutualExclusion
    BY <1>3 DEF Init, MutualExclusion, InSection
  <1>5. ThreadsOK
    BY <1>3 DEF ThreadsOK, ThreadOK
  <1>6. ChunkOK
    BY DEF Init, ChunkOK, NoChunk
  <1>7. \A t \in Threads : ~InFlight(t)
    BY <1>3 DEF InFlight
  <1>8. InsideChunks /\ NoOverlap
    BY <1>7 DEF Init, InsideChunks, NoOverlap
  <1> QED BY <1>2, <1>4, <1>5, <1>6, <1>8 DEF IInv

-----------------------------------------------------------------------------
(* Facts about extents.                                                    *)

(* Disjointness is symmetric and inherited by parts.                       *)
LEMMA DisjointFacts ==
    ASSUME NEW x \in Extent, NEW y \in Extent, NEW z \in Extent
    PROVE  /\ Disjoint(x, y) => Disjoint(y, x)
           /\ Inside(x, y) /\ Disjoint(y, z) => Disjoint(x, z)
           /\ Inside(x, y) /\ Inside(y, z) => Inside(x, z)
  BY DEF Extent, Disjoint, Inside

(* Everything the invariant compares is an extent.                         *)
LEMMA ExtentFacts ==
    ASSUME TypeOK, ChunkOK
    PROVE  /\ \A b \in live : ExtentOf(b) \in Extent /\ ExtentOf(b).size > 0
           /\ \A t \in Threads : Carried(t) \in Extent /\ Size(t) \in Nat /\ Size(t) > 0
                                 /\ Size(t) >= MIN_REUSE /\ Align(t) \in Nat \ {0}
           /\ Unused \in Extent
           /\ \A i \in DOMAIN free : free[i] \in Extent
  <1>1. ASSUME NEW b \in live PROVE ExtentOf(b) \in Extent /\ ExtentOf(b).size > 0
    <2>1. b.addr \in Nat /\ b.layout \in Layouts
      BY DEF TypeOK, Block
    <2> QED BY <2>1, NormFacts DEF ExtentOf, Extent
  <1>2. ASSUME NEW t \in Threads
        PROVE  Carried(t) \in Extent /\ Size(t) \in Nat /\ Size(t) > 0
               /\ Size(t) >= MIN_REUSE /\ Align(t) \in Nat \ {0}
    <2>1. th[t].ptr \in Nat /\ th[t].layout \in Layouts
      BY DEF TypeOK, ThreadState
    <2>2. Size(t) \in Nat /\ Size(t) > 0 /\ Size(t) >= MIN_REUSE /\ Align(t) \in Nat \ {0}
      BY <2>1, NormFacts DEF Size, Align
    <2> QED BY <2>1, <2>2 DEF Carried, Extent
  <1>3. Unused \in Extent
    BY DEF TypeOK, ChunkOK, Chunk, Unused, Extent
  <1>4. \A i \in DOMAIN free : free[i] \in Extent
    BY DEF TypeOK
  <1> QED BY <1>1, <1>2, <1>3, <1>4

(* A region the kernel may return shares nothing with what is in use.      *)
LEMMA FreshFacts ==
    ASSUME IInv, NEW n \in Nat, NEW r \in FreshRegions(n)
    PROVE  /\ r \in Extent /\ r.size = n /\ r.addr > 0 /\ r.addr % VM_PAGE = 0
           /\ r.addr + n <= AddressLimit /\ r.addr <= AddressLimit
           /\ \A b \in live : Disjoint(ExtentOf(b), r)
           /\ \A i \in DOMAIN free : Disjoint(free[i], r)
           /\ \A t \in Threads : InFlight(t) => Disjoint(Carried(t), r)
           /\ Disjoint(Unused, r)
  <1>0. TypeOK /\ ChunkOK /\ InsideChunks
    BY DEF IInv
  <1>1. r \in Extent /\ r.size = n /\ r.addr > 0 /\ r.addr % VM_PAGE = 0
        /\ r.addr + n <= AddressLimit /\ r.addr <= AddressLimit
    BY SizesAssumption DEF FreshRegions, Extent
  <1>2. \A m \in Mapped : Disjoint(r, m)
    BY DEF FreshRegions
  <1>3. ASSUME NEW c \in chunks PROVE c \in Extent /\ Disjoint(c, r)
    BY <1>0, <1>1, <1>2, DisjointFacts DEF Mapped, TypeOK
  <1>4. ASSUME NEW x \in Extent, NEW c \in chunks, Inside(x, c) PROVE Disjoint(x, r)
    BY <1>1, <1>3, <1>4, DisjointFacts
  <1>5. ASSUME NEW b \in live PROVE Disjoint(ExtentOf(b), r)
    <2>1. CASE IsLarge(b.layout)
      <3>1. ExtentOf(b) \in Mapped
        BY <2>1 DEF Mapped
      <3> QED BY <3>1, <1>0, <1>1, <1>2, ExtentFacts, DisjointFacts
    <2>2. CASE ~IsLarge(b.layout)
      BY <2>2, <1>0, <1>4, ExtentFacts DEF InsideChunks
    <2> QED BY <2>1, <2>2
  <1>6. \A i \in DOMAIN free : Disjoint(free[i], r)
    BY <1>0, <1>4, ExtentFacts DEF InsideChunks
  <1>7. \A t \in Threads : InFlight(t) => Disjoint(Carried(t), r)
    BY <1>0, <1>4, ExtentFacts DEF InsideChunks
  <1>8. Disjoint(Unused, r)
    <2>1. CASE chunk = NoChunk
      BY <2>1, <1>1 DEF NoChunk, Unused, Disjoint, Extent
    <2>2. CASE chunk # NoChunk
      <3> DEFINE c == [addr |-> chunk.base, size |-> chunk.size]
      <3>1. c \in chunks
        BY <2>2, <1>0 DEF ChunkOK
      <3>2. Inside(Unused, c)
        BY <1>0 DEF ChunkOK, TypeOK, Chunk, Inside, Unused
      <3> QED BY <3>1, <3>2, <1>0, <1>4, ExtentFacts
    <2> QED BY <2>1, <2>2
  <1> QED BY <1>1, <1>5, <1>6, <1>7, <1>8

-----------------------------------------------------------------------------
(* A step of thread t.                                                     *)

(* It leaves the other threads, and what they carry, alone.                *)
LEMMA OtherThreads ==
    ASSUME IInv, NEW t \in Threads, NEW s \in ThreadState, th' = [th EXCEPT ![t] = s]
    PROVE  /\ th' \in [Threads -> ThreadState] /\ th'[t] = s
           /\ \A u \in Threads : u # t =>
                 /\ th'[u] = th[u] /\ (InFlight(u)' <=> InFlight(u))
                 /\ Carried(u)' = Carried(u) /\ Size(u)' = Size(u) /\ Align(u)' = Align(u)
                 /\ (InSection(u)' <=> InSection(u))
  <1>1. th \in [Threads -> ThreadState]
    BY DEF IInv, TypeOK
  <1>2. th' \in [Threads -> ThreadState] /\ th'[t] = s
        /\ \A u \in Threads : u # t => th'[u] = th[u]
    BY <1>1
  <1> QED BY <1>2 DEF InFlight, Carried, Size, Align, InSection

(* The lock: a thread enters the section only when it is free, and the     *)
(* flag follows.                                                           *)
LEMMA LockStep ==
    ASSUME IInv, NEW t \in Threads,
           \A u \in Threads : u # t => (InSection(u)' <=> InSection(u)),
           InSection(t)' => InSection(t) \/ ~locked,
           locked' <=> InSection(t)' \/ (locked /\ ~InSection(t))
    PROVE  MutualExclusion'
  BY DEF IInv, MutualExclusion

(* The others keep their part of the invariant: none of them searches the  *)
(* list while it changes.                                                  *)
LEMMA ThreadsStep ==
    ASSUME IInv, NEW t \in Threads, NEW s \in ThreadState, th' = [th EXCEPT ![t] = s],
           ThreadOK(t)', free' = free \/ InSection(t)
    PROVE  ThreadsOK'
  <1> SUFFICES ASSUME NEW u \in Threads PROVE ThreadOK(u)'
    BY DEF ThreadsOK
  <1>1. CASE u = t
    BY <1>1
  <1>2. CASE u # t
    <2>1. th'[u] = th[u] /\ Size(u)' = Size(u) /\ Align(u)' = Align(u)
      BY <1>2, OtherThreads
    <2>2. ThreadOK(u)
      BY DEF IInv, ThreadsOK
    <2>3. free' = free \/ th[u].pc # "take"
      BY <1>2 DEF IInv, MutualExclusion, InSection
    <2> QED BY <2>1, <2>2, <2>3 DEF ThreadOK
  <1> QED BY <1>1, <1>2

(* A step that moves no memory keeps the memory invariants.                *)
LEMMA MemoryFrame ==
    ASSUME IInv, UNCHANGED <<chunk, free, chunks, live>>,
           \A u \in Threads : InFlight(u)' => InFlight(u) /\ Carried(u)' = Carried(u)
    PROVE  ChunkOK' /\ InsideChunks' /\ NoOverlap'
  <1>1. Unused' = Unused /\ ChunkOK'
    BY DEF Unused, IInv, ChunkOK
  <1>2. InsideChunks'
    BY DEF IInv, InsideChunks
  <1>3. NoOverlap'
    <2>1. NoOverlap
      BY DEF IInv
    <2>2. \A a \in live : ExtentOf(a)' = ExtentOf(a)
      OBVIOUS
    <2>3. ASSUME NEW u \in Threads, InFlight(u)'
          PROVE  (/\ \A a \in live : Disjoint(Carried(u), ExtentOf(a))
                  /\ \A i \in DOMAIN free : Disjoint(Carried(u), free[i])
                  /\ Disjoint(Carried(u), Unused)
                  /\ \A v \in Threads : InFlight(v) /\ v # u => Disjoint(Carried(u), Carried(v)))'
      BY <1>1, <2>1, <2>3 DEF NoOverlap
    <2> QED BY <1>1, <2>1, <2>3 DEF NoOverlap
  <1> QED BY <1>1, <1>2, <1>3

(* A step that only moves thread t and the lock.                           *)
LEMMA QuietStep ==
    ASSUME IInv, NEW t \in Threads, NEW s \in ThreadState, th' = [th EXCEPT ![t] = s],
           UNCHANGED <<chunk, free, chunks, live>>, locked' \in BOOLEAN,
           InSection(t)' => InSection(t) \/ ~locked,
           locked' <=> InSection(t)' \/ (locked /\ ~InSection(t)),
           ThreadOK(t)', InFlight(t)' => InFlight(t) /\ Carried(t)' = Carried(t)
    PROVE  IInv'
  <1>1. TypeOK'
    BY OtherThreads DEF IInv, TypeOK
  <1>2. MutualExclusion'
    <2>1. \A u \in Threads : u # t => (InSection(u)' <=> InSection(u))
      BY OtherThreads
    <2> QED BY <2>1, LockStep
  <1>3. ThreadsOK'
    BY ThreadsStep
  <1>4. ChunkOK' /\ InsideChunks' /\ NoOverlap'
    BY OtherThreads, MemoryFrame
  <1> QED BY <1>1, <1>2, <1>3, <1>4 DEF IInv

(* What the invariant says of one thread.                                  *)
LEMMA ThreadFacts ==
    ASSUME IInv, NEW t \in Threads
    PROVE  /\ th[t] \in ThreadState /\ ThreadOK(t)
           /\ InSection(t) => locked
           /\ th = [th EXCEPT ![t] = th[t]]
  <1>1. th \in [Threads -> ThreadState]
    BY DEF IInv, TypeOK
  <1>2. ThreadOK(t)
    BY DEF IInv, ThreadsOK
  <1>3. InSection(t) => locked
    BY DEF IInv, MutualExclusion
  <1> QED BY <1>1, <1>2, <1>3

(* A small alloc begins.                                                   *)
LEMMA AllocSmallStep ==
    ASSUME IInv, NEW t \in Threads, NEW l \in Layouts, AllocSmall(t, l)
    PROVE  IInv'
  <1> DEFINE s == Start("spin", "alloc", l, Null)
  <1>1. s \in ThreadState /\ s.pc = "spin" /\ s.op = "alloc" /\ s.layout = l
    BY DEF Start, ThreadState, Pc, Null
  <1>2. th' = [th EXCEPT ![t] = s] /\ UNCHANGED <<chunk, free, chunks, live, locked>>
        /\ th[t].pc = "idle" /\ ~IsLarge(l)
    BY DEF AllocSmall
  <1> HIDE DEF s
  <1>3. th'[t] = s
    BY <1>1, <1>2, OtherThreads
  <1>4. ~InSection(t) /\ ~InSection(t)' /\ ~InFlight(t)'
    BY <1>1, <1>2, <1>3 DEF InSection, InFlight
  <1>5. ThreadOK(t)'
    BY <1>1, <1>2, <1>3 DEF ThreadOK
  <1>6. locked' \in BOOLEAN
    BY <1>2 DEF IInv, TypeOK
  <1> QED BY <1>1, <1>2, <1>4, <1>5, <1>6, QuietStep

(* The compare_exchange succeeds.                                          *)
LEMMA AcquireStep ==
    ASSUME IInv, NEW t \in Threads, Acquire(t)
    PROVE  IInv'
  <1> DEFINE pc == IF th[t].op = "alloc" THEN "walk" ELSE "push"
             s == [th[t] EXCEPT !.pc = pc]
  <1>1. s \in ThreadState /\ s.pc = pc /\ s.op = th[t].op /\ s.layout = th[t].layout
        /\ s.ptr = th[t].ptr /\ th[t].op \in {"alloc", "dealloc"}
    BY ThreadFacts DEF ThreadState, Pc
  <1>2. th' = [th EXCEPT ![t] = s] /\ UNCHANGED <<chunk, free, chunks, live>>
        /\ th[t].pc = "spin" /\ ~locked /\ locked' = TRUE
    BY DEF Acquire, Goto
  <1> HIDE DEF s
  <1>3. th'[t] = s
    BY <1>1, <1>2, OtherThreads
  <1>4. InSection(t)' /\ (InFlight(t)' => InFlight(t) /\ Carried(t)' = Carried(t))
    BY <1>1, <1>2, <1>3 DEF InSection, InFlight, Carried, Size
  <1>5. ThreadOK(t)'
    BY <1>1, <1>2, <1>3, ThreadFacts DEF ThreadOK
  <1> QED BY <1>1, <1>2, <1>4, <1>5, QuietStep

(* One node of the search.                                                 *)
LEMMA WalkStep ==
    ASSUME IInv, NEW t \in Threads, Walk(t)
    PROVE  IInv'
  <1>0. th[t].pc = "walk" /\ UNCHANGED <<locked, chunk, free, chunks, live>>
        /\ th[t].op = "alloc" /\ ~IsLarge(th[t].layout)
    BY ThreadFacts DEF Walk, ThreadOK
  <1>1. PICK s \in ThreadState : th' = [th EXCEPT ![t] = s] /\ s.op = "alloc"
           /\ s.pc \in {"walk", "take", "bump"} /\ s.layout = th[t].layout
           /\ (s.pc = "take" => s.cursor <= Len(free) /\ Fits(free[s.cursor], Size(t), Align(t)))
    <2>1. CASE th[t].cursor > Len(free) /\ Goto(t, "bump")
      <3> DEFINE s == [th[t] EXCEPT !.pc = "bump"]
      <3>1. s \in ThreadState /\ s.op = "alloc" /\ s.layout = th[t].layout /\ s.pc = "bump"
        BY <1>0, ThreadFacts DEF ThreadState, Pc
      <3> QED BY <2>1, <3>1 DEF Goto
    <2>2. CASE th[t].cursor <= Len(free) /\ Fits(free[th[t].cursor], Size(t), Align(t))
               /\ Goto(t, "take")
      <3> DEFINE s == [th[t] EXCEPT !.pc = "take"]
      <3>1. s \in ThreadState /\ s.op = "alloc" /\ s.layout = th[t].layout /\ s.pc = "take"
            /\ s.cursor = th[t].cursor
        BY <1>0, ThreadFacts DEF ThreadState, Pc
      <3> QED BY <2>2, <3>1 DEF Goto
    <2>3. CASE th' = [th EXCEPT ![t].cursor = @ + 1]
      <3> DEFINE s == [th[t] EXCEPT !.cursor = @ + 1]
      <3>1. s \in ThreadState /\ s.op = "alloc" /\ s.layout = th[t].layout /\ s.pc = "walk"
        BY <1>0, ThreadFacts DEF ThreadState, Pc
      <3> QED BY <2>3, <3>1
    <2> QED BY <2>1, <2>2, <2>3 DEF Walk
  <1>2. th'[t] = s
    BY <1>1, OtherThreads
  <1>3. InSection(t) /\ InSection(t)' /\ ~InFlight(t)'
    BY <1>0, <1>1, <1>2 DEF InSection, InFlight
  <1>4. Size(t)' = Size(t) /\ Align(t)' = Align(t)
    BY <1>1, <1>2 DEF Size, Align
  <1>5. ThreadOK(t)'
    BY <1>0, <1>1, <1>2, <1>4 DEF ThreadOK
  <1> QED BY <1>0, <1>1, <1>3, <1>5, ThreadFacts, QuietStep

-----------------------------------------------------------------------------
(* The steps that move memory.                                             *)

(* What they have in common inside the section.                            *)
LEMMA SectionStep ==
    ASSUME IInv, NEW t \in Threads, NEW s \in ThreadState, th' = [th EXCEPT ![t] = s],
           InSection(t), InSection(t)', locked' = locked, ThreadOK(t)',
           chunk' \in Chunk, free' \in Seq(Extent), chunks' \subseteq Extent, live' = live
    PROVE  TypeOK' /\ MutualExclusion' /\ ThreadsOK'
  <1>1. TypeOK'
    BY OtherThreads DEF IInv, TypeOK
  <1>2. MutualExclusion'
    <2>1. \A u \in Threads : u # t => (InSection(u)' <=> InSection(u))
      BY OtherThreads
    <2> QED BY <2>1, LockStep, ThreadFacts
  <1>3. ThreadsOK'
    BY ThreadsStep
  <1> QED BY <1>1, <1>2, <1>3

(* The block in flight becomes the head of the list.                       *)
LEMMA PushStep ==
    ASSUME IInv, NEW t \in Threads, Push(t)
    PROVE  IInv'
  <1> DEFINE s == [th[t] EXCEPT !.pc = "unlock"]
             node == Carried(t)
  <1>0. th[t].pc = "push" /\ th[t].op = "dealloc" /\ ~IsLarge(th[t].layout)
        /\ UNCHANGED <<locked, chunk, chunks, live>> /\ free' = <<node>> \o free
        /\ th' = [th EXCEPT ![t] = s]
    BY ThreadFacts DEF Push, Goto, ThreadOK, Carried
  <1>1. s \in ThreadState /\ s.pc = "unlock" /\ s.op = "dealloc" /\ s.layout = th[t].layout
    BY <1>0, ThreadFacts DEF ThreadState, Pc
  <1>2. TypeOK /\ ChunkOK /\ InsideChunks /\ NoOverlap
    BY DEF IInv
  <1>3. node \in Extent /\ free \in Seq(Extent)
    BY <1>2, ExtentFacts DEF TypeOK
  <1> HIDE DEF s, node
  <1>4. free' \in Seq(Extent) /\ Len(free') = Len(free) + 1 /\ free'[1] = node
        /\ \A i \in 2..Len(free) + 1 : free'[i] = free[i - 1] /\ i - 1 \in DOMAIN free
    BY <1>0, <1>3
  <1>5. th'[t] = s /\ InSection(t) /\ InSection(t)' /\ InFlight(t) /\ ~InFlight(t)'
    BY <1>0, <1>1, OtherThreads DEF InSection, InFlight
  <1>6. ThreadOK(t)'
    BY <1>0, <1>1, <1>5 DEF ThreadOK
  <1>7. TypeOK' /\ MutualExclusion' /\ ThreadsOK'
    BY <1>0, <1>1, <1>2, <1>4, <1>5, <1>6, SectionStep DEF TypeOK
  <1>8. ChunkOK' /\ Unused' = Unused
    BY <1>0, <1>2 DEF ChunkOK, Unused
  <1>9. \A i \in DOMAIN free' : i = 1 \/ i \in 2..Len(free) + 1
    BY <1>4
  <1>10. \A u \in Threads : InFlight(u)' => u # t /\ InFlight(u) /\ Carried(u)' = Carried(u)
    BY <1>0, <1>1, <1>5, OtherThreads
  <1>11. InsideChunks'
    BY <1>0, <1>2, <1>4, <1>5, <1>9, <1>10 DEF InsideChunks, node
  <1>12. NoOverlap'
    <2>1. ASSUME NEW i \in DOMAIN free', NEW j \in DOMAIN free', i # j
          PROVE  Disjoint(free'[i], free'[j])
      <3>1. \A k \in DOMAIN free : Disjoint(node, free[k]) /\ Disjoint(free[k], node)
        <4>1. \A k \in DOMAIN free : free[k] \in Extent
          BY <1>3
        <4>2. \A k \in DOMAIN free : Disjoint(node, free[k])
          BY <1>2, <1>5 DEF NoOverlap, node
        <4> QED BY <1>3, <4>1, <4>2, DisjointFacts
      <3>2. \A k, l \in DOMAIN free : k # l => Disjoint(free[k], free[l])
        BY <1>2 DEF NoOverlap
      <3>3. CASE i = 1
        BY <1>4, <1>9, <2>1, <3>1, <3>3
      <3>4. CASE j = 1
        BY <1>4, <1>9, <2>1, <3>1, <3>4
      <3>5. CASE i # 1 /\ j # 1
        <4>1. i - 1 \in DOMAIN free /\ j - 1 \in DOMAIN free /\ i - 1 # j - 1
              /\ free'[i] = free[i - 1] /\ free'[j] = free[j - 1]
          BY <1>3, <1>4, <1>9, <2>1, <3>5
        <4> QED BY <3>2, <4>1
      <3> QED BY <3>3, <3>4, <3>5
    <2>2. ASSUME NEW a \in live, NEW i \in DOMAIN free' PROVE Disjoint(ExtentOf(a), free'[i])
      <3>1. ExtentOf(a) \in Extent /\ Disjoint(node, ExtentOf(a))
        BY <1>2, <1>5, ExtentFacts DEF NoOverlap, node
      <3>2. Disjoint(ExtentOf(a), node)
        BY <1>3, <3>1, DisjointFacts
      <3> QED BY <1>2, <1>4, <1>9, <3>2 DEF NoOverlap
    <2>3. ASSUME NEW i \in DOMAIN free' PROVE Disjoint(free'[i], Unused)
      BY <1>2, <1>4, <1>5, <1>9 DEF NoOverlap, node
    <2>4. ASSUME NEW u \in Threads, InFlight(u)', NEW i \in DOMAIN free'
          PROVE  Disjoint(Carried(u), free'[i])
      BY <1>2, <1>4, <1>5, <1>9, <1>10, <2>4 DEF NoOverlap, node
    <2> QED BY <1>0, <1>2, <1>8, <1>10, <2>1, <2>2, <2>3, <2>4 DEF NoOverlap
  <1> QED BY <1>7, <1>8, <1>11, <1>12 DEF IInv

(* src names, for each node of the list after a take, the node of the old  *)
(* list it lies in: no two lie in the same one, and what is left of the    *)
(* node taken starts behind the block.                                     *)
IsSource(src, M, L, c, n) ==
    /\ \A i, j \in DOMAIN M : src[i] = src[j] => i = j
    /\ \A i \in DOMAIN M :
          /\ Inside(M[i], L[src[i]])
          /\ src[i] = c => /\ M[i] = [addr |-> L[c].addr + n, size |-> L[c].size - n]
                           /\ L[c].size - n >= MIN_REUSE
          /\ src[i] # c => M[i] = L[src[i]]

(* take_from_free_list's new list has such a source.                       *)
LEMMA TakenList ==
    ASSUME NEW L \in Seq(Extent), NEW c \in 1..Len(L), NEW n \in Nat, L[c].size >= n,
           NEW M, M = Leftover(L[c], n) \o RemoveAt(L, c)
    PROVE  /\ M \in Seq(Extent)
           /\ \E src \in [DOMAIN M -> DOMAIN L] : IsSource(src, M, L, c, n)
  <1> DEFINE R == RemoveAt(L, c)
             rest == [addr |-> L[c].addr + n, size |-> L[c].size - n]
             from(k) == IF k < c THEN k ELSE k + 1
  <1>1. R \in Seq(Extent) /\ Len(R) = Len(L) - 1 /\ \A k \in 1..Len(L) - 1 : R[k] = L[from(k)]
    BY RemoveAtFacts
  <1>2. L[c] \in Extent /\ \A k \in DOMAIN L : L[k] \in Extent
    OBVIOUS
  <1>3. rest \in Extent /\ Inside(rest, L[c]) /\ rest.addr = L[c].addr + n
    BY <1>2 DEF Extent, Inside
  <1>4. \A k \in DOMAIN L : Inside(L[k], L[k])
    BY <1>2 DEF Extent, Inside
  <1> HIDE DEF R, rest
  <1>5. CASE L[c].size - n >= MIN_REUSE
    <2>1. M = <<rest>> \o R
      BY <1>5 DEF Leftover, R, rest
    <2>2. M \in Seq(Extent) /\ Len(M) = Len(L) /\ M[1] = rest
          /\ \A i \in 2..Len(L) : M[i] = R[i - 1]
      BY <1>1, <1>3, <2>1
    <2> DEFINE src == [i \in DOMAIN M |-> IF i = 1 THEN c ELSE from(i - 1)]
    <2>3. src \in [DOMAIN M -> DOMAIN L]
      BY <2>2
    <2>4. \A i, j \in DOMAIN M : src[i] = src[j] => i = j
      BY <2>2
    <2>5. ASSUME NEW i \in DOMAIN M
          PROVE  /\ Inside(M[i], L[src[i]]) /\ (src[i] = c => M[i] = rest)
                 /\ (src[i] # c => M[i] = L[src[i]])
      <3>1. CASE i = 1
        BY <1>3, <2>2, <3>1
      <3>2. CASE i # 1
        <4>1. i \in 1..Len(L)
          BY <2>2
        <4>2. i - 1 \in 1..Len(L) - 1 /\ i \in 2..Len(L)
          BY <3>2, <4>1
        <4>3. src[i] = from(i - 1)
          BY <3>2
        <4>4. M[i] = L[from(i - 1)]
          BY <1>1, <2>2, <4>2
        <4>5. from(i - 1) # c /\ from(i - 1) \in DOMAIN L
          BY <4>2
        <4> QED BY <1>4, <4>3, <4>4, <4>5
      <3> QED BY <3>1, <3>2
    <2>6. IsSource(src, M, L, c, n)
      BY <1>5, <2>4, <2>5 DEF IsSource, rest
    <2> QED BY <2>2, <2>3, <2>6
  <1>6. CASE ~(L[c].size - n >= MIN_REUSE)
    <2>1. M = R
      BY <1>1, <1>6 DEF Leftover, R
    <2> DEFINE src == [i \in DOMAIN M |-> from(i)]
    <2>2. DOMAIN M = 1..Len(L) - 1
      BY <1>1, <2>1
    <2>3. src \in [DOMAIN M -> DOMAIN L]
      BY <2>2
    <2>4. \A i, j \in DOMAIN M : src[i] = src[j] => i = j
      BY <2>2
    <2>5. ASSUME NEW i \in DOMAIN M
          PROVE  Inside(M[i], L[src[i]]) /\ src[i] # c /\ M[i] = L[src[i]]
      BY <1>1, <1>4, <2>1, <2>2, <2>3
    <2>6. IsSource(src, M, L, c, n)
      BY <2>4, <2>5 DEF IsSource
    <2> QED BY <1>1, <2>1, <2>3, <2>6
  <1> QED BY <1>5, <1>6

(* The block taken leaves the list and is in flight.                       *)
LEMMA TakeStep ==
    ASSUME IInv, NEW t \in Threads, Take(t)
    PROVE  IInv'
  <1> DEFINE c == th[t].cursor
             s == [th[t] EXCEPT !.pc = "unlock", !.ptr = free[c].addr]
             blk == [addr |-> free[c].addr, size |-> Size(t)]
  <1>0. /\ th[t].pc = "take" /\ th[t].op = "alloc" /\ ~IsLarge(th[t].layout)
        /\ c <= Len(free) /\ Fits(free[c], Size(t), Align(t))
        /\ UNCHANGED <<locked, chunk, chunks, live>>
        /\ free' = Leftover(free[c], Size(t)) \o RemoveAt(free, c)
        /\ th' = [th EXCEPT ![t] = s]
    BY ThreadFacts DEF Take, ReturnPtr, ThreadOK
  <1>1. TypeOK /\ ChunkOK /\ InsideChunks /\ NoOverlap
    BY DEF IInv
  <1>2. free \in Seq(Extent) /\ c \in 1..Len(free) /\ Size(t) \in Nat /\ free[c].size >= Size(t)
        /\ free[c] \in Extent
    BY <1>0, <1>1, ThreadFacts, ExtentFacts DEF TypeOK, ThreadState, Fits
  <1>3. s \in ThreadState /\ s.pc = "unlock" /\ s.op = "alloc" /\ s.layout = th[t].layout
        /\ s.ptr = free[c].addr
    BY <1>0, <1>2, ThreadFacts DEF ThreadState, Pc, Extent
  <1>4. blk \in Extent /\ Inside(blk, free[c])
    BY <1>2 DEF Extent, Inside
  <1> HIDE DEF s, c
  <1>5. th'[t] = s /\ InSection(t) /\ InSection(t)' /\ Carried(t)' = blk
    BY <1>0, <1>3, OtherThreads DEF InSection, Carried, Size
  <1>6. free' \in Seq(Extent)
    BY <1>0, <1>2, TakenList
  <1>70. PICK src \in [DOMAIN free' -> DOMAIN free] : IsSource(src, free', free, c, Size(t))
    BY <1>0, <1>2, TakenList
  <1>7. /\ \A i, j \in DOMAIN free' : src[i] = src[j] => i = j
        /\ \A i \in DOMAIN free' : /\ Inside(free'[i], free[src[i]])
                                   /\ src[i] = c => free'[i].addr = free[c].addr + Size(t)
    BY <1>70 DEF IsSource
  <1> HIDE DEF blk
  <1>8. ThreadOK(t)'
    BY <1>0, <1>3, <1>5 DEF ThreadOK
  <1>9. TypeOK' /\ MutualExclusion' /\ ThreadsOK'
    BY <1>0, <1>1, <1>3, <1>5, <1>6, <1>8, SectionStep DEF TypeOK
  <1>10. ChunkOK' /\ Unused' = Unused /\ Unused \in Extent
    BY <1>0, <1>1, ExtentFacts DEF ChunkOK, Unused
  <1>11. ASSUME NEW i \in DOMAIN free'
         PROVE  /\ free'[i] \in Extent /\ src[i] \in DOMAIN free /\ free[src[i]] \in Extent
                /\ Inside(free'[i], free[src[i]])
    BY <1>1, <1>6, <1>7, ExtentFacts
  <1>12. \A u \in Threads : u # t /\ InFlight(u)' => InFlight(u) /\ Carried(u)' = Carried(u)
    BY <1>0, <1>3, OtherThreads
  <1>13. \A a \in live : ExtentOf(a) \in Extent
    BY <1>1, ExtentFacts
  <1>14. \A u \in Threads : Carried(u) \in Extent
    BY <1>1, ExtentFacts
  <1>15. InsideChunks'
    <2>1. ASSUME NEW i \in DOMAIN free' PROVE \E k \in chunks : Inside(free'[i], k)
      <3>1. PICK k \in chunks : Inside(free[src[i]], k)
        BY <1>1, <1>11 DEF InsideChunks
      <3> QED BY <1>1, <1>11, <3>1, DisjointFacts DEF TypeOK
    <2>2. \E k \in chunks : Inside(blk, k)
      <3>1. PICK k \in chunks : Inside(free[c], k)
        BY <1>1, <1>2 DEF InsideChunks
      <3> QED BY <1>1, <1>2, <1>4, <3>1, DisjointFacts DEF TypeOK
    <2>3. ASSUME NEW u \in Threads, InFlight(u)' PROVE \E k \in chunks : Inside(Carried(u)', k)
      BY <1>1, <1>5, <1>12, <2>2, <2>3 DEF InsideChunks
    <2> QED BY <1>0, <1>1, <2>1, <2>3 DEF InsideChunks
  <1>16. NoOverlap'
    <2>1. ASSUME NEW x \in Extent, \A k \in DOMAIN free : Disjoint(x, free[k])
          PROVE  Disjoint(x, blk) /\ \A i \in DOMAIN free' : Disjoint(x, free'[i])
      <3>1. Disjoint(blk, x)
        BY <1>2, <1>4, <2>1, DisjointFacts
      <3>2. ASSUME NEW i \in DOMAIN free' PROVE Disjoint(free'[i], x)
        BY <1>11, <2>1, DisjointFacts
      <3> QED BY <1>4, <1>11, <2>1, <3>1, <3>2, DisjointFacts
    <2>2. ASSUME NEW i \in DOMAIN free', NEW j \in DOMAIN free', i # j
          PROVE  Disjoint(free'[i], free'[j])
      <3>1. Disjoint(free[src[i]], free[src[j]])
        BY <1>1, <1>7, <1>11, <2>2 DEF NoOverlap
      <3>2. Disjoint(free'[i], free[src[j]])
        BY <1>11, <3>1, DisjointFacts
      <3> QED BY <1>11, <3>2, DisjointFacts
    <2>3. ASSUME NEW i \in DOMAIN free' PROVE Disjoint(blk, free'[i])
      <3>1. CASE src[i] = c
        <4>1. free'[i].addr = blk.addr + blk.size
          BY <1>7, <3>1 DEF blk
        <4> QED BY <1>4, <1>11, <4>1 DEF Disjoint, Extent
      <3>2. CASE src[i] # c
        <4>1. Disjoint(free[c], free[src[i]])
          BY <1>1, <1>2, <1>11, <3>2 DEF NoOverlap
        <4>2. Disjoint(blk, free[src[i]])
          BY <1>2, <1>4, <1>11, <4>1, DisjointFacts
        <4> QED BY <1>4, <1>11, <4>2, DisjointFacts
      <3> QED BY <3>1, <3>2
    <2>4. ASSUME NEW a \in live
          PROVE  Disjoint(blk, ExtentOf(a)) /\ \A i \in DOMAIN free' : Disjoint(ExtentOf(a), free'[i])
      BY <1>1, <1>4, <1>13, <2>1, DisjointFacts DEF NoOverlap
    <2>5. \A k \in DOMAIN free : Disjoint(Unused, free[k])
      BY <1>1, <1>10, ExtentFacts, DisjointFacts DEF NoOverlap
    <2>6. Disjoint(blk, Unused) /\ \A i \in DOMAIN free' : Disjoint(free'[i], Unused)
      BY <1>4, <1>10, <1>11, <2>1, <2>5, DisjointFacts
    <2>7. ASSUME NEW u \in Threads, InFlight(u), u # t
          PROVE  /\ Disjoint(Carried(u), blk) /\ Disjoint(blk, Carried(u))
                 /\ \A i \in DOMAIN free' : Disjoint(Carried(u), free'[i])
      BY <1>1, <1>4, <1>14, <2>1, <2>7, DisjointFacts DEF NoOverlap
    <2>8. ASSUME NEW u \in Threads, InFlight(u)'
          PROVE  (/\ \A a \in live : Disjoint(Carried(u), ExtentOf(a))
                  /\ \A i \in DOMAIN free : Disjoint(Carried(u), free[i])
                  /\ Disjoint(Carried(u), Unused)
                  /\ \A v \in Threads : InFlight(v) /\ v # u => Disjoint(Carried(u), Carried(v)))'
      <3>1. CASE u = t
        BY <1>0, <1>5, <1>10, <1>12, <2>3, <2>4, <2>6, <2>7, <3>1
      <3>2. CASE u # t
        <4>1. InFlight(u) /\ Carried(u)' = Carried(u)
          BY <1>12, <2>8, <3>2
        <4>2. \A v \in Threads : InFlight(v)' /\ v # u => Disjoint(Carried(u), Carried(v)')
          BY <1>1, <1>5, <1>12, <2>7, <3>2, <4>1 DEF NoOverlap
        <4> QED BY <1>0, <1>1, <1>10, <2>7, <3>2, <4>1, <4>2 DEF NoOverlap
      <3> QED BY <3>1, <3>2
    <2> QED BY <1>0, <1>1, <1>10, <2>2, <2>4, <2>6, <2>8 DEF NoOverlap
  <1> QED BY <1>9, <1>10, <1>15, <1>16 DEF IInv

(* bump_alloc that succeeds: a block is cut from the unused part of the    *)
(* chunk.                                                                  *)
LEMMA BumpMove ==
    ASSUME IInv, NEW t \in Threads, th[t].pc \in {"bump", "rebump"},
           BumpFits(chunk, Size(t), Align(t)), chunk' = Bumped(t),
           ReturnPtr(t, BumpAddr(chunk, Align(t))), UNCHANGED <<locked, free, chunks, live>>
    PROVE  IInv'
  <1> DEFINE addr == BumpAddr(chunk, Align(t))
             s == [th[t] EXCEPT !.pc = "unlock", !.ptr = addr]
             blk == [addr |-> addr, size |-> Size(t)]
  <1>1. TypeOK /\ ChunkOK /\ InsideChunks /\ NoOverlap
    BY DEF IInv
  <1>2. th[t].op = "alloc" /\ ~IsLarge(th[t].layout) /\ th[t] \in ThreadState
    BY ThreadFacts DEF ThreadOK
  <1>3. Size(t) \in Nat /\ Align(t) \in Nat \ {0} /\ Unused \in Extent
    BY <1>1, ExtentFacts
  <1>4. chunk \in Chunk /\ chunk.base \in Nat /\ chunk.size \in Nat /\ chunk.offset \in Nat
        /\ chunk.offset <= chunk.size
    BY <1>1 DEF TypeOK, Chunk, ChunkOK
  <1>5. addr \in Nat /\ chunk.base + chunk.offset <= addr
        /\ addr + Size(t) - chunk.base <= chunk.size /\ chunk # NoChunk
    <2>1. chunk.base + chunk.offset \in Nat
      BY <1>4
    <2>2. addr \in Nat /\ chunk.base + chunk.offset <= addr
      BY <1>3, <2>1, AlignUpFacts DEF BumpAddr
    <2> QED BY <2>2 DEF BumpFits
  <1> HIDE DEF addr
  <1>6. chunk' = [chunk EXCEPT !.offset = addr + Size(t) - chunk.base]
        /\ th' = [th EXCEPT ![t] = s]
    BY DEF Bumped, ReturnPtr, addr
  <1>7. chunk' \in Chunk /\ chunk'.base = chunk.base /\ chunk'.size = chunk.size
        /\ chunk'.offset = addr + Size(t) - chunk.base /\ chunk'.offset <= chunk.size
    BY <1>3, <1>4, <1>5, <1>6 DEF Chunk
  <1>8. s \in ThreadState /\ s.pc = "unlock" /\ s.op = "alloc" /\ s.layout = th[t].layout
        /\ s.ptr = addr
    BY <1>2, <1>5 DEF ThreadState, Pc
  <1>9. blk \in Extent /\ Inside(blk, Unused)
    BY <1>3, <1>4, <1>5 DEF Extent, Inside, Unused
  <1>10. Unused' \in Extent /\ Inside(Unused', Unused) /\ Disjoint(blk, Unused')
    BY <1>3, <1>4, <1>5, <1>7 DEF Extent, Inside, Disjoint, Unused
  <1> HIDE DEF s, blk
  <1>11. th'[t] = s /\ InSection(t) /\ InSection(t)' /\ Carried(t)' = blk
    BY <1>6, <1>8, OtherThreads DEF InSection, Carried, Size, blk
  <1>12. ThreadOK(t)'
    BY <1>2, <1>8, <1>11 DEF ThreadOK
  <1>13. TypeOK' /\ MutualExclusion' /\ ThreadsOK'
    BY <1>1, <1>6, <1>7, <1>8, <1>11, <1>12, SectionStep DEF TypeOK
  <1>14. ChunkOK'
    BY <1>1, <1>5, <1>7 DEF ChunkOK
  <1>15. \A u \in Threads : u # t /\ InFlight(u)' => InFlight(u) /\ Carried(u)' = Carried(u)
    BY <1>6, <1>8, OtherThreads
  <1>16. InsideChunks'
    <2> DEFINE c == [addr |-> chunk.base, size |-> chunk.size]
    <2>1. c \in chunks /\ Inside(blk, c)
      BY <1>1, <1>3, <1>4, <1>5 DEF ChunkOK, Inside, blk
    <2>2. ASSUME NEW u \in Threads, InFlight(u)' PROVE \E k \in chunks : Inside(Carried(u)', k)
      BY <1>1, <1>11, <1>15, <2>1, <2>2 DEF InsideChunks
    <2> QED BY <1>1, <2>2 DEF InsideChunks
  <1>17. NoOverlap'
    <2>1. ASSUME NEW x \in Extent, Disjoint(x, Unused)
          PROVE  Disjoint(x, blk) /\ Disjoint(blk, x) /\ Disjoint(x, Unused')
      <3>1. Disjoint(Unused, x)
        BY <1>3, <2>1, DisjointFacts
      <3>2. Disjoint(blk, x) /\ Disjoint(Unused', x)
        BY <1>3, <1>9, <1>10, <3>1, DisjointFacts
      <3> QED BY <1>9, <1>10, <3>2, DisjointFacts
    <2>2. ASSUME NEW a \in live PROVE Disjoint(blk, ExtentOf(a)) /\ Disjoint(ExtentOf(a), Unused')
      BY <1>1, <2>1, ExtentFacts DEF NoOverlap
    <2>3. ASSUME NEW i \in DOMAIN free PROVE Disjoint(blk, free[i]) /\ Disjoint(free[i], Unused')
      BY <1>1, <2>1, ExtentFacts DEF NoOverlap
    <2>4. ASSUME NEW u \in Threads, InFlight(u)
          PROVE  Disjoint(blk, Carried(u)) /\ Disjoint(Carried(u), blk) /\ Disjoint(Carried(u), Unused')
      BY <1>1, <2>1, <2>4, ExtentFacts DEF NoOverlap
    <2>5. ASSUME NEW u \in Threads, InFlight(u)'
          PROVE  (/\ \A a \in live : Disjoint(Carried(u), ExtentOf(a))
                  /\ \A i \in DOMAIN free : Disjoint(Carried(u), free[i])
                  /\ Disjoint(Carried(u), Unused)
                  /\ \A v \in Threads : InFlight(v) /\ v # u => Disjoint(Carried(u), Carried(v)))'
      <3>1. CASE u = t
        BY <1>10, <1>11, <1>15, <2>2, <2>3, <2>4, <3>1
      <3>2. CASE u # t
        <4>1. InFlight(u) /\ Carried(u)' = Carried(u)
          BY <1>15, <2>5, <3>2
        <4>2. \A v \in Threads : InFlight(v)' /\ v # u => Disjoint(Carried(u), Carried(v)')
          BY <1>1, <1>11, <1>15, <2>4, <3>2, <4>1 DEF NoOverlap
        <4> QED BY <1>1, <2>4, <3>2, <4>1, <4>2 DEF NoOverlap
      <3> QED BY <3>1, <3>2
    <2> QED BY <1>1, <2>2, <2>3, <2>5 DEF NoOverlap
  <1> QED BY <1>13, <1>14, <1>16, <1>17 DEF IInv

(* A step inside the section that only moves thread t, to a place where it *)
(* carries nothing: bump_alloc or the backend has failed.                  *)
LEMMA SectionMove ==
    ASSUME IInv, NEW t \in Threads, th[t].op = "alloc", ~IsLarge(th[t].layout),
           InSection(t), NEW pc \in {"grow", "unlock"},
           NEW s \in ThreadState, th' = [th EXCEPT ![t] = s],
           s.pc = pc, s.op = "alloc", s.layout = th[t].layout,
           pc = "unlock" => s.ptr = Null, UNCHANGED <<locked, chunk, free, chunks, live>>
    PROVE  IInv'
  <1>1. th'[t] = s
    BY OtherThreads
  <1>2. InSection(t)' /\ ~InFlight(t)'
    BY <1>1 DEF InSection, InFlight
  <1>3. ThreadOK(t)'
    BY <1>1 DEF ThreadOK
  <1>4. locked /\ locked' \in BOOLEAN
    BY ThreadFacts DEF IInv, TypeOK
  <1> QED BY <1>2, <1>3, <1>4, QuietStep

(* The first bump_alloc.                                                   *)
LEMMA BumpStep ==
    ASSUME IInv, NEW t \in Threads, Bump(t)
    PROVE  IInv'
  <1>1. CASE BumpFits(chunk, Size(t), Align(t))
    BY <1>1, BumpMove DEF Bump
  <1>2. CASE ~BumpFits(chunk, Size(t), Align(t))
    <2> DEFINE s == [th[t] EXCEPT !.pc = "grow"]
    <2>1. th[t].pc = "bump" /\ th' = [th EXCEPT ![t] = s]
          /\ UNCHANGED <<locked, chunk, free, chunks, live>>
      BY <1>2 DEF Bump, Goto
    <2>2. th[t].op = "alloc" /\ ~IsLarge(th[t].layout) /\ InSection(t) /\ th[t] \in ThreadState
      BY <2>1, ThreadFacts DEF ThreadOK, InSection
    <2>3. s \in ThreadState /\ s.pc = "grow" /\ s.op = "alloc" /\ s.layout = th[t].layout
      BY <2>2 DEF ThreadState, Pc
    <2> QED BY <2>1, <2>2, <2>3, SectionMove
  <1> QED BY <1>1, <1>2

(* The second bump_alloc.                                                  *)
LEMMA RebumpStep ==
    ASSUME IInv, NEW t \in Threads, Rebump(t)
    PROVE  IInv'
  <1>1. CASE BumpFits(chunk, Size(t), Align(t))
    BY <1>1, BumpMove DEF Rebump
  <1>2. CASE ~BumpFits(chunk, Size(t), Align(t))
    <2> DEFINE s == [th[t] EXCEPT !.pc = "unlock", !.ptr = Null]
    <2>1. th[t].pc = "rebump" /\ th' = [th EXCEPT ![t] = s]
          /\ UNCHANGED <<locked, chunk, free, chunks, live>>
      BY <1>2 DEF Rebump, ReturnPtr
    <2>2. th[t].op = "alloc" /\ ~IsLarge(th[t].layout) /\ InSection(t) /\ th[t] \in ThreadState
      BY <2>1, ThreadFacts DEF ThreadOK, InSection
    <2>3. s \in ThreadState /\ s.pc = "unlock" /\ s.op = "alloc" /\ s.layout = th[t].layout
          /\ s.ptr = Null
      BY <2>2 DEF ThreadState, Pc, Null
    <2> QED BY <2>1, <2>2, <2>3, SectionMove
  <1> QED BY <1>1, <1>2

(* A new chunk replaces the old one, whose unused part is given up.        *)
LEMMA GrowStep ==
    ASSUME IInv, NEW t \in Threads, Grow(t)
    PROVE  IInv'
  <1>0. th[t].pc = "grow" /\ th[t].op = "alloc" /\ ~IsLarge(th[t].layout) /\ InSection(t)
        /\ th[t] \in ThreadState /\ UNCHANGED <<locked, free, live>>
    BY ThreadFacts DEF Grow, ThreadOK, InSection
  <1>1. CASE ReturnPtr(t, Null) /\ UNCHANGED <<chunks, chunk>>
    <2> DEFINE s == [th[t] EXCEPT !.pc = "unlock", !.ptr = Null]
    <2>1. th' = [th EXCEPT ![t] = s]
      BY <1>1 DEF ReturnPtr
    <2>2. s \in ThreadState /\ s.pc = "unlock" /\ s.op = "alloc" /\ s.layout = th[t].layout
          /\ s.ptr = Null
      BY <1>0 DEF ThreadState, Pc, Null
    <2> QED BY <1>0, <1>1, <2>1, <2>2, SectionMove
  <1>2. ASSUME NEW r \in FreshRegions(NewChunkSize(t)), chunks' = chunks \cup {r},
               chunk' = [base |-> r.addr, size |-> r.size, offset |-> 0],
               Goto(t, "rebump")
        PROVE  IInv'
    <2> DEFINE s == [th[t] EXCEPT !.pc = "rebump"]
    <2>1. TypeOK /\ ChunkOK /\ InsideChunks /\ NoOverlap
      BY DEF IInv
    <2>2. NewChunkSize(t) \in Nat
      BY <2>1, ExtentFacts, SizesAssumption DEF NewChunkSize, Max2
    <2>3. /\ r \in Extent /\ r.addr > 0
          /\ \A b \in live : Disjoint(ExtentOf(b), r)
          /\ \A i \in DOMAIN free : Disjoint(free[i], r)
          /\ \A u \in Threads : InFlight(u) => Disjoint(Carried(u), r)
      BY <2>2, FreshFacts
    <2>4. chunk' \in Chunk /\ Unused' = r /\ ChunkOK'
      <3>1. r.addr \in Nat /\ r.size \in Nat /\ r = [addr |-> r.addr, size |-> r.size]
        BY <2>3 DEF Extent
      <3> QED BY <1>2, <2>3, <3>1 DEF Chunk, Unused, ChunkOK
    <2>5. s \in ThreadState /\ s.pc = "rebump" /\ s.op = "alloc" /\ s.layout = th[t].layout
          /\ th' = [th EXCEPT ![t] = s]
      BY <1>0, <1>2 DEF ThreadState, Pc, Goto
    <2> HIDE DEF s
    <2>6. th'[t] = s /\ InSection(t)' /\ ~InFlight(t)'
      BY <2>5, OtherThreads DEF InSection, InFlight
    <2>7. ThreadOK(t)'
      BY <1>0, <2>5, <2>6 DEF ThreadOK
    <2>8. TypeOK' /\ MutualExclusion' /\ ThreadsOK'
      BY <1>0, <1>2, <2>1, <2>3, <2>4, <2>5, <2>6, <2>7, SectionStep DEF TypeOK
    <2>9. \A u \in Threads : InFlight(u)' => InFlight(u) /\ Carried(u)' = Carried(u)
      BY <2>5, <2>6, OtherThreads
    <2>10. InsideChunks'
      BY <1>0, <1>2, <2>1, <2>9 DEF InsideChunks
    <2>11. NoOverlap'
      BY <1>0, <2>1, <2>3, <2>4, <2>9 DEF NoOverlap
    <2> QED BY <2>4, <2>8, <2>10, <2>11 DEF IInv
  <1> QED BY <1>1, <1>2 DEF Grow

(* The lock is given back, and the block in flight becomes the caller's.   *)
LEMMA ReleaseStep ==
    ASSUME IInv, NEW t \in Threads, Release(t)
    PROVE  IInv'
  <1> DEFINE b == [addr |-> th[t].ptr, layout |-> th[t].layout]
  <1>0. th[t].pc = "unlock" /\ ~IsLarge(th[t].layout) /\ InSection(t)
        /\ th[t] \in ThreadState /\ locked' = FALSE /\ UNCHANGED <<chunk, free, chunks>>
        /\ th' = [th EXCEPT ![t] = Idle]
    BY ThreadFacts DEF Release, ThreadOK, InSection
  <1>1. Idle \in ThreadState /\ Idle.pc = "idle"
    <2>1. (CHOOSE l \in Layouts : TRUE) \in Layouts
      BY NonEmptyAssumption
    <2> QED BY <2>1 DEF Idle, Start, ThreadState, Pc, Null
  <1>2. th'[t] = Idle /\ ~InSection(t)' /\ ThreadOK(t)'
    <2>1. th'[t] = Idle
      BY <1>0, <1>1, OtherThreads
    <2>2. th'[t].pc = "idle"
      BY <1>1, <2>1
    <2> QED BY <2>1, <2>2 DEF InSection, ThreadOK
  <1>3. ~InFlight(t)'
    <2>1. th'[t].pc = "idle"
      BY <1>1, <1>2
    <2> QED BY <2>1 DEF InFlight
  <1> HIDE DEF Idle
  <1>4. MutualExclusion' /\ ThreadsOK'
    <2>1. \A u \in Threads : u # t => (InSection(u)' <=> InSection(u))
      BY <1>0, <1>1, OtherThreads
    <2>2. MutualExclusion'
      BY <1>0, <1>2, <2>1, LockStep
    <2> QED BY <1>0, <1>1, <1>2, <2>2, ThreadsStep
  <1>5. TypeOK /\ ChunkOK /\ InsideChunks /\ NoOverlap
    BY DEF IInv
  <1>6. b \in Block /\ ExtentOf(b) = Carried(t)
    BY <1>0 DEF Block, ThreadState, ExtentOf, Carried, Size
  <1>7. (live' = live \cup {b} /\ InFlight(t)) \/ live' = live
    BY <1>0 DEF Release, InFlight
  <1>8. TypeOK'
    BY <1>0, <1>1, <1>5, <1>6, <1>7, OtherThreads DEF TypeOK
  <1>9. \A u \in Threads : InFlight(u)' => u # t /\ InFlight(u) /\ Carried(u)' = Carried(u)
    BY <1>0, <1>1, <1>3, OtherThreads
  <1>10. ChunkOK' /\ Unused' = Unused
    BY <1>0, <1>5 DEF ChunkOK, Unused
  <1>11. CASE live' = live
    BY <1>0, <1>4, <1>8, <1>9, <1>11, MemoryFrame DEF IInv
  <1>12. CASE live' = live \cup {b} /\ InFlight(t)
    <2> HIDE DEF b
    <2>1. InsideChunks'
      BY <1>0, <1>5, <1>6, <1>9, <1>12 DEF InsideChunks
    <2>2. /\ \A a \in live : Disjoint(ExtentOf(b), ExtentOf(a)) /\ Disjoint(ExtentOf(a), ExtentOf(b))
          /\ \A i \in DOMAIN free : Disjoint(ExtentOf(b), free[i])
          /\ Disjoint(ExtentOf(b), Unused)
      BY <1>5, <1>6, <1>12, ExtentFacts, DisjointFacts DEF NoOverlap
    <2>3. \A a, c \in live' : a # c => Disjoint(ExtentOf(a), ExtentOf(c))
      BY <1>5, <1>12, <2>2 DEF NoOverlap
    <2>4. ASSUME NEW u \in Threads, InFlight(u)'
          PROVE  \A a \in live' : Disjoint(Carried(u), ExtentOf(a))
      BY <1>5, <1>6, <1>9, <1>12, <2>4 DEF NoOverlap
    <2>5. NoOverlap'
      BY <1>0, <1>5, <1>9, <1>10, <1>12, <2>2, <2>3, <2>4 DEF NoOverlap
    <2> QED BY <1>4, <1>8, <1>10, <2>1, <2>5 DEF IInv
  <1> QED BY <1>7, <1>11, <1>12

(* The caller gives a small block back.                                    *)
LEMMA DeallocSmallStep ==
    ASSUME IInv, NEW t \in Threads, NEW b \in live, DeallocSmall(t, b)
    PROVE  IInv'
  <1> DEFINE s == Start("spin", "dealloc", b.layout, b.addr)
  <1>0. th[t].pc = "idle" /\ ~IsLarge(b.layout) /\ live' = live \ {b}
        /\ UNCHANGED <<locked, chunk, free, chunks>> /\ th' = [th EXCEPT ![t] = s]
    BY DEF DeallocSmall
  <1>1. TypeOK /\ ChunkOK /\ InsideChunks /\ NoOverlap
    BY DEF IInv
  <1>2. s \in ThreadState /\ s.pc = "spin" /\ s.op = "dealloc" /\ s.layout = b.layout
        /\ s.ptr = b.addr
    BY <1>1 DEF Start, ThreadState, Pc, TypeOK, Block
  <1> HIDE DEF s
  <1>3. th'[t] = s /\ ~InSection(t) /\ ~InSection(t)' /\ Carried(t)' = ExtentOf(b)
    BY <1>0, <1>2, OtherThreads DEF InSection, Carried, ExtentOf, Size
  <1>4. ThreadOK(t)'
    BY <1>0, <1>2, <1>3 DEF ThreadOK
  <1>5. MutualExclusion' /\ ThreadsOK'
    <2>1. \A u \in Threads : u # t => (InSection(u)' <=> InSection(u))
      BY <1>0, <1>2, OtherThreads
    <2>2. MutualExclusion'
      BY <1>0, <1>3, <2>1, LockStep
    <2> QED BY <1>0, <1>2, <1>4, <2>2, ThreadsStep
  <1>6. TypeOK'
    BY <1>0, <1>1, <1>2, OtherThreads DEF TypeOK
  <1>7. \A u \in Threads : u # t /\ InFlight(u)' => InFlight(u) /\ Carried(u)' = Carried(u)
    BY <1>0, <1>2, OtherThreads
  <1>8. ChunkOK' /\ Unused' = Unused
    BY <1>0, <1>1 DEF ChunkOK, Unused
  <1>9. InsideChunks'
    <2>1. \E c \in chunks : Inside(ExtentOf(b), c)
      BY <1>0, <1>1 DEF InsideChunks
    <2> QED BY <1>0, <1>1, <1>3, <1>7, <2>1 DEF InsideChunks
  <1>10. NoOverlap'
    <2>1. \A u \in Threads : InFlight(u) => Disjoint(Carried(u), ExtentOf(b))
                                            /\ Disjoint(ExtentOf(b), Carried(u))
      BY <1>1, ExtentFacts, DisjointFacts DEF NoOverlap
    <2>2. ASSUME NEW u \in Threads, InFlight(u)'
          PROVE  (/\ \A a \in live : Disjoint(Carried(u), ExtentOf(a))
                  /\ \A i \in DOMAIN free : Disjoint(Carried(u), free[i])
                  /\ Disjoint(Carried(u), Unused)
                  /\ \A v \in Threads : InFlight(v) /\ v # u => Disjoint(Carried(u), Carried(v)))'
      <3>1. CASE u = t
        BY <1>0, <1>1, <1>3, <1>7, <1>8, <2>1, <3>1 DEF NoOverlap
      <3>2. CASE u # t
        <4>1. InFlight(u) /\ Carried(u)' = Carried(u)
          BY <1>7, <2>2, <3>2
        <4>2. \A v \in Threads : InFlight(v)' /\ v # u => Disjoint(Carried(u), Carried(v)')
          BY <1>1, <1>3, <1>7, <2>1, <3>2, <4>1 DEF NoOverlap
        <4> QED BY <1>0, <1>1, <1>8, <4>1, <4>2 DEF NoOverlap
      <3> QED BY <3>1, <3>2
    <2> QED BY <1>0, <1>1, <1>8, <2>2 DEF NoOverlap
  <1> QED BY <1>5, <1>6, <1>8, <1>9, <1>10 DEF IInv

(* A large block comes straight from the kernel.                           *)
LEMMA AllocLargeStep ==
    ASSUME IInv, NEW t \in Threads, NEW l \in Layouts, AllocLarge(t, l)
    PROVE  IInv'
  <1>1. TypeOK /\ ChunkOK /\ InsideChunks /\ NoOverlap /\ MutualExclusion /\ ThreadsOK
    BY DEF IInv
  <1>2. NormSize(l) \in Nat
    BY NormFacts
  <1>3. PICK r \in FreshRegions(NormSize(l)) : live' = live \cup {[addr |-> r.addr, layout |-> l]}
    BY DEF AllocLarge
  <1> DEFINE b == [addr |-> r.addr, layout |-> l]
  <1>4. IsLarge(l) /\ UNCHANGED <<locked, chunk, free, chunks, th>>
    BY DEF AllocLarge
  <1>5. /\ r \in Extent /\ r.size = NormSize(l)
        /\ \A a \in live : Disjoint(ExtentOf(a), r)
        /\ \A i \in DOMAIN free : Disjoint(free[i], r)
        /\ \A u \in Threads : InFlight(u) => Disjoint(Carried(u), r)
        /\ Disjoint(Unused, r)
    BY <1>2, FreshFacts
  <1>6. b \in Block /\ ExtentOf(b) = r
    BY <1>5 DEF Block, ExtentOf, Extent
  <1> HIDE DEF b
  <1>7. live' = live \cup {b} /\ IsLarge(b.layout)
    BY <1>3, <1>4 DEF b
  <1>8. TypeOK'
    BY <1>1, <1>4, <1>6, <1>7 DEF TypeOK
  <1>9. ChunkOK' /\ MutualExclusion' /\ ThreadsOK' /\ Unused' = Unused
    BY <1>1, <1>4 DEF ChunkOK, MutualExclusion, InSection, ThreadsOK, ThreadOK, Size, Align, Unused
  <1>10. \A u \in Threads : (InFlight(u)' <=> InFlight(u)) /\ Carried(u)' = Carried(u)
    BY <1>4 DEF InFlight, Carried, Size
  <1>11. InsideChunks'
    BY <1>1, <1>4, <1>7, <1>10 DEF InsideChunks
  <1>12. NoOverlap'
    <2>1. /\ \A a \in live : Disjoint(r, ExtentOf(a))
          /\ \A i \in DOMAIN free : Disjoint(r, free[i])
          /\ Disjoint(r, Unused)
      BY <1>1, <1>5, ExtentFacts, DisjointFacts
    <2>2. \A a, c \in live' : a # c => Disjoint(ExtentOf(a), ExtentOf(c))
      BY <1>1, <1>5, <1>6, <1>7, <2>1 DEF NoOverlap
    <2>3. ASSUME NEW u \in Threads, InFlight(u)
          PROVE  \A a \in live' : Disjoint(Carried(u), ExtentOf(a))
      BY <1>1, <1>5, <1>6, <1>7, <2>3 DEF NoOverlap
    <2> QED BY <1>1, <1>4, <1>6, <1>7, <1>9, <1>10, <2>1, <2>2, <2>3 DEF NoOverlap
  <1> QED BY <1>8, <1>9, <1>11, <1>12 DEF IInv

(* A large block goes straight back to it.                                 *)
LEMMA DeallocLargeStep ==
    ASSUME IInv, NEW t \in Threads, NEW b \in live, DeallocLarge(t, b)
    PROVE  IInv'
  <1>1. TypeOK /\ ChunkOK /\ InsideChunks /\ NoOverlap /\ MutualExclusion /\ ThreadsOK
    BY DEF IInv
  <1>2. UNCHANGED <<locked, chunk, free, chunks, th>> /\ live' = live \ {b}
    BY DEF DeallocLarge
  <1>3. TypeOK'
    BY <1>1, <1>2 DEF TypeOK
  <1>4. ChunkOK' /\ MutualExclusion' /\ ThreadsOK' /\ Unused' = Unused
    BY <1>1, <1>2 DEF ChunkOK, MutualExclusion, InSection, ThreadsOK, ThreadOK, Size, Align, Unused
  <1>5. \A u \in Threads : (InFlight(u)' <=> InFlight(u)) /\ Carried(u)' = Carried(u)
    BY <1>2 DEF InFlight, Carried, Size
  <1>6. InsideChunks'
    BY <1>1, <1>2, <1>5 DEF InsideChunks
  <1>7. NoOverlap'
    BY <1>1, <1>2, <1>4, <1>5 DEF NoOverlap
  <1> QED BY <1>3, <1>4, <1>6, <1>7 DEF IInv

(* A step that changes nothing.                                            *)
LEMMA StutterStep ==
    ASSUME IInv, UNCHANGED vars
    PROVE  IInv'
  <1>1. TypeOK' /\ MutualExclusion' /\ ThreadsOK'
    BY DEF IInv, vars, TypeOK, MutualExclusion, InSection, ThreadsOK, ThreadOK, Size, Align
  <1>2. \A u \in Threads : InFlight(u)' => InFlight(u) /\ Carried(u)' = Carried(u)
    BY DEF vars, InFlight, Carried, Size
  <1>3. UNCHANGED <<chunk, free, chunks, live>>
    BY DEF vars
  <1> QED BY <1>1, <1>2, <1>3, MemoryFrame DEF IInv

-----------------------------------------------------------------------------
(* Every step of every thread keeps the invariant.                         *)
LEMMA NextIInv == IInv /\ [Next]_vars => IInv'
  <1> SUFFICES ASSUME IInv, [Next]_vars PROVE IInv'
    OBVIOUS
  <1>1. CASE UNCHANGED vars
    BY <1>1, StutterStep
  <1>2. ASSUME NEW t \in Threads, Call(t) PROVE IInv'
    BY <1>2, AllocLargeStep, AllocSmallStep, DeallocLargeStep, DeallocSmallStep DEF Call
  <1>3. ASSUME NEW t \in Threads, Acquire(t) PROVE IInv'
    BY <1>3, AcquireStep
  <1>4. ASSUME NEW t \in Threads, Section(t) PROVE IInv'
    BY <1>4, WalkStep, TakeStep, BumpStep, GrowStep, RebumpStep, PushStep, ReleaseStep
    DEF Section
  <1> QED BY <1>1, <1>2, <1>3, <1>4 DEF Next

(* The invariant holds in every reachable state, for every set of threads, *)
(* every set of layouts and every size of page, chunk and address space.   *)
THEOREM InvariantHolds == Spec => []IInv
  BY InitIInv, NextIInv, PTL DEF Spec

(* The allocator's state stays well typed.                                 *)
THEOREM TypeCorrect == Spec => []TypeOK
  <1>1. IInv => TypeOK
    BY DEF IInv
  <1> QED BY <1>1, InvariantHolds, PTL

(* with_state's spinlock admits one thread at a time to the state.         *)
THEOREM LockIsExclusive == Spec => []MutualExclusion
  <1>1. IInv => MutualExclusion
    BY DEF IInv
  <1> QED BY <1>1, InvariantHolds, PTL

(* alloc returns unique memory: no byte is at once in two blocks held by   *)
(* callers, in flight, in the free list or in the unused part of the       *)
(* chunk, however many threads allocate and free in whatever order.        *)
THEOREM MemoryIsUnique == Spec => []NoOverlap
  <1>1. IInv => NoOverlap
    BY DEF IInv
  <1> QED BY <1>1, InvariantHolds, PTL

(* Small blocks and free nodes always lie in chunks the kernel gave.       *)
THEOREM MemoryIsMapped == Spec => []InsideChunks
  <1>1. IInv => InsideChunks
    BY DEF IInv
  <1> QED BY <1>1, InvariantHolds, PTL

-----------------------------------------------------------------------------
(* Multiples.                                                              *)

(* What % says of a multiple.                                               *)
LEMMA Multiple ==
    ASSUME NEW a \in Nat, NEW n \in Nat \ {0}
    PROVE  /\ a % n = 0 => a = n * (a \div n) /\ a \div n \in Nat
           /\ (n * a) % n = 0
  OBVIOUS

(* Sums and differences of multiples are multiples.                        *)
LEMMA ModSum ==
    ASSUME NEW a \in Nat, NEW b \in Nat, NEW n \in Nat \ {0}, a % n = 0, b % n = 0
    PROVE  (a + b) % n = 0 /\ (a >= b => (a - b) % n = 0)
  <1>1. PICK q \in Nat : a = n * q
    BY Multiple
  <1>2. PICK r \in Nat : b = n * r
    BY Multiple
  <1>3. a + b = n * (q + r) /\ q + r \in Nat
    BY <1>1, <1>2
  <1>4. (n * (q + r)) % n = 0
    BY <1>3, Multiple
  <1>5. ASSUME a >= b PROVE (a - b) % n = 0
    <2>1. a - b = n * (q - r)
      BY <1>1, <1>2
    <2>2. q - r \in Nat
      <3>1. CASE q < r
        <4>1. n * r = n * q + n * (r - q)
          OBVIOUS
        <4>2. r - q >= 1 
          BY <3>1
        <4>3. n * (r - q) >= 1
          BY <4>2
        <4> QED BY <1>1, <1>2, <1>5, <4>1, <4>3
      <3>2. CASE ~(q < r)
        BY <3>2
      <3> QED BY <3>1, <3>2
    <2>3. (n * (q - r)) % n = 0
      BY <2>2, Multiple
    <2> QED BY <2>1, <2>3
  <1> QED BY <1>3, <1>4, <1>5

(* So are multiples of multiples.                                          *)
LEMMA ModTransitive ==
    ASSUME NEW a \in Nat, NEW n \in Nat \ {0}, NEW m \in Nat \ {0}, a % n = 0, n % m = 0
    PROVE  a % m = 0
  <1>1. PICK q \in Nat : a = n * q
    BY Multiple
  <1>2. PICK r \in Nat : n = m * r
    BY Multiple
  <1>3. a = m * (r * q) /\ r * q \in Nat
    BY <1>1, <1>2
  <1>4. (m * (r * q)) % m = 0
    BY <1>3, Multiple
  <1> QED BY <1>3, <1>4

(* Of two alignments the larger is a multiple of both.                     *)
LEMMA NormAlignFacts ==
    ASSUME NEW l \in Layouts, NEW a \in Nat, a % NormAlign(l) = 0
    PROVE  a % l.align = 0 /\ a % MIN_ALIGN = 0
  <1>1. l.align \in Nat \ {0} /\ MIN_ALIGN \in Nat \ {0} /\ NormAlign(l) \in Nat \ {0}
    BY NormFacts, SizesAssumption
  <1>2. CASE l.align % MIN_ALIGN = 0
    <2>1. NormAlign(l) = l.align
      BY <1>1, <1>2 DEF NormAlign, Max2
    <2> QED BY <1>1, <1>2, <2>1, ModTransitive
  <1>3. CASE MIN_ALIGN % l.align = 0
    <2>1. NormAlign(l) = MIN_ALIGN
      BY <1>1, <1>3 DEF NormAlign, Max2
    <2> QED BY <1>1, <1>3, <2>1, ModTransitive
  <1> QED BY <1>2, <1>3, AlignmentAssumption

-----------------------------------------------------------------------------
(* The second half of the inductive invariant: where blocks start, and     *)
(* what a thread knows of the chunk it has just mapped.                    *)

LiveAligned == \A b \in live : ~IsLarge(b.layout) => b.addr % MIN_ALIGN = 0
FlightAligned ==
    \A t \in Threads : InFlight(t) =>
        th[t].ptr % MIN_ALIGN = 0 /\ (th[t].op = "alloc" => th[t].ptr % Align(t) = 0)
ChunksBelow == \A c \in chunks : c.addr + c.size <= AddressLimit
FreshChunk ==
    \A t \in Threads : th[t].pc = "rebump" =>
        chunk # NoChunk /\ chunk.offset = 0 /\ chunk.size >= Size(t) + Align(t)

AInv == NodesFit /\ LiveAligned /\ FlightAligned /\ ChunksBelow /\ FreshChunk

(* The allocator starts in it.                                             *)
LEMMA InitAInv == Init => AInv
  <1> SUFFICES ASSUME Init PROVE AInv
    OBVIOUS
  <1>1. Idle.pc = "idle" /\ Idle.op = "alloc"
    BY DEF Idle, Start
  <1> HIDE DEF Idle
  <1>2. \A t \in Threads : th[t].pc = "idle" /\ th[t].op = "alloc"
    BY <1>1 DEF Init
  <1> QED BY <1>2 DEF Init, AInv, NodesFit, LiveAligned, FlightAligned, InFlight, ChunksBelow,
                      FreshChunk

(* A step of thread t: the other threads keep their part.                  *)
LEMMA AlignedStep ==
    ASSUME IInv, AInv, NEW t \in Threads, NEW s \in ThreadState, th' = [th EXCEPT ![t] = s],
           NodesFit', LiveAligned', ChunksBelow', chunk' = chunk \/ InSection(t),
           InFlight(t)' => /\ s.ptr % MIN_ALIGN = 0
                           /\ s.op = "alloc" => s.ptr % NormAlign(s.layout) = 0,
           s.pc = "rebump" => /\ chunk' # NoChunk /\ chunk'.offset = 0
                              /\ chunk'.size >= NormSize(s.layout) + NormAlign(s.layout)
    PROVE  AInv'
  <1>1. th'[t] = s
    BY OtherThreads
  <1>2. FlightAligned'
    <2> SUFFICES ASSUME NEW u \in Threads, InFlight(u)'
                 PROVE  (th[u].ptr % MIN_ALIGN = 0 /\ (th[u].op = "alloc" => th[u].ptr % Align(u) = 0))'
      BY DEF FlightAligned
    <2>1. CASE u = t
      BY <1>1, <2>1 DEF Align
    <2>2. CASE u # t
      <3>1. th'[u] = th[u] /\ InFlight(u) /\ Align(u)' = Align(u)
        BY <2>2, OtherThreads
      <3> QED BY <3>1 DEF AInv, FlightAligned
    <2> QED BY <2>1, <2>2
  <1>3. FreshChunk'
    <2> SUFFICES ASSUME NEW u \in Threads, th'[u].pc = "rebump"
                 PROVE  (chunk # NoChunk /\ chunk.offset = 0 /\ chunk.size >= Size(u) + Align(u))'
      BY DEF FreshChunk
    <2>1. CASE u = t
      BY <1>1, <2>1 DEF Size, Align
    <2>2. CASE u # t
      <3>1. th'[u] = th[u] /\ Size(u)' = Size(u) /\ Align(u)' = Align(u)
        BY <2>2, OtherThreads
      <3>2. InSection(u)
        BY <3>1 DEF InSection
      <3>3. chunk' = chunk
        BY <2>2, <3>2 DEF IInv, MutualExclusion
      <3> QED BY <3>1, <3>3 DEF AInv, FreshChunk
    <2> QED BY <2>1, <2>2
  <1> QED BY <1>2, <1>3 DEF AInv

(* A step that moves no memory, or only large blocks.                      *)
LEMMA QuietAligned ==
    ASSUME IInv, AInv, NEW t \in Threads, NEW s \in ThreadState, th' = [th EXCEPT ![t] = s],
           UNCHANGED <<chunk, free, chunks>>,
           \A b \in live' : b \in live \/ IsLarge(b.layout),
           s.pc # "rebump",
           InFlight(t)' => InFlight(t) /\ s.ptr = th[t].ptr /\ s.op = th[t].op
                                       /\ s.layout = th[t].layout
    PROVE  AInv'
  <1>1. NodesFit' /\ ChunksBelow'
    BY DEF AInv, NodesFit, ChunksBelow
  <1>2. LiveAligned'
    BY DEF AInv, LiveAligned
  <1>3. InFlight(t)' => s.ptr % MIN_ALIGN = 0 /\ (s.op = "alloc" => s.ptr % NormAlign(s.layout) = 0)
    BY DEF AInv, FlightAligned, Align
  <1> QED BY <1>1, <1>2, <1>3, AlignedStep

(* A call of alloc or dealloc begins, or is served by the kernel.          *)
LEMMA CallAligned ==
    ASSUME IInv, AInv, NEW t \in Threads, Call(t)
    PROVE  AInv'
  <1>1. ASSUME NEW l \in Layouts, AllocLarge(t, l) PROVE AInv'
    <2>1. PICK a : live' = live \cup {[addr |-> a, layout |-> l]}
      BY <1>1 DEF AllocLarge
    <2>2. \A b \in live' : b \in live \/ IsLarge(b.layout)
      BY <1>1, <2>1 DEF AllocLarge
    <2>3. UNCHANGED <<chunk, free, chunks, th>> /\ th[t].pc = "idle"
      BY <1>1 DEF AllocLarge
    <2>4. th' = [th EXCEPT ![t] = th[t]] /\ th[t] \in ThreadState /\ ~InFlight(t)'
      BY <2>3, ThreadFacts DEF InFlight
    <2> QED BY <2>2, <2>3, <2>4, QuietAligned
  <1>2. ASSUME NEW b \in live, DeallocLarge(t, b) PROVE AInv'
    <2>1. UNCHANGED <<chunk, free, chunks, th>> /\ th[t].pc = "idle" /\ live' = live \ {b}
      BY <1>2 DEF DeallocLarge
    <2>2. th' = [th EXCEPT ![t] = th[t]] /\ th[t] \in ThreadState /\ ~InFlight(t)'
      BY <2>1, ThreadFacts DEF InFlight
    <2> QED BY <2>1, <2>2, QuietAligned
  <1>3. ASSUME NEW l \in Layouts, AllocSmall(t, l) PROVE AInv'
    <2> DEFINE s == Start("spin", "alloc", l, Null)
    <2>1. s \in ThreadState /\ s.pc = "spin" /\ s.op = "alloc"
      BY DEF Start, ThreadState, Pc, Null
    <2>2. th' = [th EXCEPT ![t] = s] /\ UNCHANGED <<chunk, free, chunks, live>>
      BY <1>3 DEF AllocSmall
    <2> HIDE DEF s
    <2>3. ~InFlight(t)'
      BY <2>1, <2>2, OtherThreads DEF InFlight
    <2> QED BY <2>1, <2>2, <2>3, QuietAligned
  <1>4. ASSUME NEW b \in live, DeallocSmall(t, b) PROVE AInv'
    <2> DEFINE s == Start("spin", "dealloc", b.layout, b.addr)
    <2>1. s \in ThreadState /\ s.pc = "spin" /\ s.op = "dealloc" /\ s.ptr = b.addr
      BY DEF Start, ThreadState, Pc, IInv, TypeOK, Block
    <2>2. th' = [th EXCEPT ![t] = s] /\ UNCHANGED <<chunk, free, chunks>> /\ live' = live \ {b}
          /\ ~IsLarge(b.layout)
      BY <1>4 DEF DeallocSmall
    <2> HIDE DEF s
    <2>3. b.addr % MIN_ALIGN = 0
      BY <2>2 DEF AInv, LiveAligned
    <2>4. NodesFit' /\ ChunksBelow' /\ LiveAligned'
      BY <2>2 DEF AInv, NodesFit, ChunksBelow, LiveAligned
    <2> QED BY <2>1, <2>2, <2>3, <2>4, AlignedStep
  <1> QED BY <1>1, <1>2, <1>3, <1>4 DEF Call

(* The lock is taken.                                                      *)
LEMMA AcquireAligned ==
    ASSUME IInv, AInv, NEW t \in Threads, Acquire(t)
    PROVE  AInv'
  <1> DEFINE pc == IF th[t].op = "alloc" THEN "walk" ELSE "push"
             s == [th[t] EXCEPT !.pc = pc]
  <1>1. s \in ThreadState /\ s.pc = pc /\ s.op = th[t].op /\ s.layout = th[t].layout
        /\ s.ptr = th[t].ptr
    BY ThreadFacts DEF ThreadState, Pc
  <1>2. th' = [th EXCEPT ![t] = s] /\ UNCHANGED <<chunk, free, chunks, live>> /\ th[t].pc = "spin"
    BY DEF Acquire, Goto
  <1> HIDE DEF s
  <1>3. InFlight(t)' => InFlight(t)
    BY <1>1, <1>2, OtherThreads DEF InFlight
  <1> QED BY <1>1, <1>2, <1>3, QuietAligned

(* The search moves on.                                                    *)
LEMMA WalkAligned ==
    ASSUME IInv, AInv, NEW t \in Threads, Walk(t)
    PROVE  AInv'
  <1>0. th[t].pc = "walk" /\ UNCHANGED <<chunk, free, chunks, live>> /\ th[t] \in ThreadState
    BY ThreadFacts DEF Walk
  <1>1. PICK s \in ThreadState : th' = [th EXCEPT ![t] = s] /\ s.pc \in {"walk", "take", "bump"}
    <2>1. ASSUME NEW pc \in {"take", "bump"}, Goto(t, pc)
          PROVE  \E s \in ThreadState : th' = [th EXCEPT ![t] = s] /\ s.pc \in {"walk", "take", "bump"}
      <3> DEFINE s == [th[t] EXCEPT !.pc = pc]
      <3>1. s \in ThreadState /\ s.pc = pc
        BY <1>0 DEF ThreadState, Pc
      <3> QED BY <2>1, <3>1 DEF Goto
    <2>2. ASSUME th' = [th EXCEPT ![t].cursor = @ + 1]
          PROVE  \E s \in ThreadState : th' = [th EXCEPT ![t] = s] /\ s.pc \in {"walk", "take", "bump"}
      <3> DEFINE s == [th[t] EXCEPT !.cursor = @ + 1]
      <3>1. s \in ThreadState /\ s.pc = "walk"
        BY <1>0 DEF ThreadState, Pc
      <3> QED BY <2>2, <3>1
    <2> QED BY <2>1, <2>2 DEF Walk
  <1>2. ~InFlight(t)'
    BY <1>1, OtherThreads DEF InFlight
  <1> QED BY <1>0, <1>1, <1>2, QuietAligned

(* The caller gets its block: it was aligned in flight.                    *)
LEMMA ReleaseAligned ==
    ASSUME IInv, AInv, NEW t \in Threads, Release(t)
    PROVE  AInv'
  <1>1. Idle \in ThreadState /\ Idle.pc = "idle" /\ Idle.op = "alloc"
    <2>1. (CHOOSE l \in Layouts : TRUE) \in Layouts
      BY NonEmptyAssumption
    <2> QED BY <2>1 DEF Idle, Start, ThreadState, Pc, Null
  <1> HIDE DEF Idle
  <1>2. th' = [th EXCEPT ![t] = Idle] /\ UNCHANGED <<chunk, free, chunks>> /\ th[t].pc = "unlock"
    BY DEF Release
  <1>3. ~InFlight(t)'
    BY <1>1, <1>2, OtherThreads DEF InFlight
  <1>4. NodesFit' /\ ChunksBelow'
    BY <1>2 DEF AInv, NodesFit, ChunksBelow
  <1>5. LiveAligned'
    <2>1. CASE live' = live
      BY <2>1 DEF AInv, LiveAligned
    <2>2. CASE InFlight(t) /\ live' = live \cup {[addr |-> th[t].ptr, layout |-> th[t].layout]}
      BY <2>2 DEF AInv, LiveAligned, FlightAligned
    <2> QED BY <1>2, <2>1, <2>2 DEF Release, InFlight
  <1> QED BY <1>1, <1>2, <1>3, <1>4, <1>5, AlignedStep

(* A freed block can hold its node: its size was rounded up by normalize.  *)
LEMMA PushAligned ==
    ASSUME IInv, AInv, NEW t \in Threads, Push(t)
    PROVE  AInv'
  <1> DEFINE s == [th[t] EXCEPT !.pc = "unlock"]
             node == [addr |-> th[t].ptr, size |-> Size(t)]
  <1>0. th[t].pc = "push" /\ th[t].op = "dealloc" /\ th[t] \in ThreadState /\ InSection(t)
        /\ UNCHANGED <<chunk, chunks, live>> /\ free' = <<node>> \o free
        /\ th' = [th EXCEPT ![t] = s]
    BY ThreadFacts DEF Push, Goto, ThreadOK, InSection
  <1>1. s \in ThreadState /\ s.pc = "unlock" /\ s.op = "dealloc"
    BY <1>0 DEF ThreadState, Pc
  <1> HIDE DEF s
  <1>2. ~InFlight(t)'
    BY <1>0, <1>1, OtherThreads DEF InFlight
  <1>3. Size(t) >= MIN_REUSE /\ Size(t) % MIN_ALIGN = 0 /\ th[t].ptr % MIN_ALIGN = 0
    <2>1. th[t].layout \in Layouts
      BY <1>0 DEF ThreadState
    <2>2. InFlight(t)
      BY <1>0 DEF InFlight
    <2> QED BY <2>1, <2>2, NormFacts DEF Size, AInv, FlightAligned
  <1>4. NodesFit'
    <2>1. free \in Seq(Extent) /\ node \in Extent
      BY ExtentFacts DEF IInv, TypeOK, Carried
    <2> HIDE DEF node
    <2>2. \A i \in DOMAIN free' : free'[i] = node \/ \E k \in DOMAIN free : free'[i] = free[k]
      <3>1. Len(free') = Len(free) + 1 /\ free'[1] = node /\ free' \in Seq(Extent)
            /\ \A i \in 2..Len(free) + 1 : free'[i] = free[i - 1] /\ i - 1 \in DOMAIN free
        BY <1>0, <2>1
      <3>2. \A i \in DOMAIN free' : i = 1 \/ i \in 2..Len(free) + 1
        BY <3>1
      <3> QED BY <3>1, <3>2
    <2>3. node.addr % MIN_ALIGN = 0 /\ node.size >= MIN_REUSE /\ node.size % MIN_ALIGN = 0
      BY <1>3 DEF node
    <2> QED BY <2>2, <2>3 DEF AInv, NodesFit
  <1>5. LiveAligned' /\ ChunksBelow'
    BY <1>0 DEF AInv, LiveAligned, ChunksBelow
  <1> QED BY <1>0, <1>1, <1>2, <1>4, <1>5, AlignedStep

(* A split leaves a node that is aligned and large enough.                 *)
LEMMA TakeAligned ==
    ASSUME IInv, AInv, NEW t \in Threads, Take(t)
    PROVE  AInv'
  <1> DEFINE c == th[t].cursor
             s == [th[t] EXCEPT !.pc = "unlock", !.ptr = free[c].addr]
  <1>0. /\ th[t].pc = "take" /\ th[t].op = "alloc" /\ th[t] \in ThreadState /\ InSection(t)
        /\ c <= Len(free) /\ Fits(free[c], Size(t), Align(t))
        /\ UNCHANGED <<chunk, chunks, live>>
        /\ free' = Leftover(free[c], Size(t)) \o RemoveAt(free, c)
        /\ th' = [th EXCEPT ![t] = s]
    BY ThreadFacts DEF Take, ReturnPtr, ThreadOK, InSection
  <1>1. free \in Seq(Extent) /\ c \in 1..Len(free) /\ free[c].size >= Size(t) /\ free[c] \in Extent
        /\ free[c].addr % Align(t) = 0 /\ th[t].layout \in Layouts
    BY <1>0 DEF IInv, TypeOK, ThreadState, Fits
  <1>2. s \in ThreadState /\ s.pc = "unlock" /\ s.op = "alloc" /\ s.layout = th[t].layout
        /\ s.ptr = free[c].addr
    BY <1>0, <1>1 DEF ThreadState, Pc, Extent
  <1>3. Size(t) \in Nat /\ Size(t) % MIN_ALIGN = 0
    BY <1>1, NormFacts DEF Size
  <1> HIDE DEF s, c
  <1>4. free[c].addr \in Nat /\ free[c].size \in Nat
        /\ free[c].addr % MIN_ALIGN = 0 /\ free[c].size % MIN_ALIGN = 0
    BY <1>1 DEF AInv, NodesFit, Extent
  <1>5. PICK src \in [DOMAIN free' -> DOMAIN free] : IsSource(src, free', free, c, Size(t))
    BY <1>0, <1>1, <1>3, TakenList
  <1>6. ASSUME NEW i \in DOMAIN free'
        PROVE  free'[i].size >= MIN_REUSE /\ free'[i].size % MIN_ALIGN = 0
               /\ free'[i].addr % MIN_ALIGN = 0
    <2>1. CASE src[i] # c
      BY <1>5, <2>1 DEF IsSource, AInv, NodesFit
    <2>2. CASE src[i] = c
      <3>1. free'[i].addr = free[c].addr + Size(t) /\ free'[i].size = free[c].size - Size(t)
            /\ free'[i].size >= MIN_REUSE
        BY <1>5, <2>2 DEF IsSource
      <3>2. (free[c].addr + Size(t)) % MIN_ALIGN = 0 /\ (free[c].size - Size(t)) % MIN_ALIGN = 0
        BY <1>1, <1>3, <1>4, ModSum, SizesAssumption
      <3> QED BY <3>1, <3>2
    <2> QED BY <2>1, <2>2
  <1>7. NodesFit'
    BY <1>6 DEF NodesFit
  <1>8. LiveAligned' /\ ChunksBelow'
    BY <1>0 DEF AInv, LiveAligned, ChunksBelow
  <1>9. s.ptr % MIN_ALIGN = 0 /\ s.ptr % NormAlign(s.layout) = 0
    BY <1>1, <1>2, <1>4 DEF Align
  <1> QED BY <1>0, <1>2, <1>7, <1>8, <1>9, AlignedStep

(* align_up aligns what bump_alloc returns.                                *)
LEMMA BumpAligned ==
    ASSUME IInv, AInv, NEW t \in Threads, th[t].pc \in {"bump", "rebump"},
           ReturnPtr(t, BumpAddr(chunk, Align(t))), UNCHANGED <<free, chunks, live>>
    PROVE  AInv'
  <1> DEFINE addr == BumpAddr(chunk, Align(t))
             s == [th[t] EXCEPT !.pc = "unlock", !.ptr = addr]
  <1>0. th[t] \in ThreadState /\ InSection(t) /\ th' = [th EXCEPT ![t] = s]
        /\ th[t].layout \in Layouts
    BY ThreadFacts DEF ReturnPtr, InSection, ThreadState
  <1>1. addr \in Nat /\ addr % Align(t) = 0
    <2>1. chunk.base + chunk.offset \in Nat /\ Align(t) \in Nat \ {0}
      BY ExtentFacts DEF IInv, TypeOK, Chunk
    <2> QED BY <2>1, AlignUpFacts DEF BumpAddr
  <1> HIDE DEF addr
  <1>2. s \in ThreadState /\ s.pc = "unlock" /\ s.ptr = addr /\ s.layout = th[t].layout
    BY <1>0, <1>1 DEF ThreadState, Pc
  <1> HIDE DEF s
  <1>3. s.ptr % MIN_ALIGN = 0 /\ s.ptr % NormAlign(s.layout) = 0
    BY <1>0, <1>1, <1>2, NormAlignFacts DEF Align
  <1>4. NodesFit' /\ LiveAligned' /\ ChunksBelow'
    BY DEF AInv, NodesFit, LiveAligned, ChunksBelow
  <1> QED BY <1>0, <1>2, <1>3, <1>4, AlignedStep

(* bump_alloc and the growth of the chunk.                                 *)
LEMMA ChunkAligned ==
    ASSUME IInv, AInv, NEW t \in Threads, Bump(t) \/ Grow(t) \/ Rebump(t)
    PROVE  AInv'
  <1>0. th[t].pc \in {"bump", "grow", "rebump"} /\ th[t].op = "alloc" /\ th[t] \in ThreadState
        /\ InSection(t) /\ UNCHANGED <<free, live>>
    BY ThreadFacts DEF Bump, Grow, Rebump, ThreadOK, InSection
  <1>1. CASE th[t].pc \in {"bump", "rebump"} /\ ReturnPtr(t, BumpAddr(chunk, Align(t)))
             /\ UNCHANGED chunks
    BY <1>0, <1>1, BumpAligned
  <1>2. CASE Goto(t, "grow") /\ UNCHANGED <<chunk, chunks>>
    <2> DEFINE s == [th[t] EXCEPT !.pc = "grow"]
    <2>1. s \in ThreadState /\ s.pc = "grow" /\ th' = [th EXCEPT ![t] = s]
      BY <1>0, <1>2 DEF ThreadState, Pc, Goto
    <2> HIDE DEF s
    <2>2. ~InFlight(t)'
      BY <2>1, OtherThreads DEF InFlight
    <2> QED BY <1>0, <1>2, <2>1, <2>2, QuietAligned
  <1>3. CASE ReturnPtr(t, Null) /\ UNCHANGED <<chunk, chunks>>
    <2> DEFINE s == [th[t] EXCEPT !.pc = "unlock", !.ptr = Null]
    <2>1. s \in ThreadState /\ s.pc = "unlock" /\ s.op = "alloc" /\ s.ptr = Null
          /\ th' = [th EXCEPT ![t] = s]
      BY <1>0, <1>3 DEF ThreadState, Pc, ReturnPtr, Null
    <2> HIDE DEF s
    <2>2. ~InFlight(t)'
      BY <2>1, OtherThreads DEF InFlight
    <2> QED BY <1>0, <1>3, <2>1, <2>2, QuietAligned
  <1>4. ASSUME NEW r \in FreshRegions(NewChunkSize(t)), chunks' = chunks \cup {r},
               chunk' = [base |-> r.addr, size |-> r.size, offset |-> 0],
               Goto(t, "rebump")
        PROVE  AInv'
    <2> DEFINE s == [th[t] EXCEPT !.pc = "rebump"]
    <2>1. s \in ThreadState /\ s.pc = "rebump" /\ th' = [th EXCEPT ![t] = s]
          /\ s.layout = th[t].layout
      BY <1>0, <1>4 DEF ThreadState, Pc, Goto
    <2> HIDE DEF s
    <2>2. Size(t) \in Nat /\ Align(t) \in Nat /\ NewChunkSize(t) \in Nat
          /\ NewChunkSize(t) >= Size(t) + Align(t)
      BY ExtentFacts, SizesAssumption DEF IInv, NewChunkSize, Max2
    <2>3. r.size = NewChunkSize(t) /\ r.addr > 0 /\ r.addr + r.size <= AddressLimit /\ r \in Extent
      BY <2>2, FreshFacts
    <2>4. ~InFlight(t)'
      BY <2>1, OtherThreads DEF InFlight
    <2>5. NodesFit' /\ LiveAligned' /\ ChunksBelow'
      BY <1>0, <1>4, <2>3 DEF AInv, NodesFit, LiveAligned, ChunksBelow
    <2>6. chunk' # NoChunk /\ chunk'.offset = 0
          /\ chunk'.size >= NormSize(s.layout) + NormAlign(s.layout)
      BY <1>4, <2>1, <2>2, <2>3 DEF NoChunk, Size, Align
    <2> QED BY <1>0, <2>1, <2>4, <2>5, <2>6, AlignedStep
  <1>5. Bump(t) => AInv'
    BY <1>1, <1>2 DEF Bump
  <1>6. Grow(t) => AInv'
    BY <1>3, <1>4 DEF Grow
  <1>7. Rebump(t) => AInv'
    BY <1>1, <1>3 DEF Rebump
  <1> QED BY <1>5, <1>6, <1>7

-----------------------------------------------------------------------------
(* Every step keeps the second half, given the first.                      *)
LEMMA NextAInv == IInv /\ AInv /\ [Next]_vars => AInv'
  <1> SUFFICES ASSUME IInv, AInv, [Next]_vars PROVE AInv'
    OBVIOUS
  <1>1. CASE UNCHANGED vars
    BY <1>1 DEF vars, AInv, NodesFit, LiveAligned, FlightAligned, InFlight, ChunksBelow,
                FreshChunk, Size, Align
  <1>2. ASSUME NEW t \in Threads, Call(t) \/ Acquire(t) \/ Section(t) PROVE AInv'
    BY <1>2, CallAligned, AcquireAligned, WalkAligned, TakeAligned, ChunkAligned, PushAligned,
       ReleaseAligned DEF Section
  <1> QED BY <1>1, <1>2 DEF Next

(* Both halves hold in every reachable state.                              *)
THEOREM AlignmentHolds == Spec => [](IInv /\ AInv)
  <1>1. Init => IInv /\ AInv
    BY InitIInv, InitAInv
  <1>2. (IInv /\ AInv) /\ [Next]_vars => (IInv /\ AInv)'
    BY NextIInv, NextAInv
  <1> QED BY <1>1, <1>2, PTL DEF Spec

(* Every free block is aligned for, and can hold, the FreeNode written     *)
(* into it, after any sequence of splits.                                  *)
THEOREM FreeNodesFit == Spec => []NodesFit
  <1>1. IInv /\ AInv => NodesFit
    BY DEF AInv
  <1> QED BY <1>1, AlignmentHolds, PTL

(* The second bump_alloc never fails.                                      *)
THEOREM SecondBumpSucceeds == Spec => []FreshChunkFits
  <1>1. IInv /\ AInv => FreshChunkFits
    <2> SUFFICES ASSUME IInv, AInv, NEW t \in Threads, th[t].pc = "rebump"
                 PROVE  BumpFits(chunk, Size(t), Align(t))
      BY DEF FreshChunkFits
    <2>1. chunk # NoChunk /\ chunk.offset = 0 /\ chunk.size >= Size(t) + Align(t)
      BY DEF AInv, FreshChunk
    <2>2. chunk.base \in Nat /\ chunk.size \in Nat /\ Size(t) \in Nat /\ Align(t) \in Nat \ {0}
      BY ExtentFacts DEF IInv, TypeOK, Chunk
    <2>3. chunk.base + chunk.offset = chunk.base
      BY <2>1, <2>2
    <2>4. BumpAddr(chunk, Align(t)) \in Nat /\ BumpAddr(chunk, Align(t)) < chunk.base + Align(t)
      BY <2>2, <2>3, AlignUpFacts DEF BumpAddr
    <2> HIDE DEF BumpAddr
    <2> QED BY <2>1, <2>2, <2>4 DEF BumpFits
  <1> QED BY <1>1, AlignmentHolds, PTL

-----------------------------------------------------------------------------
(* The refinement: a block that reaches its caller is an Alloc of the      *)
(* abstract allocator, one that leaves it a Dealloc, the rest stutters.    *)

(* A new block that is aligned and disjoint from the others is an Alloc.   *)
LEMMA AllocIsContract ==
    ASSUME IInv, NEW b \in Block, live' = live \cup {b}, b.addr > 0,
           b.addr % NormAlign(b.layout) = 0, b.addr + NormSize(b.layout) <= AddressLimit,
           \A a \in live : Disjoint(ExtentOf(b), ExtentOf(a))
    PROVE  Contract!Next
  <1> DEFINE l == b.layout
  <1>1. l \in Layouts /\ b.addr \in Nat /\ b = [addr |-> b.addr, layout |-> l]
    BY DEF Block
  <1>2. NormSize(l) \in Nat /\ NormSize(l) >= l.size /\ l.size \in Nat /\ l.align \in Nat \ {0}
    BY <1>1, NormFacts
  <1>3. b.addr \in 1..AddressLimit /\ b.addr + l.size <= AddressLimit
    BY <1>1, <1>2, SizesAssumption
  <1>4. b.addr % l.align = 0
    BY <1>1, NormAlignFacts
  <1>5. ASSUME NEW c \in live PROVE Contract!Apart(b, c)
    <2>1. c.addr \in Nat /\ c.layout \in Layouts
      BY DEF IInv, TypeOK, Block
    <2>2. NormSize(c.layout) \in Nat /\ NormSize(c.layout) >= c.layout.size /\ c.layout.size \in Nat
      BY <2>1, NormFacts
    <2> QED BY <1>1, <1>2, <2>1, <2>2 DEF Disjoint, ExtentOf, Contract!Apart
  <1>6. Contract!Alloc(l)
    BY <1>1, <1>3, <1>4, <1>5 DEF Contract!Alloc
  <1> QED BY <1>1, <1>6 DEF Contract!Next

(* Every step implements a step of the contract, or leaves live alone.     *)
LEMMA StepIsContract ==
    ASSUME LargeLayoutsPageAligned, IInv, AInv, [Next]_vars
    PROVE  [Contract!Next]_live
  <1>1. ASSUME NEW t \in Threads, NEW l \in Layouts, AllocLarge(t, l)
        PROVE  Contract!Next
    <2>1. NormSize(l) \in Nat /\ NormAlign(l) \in Nat \ {0}
      BY NormFacts
    <2>2. PICK r \in FreshRegions(NormSize(l)) :
             live' = live \cup {[addr |-> r.addr, layout |-> l]}
      BY <1>1 DEF AllocLarge
    <2> DEFINE b == [addr |-> r.addr, layout |-> l]
    <2>3. r \in Extent /\ r.size = NormSize(l) /\ r.addr > 0 /\ r.addr % VM_PAGE = 0
          /\ r.addr + r.size <= AddressLimit /\ \A a \in live : Disjoint(ExtentOf(a), r)
      BY <2>1, FreshFacts
    <2>4. b \in Block /\ ExtentOf(b) = r /\ b.addr = r.addr /\ b.layout = l
      BY <2>3 DEF Block, ExtentOf, Extent
    <2>5. r.addr % NormAlign(l) = 0
      <3>1. r.addr \in Nat /\ VM_PAGE % NormAlign(l) = 0
        BY <1>1, <2>3 DEF Extent, AllocLarge, LargeLayoutsPageAligned
      <3> QED BY <2>1, <2>3, <3>1, ModTransitive, SizesAssumption
    <2>6. \A a \in live : Disjoint(r, ExtentOf(a))
      BY <2>3, ExtentFacts, DisjointFacts DEF IInv
    <2> HIDE DEF b
    <2> QED BY <2>2, <2>3, <2>4, <2>5, <2>6, AllocIsContract DEF b
  <1>2. ASSUME NEW t \in Threads, NEW b \in live, DeallocLarge(t, b) \/ DeallocSmall(t, b)
        PROVE  Contract!Next
    BY <1>2 DEF DeallocLarge, DeallocSmall, Contract!Next, Contract!Dealloc
  <1>3. ASSUME NEW t \in Threads, Release(t)
        PROVE  Contract!Next \/ UNCHANGED live
    <2> DEFINE b == [addr |-> th[t].ptr, layout |-> th[t].layout]
    <2>1. CASE live' = live
      BY <2>1
    <2>2. CASE th[t].op = "alloc" /\ th[t].ptr # Null /\ live' = live \cup {b}
      <3>1. th[t].ptr \in Nat /\ th[t].layout \in Layouts /\ th[t].pc = "unlock"
        BY <1>3, ThreadFacts DEF Release, ThreadState
      <3>2. b \in Block /\ ExtentOf(b) = Carried(t) /\ b.addr > 0
            /\ b.addr = th[t].ptr /\ b.layout = th[t].layout
        BY <2>2, <3>1 DEF Block, ExtentOf, Carried, Size, Null
      <3>3. InFlight(t)
        BY <2>2, <3>1 DEF InFlight
      <3>4. b.addr % NormAlign(b.layout) = 0
        BY <2>2, <3>2, <3>3 DEF AInv, FlightAligned, Align
      <3>5. b.addr + NormSize(b.layout) <= AddressLimit
        <4>1. PICK c \in chunks : Inside(Carried(t), c)
          BY <3>3 DEF IInv, InsideChunks
        <4>2. c.addr + c.size <= AddressLimit /\ c \in Extent
          BY DEF AInv, ChunksBelow, IInv, TypeOK
        <4>3. NormSize(b.layout) \in Nat
          BY <3>1, <3>2, NormFacts
        <4> QED BY <3>1, <3>2, <4>1, <4>2, <4>3, SizesAssumption
                DEF Inside, Carried, Size, Extent
      <3>6. \A a \in live : Disjoint(ExtentOf(b), ExtentOf(a))
        BY <3>2, <3>3 DEF IInv, NoOverlap
      <3> HIDE DEF b
      <3> QED BY <2>2, <3>2, <3>4, <3>5, <3>6, AllocIsContract
    <2> QED BY <1>3, <2>1, <2>2 DEF Release
  <1>4. ASSUME NEW t \in Threads, NEW l \in Layouts, AllocSmall(t, l) PROVE UNCHANGED live
    BY <1>4 DEF AllocSmall
  <1>5. ASSUME NEW t \in Threads,
               Acquire(t) \/ Walk(t) \/ Take(t) \/ Bump(t) \/ Grow(t) \/ Rebump(t) \/ Push(t)
        PROVE  UNCHANGED live
    BY <1>5 DEF Acquire, Walk, Take, Bump, Grow, Rebump, Push
  <1>6. CASE UNCHANGED vars
    BY <1>6 DEF vars
  <1> QED BY <1>1, <1>2, <1>3, <1>4, <1>5, <1>6 DEF Next, Call, Section

(* The GlobalAlloc contract: unless a layout is both large and aligned     *)
(* above a VM page, alloc returns null or a unique, properly aligned block *)
(* of the size asked for, for any number of threads.                       *)
THEOREM AllocatorImplementsContract == LargeLayoutsPageAligned => (Spec => ImplementsContract)
  <1> SUFFICES ASSUME LargeLayoutsPageAligned PROVE Spec => Contract!Spec
    BY DEF ImplementsContract
  <1>1. Init => Contract!Init
    BY DEF Init, Contract!Init
  <1>2. IInv /\ AInv /\ [Next]_vars => [Contract!Next]_live
    BY StepIsContract
  <1> QED BY <1>1, <1>2, AlignmentHolds, PTL DEF Spec, Contract!Spec
=============================================================================
