-------------------------- MODULE SegmentMapProofs --------------------------
(***************************************************************************)
(* For every image and every page size: macho_segments_map_to_vm puts the  *)
(* segments of a well laid out image in place, and                         *)
(* macho_segments_vm_protect leaves no access that a segment does not have.*)
(***************************************************************************)
EXTENDS SegmentMap, SequenceLemmas, TLAPS

-----------------------------------------------------------------------------
(* Pages.                                                                  *)

(* Rounding up to whole pages adds less than a page.                       *)
LEMMA RoundUpFacts ==
    ASSUME NEW x \in Nat
    PROVE  /\ Pages(x) \in Nat /\ RoundUp(x) \in Nat
           /\ x <= RoundUp(x) /\ RoundUp(x) < x + PageSize
           /\ x > 0 => Pages(x) > 0
  BY PageSizeAssumption DEF RoundUp, Pages

(* A later address is not on an earlier page.                              *)
LEMMA DivMonotone ==
    ASSUME NEW x \in Nat, NEW y \in Nat, x <= y
    PROVE  x \div PageSize \in Nat /\ x \div PageSize <= y \div PageSize
  BY PageSizeAssumption

(* The page after the one of an address.                                   *)
LEMMA PagesIsNextPage ==
    ASSUME NEW x \in Nat
    PROVE  Pages(x + 1) = x \div PageSize + 1
  BY PageSizeAssumption DEF Pages

(* An address in a segment is on one of the segment's pages.               *)
LEMMA PageOfAddress ==
    ASSUME NEW s, IsSegment(s), NEW a, InSegment(a, s)
    PROVE  a \in Nat /\ a \div PageSize \in PagesOf(s)
<1>1. /\ s.vm_addr \in Nat /\ s.vm_size \in Nat /\ a \in Int
      /\ s.vm_addr <= a /\ a <= s.vm_addr + s.vm_size - 1
  BY DEF IsSegment, InSegment
<1> DEFINE last == s.vm_addr + s.vm_size - 1
<1>2. a \in Nat /\ last \in Nat /\ s.vm_size # 0 /\ s.vm_addr + s.vm_size = last + 1
  BY <1>1
<1>3. /\ s.vm_addr \div PageSize \in Nat /\ s.vm_addr \div PageSize <= a \div PageSize
      /\ a \div PageSize \in Nat /\ a \div PageSize <= last \div PageSize
      /\ last \div PageSize \in Nat
  BY <1>1, <1>2, DivMonotone
<1>4. Pages(s.vm_addr + s.vm_size) - 1 = last \div PageSize
  BY <1>2, <1>3, PagesIsNextPage
<1>5. QED
  BY <1>2, <1>3, <1>4 DEF PagesOf

(* Multiples of the page size compare as their factors.                    *)
LEMMA MulLess ==
    ASSUME NEW m \in Int, NEW n \in Int, m * PageSize < n * PageSize
    PROVE  m < n
  BY PageSizeAssumption

(* Whole pages after an offset that is on a page boundary.                 *)
LEMMA RoundUpAfter ==
    ASSUME NEW offset \in Nat, RoundUp(offset) = offset, NEW x \in Nat, NEW y \in Nat,
           offset + x <= y
    PROVE  offset + RoundUp(x) <= RoundUp(y)
<1> DEFINE m == Pages(offset)
           q == Pages(x)
           n == Pages(y)
<1>1. /\ m \in Nat /\ q \in Nat /\ n \in Nat /\ PageSize \in Nat
      /\ offset = m * PageSize /\ RoundUp(x) = q * PageSize /\ RoundUp(y) = n * PageSize
  BY RoundUpFacts, PageSizeAssumption DEF RoundUp
<1>2. q * PageSize < x + PageSize /\ y <= n * PageSize
  BY <1>1, RoundUpFacts
<1> HIDE DEF m, q, n
<1>3. (m + q) * PageSize = m * PageSize + q * PageSize
      /\ (n + 1) * PageSize = n * PageSize + PageSize
  BY <1>1
<1>4. m * PageSize \in Nat /\ q * PageSize \in Nat /\ n * PageSize \in Nat
  BY <1>1
<1>5. (m + q) * PageSize < (n + 1) * PageSize
  BY <1>1, <1>2, <1>3, <1>4
<1>6. m + q < n + 1
  BY <1>1, <1>5, MulLess
<1>7. (m + q) * PageSize <= n * PageSize
  BY <1>1, <1>6
<1>8. QED
  BY <1>1, <1>3, <1>7

-----------------------------------------------------------------------------
(* The image.                                                              *)

Count == Len(image.segments)
SegAt(k) == image.segments[k]

(* The images of which SegmentsInPlace speaks.                             *)
LaidOut == Segs # {} /\ WellLaidOut /\ min_addr = 0

(* What the assumption says of the image being mapped.                     *)
LEMMA ImageFacts ==
    ASSUME image \in SegmentImages
    PROVE  /\ Count \in Nat /\ DOMAIN image.segments = 1..Count /\ image.size \in Nat
           /\ \A k \in 1..Count : IsSegment(SegAt(k)) /\ SegAt(k) \in Segs
           /\ \A s \in Segs : IsSegment(s) /\ \E k \in 1..Count : s = SegAt(k)
  BY SegmentImagesAssumption DEF IsImage, Count, SegAt, Segs

(* min_addr and max_addr enclose every segment.                            *)
LEMMA ExtentFacts ==
    ASSUME image \in SegmentImages, Segs # {}
    PROVE  /\ min_addr \in Nat /\ max_addr \in Nat
           /\ \A s \in Segs : min_addr <= s.vm_addr /\ s.vm_addr + s.vm_size <= max_addr
           /\ min_addr <= max_addr
<1> DEFINE starts == {s.vm_addr : s \in Segs}
           ends == {s.vm_addr + s.vm_size : s \in Segs}
           f == [k \in 1..Count |-> SegAt(k).vm_addr + SegAt(k).vm_size]
<1>1. \A s \in Segs : s.vm_addr \in Nat /\ s.vm_size \in Nat /\ s.vm_addr + s.vm_size \in Nat
  BY ImageFacts DEF IsSegment
<1>2. starts \subseteq Nat /\ starts # {} /\ ends \subseteq Nat /\ ends # {}
  BY <1>1
<1>3. \A k \in 1..Count : f[k] \in Nat
  BY <1>1, ImageFacts
<1>4. PICK b \in Nat : \A k \in 1..Count : f[k] <= b
  <2> HIDE DEF f
  <2>1. QED
    BY <1>3, ImageFacts, Bounded
<1>5. \A x \in ends : x <= b
  BY <1>4, ImageFacts
<1>6. min_addr = Min(starts) /\ max_addr = Max(ends)
  BY DEF min_addr, max_addr
<1>7. \A s \in Segs : s.vm_addr \in starts /\ s.vm_addr + s.vm_size \in ends
  OBVIOUS
<1> HIDE DEF starts, ends, f
<1>8. min_addr \in starts /\ \A x \in starts : min_addr <= x
  BY <1>2, <1>6, MinFacts
<1>9. max_addr \in ends /\ \A x \in ends : x <= max_addr
  BY <1>2, <1>5, <1>6, MaxFacts
<1>10. min_addr \in Nat /\ max_addr \in Nat
  BY <1>2, <1>8, <1>9
<1>11. PICK s \in Segs : TRUE
  OBVIOUS
<1>12. min_addr <= max_addr
  BY <1>1, <1>7, <1>8, <1>9, <1>10, <1>11
<1>13. QED
  BY <1>7, <1>8, <1>9, <1>10, <1>12

(* No segment of a well laid out image reaches beyond its region.          *)
LEMMA InsideRegion ==
    ASSUME image \in SegmentImages, LaidOut, NEW s \in Segs
    PROVE  ~BeyondRegion(s)
<1>1. /\ min_addr = 0 /\ max_addr \in Nat /\ s.vm_addr \in Nat /\ s.vm_size \in Nat
      /\ s.vm_addr + s.vm_size <= max_addr
  BY ExtentFacts, ImageFacts DEF LaidOut, IsSegment
<1>2. max_addr - min_addr = max_addr
  BY <1>1
<1>3. RoundUp(max_addr) \in Nat /\ max_addr <= RoundUp(max_addr)
  BY <1>1, RoundUpFacts
<1>4. QED
  BY <1>1, <1>2, <1>3 DEF BeyondRegion

(* No copy of a segment without zero-fill reaches beyond the mapped file.  *)
LEMMA InsideFile ==
    ASSUME image \in SegmentImages, LaidOut, NoZeroFill, NEW s \in Segs, ~Skipped(s)
    PROVE  ~BeyondFile(s)
<1>1. /\ s.file_offset \in Nat /\ s.file_size \in Nat /\ image.size \in Nat
      /\ s.file_offset + s.file_size <= image.size
      /\ s.vm_size = RoundUp(s.file_size) /\ RoundUp(s.file_offset) = s.file_offset
  BY ImageFacts DEF LaidOut, WellLaidOut, NoZeroFill, IsSegment, IsPageZero, Skipped
<1>2. s.file_offset + RoundUp(s.file_size) <= RoundUp(image.size)
  BY <1>1, RoundUpAfter
<1>3. RoundUp(s.file_size) \in Nat /\ RoundUp(image.size) \in Nat
  BY <1>1, RoundUpFacts
<1>4. QED
  BY <1>1, <1>2, <1>3 DEF BeyondFile

(* Segments of a well laid out image have no page, and so no byte, in      *)
(* common.                                                                 *)
LEMMA DisjointSegments ==
    ASSUME image \in SegmentImages, WellLaidOut,
           NEW j \in 1..Count, NEW k \in 1..Count, NEW a,
           InSegment(a, SegAt(j)), InSegment(a, SegAt(k))
    PROVE  j = k
<1>1. a \div PageSize \in PagesOf(SegAt(j)) /\ a \div PageSize \in PagesOf(SegAt(k))
  BY ImageFacts, PageOfAddress
<1>2. j # k => PagesOf(SegAt(j)) \cap PagesOf(SegAt(k)) = {}
  BY ImageFacts DEF WellLaidOut, SegAt
<1>3. QED
  BY <1>1, <1>2

-----------------------------------------------------------------------------
(* The inductive invariant.                                                *)

Typed ==
    /\ image \in SegmentImages /\ TypeOK
    /\ pc = "map" => at = 0 /\ memory = << >>
    /\ pass = 1 => at < Count /\ pc \notin {"map", "copy", "done"}
    /\ pc = "done" => at = Count

(* The copied segments are in memory, and every other byte is zero.        *)
CopiedSoFar == 1..(IF pc = "copy" THEN at ELSE Count)
Covers(k, a) == ~Skipped(SegAt(k)) /\ InSegment(a, SegAt(k))

BytesOK ==
    LaidOut /\ pc \in {"copy", "protect", "done"} =>
        \A a \in DOMAIN memory :
            /\ \A k \in CopiedSoFar : Covers(k, a) =>
                  memory[a] = FileByte(SegAt(k).file_offset + a - SegAt(k).vm_addr)
            /\ (\A k \in CopiedSoFar : ~Covers(k, a)) => memory[a] = 0

(* The protected segments allow nothing more, and of a well laid out image *)
(* exactly what they should.                                               *)
DomainOf(k) == PagesOf(SegAt(k)) \cap DOMAIN prot

ProtectedOK ==
    pc \in {"protect", "done"} =>
        \A k \in 1..at : \A p \in DomainOf(k) :
            max_prot[p] \subseteq SegAt(k).prot /\ (WellLaidOut => prot[p] = SegAt(k).prot)

HalfwayOK ==
    pc = "protect" /\ pass = 1 => \A p \in DomainOf(at + 1) : max_prot[p] = SegAt(at + 1).prot

(* The pages of segments still to come have their first protection.        *)
FreshOK ==
    WellLaidOut /\ pc \in {"copy", "protect"} =>
        \A k \in 1..Count :
            (pc = "protect" => k > at + pass) => \A p \in DomainOf(k) : max_prot[p] = Access

NothingFails ==
    LaidOut => /\ ~stray /\ ~(pc = "error" /\ memory # << >>)
               /\ NoZeroFill => pc # "fault"

IInv == Typed /\ BytesOK /\ ProtectedOK /\ HalfwayOK /\ FreshOK /\ NothingFails

-----------------------------------------------------------------------------
(* The steps.                                                              *)

(* Definitions that depend on the image alone stay as they are.            *)
LEMMA SameImage ==
    ASSUME image' = image
    PROVE  /\ Count' = Count /\ Segs' = Segs /\ LaidOut' = LaidOut
           /\ WellLaidOut' = WellLaidOut /\ NoZeroFill' = NoZeroFill
           /\ \A k : SegAt(k)' = SegAt(k)
           /\ \A s : Skipped(s)' = Skipped(s)
           /\ \A o : FileByte(o)' = FileByte(o)
<1>1. Count' = Count /\ Segs' = Segs /\ \A k : SegAt(k)' = SegAt(k)
  BY DEF Count, Segs, SegAt
<1>2. \A s : Skipped(s)' = Skipped(s)
  BY DEF Skipped
<1>3. \A o : FileByte(o)' = FileByte(o)
  BY DEF FileByte
<1>4. min_addr' = min_addr
  BY <1>1 DEF min_addr
<1>5. WellLaidOut' = WellLaidOut
  BY <1>1 DEF WellLaidOut, IsPageZero
<1>6. NoZeroFill' = NoZeroFill
  BY <1>1 DEF NoZeroFill, IsPageZero
<1>7. LaidOut' = LaidOut
  BY <1>1, <1>4, <1>5 DEF LaidOut
<1>8. QED
  BY <1>1, <1>2, <1>3, <1>5, <1>6, <1>7

(* vm_allocate: the region is fresh, zeroed and large enough.              *)
LEMMA AllocatePreserves ==
    ASSUME IInv, pc = "map", NEW bytes \in Nat \ {0}, VmAllocate(bytes)
    PROVE  IInv'
<1>1. /\ image' = image /\ at' = at /\ pass' = pass /\ stray' = stray /\ pc' = "copy"
      /\ memory' = [a \in 0..(RoundUp(bytes) - 1) |-> 0]
      /\ max_prot' = [p \in 0..(Pages(bytes) - 1) |-> Access]
      /\ prot' = [p \in 0..(Pages(bytes) - 1) |-> {"read", "write"}]
  BY DEF VmAllocate
<1>2. /\ image \in SegmentImages /\ at = 0 /\ pass \in 0..1 /\ stray \in BOOLEAN /\ pass # 1
      /\ Count \in Nat
  BY ImageFacts DEF IInv, Typed, TypeOK
<1>3. RoundUp(bytes) \in Nat /\ Pages(bytes) \in Nat
  BY RoundUpFacts
<1>4. TypeOK'
  <2>1. at' \in 0..Len(image.segments)
    BY <1>1, <1>2 DEF Count
  <2>2. DOMAIN memory' \subseteq Nat /\ \A a \in DOMAIN memory' : memory'[a] \in Int
    BY <1>1, <1>3
  <2>3. /\ DOMAIN max_prot' = DOMAIN prot'
        /\ \A p \in DOMAIN prot' : prot'[p] \subseteq max_prot'[p] /\ max_prot'[p] \subseteq Access
    BY <1>1 DEF Access
  <2>4. QED
    BY <1>1, <1>2, <2>1, <2>2, <2>3 DEF TypeOK
<1>5. Typed'
  BY <1>1, <1>2, <1>4 DEF Typed
<1>6. BytesOK'
  <2>1. \A k \in CopiedSoFar' : FALSE
    BY <1>1, <1>2 DEF CopiedSoFar
  <2>2. \A a \in DOMAIN memory' : memory'[a] = 0
    BY <1>1
  <2>3. QED
    BY <2>1, <2>2 DEF BytesOK
<1>7. ProtectedOK' /\ HalfwayOK'
  BY <1>1 DEF ProtectedOK, HalfwayOK
<1>8. FreshOK'
  <2>1. \A p \in DOMAIN prot' : max_prot'[p] = Access
    BY <1>1
  <2>2. \A k : \A p \in DomainOf(k)' : p \in DOMAIN prot'
    BY DEF DomainOf
  <2>3. QED
    BY <2>1, <2>2 DEF FreshOK
<1>9. NothingFails'
  <2>1. LaidOut' = LaidOut
    BY <1>1, SameImage
  <2>2. QED
    BY <1>1, <2>1 DEF IInv, NothingFails
<1>10. QED
  BY <1>5, <1>6, <1>7, <1>8, <1>9 DEF IInv

(* A step that only ends the run.                                          *)
LEMMA EndPreserves ==
    ASSUME IInv, NEW next, next \in {"error", "panic", "fault"}, End(next),
           LaidOut => /\ next = "error" => memory = << >>
                      /\ next = "fault" => ~NoZeroFill
    PROVE  IInv'
<1>1. /\ image' = image /\ at' = at /\ pass' = pass /\ memory' = memory
      /\ max_prot' = max_prot /\ prot' = prot /\ stray' = stray /\ pc' = next
  BY DEF End
<1>2. Typed'
  BY <1>1 DEF IInv, Typed, TypeOK, Final, Count
<1>3. BytesOK' /\ ProtectedOK' /\ HalfwayOK' /\ FreshOK'
  BY <1>1 DEF BytesOK, ProtectedOK, HalfwayOK, FreshOK
<1>4. LaidOut' = LaidOut /\ NoZeroFill' = NoZeroFill
  BY <1>1, SameImage
<1>5. NothingFails'
  BY <1>1, <1>4 DEF IInv, NothingFails
<1>6. QED
  BY <1>2, <1>3, <1>5 DEF IInv

(* The segment that the loop has come to.                                  *)
LEMMA SegmentFacts ==
    ASSUME Typed, at < Count
    PROVE  /\ image \in SegmentImages /\ Count \in Nat /\ at \in Nat /\ at + 1 \in 1..Count
           /\ Seg = SegAt(at + 1) /\ Seg \in Segs /\ IsSegment(Seg)
<1>1. image \in SegmentImages /\ at \in Nat /\ Count \in Nat
  BY ImageFacts DEF Typed, TypeOK
<1>2. at + 1 \in 1..Count /\ Seg = SegAt(at + 1)
  BY <1>1 DEF Seg, SegAt
<1>3. QED
  BY <1>1, <1>2, ImageFacts

(* A skipped segment has no file bytes to put in place.                    *)
LEMMA SkipPreserves ==
    ASSUME IInv, SkipSegment
    PROVE  IInv'
<1>1. /\ pc = "copy" /\ at < Count /\ Skipped(Seg) /\ at' = at + 1
      /\ image' = image /\ pc' = pc /\ pass' = pass /\ memory' = memory
      /\ max_prot' = max_prot /\ prot' = prot /\ stray' = stray
  BY DEF SkipSegment, Count
<1>2. /\ image \in SegmentImages /\ Count \in Nat /\ at \in Nat /\ at + 1 \in 1..Count
      /\ Seg = SegAt(at + 1) /\ TypeOK /\ pass \in 0..1 /\ pass # 1
  BY <1>1, SegmentFacts DEF IInv, Typed, TypeOK
<1>3. Typed'
  <2>1. at' \in 0..Len(image'.segments)
    BY <1>1, <1>2 DEF Count
  <2>2. TypeOK'
    BY <1>1, <1>2, <2>1 DEF TypeOK
  <2>3. QED
    BY <1>1, <1>2, <2>2 DEF Typed
<1>4. BytesOK'
  <2> SUFFICES ASSUME LaidOut, NEW a \in DOMAIN memory
               PROVE  /\ \A k \in 1..(at + 1) : Covers(k, a) =>
                            memory[a] = FileByte(SegAt(k).file_offset + a - SegAt(k).vm_addr)
                      /\ (\A k \in 1..(at + 1) : ~Covers(k, a)) => memory[a] = 0
    BY <1>1, SameImage DEF BytesOK, CopiedSoFar, Covers, InSegment
  <2>1. ~Covers(at + 1, a)
    BY <1>1, <1>2 DEF Covers
  <2>2. /\ \A k \in 1..at : Covers(k, a) =>
              memory[a] = FileByte(SegAt(k).file_offset + a - SegAt(k).vm_addr)
        /\ (\A k \in 1..at : ~Covers(k, a)) => memory[a] = 0
    BY <1>1 DEF IInv, BytesOK, CopiedSoFar
  <2>3. \A k \in 1..(at + 1) : k \in 1..at \/ k = at + 1
    BY <1>2
  <2>4. 1..at \subseteq 1..(at + 1)
    BY <1>2
  <2>5. QED
    BY <2>1, <2>2, <2>3, <2>4
<1>5. ProtectedOK' /\ HalfwayOK'
  BY <1>1 DEF ProtectedOK, HalfwayOK
<1>6. FreshOK'
  BY <1>1, SameImage DEF IInv, FreshOK, DomainOf, PagesOf, Pages
<1>7. NothingFails'
  BY <1>1, SameImage DEF IInv, NothingFails
<1>8. QED
  BY <1>3, <1>4, <1>5, <1>6, <1>7 DEF IInv

(* A file byte is an integer or whatever lies behind the file.             *)
LEMMA FileByteInt ==
    ASSUME image.size \in Nat, NEW o \in Int
    PROVE  FileByte(o) \in Int
<1>1. CASE o < image.size
  BY <1>1 DEF FileByte
<1>2. CASE ~(o < image.size) /\ o \in image.size..(RoundUp(image.size) - 1)
  BY <1>2 DEF FileByte
<1>3. CASE ~(o < image.size) /\ o \notin image.size..(RoundUp(image.size) - 1)
  BY <1>3 DEF FileByte, Garbage
<1>4. QED
  BY <1>1, <1>2, <1>3

(* A byte within the file is a byte of the file.                           *)
LEMMA FileByteOf ==
    ASSUME image.size \in Nat, NEW o \in Int, o < image.size
    PROVE  FileByte(o) = o + 1
  BY DEF FileByte

(* A copy puts the bytes of its segment in place and leaves the earlier    *)
(* ones.                                                                   *)
LEMMA CopyPreserves ==
    ASSUME IInv, CopySegment
    PROVE  IInv'
<1>1. /\ pc = "copy" /\ at < Count /\ ~Skipped(Seg) /\ at' = at + 1
      /\ image' = image /\ pc' = pc /\ pass' = pass
      /\ max_prot' = max_prot /\ prot' = prot
      /\ stray' = (stray \/ BeyondRegion(Seg))
      /\ memory' = [a \in DOMAIN memory |->
                      IF a - Seg.vm_addr \in 0..(Seg.vm_size - 1)
                      THEN FileByte(Seg.file_offset + a - Seg.vm_addr)
                      ELSE memory[a]]
  BY DEF CopySegment, Count
<1>2. /\ image \in SegmentImages /\ Count \in Nat /\ at \in Nat /\ at + 1 \in 1..Count
      /\ Seg = SegAt(at + 1) /\ Seg \in Segs /\ IsSegment(Seg)
      /\ TypeOK /\ pass \in 0..1 /\ pass # 1 /\ image.size \in Nat
  BY <1>1, SegmentFacts, ImageFacts DEF IInv, Typed, TypeOK
<1>3. /\ Seg.vm_addr \in Nat /\ Seg.vm_size \in Nat /\ Seg.file_offset \in Nat
      /\ DOMAIN memory \subseteq Nat /\ DOMAIN memory' = DOMAIN memory
  BY <1>1, <1>2 DEF IsSegment, TypeOK
<1>4. ASSUME NEW a \in DOMAIN memory
      PROVE  memory'[a] = IF InSegment(a, Seg)
                          THEN FileByte(Seg.file_offset + a - Seg.vm_addr) ELSE memory[a]
  <2>1. a \in Nat /\ (InSegment(a, Seg) <=> a - Seg.vm_addr \in 0..(Seg.vm_size - 1))
    BY <1>3 DEF InSegment
  <2>2. QED
    BY <1>1, <2>1
<1>5. Typed'
  <2>1. at' \in 0..Len(image'.segments)
    BY <1>1, <1>2 DEF Count
  <2>2. ASSUME NEW a \in DOMAIN memory'
        PROVE  memory'[a] \in Int
    <3>1. a \in DOMAIN memory /\ a \in Int /\ memory[a] \in Int
      BY <1>2, <1>3 DEF TypeOK
    <3>2. Seg.file_offset + a - Seg.vm_addr \in Int
      BY <1>3, <3>1
    <3>3. QED
      BY <1>2, <1>4, <3>1, <3>2, FileByteInt
  <2>3. stray' \in BOOLEAN
    BY <1>1, <1>2 DEF TypeOK
  <2>4. /\ pc' \in Final \cup {"map", "copy", "protect"} /\ pass' \in 0..1
        /\ DOMAIN max_prot' = DOMAIN prot'
        /\ \A p \in DOMAIN prot' : prot'[p] \subseteq max_prot'[p] /\ max_prot'[p] \subseteq Access
    BY <1>1, <1>2 DEF TypeOK
  <2>5. TypeOK'
    BY <1>3, <2>1, <2>2, <2>3, <2>4 DEF TypeOK
  <2>6. QED
    BY <1>1, <1>2, <2>5 DEF Typed
<1>6. BytesOK'
  <2> SUFFICES ASSUME LaidOut, NEW a \in DOMAIN memory
               PROVE  /\ \A k \in 1..(at + 1) : Covers(k, a) =>
                            memory'[a] = FileByte(SegAt(k).file_offset + a - SegAt(k).vm_addr)
                      /\ (\A k \in 1..(at + 1) : ~Covers(k, a)) => memory'[a] = 0
    <3> HIDE <1>1
    <3>1. pc' = pc /\ pc = "copy" /\ at' = at + 1 /\ image' = image
      BY <1>1
    <3>2. QED
      BY <1>3, <3>1, SameImage DEF BytesOK, CopiedSoFar, Covers, InSegment
  <2>1. /\ \A k \in 1..at : Covers(k, a) =>
              memory[a] = FileByte(SegAt(k).file_offset + a - SegAt(k).vm_addr)
        /\ (\A k \in 1..at : ~Covers(k, a)) => memory[a] = 0
    BY <1>1 DEF IInv, BytesOK, CopiedSoFar
  <2>2. \A k \in 1..(at + 1) : k \in 1..at \/ k = at + 1
    BY <1>2
  <2>3. 1..at \subseteq 1..(at + 1) /\ at + 1 \in 1..(at + 1)
    BY <1>2
  <2>4. CASE InSegment(a, Seg)
    <3>1. Covers(at + 1, a)
      BY <1>1, <1>2, <2>4 DEF Covers
    <3>2. ASSUME NEW k \in 1..(at + 1), Covers(k, a)
          PROVE  k = at + 1
      <4>1. k \in 1..Count
        BY <1>2
      <4>2. QED
        BY <1>2, <2>4, <3>2, <4>1, DisjointSegments DEF Covers, LaidOut
    <3>3. memory'[a] = FileByte(SegAt(at + 1).file_offset + a - SegAt(at + 1).vm_addr)
      BY <1>2, <1>4, <2>4
    <3>4. QED
      BY <2>3, <3>1, <3>2, <3>3
  <2>5. CASE ~InSegment(a, Seg)
    <3>1. ~Covers(at + 1, a) /\ memory'[a] = memory[a]
      BY <1>2, <1>4, <2>5 DEF Covers
    <3>2. QED
      BY <2>1, <2>2, <2>3, <3>1
  <2>6. QED
    BY <2>4, <2>5
<1>7. ProtectedOK' /\ HalfwayOK'
  BY <1>1 DEF ProtectedOK, HalfwayOK
<1>8. FreshOK'
  BY <1>1, SameImage DEF IInv, FreshOK, DomainOf, PagesOf, Pages
<1>9. NothingFails'
  <2>1. LaidOut => ~BeyondRegion(Seg)
    BY <1>2, InsideRegion
  <2>2. LaidOut' = LaidOut /\ pc' = "copy"
    BY <1>1, SameImage
  <2>3. QED
    BY <1>1, <2>1, <2>2 DEF IInv, NothingFails
<1>10. QED
  BY <1>5, <1>6, <1>7, <1>8, <1>9 DEF IInv

(* After the last copy all segments are in place.                          *)
LEMMA CopiedPreserves ==
    ASSUME IInv, Copied
    PROVE  IInv'
<1>1. /\ pc = "copy" /\ at = Count /\ pc' = "protect" /\ at' = 0
      /\ image' = image /\ pass' = pass /\ memory' = memory
      /\ max_prot' = max_prot /\ prot' = prot /\ stray' = stray
  BY DEF Copied, Count
<1>2. image \in SegmentImages /\ Count \in Nat /\ TypeOK /\ pass \in 0..1 /\ pass # 1 /\ pass = 0
  BY <1>1, ImageFacts DEF IInv, Typed, TypeOK
<1>3. Typed'
  <2>1. at' \in 0..Len(image'.segments)
    BY <1>1, <1>2 DEF Count
  <2>2. TypeOK'
    BY <1>1, <1>2, <2>1 DEF TypeOK
  <2>3. QED
    BY <1>1, <1>2, <2>2 DEF Typed
<1>4. CopiedSoFar' = CopiedSoFar
  BY <1>1, SameImage DEF CopiedSoFar
<1>5. BytesOK'
  BY <1>1, <1>4, SameImage DEF IInv, BytesOK, Covers, InSegment
<1>6. ProtectedOK' /\ HalfwayOK'
  <2>1. \A k \in 1..at' : FALSE
    BY <1>1
  <2>2. QED
    BY <1>1, <1>2, <2>1 DEF ProtectedOK, HalfwayOK
<1>7. FreshOK'
  BY <1>1, SameImage DEF IInv, FreshOK, DomainOf, PagesOf, Pages
<1>8. NothingFails'
  BY <1>1, SameImage DEF IInv, NothingFails
<1>9. QED
  BY <1>3, <1>5, <1>6, <1>7, <1>8 DEF IInv

(* Segments of a well laid out image: a page of one is not of another.     *)
LEMMA DisjointPages ==
    ASSUME image \in SegmentImages, WellLaidOut,
           NEW j \in 1..Count, NEW k \in 1..Count, j # k, NEW p \in PagesOf(SegAt(j))
    PROVE  p \notin PagesOf(SegAt(k))
<1>1. PagesOf(SegAt(j)) \cap PagesOf(SegAt(k)) = {}
  BY ImageFacts DEF WellLaidOut, SegAt
<1>2. QED
  BY <1>1

(* One vm_protect call: its pages lose what was not asked for and regain   *)
(* nothing.                                                                *)
LEMMA ProtectPreserves ==
    ASSUME IInv, ProtectSegment
    PROVE  IInv'
<1>1. /\ pc = "protect" /\ at < Count /\ Allowed(Seg) /\ pc' = pc
      /\ image' = image /\ memory' = memory /\ stray' = (stray \/ BeyondRegion(Seg))
  BY DEF ProtectSegment, Count
<1>2. /\ image \in SegmentImages /\ Count \in Nat /\ at \in Nat /\ at + 1 \in 1..Count
      /\ Seg = SegAt(at + 1) /\ Seg \in Segs /\ IsSegment(Seg)
      /\ TypeOK /\ pass \in 0..1 /\ Seg.prot \subseteq Access
  BY <1>1, SegmentFacts DEF IInv, Typed, TypeOK, IsSegment
<1>3. /\ DOMAIN max_prot = DOMAIN prot /\ stray \in BOOLEAN
      /\ \A p \in DOMAIN prot : prot[p] \subseteq max_prot[p] /\ max_prot[p] \subseteq Access
  BY <1>2 DEF TypeOK
<1>4. \A p \in DOMAIN prot : p \in PagesOf(Seg) => Seg.prot \subseteq max_prot[p]
  BY <1>1, <1>3 DEF Allowed
<1>5. ASSUME NEW k \in 1..Count, k # at + 1, WellLaidOut, NEW p \in DomainOf(k)
      PROVE  p \notin PagesOf(Seg)
  BY <1>2, <1>5, DisjointPages DEF DomainOf
<1>6. ASSUME NEW k \in 1..at, NEW p \in DomainOf(k)
      PROVE  /\ k \in 1..Count /\ k # at + 1 /\ p \in DOMAIN prot
             /\ max_prot[p] \subseteq SegAt(k).prot
             /\ WellLaidOut => prot[p] = SegAt(k).prot
  BY <1>1, <1>2 DEF IInv, ProtectedOK, DomainOf
<1>7. BytesOK'
  <2>1. CopiedSoFar' = CopiedSoFar
    BY <1>1, SameImage DEF CopiedSoFar
  <2>2. QED
    BY <1>1, <2>1, SameImage DEF IInv, BytesOK, Covers, InSegment
<1>8. NothingFails'
  <2>1. LaidOut => ~BeyondRegion(Seg)
    BY <1>2, InsideRegion
  <2>2. LaidOut' = LaidOut
    BY <1>1, SameImage
  <2>3. QED
    BY <1>1, <2>1, <2>2 DEF IInv, NothingFails
<1>9. CASE pass = 0
  <2>1. /\ pass' = 1 /\ at' = at
        /\ max_prot' = [p \in DOMAIN max_prot |->
                            IF p \in PagesOf(Seg) THEN Seg.prot ELSE max_prot[p]]
        /\ prot' = [p \in DOMAIN prot |->
                            IF p \in PagesOf(Seg) THEN prot[p] \cap Seg.prot ELSE prot[p]]
    BY <1>9 DEF ProtectSegment, SetProtection, Passes
  <2>2. DOMAIN max_prot' = DOMAIN prot /\ DOMAIN prot' = DOMAIN prot
    BY <1>3, <2>1
  <2>3. ASSUME NEW p \in DOMAIN prot
        PROVE  /\ max_prot'[p] = IF p \in PagesOf(Seg) THEN Seg.prot ELSE max_prot[p]
               /\ prot'[p] = IF p \in PagesOf(Seg) THEN prot[p] \cap Seg.prot ELSE prot[p]
    BY <1>3, <2>1
  <2>4. \A k : DomainOf(k)' = DomainOf(k)
    BY <1>1, <2>2, SameImage DEF DomainOf, PagesOf, Pages
  <2>5. TypeOK'
    <3>1. \A p \in DOMAIN prot' : prot'[p] \subseteq max_prot'[p] /\ max_prot'[p] \subseteq Access
      BY <1>2, <1>3, <2>2, <2>3
    <3>2. /\ pc' \in Final \cup {"map", "copy", "protect"}
          /\ at' \in 0..Len(image'.segments) /\ pass' \in 0..1
          /\ DOMAIN memory' \subseteq Nat /\ \A a \in DOMAIN memory' : memory'[a] \in Int
          /\ stray' \in BOOLEAN
      BY <1>1, <1>2, <1>3, <2>1 DEF TypeOK
    <3>3. QED
      BY <2>2, <3>1, <3>2 DEF TypeOK
  <2>6. Typed'
    BY <1>1, <1>2, <2>1, <2>5, SameImage DEF Typed
  <2>7. ProtectedOK'
    <3> SUFFICES ASSUME NEW k \in 1..at, NEW p \in DomainOf(k)
                 PROVE  /\ max_prot'[p] \subseteq SegAt(k).prot
                        /\ WellLaidOut => prot'[p] = SegAt(k).prot
      BY <1>1, <2>1, <2>4, SameImage DEF ProtectedOK
    <3>1. p \in PagesOf(Seg) => ~WellLaidOut /\ Seg.prot \subseteq max_prot[p]
      BY <1>4, <1>5, <1>6
    <3>2. QED
      BY <1>6, <2>3, <3>1
  <2>8. HalfwayOK'
    <3>1. \A p \in DomainOf(at + 1) : max_prot'[p] = SegAt(at + 1).prot
      BY <1>2, <2>3 DEF DomainOf
    <3>2. QED
      BY <1>1, <2>1, <2>4, <3>1, SameImage DEF HalfwayOK
  <2>9. FreshOK'
    <3> SUFFICES ASSUME WellLaidOut, NEW k \in 1..Count, k > at + 1, NEW p \in DomainOf(k)
                 PROVE  max_prot'[p] = Access
      BY <1>1, <2>1, <2>4, SameImage DEF FreshOK
    <3>1. k > at + pass /\ k # at + 1
      BY <1>2, <1>9
    <3>2. p \in DOMAIN prot /\ max_prot[p] = Access
      BY <1>1, <3>1 DEF IInv, FreshOK, DomainOf
    <3>3. QED
      BY <1>5, <2>3, <3>1, <3>2
  <2>10. QED
    BY <1>7, <1>8, <2>6, <2>7, <2>8, <2>9 DEF IInv
<1>10. CASE pass = 1
  <2>1. /\ pass' = 0 /\ at' = at + 1 /\ max_prot' = max_prot
        /\ prot' = [p \in DOMAIN prot |-> IF p \in PagesOf(Seg) THEN Seg.prot ELSE prot[p]]
    BY <1>10 DEF ProtectSegment, SetProtection, Passes
  <2>2. DOMAIN prot' = DOMAIN prot
    BY <2>1
  <2>3. ASSUME NEW p \in DOMAIN prot
        PROVE  prot'[p] = IF p \in PagesOf(Seg) THEN Seg.prot ELSE prot[p]
    BY <2>1
  <2>4. \A k : DomainOf(k)' = DomainOf(k)
    BY <1>1, <2>2, SameImage DEF DomainOf, PagesOf, Pages
  <2>5. TypeOK'
    <3>1. \A p \in DOMAIN prot' : prot'[p] \subseteq max_prot'[p] /\ max_prot'[p] \subseteq Access
      BY <1>3, <1>4, <2>1, <2>2, <2>3
    <3>2. /\ pc' \in Final \cup {"map", "copy", "protect"}
          /\ at' \in 0..Len(image'.segments) /\ pass' \in 0..1
          /\ DOMAIN memory' \subseteq Nat /\ \A a \in DOMAIN memory' : memory'[a] \in Int
          /\ stray' \in BOOLEAN
      BY <1>1, <1>2, <1>3, <2>1 DEF TypeOK, Count
    <3>3. QED
      BY <1>3, <2>1, <2>2, <3>1, <3>2 DEF TypeOK
  <2>6. Typed'
    BY <1>1, <1>2, <2>1, <2>5, SameImage DEF Typed
  <2>7. ProtectedOK'
    <3> SUFFICES ASSUME NEW k \in 1..(at + 1), NEW p \in DomainOf(k)
                 PROVE  /\ max_prot[p] \subseteq SegAt(k).prot
                        /\ WellLaidOut => prot'[p] = SegAt(k).prot
      BY <1>1, <2>1, <2>4, SameImage DEF ProtectedOK
    <3>1. CASE k = at + 1
      <4>1. max_prot[p] = SegAt(k).prot
        BY <1>1, <1>10, <3>1 DEF IInv, HalfwayOK
      <4>2. prot'[p] = SegAt(k).prot
        BY <1>2, <2>3, <3>1 DEF DomainOf
      <4>3. QED
        BY <4>1, <4>2
    <3>2. CASE k # at + 1
      <4>1. k \in 1..at
        BY <1>2, <3>2
      <4>2. p \in PagesOf(Seg) => ~WellLaidOut
        BY <1>5, <1>6, <4>1
      <4>3. QED
        BY <1>6, <2>3, <4>1, <4>2
    <3>3. QED
      BY <3>1, <3>2
  <2>8. HalfwayOK'
    BY <2>1 DEF HalfwayOK
  <2>9. FreshOK'
    <3>1. \A k \in 1..Count : k > at + 1 + 0 <=> k > at + pass
      BY <1>2, <1>10
    <3>2. QED
      BY <1>1, <2>1, <2>4, <3>1, SameImage DEF IInv, FreshOK
  <2>10. QED
    BY <1>7, <1>8, <2>6, <2>7, <2>8, <2>9 DEF IInv
<1>11. QED
  BY <1>2, <1>9, <1>10

(* A refused vm_protect, which a well laid out image does not meet.        *)
LEMMA ProtectFailsPreserves ==
    ASSUME IInv, ProtectFails
    PROVE  IInv'
<1>1. pc = "protect" /\ at < Count /\ (~Allowed(Seg) \/ BeyondRegion(Seg)) /\ End("error")
  BY DEF ProtectFails, Count
<1>2. /\ image \in SegmentImages /\ Count \in Nat /\ at \in Nat /\ at + 1 \in 1..Count
      /\ Seg = SegAt(at + 1) /\ Seg \in Segs /\ IsSegment(Seg)
      /\ TypeOK /\ pass \in 0..1 /\ Seg.prot \subseteq Access
  BY <1>1, SegmentFacts DEF IInv, Typed, TypeOK, IsSegment
<1>3. ~LaidOut
  <2> SUFFICES ASSUME LaidOut PROVE FALSE
    OBVIOUS
  <2>1. ~BeyondRegion(Seg)
    BY <1>2, InsideRegion
  <2>2. ASSUME NEW p \in DomainOf(at + 1)
        PROVE  Seg.prot \subseteq max_prot[p]
    <3>1. CASE pass = 0
      <4>1. at + 1 > at + pass
        BY <1>2, <3>1
      <4>2. max_prot[p] = Access
        BY <1>1, <1>2, <4>1 DEF IInv, FreshOK, LaidOut
      <4>3. QED
        BY <1>2, <4>2
    <3>2. CASE pass = 1
      BY <1>1, <1>2, <3>2 DEF IInv, HalfwayOK
    <3>3. QED
      BY <1>2, <3>1, <3>2
  <2>3. Allowed(Seg)
    BY <1>2, <2>2 DEF Allowed, DomainOf, TypeOK
  <2>4. QED
    BY <1>1, <2>1, <2>3
<1>4. QED
  BY <1>1, <1>3, EndPreserves

(* After the last call all segments are protected.                         *)
LEMMA ProtectedPreserves ==
    ASSUME IInv, Protected
    PROVE  IInv'
<1>1. /\ pc = "protect" /\ at = Count /\ pc' = "done" /\ at' = at
      /\ image' = image /\ pass' = pass /\ memory' = memory
      /\ max_prot' = max_prot /\ prot' = prot /\ stray' = stray
  BY DEF Protected, End, Count
<1>2. image \in SegmentImages /\ Count \in Nat /\ TypeOK /\ pass \in 0..1 /\ pass # 1
  BY <1>1, ImageFacts DEF IInv, Typed, TypeOK
<1>3. Typed'
  <2>1. TypeOK'
    BY <1>1, <1>2 DEF TypeOK, Final
  <2>2. QED
    BY <1>1, <1>2, <2>1, SameImage DEF Typed
<1>4. CopiedSoFar' = CopiedSoFar
  BY <1>1, SameImage DEF CopiedSoFar
<1>5. BytesOK'
  BY <1>1, <1>4, SameImage DEF IInv, BytesOK, Covers, InSegment
<1>6. ProtectedOK'
  BY <1>1, SameImage DEF IInv, ProtectedOK, DomainOf, PagesOf, Pages
<1>7. HalfwayOK' /\ FreshOK'
  BY <1>1 DEF HalfwayOK, FreshOK
<1>8. NothingFails'
  BY <1>1, SameImage DEF IInv, NothingFails
<1>9. QED
  BY <1>3, <1>5, <1>6, <1>7, <1>8 DEF IInv

-----------------------------------------------------------------------------
(* The invariant, and what it says of the image in memory.                 *)

(* Nothing is allocated yet.                                               *)
LEMMA InitIInv == Init => IInv
<1> SUFFICES ASSUME Init PROVE IInv
  OBVIOUS
<1>1. /\ image \in SegmentImages /\ pc = "map" /\ at = 0 /\ pass = 0
      /\ memory = << >> /\ max_prot = << >> /\ prot = << >> /\ stray = FALSE
  BY DEF Init
<1>2. Count \in Nat
  BY <1>1, ImageFacts
<1>3. TypeOK
  <2>1. at \in 0..Len(image.segments)
    BY <1>1, <1>2 DEF Count
  <2>2. DOMAIN memory = {} /\ DOMAIN max_prot = {} /\ DOMAIN prot = {}
    BY <1>1
  <2>3. pc \in Final \cup {"map", "copy", "protect"} /\ stray \in BOOLEAN
    BY <1>1, Zenon
  <2>4. pass \in 0..1
    BY <1>1
  <2>5. QED
    BY <2>1, <2>2, <2>3, <2>4 DEF TypeOK
<1>4. Typed
  BY <1>1, <1>3 DEF Typed
<1>5. BytesOK /\ ProtectedOK /\ HalfwayOK /\ FreshOK /\ NothingFails
  BY <1>1 DEF BytesOK, ProtectedOK, HalfwayOK, FreshOK, NothingFails
<1>6. QED
  BY <1>4, <1>5 DEF IInv

(* Nothing changes, nothing is lost.                                       *)
LEMMA StutterPreserves ==
    ASSUME IInv, UNCHANGED vars
    PROVE  IInv'
<1>1. /\ image' = image /\ pc' = pc /\ at' = at /\ pass' = pass /\ memory' = memory
      /\ max_prot' = max_prot /\ prot' = prot /\ stray' = stray
  BY DEF vars
<1>2. Typed'
  BY <1>1, SameImage DEF IInv, Typed, TypeOK
<1>3. CopiedSoFar' = CopiedSoFar
  BY <1>1, SameImage DEF CopiedSoFar
<1>4. BytesOK'
  BY <1>1, <1>3, SameImage DEF IInv, BytesOK, Covers, InSegment
<1>5. \A k : DomainOf(k)' = DomainOf(k)
  BY <1>1, SameImage DEF DomainOf, PagesOf, Pages
<1>6. ProtectedOK' /\ HalfwayOK' /\ FreshOK'
  BY <1>1, <1>5, SameImage DEF IInv, ProtectedOK, HalfwayOK, FreshOK
<1>7. NothingFails'
  BY <1>1, SameImage DEF IInv, NothingFails
<1>8. QED
  BY <1>2, <1>4, <1>6, <1>7 DEF IInv

(* Every step keeps the invariant.                                         *)
LEMMA NextIInv == IInv /\ [Next]_vars => IInv'
<1> SUFFICES ASSUME IInv, [Next]_vars PROVE IInv'
  OBVIOUS
<1>1. image \in SegmentImages /\ (pc = "map" => memory = << >>)
  BY DEF IInv, Typed
<1>2. CASE Allocate
  <2>1. pc = "map" /\ Segs # {}
    BY <1>2 DEF Allocate
  <2>2. CASE max_addr > min_addr /\ VmAllocate(max_addr - min_addr)
    <3>1. max_addr - min_addr \in Nat \ {0}
      BY <1>1, <2>1, <2>2, ExtentFacts
    <3>2. QED
      BY <2>1, <2>2, <3>1, AllocatePreserves
  <2>3. CASE End("error")
    BY <1>1, <2>1, <2>3, EndPreserves
  <2>4. QED
    BY <1>2, <2>2, <2>3 DEF Allocate
<1>3. CASE AllocateNothing
  <2>1. pc = "map" /\ ~LaidOut
    BY <1>3 DEF AllocateNothing, LaidOut
  <2>2. CASE VmAllocate(1)
    BY <2>1, <2>2, AllocatePreserves
  <2>3. CASE End("panic") \/ End("error")
    BY <2>1, <2>3, EndPreserves
  <2>4. QED
    BY <1>3, <2>2, <2>3 DEF AllocateNothing
<1>4. CASE SkipSegment
  BY <1>4, SkipPreserves
<1>5. CASE CopySegment
  BY <1>5, CopyPreserves
<1>6. CASE CopyFaults
  <2>1. /\ at < Count /\ ~Skipped(Seg) /\ (BeyondFile(Seg) \/ BeyondRegion(Seg))
        /\ End("fault")
    BY <1>6 DEF CopyFaults, Count
  <2>2. Seg \in Segs
    BY <2>1, SegmentFacts DEF IInv
  <2>3. LaidOut => ~NoZeroFill
    BY <1>1, <2>1, <2>2, InsideRegion, InsideFile
  <2>4. QED
    BY <2>1, <2>3, EndPreserves
<1>7. CASE Copied
  BY <1>7, CopiedPreserves
<1>8. CASE ProtectSegment
  BY <1>8, ProtectPreserves
<1>9. CASE ProtectFails
  BY <1>9, ProtectFailsPreserves
<1>10. CASE Protected
  BY <1>10, ProtectedPreserves
<1>11. CASE UNCHANGED vars
  BY <1>11, StutterPreserves
<1>12. CASE Ended
  BY <1>12, StutterPreserves DEF Ended
<1>13. QED
  BY <1>2, <1>3, <1>4, <1>5, <1>6, <1>7, <1>8, <1>9, <1>10, <1>11, <1>12 DEF Next

(* The inductive invariant holds from the allocation of the region by      *)
(* macho_segments_map_to_vm to the last vm_protect.                        *)
THEOREM SegmentInvariant == Spec => []IInv
<1>1. QED
  BY InitIInv, NextIInv, PTL DEF Spec

(* Once all segments are copied every file byte is at its address.         *)
LEMMA IInvInPlace == IInv => SegmentsInPlace
<1> SUFFICES ASSUME IInv, LaidOut
             PROVE  /\ ~stray
                    /\ pc \in {"protect", "done"} =>
                          \A a \in DOMAIN memory :
                              (Meant(a) # 0 \/ \A s \in Segs : ~InSegment(a, s))
                                  => memory[a] = Meant(a)
                    /\ NoZeroFill => pc # "fault"
  BY DEF SegmentsInPlace, LaidOut
<1>1. ASSUME pc \in {"protect", "done"}, NEW a \in DOMAIN memory,
             Meant(a) # 0 \/ \A s \in Segs : ~InSegment(a, s)
      PROVE  memory[a] = Meant(a)
  <2> DEFINE owners == {s \in Segs : s.file_size > 0 /\ InSegment(a, s)
                                      /\ a < s.vm_addr + s.file_size}
             s == CHOOSE s \in owners : TRUE
  <2>1. /\ image \in SegmentImages /\ image.size \in Nat /\ a \in Nat
        /\ CopiedSoFar = 1..Count
    BY <1>1, ImageFacts DEF IInv, Typed, TypeOK, CopiedSoFar
  <2>2. Meant(a) = IF owners = {} THEN 0 ELSE s.file_offset + a - s.vm_addr + 1
    BY DEF Meant
  <2>3. /\ \A k \in 1..Count : Covers(k, a) =>
              memory[a] = FileByte(SegAt(k).file_offset + a - SegAt(k).vm_addr)
        /\ (\A k \in 1..Count : ~Covers(k, a)) => memory[a] = 0
    BY <1>1, <2>1 DEF IInv, BytesOK
  <2>4. CASE owners = {}
    <3>1. Meant(a) = 0
      BY <2>2, <2>4
    <3>2. \A k \in 1..Count : ~Covers(k, a)
      BY <1>1, <2>1, <3>1, ImageFacts DEF Covers
    <3>3. QED
      BY <2>3, <3>1, <3>2
  <2>5. CASE owners # {}
    <3>1. s \in owners
      BY <2>5
    <3> HIDE DEF s
    <3>2. /\ s \in Segs /\ s.file_size > 0 /\ InSegment(a, s) /\ a < s.vm_addr + s.file_size
      BY <3>1
    <3>3. PICK k \in 1..Count : s = SegAt(k)
      BY <2>1, <3>2, ImageFacts
    <3>4. /\ s.file_offset \in Nat /\ s.file_size \in Nat /\ s.vm_addr \in Nat
          /\ s.file_offset + s.file_size <= image.size /\ (Skipped(s) => s.file_size = 0)
      BY <2>1, <3>2, ImageFacts DEF IsSegment, LaidOut, WellLaidOut, IsPageZero, Skipped
    <3>5. Covers(k, a)
      BY <3>2, <3>3, <3>4 DEF Covers
    <3>6. memory[a] = FileByte(s.file_offset + a - s.vm_addr)
      BY <2>3, <3>3, <3>5
    <3>7. s.file_offset + a - s.vm_addr < image.size /\ s.file_offset + a - s.vm_addr \in Int
      BY <2>1, <3>2, <3>4
    <3>8. FileByte(s.file_offset + a - s.vm_addr) = s.file_offset + a - s.vm_addr + 1
      BY <2>1, <3>7, FileByteOf
    <3>9. QED
      BY <2>2, <2>5, <3>6, <3>8
  <2>6. QED
    BY <2>4, <2>5
<1>2. QED
  BY <1>1 DEF IInv, NothingFails

(* Once all segments are protected no page allows more than asked.         *)
LEMMA IInvProtects == IInv => ProtectsAsAsked
<1> SUFFICES ASSUME IInv PROVE ProtectsAsAsked
  OBVIOUS
<1>1. ASSUME pc = "done", NEW s \in Segs, NEW p \in PagesOf(s) \cap DOMAIN prot
      PROVE  /\ prot[p] \subseteq s.prot /\ max_prot[p] \subseteq s.prot
             /\ WellLaidOut => prot[p] = s.prot
  <2>1. image \in SegmentImages /\ at = Count /\ prot[p] \subseteq max_prot[p]
    BY <1>1 DEF IInv, Typed, TypeOK
  <2>2. PICK k \in 1..Count : s = SegAt(k)
    BY <2>1, ImageFacts
  <2>3. p \in DomainOf(k)
    BY <2>2 DEF DomainOf
  <2>4. max_prot[p] \subseteq s.prot /\ (WellLaidOut => prot[p] = s.prot)
    BY <1>1, <2>1, <2>2, <2>3 DEF IInv, ProtectedOK
  <2>5. QED
    BY <2>1, <2>4
<1>2. LaidOut => ~(pc = "error" /\ memory # << >>)
  BY DEF IInv, NothingFails
<1>3. QED
  BY <1>1, <1>2 DEF ProtectsAsAsked, LaidOut

(* SegmentsInPlace: macho_segments_map_to_vm puts every file byte of a     *)
(* well laid out image at its address and stays inside the region, for     *)
(* any number, size and order of segments and any page size.               *)
THEOREM MapsSegmentsInPlace == Spec => []SegmentsInPlace
<1>1. QED
  BY SegmentInvariant, IInvInPlace, PTL

(* ProtectsAsAsked: after macho_segments_vm_protect no page allows what    *)
(* one of its segments does not, for segments that share pages too, and a  *)
(* well laid out image is never refused.                                   *)
THEOREM ProtectsSegments == Spec => []ProtectsAsAsked
<1>1. QED
  BY SegmentInvariant, IInvProtects, PTL

=============================================================================
