----------------------------- MODULE SegmentMap -----------------------------
(***************************************************************************)
(* How one image gets into memory: macho_segments_map_to_vm allocates a    *)
(* region and copies the segments into it, macho_segments_vm_protect gives *)
(* every segment its protection.  Loader takes both as done in one step    *)
(* each; here the bytes and the pages are modelled.                        *)
(*                                                                         *)
(* An address is counted from the start of the region the kernel gave.     *)
(* Every byte of the file is different: the one at offset o is o + 1.      *)
(***************************************************************************)
EXTENDS Integers, Sequences, FiniteSetsExt

CONSTANTS
    SegmentImages,  \* the images that may be mapped
    PageSize        \* bytes in a VM page

ASSUME PageSizeAssumption == PageSize \in Nat \ {0}

Access == {"read", "write", "execute"}
Garbage == -1

(* A segment_command_64.  The loader's Segment leaves out file_size, which *)
(* only the properties look at.                                            *)
IsSegment(s) ==
    /\ s.vm_addr \in Nat /\ s.vm_size \in Nat
    /\ s.file_offset \in Nat /\ s.file_size \in Nat
    /\ s.prot \subseteq Access

(* A parsed image: its segments in the order of the load commands, the     *)
(* size of its file, and whether it is the executable.                     *)
IsImage(i) ==
    /\ Len(i.segments) \in Nat /\ DOMAIN i.segments = 1..Len(i.segments)
    /\ \A k \in DOMAIN i.segments : IsSegment(i.segments[k])
    /\ i.size \in Nat /\ i.is_executable \in BOOLEAN

ASSUME SegmentImagesAssumption == \A i \in SegmentImages : IsImage(i)

VARIABLES
    image,      \* never changes
    pc,
    at,         \* segments already dealt with in the current loop
    pass,       \* of the two protections of a segment, those already set
    memory,     \* the bytes of the region
    max_prot,   \* of each page of the region
    prot,
    stray       \* a copy or a protection has reached beyond the region

vars == <<image, pc, at, pass, memory, max_prot, prot, stray>>

Final == {"done", "error", "panic", "fault"}

TypeOK ==
    /\ pc \in Final \cup {"map", "copy", "protect"}
    /\ at \in 0..Len(image.segments) /\ pass \in 0..1
    /\ DOMAIN memory \subseteq Nat /\ \A a \in DOMAIN memory : memory[a] \in Int
    /\ DOMAIN max_prot = DOMAIN prot
    /\ \A p \in DOMAIN prot : prot[p] \subseteq max_prot[p] /\ max_prot[p] \subseteq Access
    /\ stray \in BOOLEAN

Init ==
    /\ image \in SegmentImages
    /\ pc = "map" /\ at = 0 /\ pass = 0
    /\ memory = << >> /\ max_prot = << >> /\ prot = << >>
    /\ stray = FALSE

Pages(bytes) == (bytes + PageSize - 1) \div PageSize
RoundUp(bytes) == Pages(bytes) * PageSize

Segs == {image.segments[k] : k \in DOMAIN image.segments}
Seg == image.segments[at + 1]

-----------------------------------------------------------------------------
(* macho_segments_map_to_vm                                                *)

min_addr == Min({s.vm_addr : s \in Segs})
max_addr == Max({s.vm_addr + s.vm_size : s \in Segs})

(* vm_allocate: whole pages, zero-filled.                                  *)
VmAllocate(bytes) ==
    /\ memory' = [a \in 0..(RoundUp(bytes) - 1) |-> 0]
    /\ max_prot' = [p \in 0..(Pages(bytes) - 1) |-> Access]
    /\ prot' = [p \in 0..(Pages(bytes) - 1) |-> {"read", "write"}]
    /\ pc' = "copy"
    /\ UNCHANGED <<image, at, pass, stray>>

End(next_pc) ==
    /\ pc' = next_pc
    /\ UNCHANGED <<image, at, pass, memory, max_prot, prot, stray>>

(* A region of no bytes is at the null address, which is an error too.     *)
Allocate ==
    /\ pc = "map" /\ Segs # {}
    /\ \/ max_addr > min_addr /\ VmAllocate(max_addr - min_addr)
       \/ End("error")

(* Without segments 0 - u64::MAX overflows: a build with overflow checks   *)
(* panics, any other asks for one byte.                                    *)
AllocateNothing ==
    /\ pc = "map" /\ Segs = {}
    /\ \/ VmAllocate(1)
       \/ End("panic")
       \/ End("error")

(* Mutant of Skipped: also a library's first segment is taken for a        *)
(* __PAGEZERO.                                                             *)
SkippedByAddress(s) == s.vm_addr = 0

Skipped(s) == image.is_executable /\ s.vm_addr = 0

(* What a read at the offset of the mapped file yields: mmap fills the     *)
(* last page with zeros, and what follows it is anything.                  *)
FileByte(offset) ==
    CASE offset < image.size -> offset + 1
      [] offset \in image.size..(RoundUp(image.size) - 1) -> 0
      [] OTHER -> Garbage

BeyondRegion(s) == s.vm_size > 0 /\ s.vm_addr + s.vm_size > RoundUp(max_addr - min_addr)
BeyondFile(s) == s.vm_size > 0 /\ s.file_offset + s.vm_size > RoundUp(image.size)

SkipSegment ==
    /\ pc = "copy" /\ at < Len(image.segments) /\ Skipped(Seg)
    /\ at' = at + 1
    /\ UNCHANGED <<image, pc, pass, memory, max_prot, prot, stray>>

(* vm_size bytes go to the segment's address, counted from the start of    *)
(* the region.                                                             *)
CopySegment ==
    /\ pc = "copy" /\ at < Len(image.segments) /\ ~Skipped(Seg)
    /\ memory' = [a \in DOMAIN memory |->
                    IF a - Seg.vm_addr \in 0..(Seg.vm_size - 1)
                    THEN FileByte(Seg.file_offset + a - Seg.vm_addr)
                    ELSE memory[a]]
    /\ stray' = (stray \/ BeyondRegion(Seg))
    /\ at' = at + 1
    /\ UNCHANGED <<image, pc, pass, max_prot, prot>>

(* Reading behind the file or writing behind the region may fault.         *)
CopyFaults ==
    /\ pc = "copy" /\ at < Len(image.segments) /\ ~Skipped(Seg)
    /\ BeyondFile(Seg) \/ BeyondRegion(Seg)
    /\ End("fault")

Copied ==
    /\ pc = "copy" /\ at = Len(image.segments)
    /\ pc' = "protect" /\ at' = 0
    /\ UNCHANGED <<image, pass, memory, max_prot, prot, stray>>

-----------------------------------------------------------------------------
(* macho_segments_vm_protect                                               *)

(* Mutant of Passes: only the maximum is set.                              *)
PassesMaximumOnly == <<TRUE>>

(* for set_max in [true, false]                                            *)
Passes == <<TRUE, FALSE>>

(* The pages the kernel takes the range to mean.                           *)
PagesOf(s) ==
    IF s.vm_size = 0 THEN {}
    ELSE (s.vm_addr \div PageSize)..(Pages(s.vm_addr + s.vm_size) - 1)

(* vm_protect as the kernel carries it out: no access may be asked for     *)
(* that the maximum does not have, and lowering the maximum also takes the *)
(* access away.                                                            *)
Allowed(s) == \A p \in PagesOf(s) \cap DOMAIN max_prot : s.prot \subseteq max_prot[p]

SetProtection(s, set_max) ==
    IF set_max
    THEN /\ max_prot' = [p \in DOMAIN max_prot |->
                            IF p \in PagesOf(s) THEN s.prot ELSE max_prot[p]]
         /\ prot' = [p \in DOMAIN prot |->
                            IF p \in PagesOf(s) THEN prot[p] \cap s.prot ELSE prot[p]]
    ELSE /\ prot' = [p \in DOMAIN prot |-> IF p \in PagesOf(s) THEN s.prot ELSE prot[p]]
         /\ UNCHANGED max_prot

ProtectSegment ==
    /\ pc = "protect" /\ at < Len(image.segments)
    /\ Allowed(Seg)
    /\ SetProtection(Seg, Passes[pass + 1])
    /\ stray' = (stray \/ BeyondRegion(Seg))
    /\ IF pass + 1 < Len(Passes) THEN pass' = pass + 1 /\ UNCHANGED at
       ELSE pass' = 0 /\ at' = at + 1
    /\ UNCHANGED <<image, pc, memory>>

ProtectFails ==
    /\ pc = "protect" /\ at < Len(image.segments)
    /\ ~Allowed(Seg) \/ BeyondRegion(Seg)
    /\ End("error")

Protected ==
    /\ pc = "protect" /\ at = Len(image.segments)
    /\ End("done")

Ended == pc \in Final /\ UNCHANGED vars

Next ==
    \/ Allocate \/ AllocateNothing
    \/ SkipSegment \/ CopySegment \/ CopyFaults \/ Copied
    \/ ProtectSegment \/ ProtectFails \/ Protected
    \/ Ended

Spec == Init /\ [][Next]_vars

-----------------------------------------------------------------------------
(* What the segments are meant to be in memory.                            *)

InSegment(a, s) == a \in s.vm_addr..(s.vm_addr + s.vm_size - 1)

(* The part of the address space that an executable keeps inaccessible.    *)
IsPageZero(s) == image.is_executable /\ s.vm_addr = 0

(* The segments as a linker lays them out: whole pages, no page of two     *)
(* segments, with file bytes that exist; none in the __PAGEZERO.           *)
WellLaidOut ==
    /\ \A s \in Segs : /\ s.vm_addr % PageSize = 0 /\ s.vm_size % PageSize = 0
                       /\ s.file_size <= s.vm_size
                       /\ s.file_offset + s.file_size <= image.size
                       /\ IsPageZero(s) => s.file_size = 0
    /\ \A j, k \in DOMAIN image.segments : j # k =>
          PagesOf(image.segments[j]) \cap PagesOf(image.segments[k]) = {}

(* Nothing but the rest of its last page follows a segment's file bytes.   *)
NoZeroFill ==
    \A s \in Segs : ~IsPageZero(s) =>
        s.vm_size = RoundUp(s.file_size) /\ RoundUp(s.file_offset) = s.file_offset

(* The byte at an address of the image: of the file, or zero.              *)
Meant(a) ==
    LET owners == {s \in Segs : s.file_size > 0 /\ InSegment(a, s)
                                 /\ a < s.vm_addr + s.file_size}
    IN  IF owners = {} THEN 0
        ELSE LET s == CHOOSE s \in owners : TRUE IN s.file_offset + a - s.vm_addr + 1

(* In an image whose lowest address is 0, as that of every executable with *)
(* a __PAGEZERO and of every library that is not linked at an address,     *)
(* each file byte of each segment ends up at its address, the bytes of no  *)
(* segment stay zero, and nothing is written beyond the region, in         *)
(* whatever order the segments come; without zero-fill the copies never    *)
(* fault either.                                                           *)
SegmentsInPlace ==
    Segs # {} /\ WellLaidOut /\ min_addr = 0 =>
        /\ ~stray
        /\ pc \in {"protect", "done"} =>
              \A a \in DOMAIN memory :
                  (Meant(a) # 0 \/ \A s \in Segs : ~InSegment(a, s)) => memory[a] = Meant(a)
        /\ NoZeroFill => pc # "fault"

(* When an image is handed on, no page of it grants, or can be made to     *)
(* grant, an access that one of the segments on it does not have; each     *)
(* page of a well laid out image has exactly its segment's, the page zero  *)
(* none; and protecting such an image never fails.                         *)
ProtectsAsAsked ==
    /\ pc = "done" =>
          \A s \in Segs : \A p \in PagesOf(s) \cap DOMAIN prot :
              /\ prot[p] \subseteq s.prot /\ max_prot[p] \subseteq s.prot
              /\ WellLaidOut => prot[p] = s.prot
    /\ Segs # {} /\ WellLaidOut /\ min_addr = 0 => ~(pc = "error" /\ memory # << >>)

(* "Allocate a single VM region covering every segment, then copy each     *)
(* segment's file bytes into them": in pages that were zero-filled, the    *)
(* image holds its file bytes and zeros, all of it inside the region.      *)
MapsAsDescribed ==
    WellLaidOut =>
        /\ pc # "fault" /\ ~stray
        /\ pc \in {"protect", "done"} => \A a \in DOMAIN memory : memory[a] = Meant(a)
=============================================================================
