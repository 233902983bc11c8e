---------------------------- MODULE MCSegmentMap ----------------------------
(***************************************************************************)
(* Images for SegmentMap: what linkers produce, with every combination of  *)
(* partly filled pages, zero-fill, empty segments and orders; images with  *)
(* segments that share pages; and the two kinds that are not mapped as the *)
(* loader's comments say.                                                  *)
(***************************************************************************)
EXTENDS SegmentMap, SequencesExt

MCPageSize == 2

SetRound(bytes) == ((bytes + MCPageSize - 1) \div MCPageSize) * MCPageSize

(* A part of an image: its bytes in the file and the pages of zero-fill.   *)
Part(file, zero, access) == [file |-> file, zero |-> zero, prot |-> access]
VmSize(part) == SetRound(part.file) + part.zero * MCPageSize

PageZero == [vm_addr |-> 0, vm_size |-> MCPageSize, file_offset |-> 0, file_size |-> 0,
             prot |-> {}]

(* The parts one after another from the base, in memory and in the file.   *)
Placed(parts, base) ==
    [k \in DOMAIN parts |->
        [vm_addr |-> base + FoldLeft(LAMBDA sum, p : sum + VmSize(p), 0,
                                     SubSeq(parts, 1, k - 1)),
         vm_size |-> VmSize(parts[k]),
         file_offset |-> FoldLeft(LAMBDA sum, p : sum + SetRound(p.file), 0,
                                  SubSeq(parts, 1, k - 1)),
         file_size |-> parts[k].file,
         prot |-> parts[k].prot]]

FileSize(segments) == Max({0} \cup {segments[k].file_offset + segments[k].file_size :
                                       k \in DOMAIN segments})

Executable(parts) ==
    LET segments == <<PageZero>> \o Placed(parts, MCPageSize)
    IN  [segments |-> segments, size |-> FileSize(segments), is_executable |-> TRUE]

Dylib(parts, base) ==
    LET segments == Placed(parts, base)
    IN  [segments |-> segments, size |-> FileSize(segments), is_executable |-> FALSE]

Text == {Part(f, 0, {"read", "execute"}) : f \in {2, 3}}
Data == {Part(f, z, {"read", "write"}) : f \in 0..2, z \in 0..2}
Linkedit == {Part(f, 0, {"read"}) : f \in {0, 1, 3}}

Linked == {<<t, d, l>> : t \in Text, d \in Data, l \in Linkedit}

(* The same image with its load commands in the opposite order.            *)
Reversed(i) == [i EXCEPT !.segments = Reverse(i.segments)]

LinkedImages ==
    LET images == {Executable(p) : p \in Linked} \cup {Dylib(p, 0) : p \in Linked}
    IN  images \cup {Reversed(i) : i \in images}

(* Segments anywhere, so that they share pages or bytes, and no segments.  *)
Loose == {[vm_addr |-> a, vm_size |-> n, file_offset |-> 0, file_size |-> 0, prot |-> p] :
            a \in {0, 1, 3}, n \in 0..2, p \in {{"read"}, {"read", "write"}, {}}}
LooseImages ==
    {[segments |-> s, size |-> 4, is_executable |-> FALSE] :
        s \in {<< >>} \cup {<<x, y>> : x, y \in Loose}}

MCImages == LinkedImages \cup LooseImages

(* A library with variables that have no bytes in the file, and one that   *)
(* is linked at an address.                                                *)
DivergentImages ==
    {Dylib(<<Part(2, 0, {"read", "execute"}), Part(0, 1, {"read", "write"}),
             Part(2, 0, {"read"})>>, 0),
     Dylib(<<Part(2, 0, {"read", "execute"}), Part(2, 0, {"read"})>>, 8)}
=============================================================================
