------------------------- MODULE SharedCacheProofs -------------------------
(***************************************************************************)
(* For every shared cache that the kernel can have mapped: the offsets     *)
(* that indexing stores lead back to the images' headers, every mapped     *)
(* image is indexed under its name and no other, and a lookup keeps its    *)
(* budget in range.  Where the code counts the ordinals of re-exports as   *)
(* the linker does (OrdinalsAgree), what a lookup answers is a definition, *)
(* and in a well-formed cache it misses none.                              *)
(***************************************************************************)
EXTENDS SharedCache, SequenceLemmas, TLAPS

-----------------------------------------------------------------------------
(* The cache.                                                              *)

Total == Len(cache.subs)
SubAt(i) == cache.subs[i]
Start(i) == cache.base + SubAt(i).offset
MapOf(i, j) == SubAt(i).mappings[j]
Images == Len(cache.images)

(* What the assumption says of the tables of the cache.                    *)
LEMMA CacheFacts ==
    ASSUME cache \in Caches
    PROVE  /\ cache.base \in Nat /\ cache.slide \in Nat /\ Total \in 1..U8 /\ Total \in Nat
           /\ DOMAIN cache.subs = 1..Total
           /\ SubAt(1).offset = 0
           /\ \A i \in 1..Total :
                 /\ SubAt(i).offset \in Nat /\ Start(i) \in Nat
                 /\ Len(SubAt(i).mappings) \in Nat
                 /\ DOMAIN SubAt(i).mappings = 1..Len(SubAt(i).mappings)
           /\ Images \in Nat /\ DOMAIN cache.images = 1..Images
<1>1. IsCache(cache)
  BY CachesAssumption
<1>2. /\ cache.base \in Nat /\ cache.slide \in Nat /\ SubAt(1).offset = 0
      /\ cache.subs \in Seq(SubCache)
      /\ cache.images \in Seq(ImageInfo)
      /\ Len(cache.subs) \in 1..U8
  BY <1>1 DEF IsCache, SubAt
<1>3. /\ Total \in 1..U8 /\ Total \in Nat /\ DOMAIN cache.subs = 1..Total
      /\ Images \in Nat /\ DOMAIN cache.images = 1..Images
  BY <1>2 DEF Total, Images
<1>4. ASSUME NEW i \in 1..Total
      PROVE  /\ SubAt(i).offset \in Nat /\ Start(i) \in Nat
             /\ Len(SubAt(i).mappings) \in Nat
             /\ DOMAIN SubAt(i).mappings = 1..Len(SubAt(i).mappings)
  <2>1. SubAt(i) \in SubCache
    BY <1>2, <1>3 DEF SubAt, Total
  <2>2. SubAt(i).offset \in Nat /\ SubAt(i).mappings \in Seq(Mapping)
    BY <2>1 DEF SubCache
  <2>3. QED
    BY <1>2, <2>2 DEF Start
<1>5. QED
  BY <1>2, <1>3, <1>4

(* Where the mappings of a sub-cache are.                                  *)
LEMMA MappingFacts ==
    ASSUME cache \in Caches, NEW i \in 1..Total, NEW j \in 1..Len(SubAt(i).mappings)
    PROVE  /\ MapOf(i, j).address \in Nat /\ MapOf(i, j).size \in Nat
           /\ MapOf(i, j).file_offset \in Nat
           /\ MapOf(i, 1).address = Start(i) /\ MapOf(i, j).address >= Start(i)
<1>1. IsCache(cache) /\ i \in DOMAIN cache.subs /\ j \in DOMAIN SubAt(i).mappings
  BY CachesAssumption, CacheFacts
<1>2. /\ cache.subs[i].mappings[1].address = cache.base + cache.subs[i].offset
      /\ cache.subs[i].mappings[j].address >= cache.base + cache.subs[i].offset
      /\ cache.subs[i] \in SubCache
  BY <1>1 DEF IsCache, FilesLaidOut, SubAt
<1>3. cache.subs[i].mappings[j] \in Mapping
  BY <1>1, <1>2 DEF SubAt, SubCache
<1>4. QED
  BY <1>2, <1>3 DEF MapOf, SubAt, Start, Mapping

(* Every mapping of a sub-cache ends within its mapped length.             *)
LEMMA LengthFacts ==
    ASSUME cache \in Caches, NEW i \in 1..Total, NEW j \in 1..Len(SubAt(i).mappings)
    PROVE  /\ MappedLength(SubAt(i).mappings) \in Nat
           /\ MapOf(i, j).address - Start(i) + MapOf(i, j).size <= MappedLength(SubAt(i).mappings)
<1> DEFINE N == Len(SubAt(i).mappings)
           f == [k \in 1..N |-> MapOf(i, k).address - Start(i) + MapOf(i, k).size]
           S == {0} \cup {f[k] : k \in 1..N}
<1>1. N \in Nat /\ DOMAIN SubAt(i).mappings = 1..N /\ Start(i) \in Nat
  BY CacheFacts
<1>2. \A k \in 1..N : f[k] \in Nat /\ f[k] = MapOf(i, k).address - Start(i) + MapOf(i, k).size
  BY <1>1, MappingFacts
<1>3. MapOf(i, 1).address = Start(i)
  BY MappingFacts
<1>4. MappedLength(SubAt(i).mappings) = Max(S)
  BY <1>1, <1>3 DEF MappedLength, MapOf
<1> HIDE DEF f
<1>5. PICK b \in Nat : \A k \in 1..N : f[k] <= b
  BY <1>1, <1>2, Bounded
<1>6. S \subseteq Nat /\ S # {} /\ \A x \in S : x <= b
  BY <1>2, <1>5
<1> HIDE DEF S
<1>7. Max(S) \in S /\ \A x \in S : x <= Max(S)
  BY <1>6, MaxFacts
<1>8. f[j] \in S
  BY DEF S
<1>9. QED
  BY <1>2, <1>4, <1>6, <1>7, <1>8

-----------------------------------------------------------------------------
(* Addresses, once every sub-cache is attached.                            *)

Views == \A i \in 1..Len(subs) : subs[i] = SubCacheView(SubAt(i))

AllAttached == cache \in Caches /\ IsSeq(subs) /\ Len(subs) = Total /\ Views

(* What the view of a sub-cache holds.                                     *)
LEMMA ViewFacts ==
    ASSUME AllAttached, NEW i \in 1..Total
    PROVE  /\ subs[i].pointer = Start(i) + cache.slide /\ subs[i].unslid_base = Start(i)
           /\ subs[i].length = MappedLength(SubAt(i).mappings)
           /\ subs[i].mappings = SubAt(i).mappings
           /\ DOMAIN subs = 1..Total
<1>1. subs[i] = SubCacheView(SubAt(i)) /\ DOMAIN subs = 1..Total
  BY IsSeqFacts DEF AllAttached, Views
<1>2. cache.base \in Nat /\ cache.slide \in Nat /\ SubAt(i).offset \in Nat
  BY CacheFacts DEF AllAttached
<1>3. QED
  BY <1>1, <1>2 DEF SubCacheView, Start

(* A mapping of the kernel's is a mapping of a container, and conversely.  *)
LEMMA LocatedIsMapped ==
    ASSUME AllAttached, NEW vm
    PROVE  Located(vm) <=> Mapped(cache, vm)
<1>1. DOMAIN cache.subs = 1..Total /\ 1 \in 1..Total
  BY CacheFacts DEF AllAttached
<1>2. DOMAIN subs = 1..Total /\ \A i \in 1..Total : subs[i].mappings = cache.subs[i].mappings
  BY <1>1, ViewFacts DEF SubAt
<1>3. QED
  BY <1>1, <1>2 DEF Located, Mapped

(* subcache_and_offset_locate_from_addr: the index fits its u8, and index  *)
(* and offset lead back to the address.                                    *)
LEMMA LocateFacts ==
    ASSUME AllAttached, NEW vm, Located(vm), NEW l, l = Locate(vm)
    PROVE  /\ vm \in Nat /\ l.sub \in 0..(U8 - 1) /\ l.sub + 1 \in 1..Total
           /\ l.offset \in Nat /\ l.offset < Container(l.sub).length
           /\ UnslidAt(Container(l.sub), l.offset) = vm
           /\ \E j \in 1..Len(SubAt(l.sub + 1).mappings) : Covers(MapOf(l.sub + 1, j), vm)
<1> DEFINE In(i) == \E j \in DOMAIN subs[i].mappings : Covers(subs[i].mappings[j], vm)
           I == {i \in 1..Len(subs) : In(i)}
           n == IF I # {} THEN Min(I) ELSE 0
<1>1. /\ cache \in Caches /\ Len(subs) = Total /\ Total \in Nat /\ Total \in 1..U8
      /\ 1 \in 1..Total /\ cache.slide \in Nat
  BY CacheFacts DEF AllAttached
<1>2. DOMAIN subs = 1..Total
  BY <1>1, ViewFacts
<1>3. l = [sub |-> (n - 1) % U8, offset |-> vm - subs[n].unslid_base]
  BY DEF Locate, SelectInSeq
<1>4. I # {} /\ I \subseteq Nat
  BY <1>1, <1>2 DEF Located
<1>5. n \in I
  BY <1>4, MinFacts
<1> HIDE DEF n, I
<1>6. n \in 1..Total /\ n \in Nat /\ In(n)
  BY <1>1, <1>5 DEF I
<1>7. PICK j \in DOMAIN subs[n].mappings : Covers(subs[n].mappings[j], vm)
  BY <1>6
<1>8. /\ subs[n].pointer = Start(n) + cache.slide /\ subs[n].unslid_base = Start(n)
      /\ subs[n].length = MappedLength(SubAt(n).mappings)
      /\ subs[n].mappings = SubAt(n).mappings
  BY <1>6, ViewFacts
<1>9. j \in 1..Len(SubAt(n).mappings) /\ Start(n) \in Nat
  BY <1>1, <1>6, <1>7, <1>8, CacheFacts
<1>10. /\ MapOf(n, j).address \in Nat /\ MapOf(n, j).size \in Nat
       /\ MapOf(n, j).address >= Start(n)
       /\ MappedLength(SubAt(n).mappings) \in Nat
       /\ MapOf(n, j).address - Start(n) + MapOf(n, j).size <= MappedLength(SubAt(n).mappings)
  BY <1>1, <1>6, <1>9, MappingFacts, LengthFacts
<1>11. vm \in Nat /\ MapOf(n, j).address <= vm /\ vm <= MapOf(n, j).address + MapOf(n, j).size - 1
  BY <1>7, <1>8, <1>10 DEF Covers, MapOf
<1>12. l.sub = n - 1
  <2>1. n - 1 \in 0..255
    BY <1>1, <1>6 DEF U8
  <2>2. (n - 1) % 256 = n - 1
    BY <2>1
  <2>3. QED
    BY <1>3, <2>2 DEF U8
<1>13. l.offset = vm - Start(n)
  BY <1>3, <1>8
<1>14. Container(l.sub) = subs[n]
  BY <1>6, <1>12 DEF Container
<1>15. l.offset \in Nat /\ l.offset < MappedLength(SubAt(n).mappings)
  BY <1>9, <1>10, <1>11, <1>13
<1>16. UnslidAt(subs[n], l.offset) = vm
  BY <1>1, <1>8, <1>9, <1>11, <1>13 DEF UnslidAt
<1>17. l.sub \in 0..(U8 - 1) /\ l.sub + 1 \in 1..Total
  BY <1>1, <1>6, <1>12 DEF U8
<1>18. Covers(MapOf(n, j), vm) /\ l.sub + 1 = n
  BY <1>6, <1>7, <1>8, <1>12 DEF MapOf
<1>19. QED
  BY <1>8, <1>9, <1>11, <1>14, <1>15, <1>16, <1>17, <1>18

(* runtime_offset_for_file_offset leads to the path of the image.          *)
LEMMA PathFacts ==
    ASSUME AllAttached, NEW i \in 1..Images, NEW off, off = cache.images[i].path_file_offset,
           PathCovered(off)
    PROVE  cache.strings[UnslidAt(subs[1], PathOffset(off))] = cache.images[i].name
<1> DEFINE ms == cache.subs[1].mappings
           J == {j \in 1..Len(ms) : CoversFile(ms[j], off)}
           n == IF J # {} THEN Min(J) ELSE 0
<1>1. /\ cache \in Caches /\ IsCache(cache) /\ 1 \in 1..Total /\ i \in DOMAIN cache.images
      /\ cache.slide \in Nat /\ SubAt(1).offset = 0 /\ cache.base \in Nat
      /\ Len(ms) \in Nat /\ DOMAIN ms = 1..Len(ms)
  BY CachesAssumption, CacheFacts DEF AllAttached, SubAt
<1>2. /\ subs[1].pointer = Start(1) + cache.slide /\ subs[1].unslid_base = Start(1)
      /\ subs[1].mappings = ms
  BY <1>1, ViewFacts DEF SubAt
<1>3. PathOffset(off) = (ms[n].address - Start(1)) + (off - ms[n].file_offset)
  BY <1>2 DEF PathOffset, SelectInSeq
<1>4. J # {} /\ J \subseteq Nat
  BY <1>1, <1>2 DEF PathCovered
<1>5. n \in J /\ \A k \in J : n <= k
  BY <1>4, MinFacts
<1> HIDE DEF n
<1>6. n \in 1..Len(ms) /\ n \in DOMAIN ms /\ CoversFile(ms[n], off)
      /\ \A k \in 1..(n - 1) : ~CoversFile(ms[k], off)
  <2>1. n \in 1..Len(ms) /\ n \in DOMAIN ms /\ CoversFile(ms[n], off)
    BY <1>1, <1>5
  <2>2. ASSUME NEW k \in 1..(n - 1), CoversFile(ms[k], off)
        PROVE  FALSE
    <3>1. k \in 1..Len(ms) /\ ~(n <= k)
      BY <1>1, <2>1
    <3>2. QED
      BY <1>5, <2>2, <3>1
  <2>3. QED
    BY <2>1, <2>2
<1>7. cache.strings[AddressOf(ms[n], off)] = cache.images[i].name
  BY <1>1, <1>6 DEF IsCache, PathsAreNames
<1>8. UnslidAt(subs[1], PathOffset(off)) = AddressOf(ms[n], off)
  <2>1. MapOf(1, n) = ms[n]
    BY DEF MapOf, SubAt
  <2>2. ms[n].address \in Nat /\ ms[n].file_offset \in Nat /\ Start(1) \in Nat
    BY <1>1, <1>6, <2>1, MappingFacts, CacheFacts DEF SubAt
  <2>3. off \in Int
    <3>1. cache.images \in Seq(ImageInfo)
      BY <1>1 DEF IsCache
    <3>2. cache.images[i] \in ImageInfo
      BY <1>1, <3>1
    <3>3. QED
      BY <3>2 DEF ImageInfo
  <2> DEFINE a == ms[n].address
             o == ms[n].file_offset
             b == Start(1)
             d == cache.slide
  <2>4. a \in Int /\ o \in Int /\ b \in Int /\ d \in Int
    BY <1>1, <2>2
  <2>5. PathOffset(off) = (a - b) + (off - o) /\ subs[1].pointer = b + d
    BY <1>2, <1>3
  <2>10. UnslidAt(subs[1], PathOffset(off)) = subs[1].pointer + PathOffset(off) - d
    BY DEF UnslidAt
  <2>11. AddressOf(ms[n], off) = a + (off - o)
    BY DEF AddressOf
  <2> HIDE DEF a, o, b, d
  <2>6. (b + d) + ((a - b) + (off - o)) - d = a + (off - o)
    BY <2>3, <2>4
  <2>7. QED
    BY <2>5, <2>6, <2>10, <2>11
<1>9. QED
  BY <1>7, <1>8

-----------------------------------------------------------------------------
(* The inductive invariant.                                                *)

MappedSet == {i \in ToSet(cache.images) : Mapped(cache, i.address)}

(* The images that a loop over the first n finds mapped.                   *)
MappedUpTo(n) == (CHOOSE g : Rows(g, Images, cache.images, MappedSet))[n]

Typed ==
    /\ cache \in Caches
    /\ phase \in {"attach", "index", "ready", "resolve", "failed", "panicked", "answered"}
    /\ IsSeq(subs) /\ IsSeq(libraries) /\ IsSeq(frames)
    /\ next \in Nat \ {0} /\ result.kind \in {"none", "error", "address"}

(* The containers so far are those of the table; all of them are there     *)
(* before the first image is indexed.                                      *)
AttachedOK ==
    /\ Views /\ Len(subs) <= Total
    /\ phase = "attach" => Len(subs) = next - 1 /\ Len(libraries) = 0
    /\ phase \in {"index", "ready", "resolve", "answered"} \/ Len(libraries) > 0
         => Len(subs) = Total

(* The index so far is that of the images before the next one.             *)
Matches(n) ==
    /\ IsSeq(MappedUpTo(n)) /\ Len(libraries) = Len(MappedUpTo(n))
    /\ \A i \in 1..Len(libraries) :
        /\ libraries[i].path = MappedUpTo(n)[i].name
        /\ libraries[i].load_address = MappedUpTo(n)[i].address

IndexedOK ==
    /\ Len(libraries) <= Images
    /\ phase = "index" =>
          next - 1 <= Images /\ Len(libraries) <= next - 1 /\ Matches(next - 1)
    /\ phase \in {"ready", "resolve", "answered"} => Matches(Images)

PlaceOK(l) ==
    /\ l.sub \in 0..(U8 - 1) /\ l.sub + 1 \in 1..Total
    /\ l.offset \in Nat /\ l.offset < Container(l.sub).length
    /\ UnslidAt(Container(l.sub), l.offset) = l.load_address

PlacesOK == \A i \in 1..Len(libraries) : PlaceOK(libraries[i])

(* A call has looked at its budget before it passes a smaller one on.      *)
FrameOK(f) ==
    /\ DOMAIN f = {"path", "symbol", "budget", "stage", "load_address", "image", "found", "todo"}
    /\ f.budget \in 0..MAX_REEXPORT_RESOLUTION_DEPTH
    /\ f.stage # "entered" => f.budget > 0

FramesOK ==
    /\ phase = "resolve" <=> Len(frames) > 0
    /\ \A i \in 1..Len(frames) : FrameOK(frames[i])

IInv == Typed /\ AttachedOK /\ IndexedOK /\ PlacesOK /\ FramesOK

(* The rows of the loop over the image table.                              *)
LEMMA UpToFacts ==
    ASSUME cache \in Caches
    PROVE  /\ MappedUpTo(0) = << >>
           /\ \A n \in 1..Images : MappedUpTo(n) =
                 IF Mapped(cache, cache.images[n].address)
                 THEN Append(MappedUpTo(n - 1), cache.images[n]) ELSE MappedUpTo(n - 1)
           /\ MappedImages = MappedUpTo(Images)
<1> DEFINE kept == CHOOSE g : Rows(g, Images, cache.images, MappedSet)
<1>1. Images \in Nat /\ DOMAIN cache.images = 1..Images
  BY CacheFacts
<1>2. Rows(kept, Images, cache.images, MappedSet)
  BY <1>1, RowsExist
<1>3. MappedImages = kept[Images]
  BY DEF MappedImages, SelectIn, Rows, Images, MappedSet
<1>4. \A n : MappedUpTo(n) = kept[n]
  BY DEF MappedUpTo
<1> HIDE DEF kept
<1>5. /\ kept[0] = << >>
      /\ \A n \in 1..Images : kept[n] =
            IF cache.images[n] \in MappedSet THEN Append(kept[n - 1], cache.images[n])
            ELSE kept[n - 1]
  BY <1>1, <1>2, RowsFacts
<1>6. \A n \in 1..Images : cache.images[n] \in MappedSet <=> Mapped(cache, cache.images[n].address)
  BY <1>1 DEF MappedSet, ToSet
<1>7. QED
  BY <1>3, <1>4, <1>5, <1>6

(* What depends on the cache alone stays as it is.                         *)
LEMMA SameCache ==
    ASSUME cache' = cache
    PROVE  /\ Total' = Total /\ Images' = Images
           /\ \A i : SubAt(i)' = SubAt(i)
           /\ \A n : MappedUpTo(n)' = MappedUpTo(n)
<1>1. Total' = Total /\ Images' = Images /\ \A i : SubAt(i)' = SubAt(i)
  BY DEF Total, Images, SubAt
<1>2. MappedSet' = MappedSet
  BY DEF MappedSet, Mapped
<1>3. ASSUME NEW n
      PROVE  MappedUpTo(n)' = MappedUpTo(n)
  BY <1>1, <1>2, Zenon DEF MappedUpTo
<1>4. QED
  BY <1>1, <1>3

(* The views of containers that are there stay as they are.                *)
LEMMA SameViews ==
    ASSUME cache' = cache, subs' = subs
    PROVE  /\ Views' = Views
           /\ \A l : PlaceOK(l)' = PlaceOK(l)
<1>1. Views' = Views
  BY DEF Views, SubCacheView, SubAt
<1>2. QED
  BY <1>1 DEF PlaceOK, Container, UnslidAt, Total

(* The index stays as it is.                                               *)
LEMMA SameMatches ==
    ASSUME cache' = cache, libraries' = libraries, NEW n
    PROVE  Matches(n)' = Matches(n)
  BY SameCache DEF Matches

-----------------------------------------------------------------------------
(* from_existing.                                                          *)

(* The cache is as the kernel has mapped it, and nothing is attached.      *)
LEMMA InitIInv == Init => IInv
<1> SUFFICES ASSUME Init PROVE IInv
  OBVIOUS
<1>1. /\ cache \in Caches /\ phase = "attach" /\ subs = << >> /\ next = 1 /\ libraries = << >>
      /\ frames = << >> /\ result = None
  BY DEF Init
<1>2. Len(<< >>) = 0 /\ IsSeq(<< >>)
  BY EmptyIsSeq
<1>3. Total \in Nat /\ Images \in Nat
  BY <1>1, CacheFacts
<1>4. Typed
  BY <1>1, <1>2 DEF Typed, None
<1>5. AttachedOK
  BY <1>1, <1>2, <1>3 DEF AttachedOK, Views
<1>6. IndexedOK /\ PlacesOK /\ FramesOK
  BY <1>1, <1>2, <1>3 DEF IndexedOK, PlacesOK, FramesOK
<1>7. QED
  BY <1>4, <1>5, <1>6 DEF IInv

(* One more entry of the table is attached.                                *)
LEMMA AttachPreserves ==
    ASSUME IInv, Attach
    PROVE  IInv'
<1>1. /\ phase = "attach" /\ next <= Total /\ cache' = cache /\ phase' = phase
      /\ next' = next + 1 /\ libraries' = libraries /\ frames' = frames /\ result' = result
      /\ subs' = Append(subs, SubCacheView(SubAt(next)))
  BY DEF Attach, Total, SubAt
<1>2. /\ cache \in Caches /\ IsSeq(subs) /\ Len(subs) \in Nat /\ next \in Nat \ {0} /\ Views
      /\ Len(subs) = next - 1 /\ Len(libraries) = 0 /\ Total \in Nat /\ Images \in Nat
  BY <1>1, IsSeqFacts, CacheFacts DEF IInv, Typed, AttachedOK
<1>3. /\ IsSeq(subs') /\ Len(subs') = next /\ subs'[next] = SubCacheView(SubAt(next))
      /\ \A k \in 1..(next - 1) : subs'[k] = subs[k]
  <2>1. PICK v : v = SubCacheView(SubAt(next))
    OBVIOUS
  <2>2. /\ IsSeq(Append(subs, v)) /\ Len(Append(subs, v)) = Len(subs) + 1
        /\ Append(subs, v)[Len(subs) + 1] = v
        /\ \A k \in 1..Len(subs) : Append(subs, v)[k] = subs[k]
    BY <1>2, AppendFacts
  <2>3. subs' = Append(subs, v) /\ Len(subs) + 1 = next
    BY <1>1, <1>2, <2>1
  <2>4. QED
    BY <1>2, <2>1, <2>2, <2>3
<1>4. \A s : SubCacheView(s)' = SubCacheView(s)
  BY <1>1 DEF SubCacheView
<1>5. Views'
  <2> SUFFICES ASSUME NEW i \in 1..next
               PROVE  subs'[i] = SubCacheView(SubAt(i))
    BY <1>1, <1>3, <1>4, SameCache DEF Views, SubCacheView
  <2>1. CASE i = next
    BY <1>3, <2>1
  <2>2. CASE i # next
    BY <1>2, <1>3, <2>2 DEF Views
  <2>3. QED
    BY <2>1, <2>2
<1>6. Typed'
  BY <1>1, <1>2, <1>3 DEF IInv, Typed
<1>7. AttachedOK'
  BY <1>1, <1>2, <1>3, <1>5, SameCache DEF AttachedOK
<1>8. IndexedOK' /\ PlacesOK' /\ FramesOK'
  BY <1>1, <1>2, SameCache DEF IInv, IndexedOK, PlacesOK, FramesOK
<1>9. QED
  BY <1>5, <1>6, <1>7, <1>8 DEF IInv

(* An error or a panic leaves what is there.                               *)
LEMMA FailPreserves ==
    ASSUME IInv, phase \in {"attach", "index"}, phase' \in {"failed", "panicked"},
           UNCHANGED <<cache, subs, next, libraries, query, frames, result>>
    PROVE  IInv'
<1>1. Typed'
  BY DEF IInv, Typed
<1>2. AttachedOK' /\ IndexedOK' /\ PlacesOK'
  BY SameCache, SameViews DEF IInv, AttachedOK, IndexedOK, PlacesOK
<1>3. FramesOK'
  BY DEF IInv, FramesOK
<1>4. QED
  BY <1>1, <1>2, <1>3 DEF IInv

(* The index starts empty, as the rows of the loop do.                     *)
LEMMA AttachedPreserves ==
    ASSUME IInv, Attached
    PROVE  IInv'
<1>1. /\ phase = "attach" /\ next > Total /\ phase' = "index" /\ next' = 1 /\ cache' = cache
      /\ subs' = subs /\ libraries' = libraries /\ frames' = frames /\ result' = result
  BY DEF Attached, Total
<1>2. /\ cache \in Caches /\ Len(subs) = next - 1 /\ Len(libraries) = 0 /\ Len(subs) <= Total
      /\ next \in Nat /\ Total \in Nat /\ Images \in Nat
  BY <1>1, CacheFacts DEF IInv, Typed, AttachedOK
<1>3. Matches(0)
  BY <1>2, UpToFacts, EmptyIsSeq DEF Matches
<1>4. Typed'
  BY <1>1 DEF IInv, Typed
<1>5. AttachedOK'
  BY <1>1, <1>2, SameCache, SameViews DEF IInv, AttachedOK
<1>6. Matches(0)'
  BY <1>1, <1>3, SameMatches
<1>7. IndexedOK'
  <2>1. next' - 1 = 0 /\ Len(libraries)' = 0 /\ Images' = Images
    BY <1>1, <1>2, SameCache
  <2>2. QED
    BY <1>1, <1>2, <1>6, <2>1 DEF IndexedOK
<1>8. PlacesOK' /\ FramesOK'
  BY <1>1, <1>2 DEF IInv, PlacesOK, FramesOK
<1>9. QED
  BY <1>4, <1>5, <1>7, <1>8 DEF IInv

(* What holds while an image of the table is being indexed.                *)
LEMMA AtImageFacts ==
    ASSUME IInv, AtImage
    PROVE  /\ phase = "index" /\ next \in 1..Images /\ AllAttached /\ cache.images[next].address \in Nat
           /\ Images \in Nat /\ Len(libraries) \in Nat /\ Len(libraries) <= next - 1
           /\ Matches(next - 1) /\ next + 1 - 1 = next /\ IsSeq(libraries)
<1>1. phase = "index" /\ next <= Images /\ next \in Nat \ {0} /\ cache \in Caches
  BY DEF IInv, Typed, AtImage, AtEntry, Images
<1>2. Images \in Nat /\ DOMAIN cache.images = 1..Images /\ IsCache(cache)
  BY <1>1, CacheFacts, CachesAssumption
<1>3. cache.images[next].address \in Nat
  <2>1. cache.images \in Seq(ImageInfo)
    BY <1>2 DEF IsCache
  <2>2. cache.images[next] \in ImageInfo
    BY <1>1, <1>2, <2>1
  <2>3. QED
    BY <2>2 DEF ImageInfo
<1>4. AllAttached
  BY <1>1 DEF IInv, Typed, AttachedOK, AllAttached
<1>5. IsSeq(libraries) /\ Len(libraries) \in Nat
  BY IsSeqFacts DEF IInv, Typed
<1>6. Matches(next - 1) /\ Len(libraries) <= next - 1
  BY <1>1 DEF IInv, IndexedOK
<1>7. QED
  BY <1>1, <1>2, <1>3, <1>4, <1>5, <1>6

(* A mapped image is indexed where it is, under its own name.              *)
LEMMA IndexImagePreserves ==
    ASSUME IInv, IndexImage
    PROVE  IInv'
<1> DEFINE i == cache.images[next]
           l == Locate(i.address)
<1>1. PICK e : e = [sub |-> l.sub, offset |-> l.offset,
                    path |-> PathAt(i.path_file_offset),
                    load_address |-> i.address]
  OBVIOUS
<1>2. /\ AtImage /\ Located(i.address) /\ PathCovered(i.path_file_offset)
      /\ libraries' = Append(libraries, e) /\ next' = next + 1
      /\ cache' = cache /\ phase' = phase /\ subs' = subs /\ frames' = frames /\ result' = result
  BY <1>1 DEF IndexImage
<1>3. /\ phase = "index" /\ next \in 1..Images /\ AllAttached /\ i.address \in Nat
      /\ Images \in Nat /\ Len(libraries) \in Nat /\ Len(libraries) <= next - 1
      /\ Matches(next - 1) /\ next + 1 - 1 = next /\ IsSeq(libraries)
  BY <1>2, AtImageFacts
<1>4. /\ IsSeq(libraries') /\ Len(libraries') = Len(libraries) + 1
      /\ libraries'[Len(libraries) + 1] = e
      /\ \A k \in 1..Len(libraries) : libraries'[k] = libraries[k]
  BY <1>2, <1>3, AppendFacts
<1>5. e.path = i.name /\ e.load_address = i.address
  <2>1. PathAt(i.path_file_offset) = i.name
    BY <1>2, <1>3, PathFacts DEF PathAt
  <2>2. QED
    BY <1>1, <2>1
<1>6. PlaceOK(e)
  <2>1. /\ l.sub \in 0..(U8 - 1) /\ l.sub + 1 \in 1..Total
        /\ l.offset \in Nat /\ l.offset < Container(l.sub).length
        /\ UnslidAt(Container(l.sub), l.offset) = i.address
    BY <1>2, <1>3, LocateFacts
  <2> HIDE DEF l, i
  <2>2. e.sub = l.sub /\ e.offset = l.offset /\ e.load_address = i.address
    BY <1>1
  <2>3. QED
    BY <2>1, <2>2 DEF PlaceOK
<1> HIDE DEF l, i
<1>0. PICK n : n = next
  OBVIOUS
<1>7. Matches(n)'
  <2> DEFINE r == MappedUpTo(next)
             q == MappedUpTo(next - 1)
  <2>1. Mapped(cache, i.address) /\ cache \in Caches
    BY <1>2, <1>3, LocatedIsMapped DEF AllAttached
  <2>2. r = Append(q, i)
    BY <1>3, <2>1, UpToFacts DEF i
  <2>3. IsSeq(q) /\ Len(libraries) = Len(q)
    BY <1>3 DEF Matches
  <2>4. \A k \in 1..Len(libraries) :
           libraries[k].path = q[k].name /\ libraries[k].load_address = q[k].address
    BY <1>3 DEF Matches
  <2> HIDE DEF r, q
  <2>5. /\ IsSeq(r) /\ Len(r) = Len(q) + 1 /\ r[Len(q) + 1] = i
        /\ \A k \in 1..Len(q) : r[k] = q[k]
    BY <2>2, <2>3, AppendFacts
  <2>6. ASSUME NEW k \in 1..Len(libraries')
        PROVE  libraries'[k].path = r[k].name /\ libraries'[k].load_address = r[k].address
    <3>1. CASE k = Len(libraries) + 1
      BY <1>4, <1>5, <2>3, <2>5, <3>1
    <3>2. CASE k # Len(libraries) + 1
      <4>1. k \in 1..Len(libraries)
        BY <1>3, <1>4, <3>2
      <4>2. QED
        BY <1>4, <2>3, <2>4, <2>5, <4>1
    <3>3. QED
      BY <3>1, <3>2
  <2>7. Len(libraries') = Len(r)
    BY <1>4, <2>3, <2>5
  <2>8. MappedUpTo(n)' = r
    BY <1>0, <1>2, SameCache DEF r
  <2>9. QED
    BY <2>5, <2>6, <2>7, <2>8 DEF Matches
<1>8. Typed'
  BY <1>2, <1>3, <1>4 DEF IInv, Typed
<1>9. AttachedOK'
  <2>1. Len(subs) = Total /\ Total \in Nat /\ Views
    BY <1>3, CacheFacts DEF AllAttached
  <2>2. QED
    BY <1>2, <1>3, <2>1, SameCache, SameViews DEF AttachedOK
<1>10. IndexedOK'
  <2>1. next' - 1 = n /\ Images' = Images /\ n <= Images /\ Len(libraries') <= n
        /\ Len(libraries') <= Images
    BY <1>0, <1>2, <1>3, <1>4, SameCache
  <2>2. QED
    BY <1>2, <1>3, <1>7, <2>1 DEF IndexedOK
<1>11. PlacesOK'
  <2>1. ASSUME NEW k \in 1..Len(libraries')
        PROVE  PlaceOK(libraries'[k])
    <3>1. CASE k = Len(libraries) + 1
      BY <1>4, <1>6, <3>1
    <3>2. CASE k # Len(libraries) + 1
      <4>1. k \in 1..Len(libraries)
        BY <1>3, <1>4, <3>2
      <4>2. QED
        BY <1>4, <4>1 DEF IInv, PlacesOK
    <3>3. QED
      BY <3>1, <3>2
  <2>2. ASSUME NEW k \in 1..Len(libraries')
        PROVE  PlaceOK(libraries[k])'
    <3>1. PICK x : x = libraries'[k]
      OBVIOUS
    <3>2. PlaceOK(x)
      BY <2>1, <3>1
    <3>3. PlaceOK(x)'
      BY <1>2, <3>2, SameViews
    <3>4. QED
      BY <3>1, <3>3
  <2>3. QED
    BY <2>2 DEF PlacesOK
<1>12. FramesOK'
  BY <1>2 DEF IInv, FramesOK
<1>13. QED
  BY <1>8, <1>9, <1>10, <1>11, <1>12 DEF IInv

(* An image in no mapping is passed over, as the rows pass it over.        *)
LEMMA SkipImagePreserves ==
    ASSUME IInv, SkipImage
    PROVE  IInv'
<1>1. /\ AtImage /\ ~Located(cache.images[next].address) /\ next' = next + 1
      /\ cache' = cache /\ phase' = phase /\ subs' = subs /\ libraries' = libraries
      /\ frames' = frames /\ result' = result
  BY DEF SkipImage
<1>2. /\ phase = "index" /\ next \in 1..Images /\ AllAttached
      /\ Images \in Nat /\ Len(libraries) \in Nat /\ Len(libraries) <= next - 1
      /\ Matches(next - 1)
  BY <1>1, AtImageFacts
<1>3. PICK n : n = next
  OBVIOUS
<1>4. Matches(n)
  <2>1. ~Mapped(cache, cache.images[next].address) /\ cache \in Caches
    BY <1>1, <1>2, LocatedIsMapped DEF AllAttached
  <2>2. MappedUpTo(n) = MappedUpTo(next - 1)
    BY <1>2, <1>3, <2>1, UpToFacts
  <2>3. QED
    BY <1>2, <2>2 DEF Matches
<1>5. Matches(n)'
  BY <1>1, <1>4, SameMatches
<1>6. Typed'
  BY <1>1, <1>2 DEF IInv, Typed
<1>7. AttachedOK' /\ PlacesOK' /\ FramesOK'
  BY <1>1, <1>2, SameCache, SameViews DEF IInv, AttachedOK, PlacesOK, FramesOK
<1>8. IndexedOK'
  <2>1. next' - 1 = n /\ Images' = Images /\ n <= Images /\ Len(libraries') <= n
        /\ Len(libraries') <= Images
    BY <1>1, <1>2, <1>3, SameCache
  <2>2. QED
    BY <1>1, <1>2, <1>5, <2>1 DEF IndexedOK
<1>9. QED
  BY <1>6, <1>7, <1>8 DEF IInv

-----------------------------------------------------------------------------
(* The view is immutable from here on.                                     *)

(* A step that leaves the view alone.                                      *)
LEMMA ViewStays ==
    ASSUME IInv, UNCHANGED <<cache, subs, next, libraries>>,
           phase \in {"ready", "resolve"}, phase' \in {"ready", "resolve", "answered"},
           IsSeq(frames'), FramesOK', result'.kind \in {"none", "error", "address"}
    PROVE  IInv'
<1>1. Typed'
  BY DEF IInv, Typed
<1>2. AttachedOK' /\ PlacesOK'
  BY SameCache, SameViews DEF IInv, AttachedOK, PlacesOK
<1>3. PICK n : n = Images
  OBVIOUS
<1>4. Matches(n)' /\ Images' = n
  BY <1>3, SameCache, SameMatches DEF IInv, IndexedOK
<1>5. IndexedOK'
  BY <1>3, <1>4 DEF IInv, IndexedOK
<1>6. QED
  BY <1>1, <1>2, <1>5 DEF IInv

(* After the last image the rows are complete.                             *)
LEMMA IndexedPreserves ==
    ASSUME IInv, Indexed
    PROVE  IInv'
<1>1. /\ phase = "index" /\ next > Images /\ phase' = "ready"
      /\ cache' = cache /\ subs' = subs /\ libraries' = libraries /\ next' = next
      /\ frames' = frames /\ result' = result
  BY DEF Indexed, Images
<1>2. /\ cache \in Caches /\ Images \in Nat /\ next \in Nat /\ next - 1 <= Images
      /\ Matches(next - 1)
  BY <1>1, CacheFacts DEF IInv, Typed, IndexedOK
<1>3. PICK n : n = Images
  OBVIOUS
<1>4. next - 1 = n
  BY <1>1, <1>2, <1>3
<1>5. Matches(n)' /\ Images' = n
  BY <1>1, <1>2, <1>3, <1>4, SameCache, SameMatches
<1>6. Typed' /\ FramesOK'
  BY <1>1 DEF IInv, Typed, FramesOK
<1>7. AttachedOK' /\ PlacesOK'
  BY <1>1, SameCache, SameViews DEF IInv, AttachedOK, PlacesOK
<1>8. IndexedOK'
  BY <1>1, <1>3, <1>5 DEF IInv, IndexedOK
<1>9. QED
  BY <1>6, <1>7, <1>8 DEF IInv

-----------------------------------------------------------------------------
(* symbol_resolve_with_max_depth.                                          *)

Fields == {"path", "symbol", "budget", "stage", "load_address", "image", "found", "todo"}

(* The calls: a stack that is a sequence of typed frames.                  *)
Calls(fs) == IsSeq(fs) /\ Len(fs) > 0 /\ \A i \in 1..Len(fs) : FrameOK(fs[i])

(* The innermost call, and the stack without it.                           *)
LEMMA TopFacts ==
    ASSUME IInv, phase = "resolve"
    PROVE  /\ Len(frames) \in Nat \ {0} /\ FrameOK(Top)
           /\ IsSeq(Front(frames)) /\ Len(Front(frames)) = Len(frames) - 1
           /\ \A i \in 1..(Len(frames) - 1) : FrameOK(Front(frames)[i])
<1>1. IsSeq(frames) /\ Len(frames) \in Nat /\ Len(frames) > 0
  BY IsSeqFacts DEF IInv, Typed, FramesOK
<1>2. \A i \in 1..Len(frames) : FrameOK(frames[i])
  BY DEF IInv, FramesOK
<1>3. Len(frames) \in 1..Len(frames) /\ Top = frames[Len(frames)]
  BY <1>1 DEF Top, Last
<1>4. /\ IsSeq(Front(frames)) /\ Len(Front(frames)) = Len(frames) - 1
      /\ \A i \in 1..(Len(frames) - 1) : Front(frames)[i] = frames[i]
  BY <1>1, FrontFacts DEF Front
<1>5. ASSUME NEW i \in 1..(Len(frames) - 1)
      PROVE  FrameOK(Front(frames)[i])
  <2>1. i \in 1..Len(frames)
    BY <1>1
  <2>2. QED
    BY <1>2, <1>4, <2>1
<1>6. QED
  BY <1>1, <1>2, <1>3, <1>4, <1>5

(* Another frame on top of a stack.                                        *)
LEMMA PushFacts ==
    ASSUME NEW fs, IsSeq(fs), \A i \in 1..Len(fs) : FrameOK(fs[i]), NEW f, FrameOK(f)
    PROVE  Calls(Append(fs, f))
<1>1. /\ IsSeq(Append(fs, f)) /\ Len(Append(fs, f)) = Len(fs) + 1 /\ Len(fs) \in Nat
      /\ Append(fs, f)[Len(fs) + 1] = f
      /\ \A i \in 1..Len(fs) : Append(fs, f)[i] = fs[i]
  BY AppendFacts, IsSeqFacts
<1>2. ASSUME NEW i \in 1..(Len(fs) + 1)
      PROVE  FrameOK(Append(fs, f)[i])
  <2>1. CASE i = Len(fs) + 1
    BY <1>1, <2>1
  <2>2. CASE i # Len(fs) + 1
    <3>1. i \in 1..Len(fs)
      BY <1>1, <2>2
    <3>2. QED
      BY <1>1, <3>1
  <2>3. QED
    BY <2>1, <2>2
<1>3. QED
  BY <1>1, <1>2 DEF Calls

(* The innermost call goes on.                                             *)
LEMMA ReplaceFacts ==
    ASSUME IInv, phase = "resolve", NEW f, FrameOK(f)
    PROVE  Calls(Replaced(f))
<1>1. /\ IsSeq(Front(frames)) /\ Len(Front(frames)) = Len(frames) - 1
      /\ \A i \in 1..(Len(frames) - 1) : FrameOK(Front(frames)[i])
  BY TopFacts
<1>2. \A i \in 1..Len(Front(frames)) : FrameOK(Front(frames)[i])
  BY <1>1
<1>3. QED
  BY <1>1, <1>2, PushFacts DEF Replaced

(* A step that only changes the stack of calls.                            *)
LEMMA ContinuePreserves ==
    ASSUME IInv, phase = "resolve", NEW fs, Calls(fs), Continue(fs)
    PROVE  IInv'
<1>1. /\ frames' = fs /\ UNCHANGED <<cache, subs, next, libraries>>
      /\ phase' = "resolve" /\ result' = result
  BY DEF Continue
<1>2. FramesOK'
  <2>1. Len(frames') > 0 /\ \A i \in 1..Len(frames') : FrameOK(frames'[i])
    BY <1>1 DEF Calls
  <2>2. QED
    BY <1>1, <2>1 DEF FramesOK, FrameOK
<1>3. IsSeq(frames') /\ result'.kind \in {"none", "error", "address"}
  BY <1>1 DEF Calls, IInv, Typed
<1>4. QED
  BY <1>1, <1>2, <1>3, ViewStays

(* An answer for every call.                                               *)
LEMMA LeavePreserves ==
    ASSUME IInv, phase = "resolve", NEW r, r.kind \in {"none", "error", "address"}, Leave(r)
    PROVE  IInv'
<1>1. /\ frames' = << >> /\ UNCHANGED <<cache, subs, next, libraries>>
      /\ phase' = "answered" /\ result' = r
  BY DEF Leave
<1>2. IsSeq(frames') /\ FramesOK'
  BY <1>1, EmptyIsSeq DEF FramesOK
<1>3. QED
  BY <1>1, <1>2, ViewStays

(* None for the caller, or for everyone.                                   *)
LEMMA ReturnNonePreserves ==
    ASSUME IInv, phase = "resolve", ReturnNone
    PROVE  IInv'
<1>1. /\ frames' = Front(frames) /\ UNCHANGED <<cache, subs, next, libraries>>
      /\ phase' = (IF Len(frames) = 1 THEN "answered" ELSE "resolve") /\ result' = result
  BY DEF ReturnNone
<1>2. /\ Len(frames) \in Nat \ {0} /\ IsSeq(frames') /\ Len(frames') = Len(frames) - 1
      /\ \A i \in 1..(Len(frames) - 1) : FrameOK(frames'[i])
  BY <1>1, TopFacts
<1>3. phase' = "resolve" <=> Len(frames') > 0
  BY <1>1, <1>2
<1>4. FramesOK'
  BY <1>2, <1>3 DEF FramesOK, FrameOK
<1>5. result'.kind \in {"none", "error", "address"}
  BY <1>1 DEF IInv, Typed
<1>6. QED
  BY <1>1, <1>2, <1>4, <1>5, ViewStays

(* A call starts with what is left of the budget.                          *)
LEMMA NewFrame ==
    ASSUME NEW path, NEW symbol, NEW b \in 0..MAX_REEXPORT_RESOLUTION_DEPTH
    PROVE  FrameOK(Frame(path, symbol, b))
  BY DEF Frame, FrameOK

(* symbol_resolve starts one call with the whole budget.                   *)
LEMMA SymbolResolvePreserves ==
    ASSUME IInv, SymbolResolve
    PROVE  IInv'
<1>1. PICK q \in Queries : frames' = <<Frame(q[1], q[2], MAX_REEXPORT_RESOLUTION_DEPTH)>>
  BY DEF SymbolResolve
<1>2. /\ phase = "ready" /\ phase' = "resolve" /\ UNCHANGED <<cache, subs, next, libraries>>
      /\ result' = result
  BY DEF SymbolResolve
<1>3. PICK f : f = Frame(q[1], q[2], MAX_REEXPORT_RESOLUTION_DEPTH)
  OBVIOUS
<1>4. FrameOK(f)
  BY <1>3, NewFrame, BudgetAssumption
<1>5. frames' = Append(<< >>, f)
  BY <1>1, <1>3
<1>6. Calls(frames')
  <2>1. PICK e : e = << >>
    OBVIOUS
  <2>2. IsSeq(e) /\ Len(e) = 0
    BY <2>1, EmptyIsSeq
  <2>3. \A i \in 1..Len(e) : FrameOK(e[i])
    BY <2>2
  <2>4. Calls(Append(e, f))
    BY <1>4, <2>2, <2>3, PushFacts
  <2>5. QED
    BY <1>5, <2>1, <2>4
<1>7. FramesOK' /\ IsSeq(frames')
  BY <1>2, <1>6 DEF FramesOK, FrameOK, Calls
<1>8. result'.kind \in {"none", "error", "address"}
  BY <1>2 DEF IInv, Typed
<1>9. QED
  BY <1>2, <1>7, <1>8, ViewStays

(* The steps of a call that has not returned.                              *)
LEMMA CallPreserves ==
    ASSUME IInv, FindLibrary \/ FindTrie \/ LookInTrie \/ FollowReexport
                   \/ CollectReexports \/ UmbrellaNext
    PROVE  IInv'
<1>1. phase = "resolve"
  BY DEF FindLibrary, FindTrie, LookInTrie, FollowReexport, CollectReexports, UmbrellaNext, At
<1>2. PICK t : t = Top
  OBVIOUS
<1>3. /\ DOMAIN t = Fields /\ t.budget \in 0..MAX_REEXPORT_RESOLUTION_DEPTH
      /\ t.stage # "entered" => t.budget > 0
  BY <1>1, <1>2, TopFacts DEF FrameOK, Fields
<1>4. MAX_REEXPORT_RESOLUTION_DEPTH \in Nat
  BY BudgetAssumption
<1>5. CASE FindLibrary
  <2>1. PICK f : /\ f = [t EXCEPT !.stage = "span",
                             !.load_address = libraries[LibraryFind(t.path)].load_address,
                             !.image = ImageView(libraries[LibraryFind(t.path)])]
                 /\ Continue(Replaced(f))
    BY <1>2, <1>5 DEF FindLibrary
  <2>2. t.budget > 0
    BY <1>2, <1>5 DEF FindLibrary
  <2>3. FrameOK(f)
    BY <1>3, <2>1, <2>2 DEF FrameOK, Fields
  <2>4. QED
    BY <1>1, <2>1, <2>3, ReplaceFacts, ContinuePreserves
<1>6. CASE FindTrie
  <2>1. PICK f, span : /\ f = [t EXCEPT !.found = span,
                                   !.stage = IF span.kind = "trie" THEN "trie" ELSE "looked"]
                       /\ Continue(Replaced(f))
    BY <1>2, <1>6 DEF FindTrie
  <2>2. t.stage = "span"
    BY <1>2, <1>6 DEF FindTrie, At
  <2>3. FrameOK(f)
    BY <1>3, <2>1, <2>2 DEF FrameOK, Fields
  <2>4. QED
    BY <1>1, <2>1, <2>3, ReplaceFacts, ContinuePreserves
<1>7. CASE LookInTrie
  <2>1. PICK f : /\ f = [t EXCEPT !.stage = "looked", !.found = TrieResolution(t)]
                 /\ Continue(Replaced(f))
    BY <1>2, <1>7 DEF LookInTrie
  <2>2. t.stage = "trie"
    BY <1>2, <1>7 DEF LookInTrie, At
  <2>3. FrameOK(f)
    BY <1>3, <2>1, <2>2 DEF FrameOK, Fields
  <2>4. QED
    BY <1>1, <2>1, <2>3, ReplaceFacts, ContinuePreserves
<1>8. CASE FollowReexport
  <2>1. PICK f : /\ f = Frame(t.found.path, t.found.symbol, t.budget - 1)
                 /\ Continue(Replaced(f))
    BY <1>2, <1>8 DEF FollowReexport
  <2>2. t.stage = "looked"
    BY <1>2, <1>8 DEF FollowReexport, At
  <2>3. t.budget - 1 \in 0..MAX_REEXPORT_RESOLUTION_DEPTH
    BY <1>3, <1>4, <2>2
  <2>4. FrameOK(f)
    BY <2>1, <2>3, NewFrame
  <2>5. QED
    BY <1>1, <2>1, <2>4, ReplaceFacts, ContinuePreserves
<1>9. CASE CollectReexports
  <2>1. PICK f : /\ f = [t EXCEPT !.stage = "umbrella", !.todo = ReexportedDylibPaths(t.image)]
                 /\ Continue(Replaced(f))
    BY <1>2, <1>9 DEF CollectReexports
  <2>2. t.stage = "looked"
    BY <1>2, <1>9 DEF CollectReexports, At
  <2>3. FrameOK(f)
    BY <1>3, <2>1, <2>2 DEF FrameOK, Fields
  <2>4. QED
    BY <1>1, <2>1, <2>3, ReplaceFacts, ContinuePreserves
<1>10. CASE UmbrellaNext
  <2>1. PICK f, g : /\ f = [t EXCEPT !.todo = Tail(@)]
                    /\ g = Frame(Head(t.todo), t.symbol, t.budget - 1)
                    /\ Continue(Append(Replaced(f), g))
    BY <1>2, <1>10 DEF UmbrellaNext
  <2>2. t.stage = "umbrella"
    BY <1>2, <1>10 DEF UmbrellaNext, At
  <2>3. FrameOK(f)
    BY <1>3, <2>1, <2>2 DEF FrameOK, Fields
  <2>4. t.budget - 1 \in 0..MAX_REEXPORT_RESOLUTION_DEPTH
    BY <1>3, <1>4, <2>2
  <2>5. FrameOK(g)
    BY <2>1, <2>4, NewFrame
  <2>6. Calls(Replaced(f))
    BY <1>1, <2>3, ReplaceFacts
  <2>7. Calls(Append(Replaced(f), g))
    BY <2>5, <2>6, PushFacts DEF Calls
  <2>8. QED
    BY <1>1, <2>1, <2>7, ContinuePreserves
<1>11. QED
  BY <1>5, <1>6, <1>7, <1>8, <1>9, <1>10

(* Every step of from_existing and of a lookup keeps the invariant.        *)
LEMMA NextIInv == IInv /\ [Next]_vars => IInv'
<1> SUFFICES ASSUME IInv, [Next]_vars PROVE IInv'
  OBVIOUS
<1>1. CASE Attach
  BY <1>1, AttachPreserves
<1>2. CASE AttachFails
  BY <1>2, FailPreserves DEF AttachFails
<1>3. CASE Attached
  BY <1>3, AttachedPreserves
<1>4. CASE IndexImage
  BY <1>4, IndexImagePreserves
<1>5. CASE SkipImage
  BY <1>5, SkipImagePreserves
<1>6. CASE IndexFails \/ IndexPanics
  BY <1>6, FailPreserves DEF IndexFails, IndexPanics, AtImage, AtEntry
<1>7. CASE Indexed
  BY <1>7, IndexedPreserves
<1>8. CASE SymbolResolve
  BY <1>8, SymbolResolvePreserves
<1>9. CASE OutOfBudget \/ NotCached \/ UmbrellaDone
  BY <1>9, ReturnNonePreserves DEF OutOfBudget, NotCached, UmbrellaDone, At
<1>10. CASE Found
  BY <1>10, LeavePreserves DEF Found, At
<1>11. CASE CollectFails
  BY <1>11, LeavePreserves DEF CollectFails, At, Error
<1>12. CASE FindLibrary \/ FindTrie \/ LookInTrie \/ FollowReexport
              \/ CollectReexports \/ UmbrellaNext
  BY <1>12, CallPreserves
<1>13. CASE Ended \/ UNCHANGED vars
  <2>1. UNCHANGED <<cache, phase, subs, next, libraries, frames, result>>
    BY <1>13 DEF Ended, vars
  <2>2. Typed' /\ FramesOK'
    BY <2>1 DEF IInv, Typed, FramesOK, FrameOK
  <2>3. AttachedOK' /\ PlacesOK'
    BY <2>1, SameCache, SameViews DEF IInv, AttachedOK, PlacesOK
  <2>4. IndexedOK'
    <3>1. PICK m, n : m = Images /\ n = next - 1
      OBVIOUS
    <3>2. Images' = m /\ next' - 1 = n /\ Matches(m)' = Matches(m) /\ Matches(n)' = Matches(n)
      BY <2>1, <3>1, SameCache, SameMatches
    <3>3. QED
      BY <2>1, <3>1, <3>2 DEF IInv, IndexedOK
  <2>5. QED
    BY <2>2, <2>3, <2>4 DEF IInv
<1>14. QED
  BY <1>1, <1>2, <1>3, <1>4, <1>5, <1>6, <1>7, <1>8, <1>9, <1>10, <1>11, <1>12, <1>13 DEF Next

(* What DyldSharedCache holds at every step of from_existing and of        *)
(* symbol_resolve, for every cache.                                        *)
THEOREM CacheInvariant == Spec => []IInv
  BY InitIInv, NextIInv, PTL DEF Spec

(* TypeOK: the depth budget of symbol_resolve_with_max_depth, an unsigned  *)
(* number, never goes below 0, and a lookup is under way exactly while it  *)
(* has a frame.                                                            *)
THEOREM CacheTypes == Spec => []TypeOK
<1>1. IInv => TypeOK
  <2> SUFFICES ASSUME IInv PROVE TypeOK
    OBVIOUS
  <2>1. /\ IsSeq(libraries) /\ IsSeq(frames) /\ Len(frames) \in Nat
        /\ DOMAIN libraries = 1..Len(libraries) /\ DOMAIN frames = 1..Len(frames)
    BY IsSeqFacts DEF IInv, Typed
  <2>2. Len(subs) <= Len(cache.subs) /\ Len(libraries) <= Len(cache.images)
    BY DEF IInv, AttachedOK, IndexedOK, Total, Images
  <2>3. \A i \in DOMAIN libraries :
           libraries[i].sub \in 0..(U8 - 1) /\ libraries[i].offset \in Nat
    BY <2>1 DEF IInv, PlacesOK, PlaceOK
  <2>4. \A i \in DOMAIN frames : frames[i].budget \in 0..MAX_REEXPORT_RESOLUTION_DEPTH
    BY <2>1 DEF IInv, FramesOK, FrameOK
  <2>5. frames # << >> <=> Len(frames) > 0
    <3>1. ASSUME Len(frames) = 0 PROVE frames = << >>
      <4>1. frames = [k \in 1..0 |-> frames[k]]
        BY <2>1, <3>1 DEF IsSeq
      <4>2. QED
        BY <4>1
    <3>2. QED
      BY <2>1, <3>1, EmptyIsSeq
  <2>6. phase = "resolve" <=> frames # << >>
    BY <2>5 DEF IInv, FramesOK
  <2>7. QED
    BY <2>2, <2>3, <2>4, <2>6 DEF IInv, Typed, TypeOK
<1>2. QED
  BY <1>1, CacheInvariant, PTL

(* LibrariesInPlace: sub_cache_index and mach_header_runtime_offset lead   *)
(* back to the image's header, for any layout of at most 256 sub-caches,   *)
(* any holes between mappings and any slide.                               *)
THEOREM HeadersAreFound == Spec => []LibrariesInPlace
<1>1. IInv => LibrariesInPlace
  <2> SUFFICES ASSUME IInv, NEW i \in DOMAIN libraries, NEW l, l = libraries[i]
               PROVE  /\ l.sub + 1 \in DOMAIN subs /\ l.offset < Container(l.sub).length
                      /\ UnslidAt(Container(l.sub), l.offset) = l.load_address
    BY DEF LibrariesInPlace
  <2>1. i \in 1..Len(libraries) /\ Len(libraries) \in Nat /\ DOMAIN subs = 1..Len(subs)
    BY IsSeqFacts DEF IInv, Typed
  <2>2. PlaceOK(l)
    BY <2>1 DEF IInv, PlacesOK
  <2>3. Len(subs) = Total
    BY <2>1 DEF IInv, AttachedOK
  <2>4. QED
    BY <2>1, <2>2, <2>3 DEF PlaceOK
<1>2. QED
  BY <1>1, CacheInvariant, PTL

(* IndexedExactly: main_cache_libraries_index_all indexes every image that *)
(* a mapping covers, in order and under its own name, and no other, for    *)
(* image tables of any length with images to pass over anywhere.           *)
THEOREM IndexIsExact == Spec => []IndexedExactly
<1>1. IInv => IndexedExactly
  <2> SUFFICES ASSUME IInv, phase \in {"ready", "resolve", "answered"}
               PROVE  /\ Len(libraries) = Len(MappedImages)
                      /\ \A i \in DOMAIN libraries :
                            /\ libraries[i].path = MappedImages[i].name
                            /\ libraries[i].load_address = MappedImages[i].address
    BY DEF IndexedExactly
  <2>1. Matches(Images) /\ MappedImages = MappedUpTo(Images)
    BY UpToFacts DEF IInv, Typed, IndexedOK
  <2>2. DOMAIN libraries = 1..Len(libraries)
    BY IsSeqFacts DEF IInv, Typed
  <2>3. QED
    BY <2>1, <2>2 DEF Matches
<1>2. QED
  BY <1>1, CacheInvariant, PTL

-----------------------------------------------------------------------------
(* The lookup.  The inductive invariant says of every call that it is      *)
(* where the re-exports lead, and of what has been left behind that it     *)
(* holds no definition.                                                    *)

Key(f) == <<f.path, f.symbol>>
LastLevel == MAX_REEXPORT_RESOLUTION_DEPTH - 1
Defines(q) == ExportOf(q[1], q[2]).kind = "defined"

(* The library of a call is the image of its name.                         *)
Known(f) ==
    /\ ImageNamed(f.path) # 0
    /\ f.load_address = MappedImages[ImageNamed(f.path)].address
    /\ f.image = CommandsOf(f.path)

Reexports(cmds) == {c \in ToSet(cmds) : c.cmd = "LC_REEXPORT_DYLIB"}

(* What is left is to search the libraries that this one re-exports.       *)
Umbrella(f) ==
    /\ ~Defines(Key(f))
    /\ Successors(f.path, f.symbol) = {<<c.path, f.symbol>> : c \in Reexports(f.image)}

(* What the exports trie can tell.                                         *)
Outcome(f, r) ==
    \/ r.kind = "error" /\ ~WellFormed
    \/ /\ r.kind = "address" /\ Defines(Key(f))
       /\ AtLikelyBase => r.address = RuntimeAddress(Key(f))
    \/ /\ r.kind = "follow" /\ ~Defines(Key(f))
       /\ Successors(f.path, f.symbol) = {<<r.path, r.symbol>>}
    \/ r.kind = "none" /\ Umbrella(f)

(* A call is where the re-exports lead, as far as the budget spent.        *)
LookOK(f) ==
    /\ f.budget > 0 => Key(f) \in ReachedFrom({query})[MAX_REEXPORT_RESOLUTION_DEPTH - f.budget]
    /\ Key(f) = query \/ ~Defines(query)
    /\ f.stage # "entered" => Known(f)
    /\ f.stage = "trie" => f.found = TrieSpan(f.image) /\ f.found.kind = "trie"
    /\ f.stage = "looked" => Outcome(f, f.found)
    /\ f.stage = "umbrella" =>
        /\ Umbrella(f) /\ IsSeq(f.todo)
        /\ \A k \in 1..Len(f.todo) : <<f.todo[k], f.symbol>> \in Successors(f.path, f.symbol)

(* No definition is within the budget b of q.                              *)
Clear(q, b) == b > 0 => \A d \in ReachedFrom({q})[b - 1] : ~Defines(d)

(* The libraries re-exported by that of a call are searched or to do.      *)
Searched(f) ==
    \A s \in Successors(f.path, f.symbol) :
        \/ \E k \in 1..Len(f.todo) : s = <<f.todo[k], f.symbol>>
        \/ Clear(s, f.budget - 1)

(* A call that finds nothing leaves its caller with nothing.               *)
SearchOK(fs) ==
    /\ \A i \in 1..Len(fs) :
        /\ fs[i].stage = "umbrella"
        /\ i = Len(fs) \/ Clear(Key(fs[i + 1]), fs[i + 1].budget)
        => Searched(fs[i])
    /\ \A i \in 1..(Len(fs) - 1) : fs[i].stage = "umbrella"
    /\ Len(fs) > 0 /\ Clear(Key(fs[1]), fs[1].budget)
         => Clear(query, MAX_REEXPORT_RESOLUTION_DEPTH)

AnswerOK ==
    /\ phase # "answered" => result = None
    /\ phase \in {"resolve", "answered"} => query = <<query[1], query[2]>>
    /\ AtLikelyBase => AnswersAsLinked
    /\ phase = "answered" /\ WellFormed =>
        /\ result.kind # "error"
        /\ result.kind = "none" => Clear(query, MAX_REEXPORT_RESOLUTION_DEPTH)

LInv ==
    /\ \A i \in 1..Len(frames) : LookOK(frames[i])
    /\ WellFormed => SearchOK(frames)
    /\ AnswerOK

-----------------------------------------------------------------------------
(* What is reached through re-exports.                                     *)

Levels(g, N, S) ==
    g = [n \in 0..N |-> IF n = 0 THEN S ELSE g[n - 1] \cup AllSuccessors(g[n - 1])]

(* Levels spelled out.                                                     *)
LEMMA LevelsFacts ==
    ASSUME NEW N \in Nat, NEW S, NEW g
    PROVE  Levels(g, N, S) <=>
             /\ g = [n \in 0..N |-> g[n]]
             /\ g[0] = S
             /\ \A n \in 1..N : g[n] = g[n - 1] \cup AllSuccessors(g[n - 1])
<1> DEFINE row(n) == IF n = 0 THEN S ELSE g[n - 1] \cup AllSuccessors(g[n - 1])
<1>1. Levels(g, N, S) <=> g = [n \in 0..N |-> row(n)]
  BY DEF Levels
<1> HIDE DEF row
<1>2. g = [n \in 0..N |-> row(n)] <=> g = [n \in 0..N |-> g[n]] /\ \A n \in 0..N : g[n] = row(n)
  OBVIOUS
<1>3. (\A n \in 0..N : g[n] = row(n)) <=> row(0) = g[0] /\ \A n \in 1..N : g[n] = row(n)
  OBVIOUS
<1>4. QED
  BY <1>1, <1>2, <1>3 DEF row

(* The recursion of ReachedFrom is well defined.                           *)
LEMMA LevelsExist ==
    ASSUME NEW N \in Nat, NEW S
    PROVE  \E g : Levels(g, N, S)
<1> DEFINE T == {m \in Nat : \E g : Levels(g, m, S)}
<1>1. 0 \in T
  <2> DEFINE g == [n \in 0..0 |-> S]
  <2>1. g = [n \in 0..0 |-> g[n]] /\ g[0] = S /\ 0 \in Nat /\ \A n \in 1..0 : FALSE
    OBVIOUS
  <2> HIDE DEF g
  <2>3. Levels(g, 0, S)
    BY <2>1, LevelsFacts
  <2>4. QED
    BY <2>3
<1>2. ASSUME NEW m \in Nat, m \in T
      PROVE  m + 1 \in T
  <2>1. PICK g : Levels(g, m, S)
    BY <1>2
  <2> DEFINE last == g[m] \cup AllSuccessors(g[m])
             h == [n \in 0..(m + 1) |-> IF n = m + 1 THEN last ELSE g[n]]
  <2>2. g[0] = S /\ \A n \in 1..m : g[n] = g[n - 1] \cup AllSuccessors(g[n - 1])
    BY <2>1, LevelsFacts
  <2>3. \A n \in 0..m : h[n] = g[n]
    OBVIOUS
  <2>4. h[m + 1] = last /\ h = [n \in 0..(m + 1) |-> h[n]]
    OBVIOUS
  <2> HIDE DEF h
  <2>5. ASSUME NEW n \in 1..(m + 1)
        PROVE  h[n] = h[n - 1] \cup AllSuccessors(h[n - 1])
    <3>1. CASE n = m + 1
      <4>1. n - 1 = m /\ h[m] = g[m]
        BY <2>3, <3>1
      <4>2. QED
        BY <2>4, <3>1, <4>1
    <3>2. CASE n # m + 1
      <4>1. n \in 1..m /\ n \in 0..m /\ n - 1 \in 0..m
        BY <3>2
      <4>2. h[n] = g[n] /\ h[n - 1] = g[n - 1]
        BY <2>3, <4>1
      <4>3. QED
        BY <2>2, <4>1, <4>2
    <3>3. QED
      BY <3>1, <3>2
  <2>6. h[0] = S
    BY <2>2, <2>3
  <2> HIDE DEF last
  <2>7. Levels(h, m + 1, S)
    <3>1. m + 1 \in Nat
      OBVIOUS
    <3>2. QED
      BY <2>4, <2>5, <2>6, <3>1, LevelsFacts
  <2>8. QED
    BY <2>7
<1>3. N \in T
  <2> HIDE DEF T
  <2>1. QED
    BY <1>1, <1>2, NatInd
<1>4. QED
  BY <1>3

(* One level after the other.                                              *)
LEMMA ReachFacts ==
    ASSUME NEW S
    PROVE  /\ ReachedFrom(S)[0] = S
           /\ \A n \in 1..LastLevel :
                 ReachedFrom(S)[n] = ReachedFrom(S)[n - 1] \cup AllSuccessors(ReachedFrom(S)[n - 1])
<1> DEFINE r == CHOOSE g : Levels(g, LastLevel, S)
<1>1. LastLevel \in Nat
  BY BudgetAssumption DEF LastLevel
<1>2. Levels(r, LastLevel, S)
  BY <1>1, LevelsExist
<1>3. ReachedFrom(S) = r
  BY DEF ReachedFrom, Levels, LastLevel
<1> HIDE DEF r
<1>4. QED
  BY <1>1, <1>2, <1>3, LevelsFacts

(* A re-export leads one level on.                                         *)
LEMMA ReachStep ==
    ASSUME NEW S, NEW n \in 1..LastLevel, NEW q, q \in ReachedFrom(S)[n - 1],
           NEW s \in Successors(q[1], q[2])
    PROVE  s \in ReachedFrom(S)[n]
<1>1. s \in AllSuccessors(ReachedFrom(S)[n - 1])
  BY DEF AllSuccessors
<1>2. QED
  BY <1>1, ReachFacts

(* What is reached is reached with a larger budget too.                    *)
LEMMA ReachMonotone ==
    ASSUME NEW S, NEW m \in 0..LastLevel, NEW n \in m..LastLevel
    PROVE  ReachedFrom(S)[m] \subseteq ReachedFrom(S)[n]
<1> DEFINE T == {k \in Nat : m + k <= LastLevel => ReachedFrom(S)[m] \subseteq ReachedFrom(S)[m + k]}
<1>1. LastLevel \in Nat
  BY BudgetAssumption DEF LastLevel
<1>2. 0 \in T
  OBVIOUS
<1>3. ASSUME NEW k \in Nat, k \in T
      PROVE  k + 1 \in T
  <2> SUFFICES ASSUME m + (k + 1) <= LastLevel
               PROVE  ReachedFrom(S)[m] \subseteq ReachedFrom(S)[m + (k + 1)]
    OBVIOUS
  <2>1. m + k <= LastLevel /\ m + (k + 1) \in 1..LastLevel /\ m + (k + 1) - 1 = m + k
    BY <1>1
  <2>2. ReachedFrom(S)[m] \subseteq ReachedFrom(S)[m + k]
    BY <1>3, <2>1
  <2>3. ReachedFrom(S)[m + k] \subseteq ReachedFrom(S)[m + (k + 1)]
    BY <2>1, ReachFacts
  <2>4. QED
    BY <2>2, <2>3
<1>4. Nat \subseteq T
  <2> HIDE DEF T
  <2>1. QED
    BY <1>2, <1>3, NatInd
<1>5. n - m \in T /\ m + (n - m) = n
  BY <1>1, <1>4
<1>6. QED
  BY <1>1, <1>5

(* What is reached from q is q or is reached from one of its successors.   *)
LEMMA ReachFirst ==
    ASSUME NEW q, NEW n \in 1..LastLevel, NEW x \in ReachedFrom({q})[n]
    PROVE  x = q \/ \E s \in Successors(q[1], q[2]) : x \in ReachedFrom({s})[n - 1]
<1> DEFINE Via(y, k) == y = q \/ \E s \in Successors(q[1], q[2]) : y \in ReachedFrom({s})[k]
           T == {k \in Nat : k + 1 <= LastLevel =>
                    \A y \in ReachedFrom({q})[k + 1] : Via(y, k)}
<1>1. LastLevel \in Nat
  BY BudgetAssumption DEF LastLevel
<1>2. ASSUME NEW k \in 0..LastLevel, NEW y \in Successors(q[1], q[2])
      PROVE  Via(y, k)
  <2>1. y \in ReachedFrom({y})[0]
    BY ReachFacts
  <2>2. 0 \in 0..LastLevel /\ k \in 0..LastLevel
    BY <1>1
  <2>3. y \in ReachedFrom({y})[k]
    BY <2>1, <2>2, ReachMonotone
  <2>4. QED
    BY <2>3
<1>3. 0 \in T
  <2> SUFFICES ASSUME 0 + 1 <= LastLevel, NEW y \in ReachedFrom({q})[0 + 1]
               PROVE  Via(y, 0)
    OBVIOUS
  <2>1. 0 + 1 = 1 /\ 1 \in 1..LastLevel /\ 1 - 1 = 0 /\ 0 \in 0..LastLevel
    BY <1>1
  <2>2. ReachedFrom({q})[1] = {q} \cup AllSuccessors({q})
    BY <2>1, ReachFacts
  <2>3. AllSuccessors({q}) = Successors(q[1], q[2])
    BY DEF AllSuccessors
  <2> HIDE DEF Via
  <2>4. CASE y = q
    BY <2>4 DEF Via
  <2>5. CASE y \in Successors(q[1], q[2])
    BY <1>2, <2>1, <2>5
  <2>6. QED
    BY <2>1, <2>2, <2>3, <2>4, <2>5
<1>4. ASSUME NEW k \in Nat, k \in T
      PROVE  k + 1 \in T
  <2> HIDE DEF Via
  <2>0. k + 1 \in Nat
    OBVIOUS
  <2> SUFFICES ASSUME k + 1 + 1 <= LastLevel, NEW y \in ReachedFrom({q})[k + 1 + 1]
               PROVE  Via(y, k + 1)
    BY <2>0, Zenon
  <2>1. /\ k + 1 <= LastLevel /\ k + 1 + 1 \in 1..LastLevel /\ k + 1 + 1 - 1 = k + 1
        /\ k + 1 \in 1..LastLevel /\ k + 1 - 1 = k /\ k + 1 \in 0..LastLevel /\ k \in 0..LastLevel
        /\ k + 1 \in k..LastLevel
    BY <1>1
  <2>2. \A z \in ReachedFrom({q})[k + 1] : Via(z, k)
    BY <1>4, <2>1
  <2>3. y \in ReachedFrom({q})[k + 1] \/ y \in AllSuccessors(ReachedFrom({q})[k + 1])
    BY <2>1, ReachFacts
  <2>4. CASE y \in ReachedFrom({q})[k + 1]
    <3>1. CASE y = q
      BY <3>1 DEF Via
    <3>2. CASE \E s \in Successors(q[1], q[2]) : y \in ReachedFrom({s})[k]
      <4>1. PICK s \in Successors(q[1], q[2]) : y \in ReachedFrom({s})[k]
        BY <3>2
      <4>2. y \in ReachedFrom({s})[k + 1]
        BY <2>1, <4>1, ReachMonotone
      <4>3. QED
        BY <4>2 DEF Via
    <3>3. QED
      BY <2>2, <2>4, <3>1, <3>2 DEF Via
  <2>5. CASE y \in AllSuccessors(ReachedFrom({q})[k + 1])
    <3>1. PICK z \in ReachedFrom({q})[k + 1] : y \in Successors(z[1], z[2])
      BY <2>5 DEF AllSuccessors
    <3>2. CASE z = q
      <4>1. y \in Successors(q[1], q[2])
        BY <3>1, <3>2
      <4>2. QED
        BY <1>2, <2>1, <4>1
    <3>3. CASE \E s \in Successors(q[1], q[2]) : z \in ReachedFrom({s})[k]
      <4>1. PICK s \in Successors(q[1], q[2]) : z \in ReachedFrom({s})[k]
        BY <3>3
      <4>2. y \in ReachedFrom({s})[k + 1]
        BY <2>1, <3>1, <4>1, ReachStep
      <4>3. QED
        BY <4>2 DEF Via
    <3>4. QED
      BY <2>2, <3>1, <3>2, <3>3 DEF Via
  <2>6. QED
    BY <2>3, <2>4, <2>5
<1>5. Nat \subseteq T
  <2> HIDE DEF T
  <2>1. QED
    BY <1>3, <1>4, NatInd
<1>6. n - 1 \in Nat /\ n - 1 + 1 = n /\ n <= LastLevel
  BY <1>1
<1>7. n - 1 \in T
  <2> HIDE DEF T
  <2>1. QED
    BY <1>5, <1>6
<1>8. Via(x, n - 1)
  <2> HIDE DEF Via
  <2>1. QED
    BY <1>6, <1>7
<1>9. QED
  BY <1>8

(* A library that defines nothing and whose successors are clear is clear. *)
LEMMA ClearFacts ==
    ASSUME NEW q, ~Defines(q), NEW b \in 1..MAX_REEXPORT_RESOLUTION_DEPTH,
           \A s \in Successors(q[1], q[2]) : Clear(s, b - 1)
    PROVE  Clear(q, b)
<1>1. MAX_REEXPORT_RESOLUTION_DEPTH \in Nat \ {0} /\ b - 1 \in 0..LastLevel /\ LastLevel \in Nat
  BY BudgetAssumption DEF LastLevel
<1> SUFFICES ASSUME NEW d \in ReachedFrom({q})[b - 1], d # q
             PROVE  ~Defines(d)
  BY DEF Clear
<1>2. b - 1 # 0
  BY ReachFacts
<1>3. b - 1 \in 1..LastLevel
  BY <1>1, <1>2
<1>4. PICK s \in Successors(q[1], q[2]) : d \in ReachedFrom({s})[b - 1 - 1]
  BY <1>3, ReachFirst
<1>5. QED
  BY <1>1, <1>2, <1>4 DEF Clear

-----------------------------------------------------------------------------
(* What a call reads.                                                      *)

(* The image of a name, as the assumption on caches describes it.          *)
LEMMA ImageFacts ==
    ASSUME cache \in Caches, NEW path, ImageNamed(path) # 0,
           NEW a, a = MappedImages[ImageNamed(path)].address
    PROVE  /\ ImageNamed(path) \in 1..Len(MappedImages)
           /\ a \in Nat /\ Mapped(cache, a)
           /\ a \in DOMAIN cache.machos /\ cache.machos[a] \in Seq(Command)
           /\ a \in DOMAIN cache.exports
           /\ \A s \in DOMAIN cache.exports[a] : cache.exports[a][s] \in Terminal
           /\ ExportsItsTrie(cache, a)
<1> DEFINE I == {i \in 1..Len(MappedImages) : MappedImages[i].name = path}
           n == ImageNamed(path)
<1>1. /\ IsCache(cache) /\ cache.images \in Seq(ImageInfo)
      /\ Images \in Nat /\ DOMAIN cache.images = 1..Images
  <2>1. IsCache(cache)
    BY CachesAssumption
  <2>2. QED
    BY <2>1, CacheFacts DEF IsCache
<1>2. n = IF I # {} THEN Min(I) ELSE 0
  BY DEF ImageNamed, SelectInSeq
<1>3. /\ MappedImages \in Seq(ImageInfo)
      /\ \A i \in 1..Len(MappedImages) : MappedImages[i] \in MappedSet
  <2>1. PICK ims : ims = cache.images
    OBVIOUS
  <2>2. PICK T : T = MappedSet
    OBVIOUS
  <2>3. MappedImages = SelectIn(ims, T)
    BY <2>1, <2>2 DEF MappedImages, MappedSet
  <2>4. /\ SelectIn(ims, T) \in Seq(ImageInfo)
        /\ \A i \in 1..Len(SelectIn(ims, T)) : SelectIn(ims, T)[i] \in T
    BY <1>1, <2>1, SelectFacts
  <2>5. QED
    BY <2>2, <2>3, <2>4
<1>4. n \in I
  <2>1. I \subseteq Nat
    BY <1>3
  <2> HIDE DEF I, n
  <2>2. I # {}
    BY <1>2 DEF n
  <2>3. QED
    BY <1>2, <2>1, <2>2, MinFacts
<1>5. n \in 1..Len(MappedImages) /\ MappedImages[n] \in MappedSet
  BY <1>3, <1>4
<1>6. PICK k \in DOMAIN cache.images : MappedImages[n] = cache.images[k]
  BY <1>5 DEF MappedSet, ToSet
<1>7. a = cache.images[k].address /\ Mapped(cache, a)
  BY <1>5, <1>6 DEF MappedSet
<1>8. a \in Nat
  <2>1. cache.images[k] \in ImageInfo
    BY <1>1, <1>6
  <2>2. QED
    BY <1>7, <2>1 DEF ImageInfo
<1>9. /\ a \in DOMAIN cache.machos /\ cache.machos[a] \in Seq(Command)
      /\ a \in DOMAIN cache.exports
      /\ \A s \in DOMAIN cache.exports[a] : cache.exports[a][s] \in Terminal
      /\ ExportsItsTrie(cache, a)
  BY <1>1, <1>6, <1>7 DEF IsCache
<1>10. QED
  BY <1>5, <1>7, <1>8, <1>9

(* The index finds the library of a name exactly when there is an image of *)
(* that name, and then that one.                                           *)
LEMMA LibraryFacts ==
    ASSUME IInv, phase \in {"ready", "resolve"}, NEW path
    PROVE  /\ LibraryFind(path) = ImageNamed(path)
           /\ LibraryFind(path) # 0 =>
                 /\ LibraryFind(path) \in Nat /\ LibraryFind(path) > 0
                 /\ libraries[LibraryFind(path)].load_address =
                       MappedImages[ImageNamed(path)].address
                 /\ ImageView(libraries[LibraryFind(path)]) = CommandsOf(path)
<1> DEFINE I == {i \in 1..Len(MappedImages) : MappedImages[i].name = path}
           L == {i \in 1..Len(libraries) : libraries[i].path = path}
<1>1. cache \in Caches /\ Matches(Images) /\ MappedImages = MappedUpTo(Images)
  BY UpToFacts DEF IInv, Typed, IndexedOK
<1>2. /\ Len(libraries) = Len(MappedImages) /\ Len(libraries) \in Nat
      /\ \A i \in 1..Len(libraries) :
            /\ libraries[i].path = MappedImages[i].name
            /\ libraries[i].load_address = MappedImages[i].address
  BY <1>1, IsSeqFacts DEF Matches, IInv, Typed
<1>3. L = I
  BY <1>2
<1>4. LibraryFind(path) = IF L # {} THEN Min(L) ELSE 0
  BY DEF LibraryFind, SelectInSeq
<1>5. ImageNamed(path) = IF I # {} THEN Min(I) ELSE 0
  BY DEF ImageNamed, SelectInSeq
<1> HIDE DEF L, I
<1>6. LibraryFind(path) = ImageNamed(path)
  BY <1>3, <1>4, <1>5
<1>7. ASSUME LibraryFind(path) # 0
      PROVE  /\ LibraryFind(path) \in Nat /\ LibraryFind(path) > 0
             /\ libraries[LibraryFind(path)].load_address =
                   MappedImages[ImageNamed(path)].address
             /\ ImageView(libraries[LibraryFind(path)]) = CommandsOf(path)
  <2>1. PICK n : n = LibraryFind(path)
    OBVIOUS
  <2>2. n \in 1..Len(libraries) /\ ImageNamed(path) = n
    BY <1>1, <1>2, <1>6, <1>7, <2>1, ImageFacts
  <2>3. libraries[n].load_address = MappedImages[n].address
    BY <1>2, <2>2
  <2>4. PlaceOK(libraries[n])
    BY <2>2 DEF IInv, PlacesOK
  <2>5. ImageView(libraries[n]) = cache.machos[libraries[n].load_address]
    BY <2>4 DEF PlaceOK, ImageView
  <2>6. QED
    BY <1>2, <2>1, <2>2, <2>3, <2>5 DEF CommandsOf
<1>8. QED
  BY <1>6, <1>7

(* load_commands_find: an error, nothing, or the first that is accepted.   *)
LEMMA FindFacts ==
    ASSUME NEW cmds \in Seq(Command), NEW S, S \subseteq DOMAIN cmds,
           NEW r, r = LoadCommandsFind(cmds, S)
    PROVE  \/ r = -1 /\ \E i \in DOMAIN cmds : cmds[i].cmd = "unreadable"
           \/ r = 0 /\ S = {}
           \/ r \in S /\ r \in Nat /\ r > 0 /\ r = Min(S) /\ S # {}
<1> DEFINE bad == {i \in DOMAIN cmds : cmds[i].cmd = "unreadable"}
           hits == S \cup bad
<1>1. r = CASE hits = {} -> 0
            [] hits # {} /\ Min(hits) \in bad -> -1
            [] hits # {} /\ Min(hits) \notin bad -> Min(hits)
  BY DEF LoadCommandsFind
<1>2. hits \subseteq Nat /\ bad \subseteq DOMAIN cmds /\ S \subseteq Nat /\ 0 \notin S
  OBVIOUS
<1>3. bad # {} => \E i \in DOMAIN cmds : cmds[i].cmd = "unreadable"
  OBVIOUS
<1>4. hits = {} => S = {}
  OBVIOUS
<1>5. \A x \in S : x \in hits
  OBVIOUS
<1>6. \A x \in hits : x \notin bad => x \in S
  OBVIOUS
<1> HIDE DEF hits, bad
<1>7. CASE hits = {}
  BY <1>1, <1>4, <1>7
<1>8. CASE hits # {} /\ Min(hits) \in bad
  BY <1>1, <1>3, <1>8
<1>9. CASE hits # {} /\ Min(hits) \notin bad
  <2>1. Min(hits) \in hits /\ \A x \in hits : Min(hits) <= x
    BY <1>2, <1>9, MinFacts
  <2>2. Min(hits) \in S /\ r = Min(hits)
    BY <1>1, <1>6, <1>9, <2>1
  <2>3. Min(S) \in S /\ \A x \in S : Min(S) <= x
    BY <1>2, <2>2, MinFacts
  <2>4. Min(hits) <= Min(S) /\ Min(S) <= Min(hits) /\ Min(S) \in Nat /\ Min(hits) \in Nat
    BY <1>2, <1>5, <2>1, <2>2, <2>3
  <2>5. QED
    BY <1>2, <2>2, <2>4
<1>10. QED
  BY <1>7, <1>8, <1>9

(* Where try_resolve_via_exports_trie takes the trie from.                 *)
LEMMA SpanFacts ==
    ASSUME NEW cmds \in Seq(Command), NEW r, r = TrieSpan(cmds)
    PROVE  \/ r = Error /\ \E i \in DOMAIN cmds : cmds[i].cmd = "unreadable"
           \/ r = None /\ (TrieCommands(cmds) = {} \/ LinkeditCommands(cmds) = {})
           \/ /\ TrieCommands(cmds) # {} /\ LinkeditCommands(cmds) # {}
              /\ r = [kind |-> "trie",
                      vm |-> TrieVm(cmds[Min(TrieCommands(cmds))], cmds[Min(LinkeditCommands(cmds))]),
                      size |-> cmds[Min(TrieCommands(cmds))].datasize]
<1> DEFINE t == ExportsTrieSpanFind(cmds)
           l == LinkeditSegmentFind(cmds)
<1>1. r = CASE t = -1 \/ (t > 0 /\ l = -1) -> Error
            [] t = 0 \/ (t > 0 /\ l = 0) -> None
            [] t > 0 /\ l > 0 -> [kind |-> "trie", vm |-> TrieVm(cmds[t], cmds[l]),
                                  size |-> cmds[t].datasize]
  BY DEF TrieSpan
<1>2. TrieCommands(cmds) \subseteq DOMAIN cmds /\ LinkeditCommands(cmds) \subseteq DOMAIN cmds
  BY DEF TrieCommands, LinkeditCommands
<1>3. \/ t = -1 /\ \E i \in DOMAIN cmds : cmds[i].cmd = "unreadable"
      \/ t = 0 /\ TrieCommands(cmds) = {}
      \/ t \in Nat /\ t > 0 /\ t = Min(TrieCommands(cmds)) /\ TrieCommands(cmds) # {}
  BY <1>2, FindFacts DEF ExportsTrieSpanFind
<1>4. \/ l = -1 /\ \E i \in DOMAIN cmds : cmds[i].cmd = "unreadable"
      \/ l = 0 /\ LinkeditCommands(cmds) = {}
      \/ l \in Nat /\ l > 0 /\ l = Min(LinkeditCommands(cmds)) /\ LinkeditCommands(cmds) # {}
  BY <1>2, FindFacts DEF LinkeditSegmentFind
<1> HIDE DEF t, l
<1>5. CASE t = -1 \/ (t > 0 /\ l = -1)
  <2>1. r = Error
    BY <1>1, <1>5
  <2>2. \E i \in DOMAIN cmds : cmds[i].cmd = "unreadable"
    BY <1>3, <1>4, <1>5
  <2>3. QED
    BY <2>1, <2>2
<1>6. CASE t = 0 \/ (t > 0 /\ l = 0)
  <2>1. r = None
    BY <1>1, <1>3, <1>6
  <2>2. TrieCommands(cmds) = {} \/ LinkeditCommands(cmds) = {}
    BY <1>3, <1>4, <1>6
  <2>3. QED
    BY <2>1, <2>2
<1>7. CASE t \in Nat /\ t > 0 /\ l \in Nat /\ l > 0
  <2>1. r = [kind |-> "trie", vm |-> TrieVm(cmds[t], cmds[l]), size |-> cmds[t].datasize]
    BY <1>1, <1>7
  <2>2. /\ t = Min(TrieCommands(cmds)) /\ TrieCommands(cmds) # {}
        /\ l = Min(LinkeditCommands(cmds)) /\ LinkeditCommands(cmds) # {}
    BY <1>3, <1>4, <1>7
  <2>3. QED
    BY <2>1, <2>2
<1>8. QED
  BY <1>3, <1>4, <1>5, <1>6, <1>7

(* The slice that is read of a container is in one file of the cache.      *)
LEMMA SliceFacts ==
    ASSUME AllAttached, NEW vm, NEW size \in Nat, NEW l, l = Locate(vm)
    PROVE  Located(vm) /\ l.offset + size <= Container(l.sub).length
             <=> InOneFile(cache, vm, size)
<1>1. /\ cache \in Caches /\ IsCache(cache) /\ DOMAIN cache.subs = 1..Total
      /\ cache.slide \in Nat /\ Total \in Nat
  BY CachesAssumption, CacheFacts DEF AllAttached
<1>2. CASE ~Located(vm)
  <2>1. ~Mapped(cache, vm)
    BY <1>2, LocatedIsMapped
  <2>2. QED
    BY <1>2, <2>1 DEF Mapped, InOneFile
<1>3. CASE Located(vm)
  <2>1. PICK n : n = l.sub + 1
    OBVIOUS
  <2>2. /\ vm \in Nat /\ l.sub \in Nat /\ n \in 1..Total /\ l.offset \in Nat
        /\ UnslidAt(Container(l.sub), l.offset) = vm
        /\ \E j \in 1..Len(SubAt(n).mappings) : Covers(MapOf(n, j), vm)
    BY <1>3, <2>1, LocateFacts
  <2>3. Container(l.sub) = subs[n]
    BY <2>1 DEF Container
  <2>4. /\ subs[n].pointer = Start(n) + cache.slide
        /\ subs[n].length = MappedLength(SubAt(n).mappings)
        /\ Start(n) \in Nat /\ Len(SubAt(n).mappings) \in Nat
        /\ DOMAIN SubAt(n).mappings = 1..Len(SubAt(n).mappings)
    BY <1>1, <2>2, ViewFacts, CacheFacts
  <2>5. PICK j \in 1..Len(SubAt(n).mappings) : Covers(MapOf(n, j), vm)
    BY <2>2
  <2>6. MappedLength(SubAt(n).mappings) \in Nat
    BY <1>1, <2>2, <2>5, LengthFacts
  <2>7. vm = Start(n) + l.offset
    BY <1>1, <2>2, <2>3, <2>4 DEF UnslidAt
  <2>8. l.offset + size <= Container(l.sub).length
          <=> vm + size <= Start(n) + MappedLength(SubAt(n).mappings)
    BY <2>2, <2>3, <2>4, <2>6, <2>7
  <2>9. ASSUME NEW i \in 1..Total, NEW k \in DOMAIN cache.subs[i].mappings,
               Covers(cache.subs[i].mappings[k], vm)
        PROVE  i = n
    <3> SUFFICES ASSUME i # n PROVE FALSE
      OBVIOUS
    <3> DEFINE a == cache.subs[i].mappings[k]
               b == cache.subs[n].mappings[j]
    <3>1. /\ \A p, q \in DOMAIN cache.subs :
             \A x \in ToSet(cache.subs[p].mappings), y \in ToSet(cache.subs[q].mappings) :
                p # q => x.address + x.size <= y.address \/ y.address + y.size <= x.address
      BY <1>1 DEF IsCache, FilesLaidOut
    <3>2. a \in ToSet(cache.subs[i].mappings) /\ b \in ToSet(cache.subs[n].mappings)
      BY <2>4, <2>5 DEF ToSet, SubAt
    <3>3. a.address + a.size <= b.address \/ b.address + b.size <= a.address
      BY <1>1, <2>2, <3>1, <3>2
    <3>4. k \in 1..Len(SubAt(i).mappings) /\ a = MapOf(i, k) /\ b = MapOf(n, j)
      BY <1>1, CacheFacts DEF SubAt, MapOf
    <3>5. /\ a.address \in Nat /\ a.size \in Nat /\ b.address \in Nat /\ b.size \in Nat
      BY <1>1, <2>2, <2>5, <3>4, MappingFacts
    <3>6. Covers(a, vm) /\ Covers(b, vm)
      BY <2>5, <2>9, <3>4
    <3> HIDE DEF a, b
    <3>7. /\ a.address <= vm /\ vm < a.address + a.size
          /\ b.address <= vm /\ vm < b.address + b.size
      <4>1. ASSUME NEW m, m.address \in Nat, m.size \in Nat, Covers(m, vm)
            PROVE  m.address <= vm /\ vm < m.address + m.size
        BY <2>2, <4>1 DEF Covers
      <4>2. QED
        BY <3>5, <3>6, <4>1
    <3> DEFINE a1 == a.address
               a2 == a.address + a.size
               b1 == b.address
               b2 == b.address + b.size
    <3>8. a1 \in Nat /\ a2 \in Nat /\ b1 \in Nat /\ b2 \in Nat
      BY <3>5
    <3>9. a1 <= vm /\ vm < a2 /\ b1 <= vm /\ vm < b2 /\ (a2 <= b1 \/ b2 <= a1)
      BY <3>3, <3>7
    <3> HIDE DEF a1, a2, b1, b2
    <3>10. QED
      BY <2>2, <3>8, <3>9
  <2>10. InOneFile(cache, vm, size) <=> vm + size <= Start(n) + MappedLength(SubAt(n).mappings)
    <3>1. n \in DOMAIN cache.subs /\ j \in DOMAIN cache.subs[n].mappings
          /\ Covers(cache.subs[n].mappings[j], vm)
      BY <1>1, <2>2, <2>4, <2>5 DEF SubAt, MapOf
    <3>2. InOneFile(cache, vm, size) <=> \E i \in 1..Total :
            /\ \E k \in DOMAIN cache.subs[i].mappings : Covers(cache.subs[i].mappings[k], vm)
            /\ vm + size <= Start(i) + MappedLength(SubAt(i).mappings)
      BY <1>1 DEF InOneFile, Start, SubAt
    <3>3. QED
      BY <2>2, <2>9, <3>1, <3>2
  <2>11. QED
    BY <1>3, <2>8, <2>10
<1>4. QED
  BY <1>2, <1>3

(* The terminal that a lookup finds is the image's export.                 *)
LEMMA TerminalFacts ==
    ASSUME AllAttached, NEW f, Known(f), NEW r, r = TrieSpan(f.image)
    PROVE  /\ r.kind = "trie" => TerminalIn(r, f.symbol) = ExportOf(f.path, f.symbol)
           /\ r = None => ExportOf(f.path, f.symbol) = None
           /\ r.kind \in {"trie", "none", "error"}
           /\ r.kind = "error" => r = Error /\ ~WellFormed
           /\ r.kind = "none" => r = None
           /\ ExportOf(f.path, f.symbol) \in Terminal
<1> DEFINE a == MappedImages[ImageNamed(f.path)].address
           cmds == f.image
           ts == TrieCommands(cmds)
           ls == LinkeditCommands(cmds)
           vm == TrieVm(cmds[Min(ts)], cmds[Min(ls)])
           size == cmds[Min(ts)].datasize
<1>1. cache \in Caches /\ ImageNamed(f.path) # 0 /\ cmds = cache.machos[a]
  BY DEF AllAttached, Known, CommandsOf
<1>2. /\ a \in DOMAIN cache.machos /\ cmds \in Seq(Command)
      /\ \A s \in DOMAIN cache.exports[a] : cache.exports[a][s] \in Terminal
      /\ ExportsItsTrie(cache, a)
  BY <1>1, ImageFacts
<1>3. ExportOf(f.path, f.symbol) = TerminalOf(cache.exports[a], f.symbol)
  BY <1>1 DEF ExportOf
<1>4. IF ts # {} /\ ls # {} /\ InOneFile(cache, vm, size) THEN cache.exports[a] = cache.tries[vm]
      ELSE \A s \in DOMAIN cache.exports[a] : cache.exports[a][s] = None
  BY <1>1, <1>2 DEF ExportsItsTrie
<1>5. \/ r = Error /\ \E i \in DOMAIN cmds : cmds[i].cmd = "unreadable"
      \/ r = None /\ (ts = {} \/ ls = {})
      \/ ts # {} /\ ls # {} /\ r = [kind |-> "trie", vm |-> vm, size |-> size]
  BY <1>2, SpanFacts
<1>6. ts # {} => size \in Nat
  <2> SUFFICES ASSUME ts # {} PROVE size \in Nat
    OBVIOUS
  <2>1. ts \subseteq Nat
    BY <1>2 DEF TrieCommands
  <2>2. Min(ts) \in ts
    BY <2>1, MinFacts
  <2>3. PICK k \in DOMAIN cmds : k = Min(ts) /\ cmds[k].cmd \in {"LC_DYLD_EXPORTS_TRIE", "LC_DYLD_INFO_ONLY"}
    BY <2>2 DEF TrieCommands
  <2>4. cmds[k] \in Command
    BY <1>2, <2>3
  <2>5. cmds[k].datasize \in Nat
    BY <2>3, <2>4 DEF Command, DylibCommands
  <2>6. QED
    BY <2>3, <2>5
<1>7. ExportOf(f.path, f.symbol) \in Terminal
  BY <1>2, <1>3 DEF TerminalOf, Terminal
<1> HIDE DEF ts, ls, vm, size, a
<1>8. r = None => ExportOf(f.path, f.symbol) = None
  BY <1>3, <1>4, <1>5 DEF TerminalOf, None, Error
<1>9. ASSUME r.kind = "trie" PROVE TerminalIn(r, f.symbol) = ExportOf(f.path, f.symbol)
  <2>1. ts # {} /\ ls # {} /\ r.vm = vm /\ r.size = size /\ size \in Nat
    BY <1>5, <1>6, <1>9 DEF None, Error
  <2>2. PICK at : at = Locate(vm)
    OBVIOUS
  <2>3. TerminalIn(r, f.symbol) =
          IF Located(vm) /\ at.offset + size <= Container(at.sub).length
          THEN TerminalOf(cache.tries[UnslidAt(Container(at.sub), at.offset)], f.symbol)
          ELSE None
    BY <2>1, <2>2 DEF TerminalIn
  <2>4. Located(vm) /\ at.offset + size <= Container(at.sub).length <=> InOneFile(cache, vm, size)
    BY <2>1, <2>2, SliceFacts
  <2>5. Located(vm) => UnslidAt(Container(at.sub), at.offset) = vm
    BY <2>2, LocateFacts
  <2>6. CASE InOneFile(cache, vm, size)
    BY <1>3, <1>4, <2>1, <2>3, <2>4, <2>5, <2>6
  <2>7. CASE ~InOneFile(cache, vm, size)
    <3>1. TerminalIn(r, f.symbol) = None
      BY <2>3, <2>4, <2>7
    <3>2. QED
      BY <1>3, <1>4, <2>7, <3>1 DEF TerminalOf
  <2>8. QED
    BY <2>6, <2>7
<1>10. r.kind \in {"trie", "none", "error"} /\ (r.kind = "none" => r = None)
  BY <1>5 DEF None, Error
<1>11. ASSUME r.kind = "error" PROVE r = Error /\ ~WellFormed
  <2>1. r = Error /\ \E i \in DOMAIN cmds : cmds[i].cmd = "unreadable"
    BY <1>5, <1>11 DEF None
  <2>2. QED
    BY <1>1, <1>2, <2>1 DEF WellFormed
<1>12. QED
  BY <1>7, <1>8, <1>9, <1>10, <1>11

Dependencies(cmds) == {c \in ToSet(cmds) : c.cmd \in DylibCommands}

Libs(cmds, k) == {j \in 1..k : cmds[j].cmd \in DylibCommands}
Counted(cmds, k) == {j \in 1..k : IsDylibDependencyCommand(cmds[j])}

(* Both counts go up, and a command that is counted is a library's.        *)
LEMMA CountsFacts ==
    ASSUME NEW cmds, NEW k \in Nat
    PROVE  /\ IsFiniteSet(Libs(cmds, k)) /\ IsFiniteSet(Counted(cmds, k))
           /\ OrdinalOf(cmds, k) = Cardinality(Libs(cmds, k)) /\ OrdinalOf(cmds, k) \in Nat
           /\ Seen(cmds, k) = Cardinality(Counted(cmds, k)) /\ Seen(cmds, k) \in Nat
           /\ Counted(cmds, k) \subseteq Libs(cmds, k)
           /\ \A j \in 1..k : OrdinalOf(cmds, j) <= OrdinalOf(cmds, k)
<1>1. IsFiniteSet(1..k)
  BY FS_Interval
<1>2. Libs(cmds, k) \subseteq 1..k /\ Counted(cmds, k) \subseteq 1..k
  BY DEF Libs, Counted
<1>3. IsFiniteSet(Libs(cmds, k)) /\ IsFiniteSet(Counted(cmds, k))
  BY <1>1, <1>2, FS_Subset
<1>4. \A j \in 1..k : Libs(cmds, j) \subseteq Libs(cmds, k)
  BY DEF Libs
<1>5. \A j \in 1..k : Cardinality(Libs(cmds, j)) <= Cardinality(Libs(cmds, k))
  BY <1>3, <1>4, FS_Subset
<1>6. Counted(cmds, k) \subseteq Libs(cmds, k)
  BY DEF Counted, Libs, IsDylibDependencyCommand, DylibCommands
<1>7. QED
  BY <1>3, <1>5, <1>6, FS_CardinalityType DEF OrdinalOf, Seen, Libs, Counted

(* Up to an ordinal that is counted right, counting the libraries of the   *)
(* code comes to the same commands as counting all libraries.              *)
LEMMA CountedAlike ==
    ASSUME NEW cmds, DOMAIN cmds = 1..Len(cmds), Len(cmds) \in Nat,
           NEW n \in Nat, CountedUpTo(cmds, n), NEW k \in DOMAIN cmds
    PROVE  /\ OrdinalOf(cmds, k) = n => Seen(cmds, k) = n
           /\ IsDylibDependencyCommand(cmds[k]) /\ Seen(cmds, k) = n => OrdinalOf(cmds, k) = n
<1> DEFINE Missed == {j \in 1..k : cmds[j].cmd \in DylibCommands /\ ~IsDylibDependencyCommand(cmds[j])}
<1>1. k \in Nat /\ \A j \in 1..k : j \in Nat /\ j \in DOMAIN cmds
  OBVIOUS
<1>2. \A j \in Missed : OrdinalOf(cmds, j) > n
  <2> SUFFICES ASSUME NEW j \in Missed PROVE OrdinalOf(cmds, j) > n
    OBVIOUS
  <2>1. OrdinalOf(cmds, j) \in Nat
    BY <1>1, CountsFacts
  <2>2. ~(OrdinalOf(cmds, j) <= n)
    BY <1>1, Zenon DEF CountedUpTo
  <2>3. QED
    BY <2>1, <2>2
<1>3. CASE Missed = {}
  <2>1. Libs(cmds, k) = Counted(cmds, k)
    BY <1>1, <1>3, CountsFacts DEF Libs, Counted
  <2>2. QED
    BY <1>1, <2>1, CountsFacts
<1>4. CASE Missed # {}
  <2> DEFINE m == Min(Missed)
  <2>1. m \in Missed /\ \A j \in Missed : m <= j
    <3>1. Missed \subseteq Nat
      BY <1>1
    <3> HIDE DEF Missed
    <3>2. QED
      BY <1>4, <3>1, MinFacts
  <2>2. m \in 1..k /\ ~IsDylibDependencyCommand(cmds[m]) /\ OrdinalOf(cmds, m) > n
    BY <1>2, <2>1
  <2> HIDE DEF m
  <2>3. OrdinalOf(cmds, k) # n
    <3>1. OrdinalOf(cmds, m) <= OrdinalOf(cmds, k) /\ OrdinalOf(cmds, k) \in Nat
          /\ OrdinalOf(cmds, m) \in Nat
      BY <1>1, <2>2, CountsFacts
    <3>2. QED
      BY <2>2, <3>1
  <2>4. ASSUME IsDylibDependencyCommand(cmds[k]) PROVE Seen(cmds, k) > n
    <3>1. m < k
      BY <1>1, <2>2, <2>4
    <3>2. Libs(cmds, m) \subseteq Counted(cmds, m) \cup {m}
      BY <1>1, <2>1, <2>2 DEF Libs, Counted
    <3>3. k \in Counted(cmds, k) /\ k \notin Counted(cmds, m)
          /\ Counted(cmds, m) \cup {k} \subseteq Counted(cmds, k)
      BY <1>1, <2>2, <2>4, <3>1 DEF Counted
    <3>4. m \notin Counted(cmds, m)
      BY <2>2 DEF Counted
    <3>5. IsFiniteSet(Counted(cmds, m)) /\ IsFiniteSet(Counted(cmds, k)) /\ IsFiniteSet(Libs(cmds, m))
      BY <1>1, <2>2, CountsFacts
    <3>6. /\ Cardinality(Counted(cmds, m) \cup {m}) = Cardinality(Counted(cmds, m)) + 1
          /\ Cardinality(Counted(cmds, m) \cup {k}) = Cardinality(Counted(cmds, m)) + 1
          /\ IsFiniteSet(Counted(cmds, m) \cup {m})
      BY <3>3, <3>4, <3>5, FS_AddElement
    <3>7. /\ Cardinality(Libs(cmds, m)) <= Cardinality(Counted(cmds, m) \cup {m})
          /\ Cardinality(Counted(cmds, m) \cup {k}) <= Cardinality(Counted(cmds, k))
      BY <3>2, <3>3, <3>5, <3>6, FS_Subset
    <3>8. OrdinalOf(cmds, m) <= Seen(cmds, k)
      BY <1>1, <2>2, <3>6, <3>7, CountsFacts
    <3>9. Seen(cmds, k) \in Nat /\ OrdinalOf(cmds, m) \in Nat
      BY <1>1, <2>2, CountsFacts
    <3>10. QED
      BY <2>2, <3>8, <3>9
  <2>5. Seen(cmds, k) \in Nat
    BY <1>1, CountsFacts
  <2>6. QED
    BY <2>3, <2>4, <2>5
<1>5. QED
  BY <1>3, <1>4


(* dylib_install_path_for_ordinal counts to the dependency of the ordinal. *)
LEMMA OrdinalFacts ==
    ASSUME NEW cmds \in Seq(Command), NEW ordinal \in Nat, CountedUpTo(cmds, ordinal),
           NEW i, i = DylibForOrdinal(cmds, ordinal),
           NEW deps, deps = SelectIn(cmds, Dependencies(cmds))
    PROVE  \/ i = -1 /\ \E k \in DOMAIN cmds : cmds[k].cmd = "unreadable"
           \/ i = 0 /\ ordinal \notin DOMAIN deps
           \/ /\ i \in Nat /\ i > 0 /\ i \in DOMAIN cmds /\ IsDylibDependencyCommand(cmds[i])
              /\ ordinal \in DOMAIN deps /\ deps[ordinal] = cmds[i]
<1> DEFINE T == Dependencies(cmds)
           S == {k \in DOMAIN cmds : IsDylibDependencyCommand(cmds[k]) /\ Seen(cmds, k) = ordinal}
<1>1. DOMAIN cmds = 1..Len(cmds) /\ Len(cmds) \in Nat
  OBVIOUS
<1>0. \A k \in DOMAIN cmds : (cmds[k] \in T) <=> (cmds[k].cmd \in DylibCommands)
  BY DEF ToSet, Dependencies
<1>2. \A k \in DOMAIN cmds : IsDylibDependencyCommand(cmds[k]) => cmds[k] \in T
  BY <1>0 DEF IsDylibDependencyCommand, DylibCommands
<1>3. deps = SelectIn(cmds, T)
  OBVIOUS
<1> HIDE DEF T
<1>4. \A k \in DOMAIN cmds : OrdinalOf(cmds, k) = CountIn(cmds, T, k)
  <2> SUFFICES ASSUME NEW k \in DOMAIN cmds PROVE OrdinalOf(cmds, k) = CountIn(cmds, T, k)
    OBVIOUS
  <2>1. \A j \in 1..k : j \in DOMAIN cmds
    BY <1>1
  <2>2. {j \in 1..k : cmds[j].cmd \in DylibCommands} = {j \in 1..k : cmds[j] \in T}
    BY <1>0, <2>1
  <2>3. QED
    BY <2>2 DEF OrdinalOf, CountIn
<1>5. /\ \A k \in 1..Len(cmds) : cmds[k] \in T =>
            CountIn(cmds, T, k) \in 1..Len(deps) /\ deps[CountIn(cmds, T, k)] = cmds[k]
      /\ \A m \in 1..Len(deps) : \E k \in 1..Len(cmds) : cmds[k] \in T /\ CountIn(cmds, T, k) = m
  <2>1. /\ \A k \in 1..Len(cmds) : cmds[k] \in T =>
              /\ CountIn(cmds, T, k) \in 1..Len(SelectIn(cmds, T))
              /\ SelectIn(cmds, T)[CountIn(cmds, T, k)] = cmds[k]
        /\ \A m \in 1..Len(SelectIn(cmds, T)) :
              \E k \in 1..Len(cmds) : cmds[k] \in T /\ CountIn(cmds, T, k) = m
    BY SelectPositions, Zenon
  <2>2. QED
    BY <1>3, <2>1, Zenon
<1>6. deps \in Seq(Command)
  BY <1>3, SelectFacts
<1>7. DOMAIN deps = 1..Len(deps)
  BY <1>6
<1>8. i = LoadCommandsFind(cmds, S)
  BY DEF DylibForOrdinal
<1>9. S \subseteq DOMAIN cmds
  OBVIOUS
<1>10. \/ i = -1 /\ \E k \in DOMAIN cmds : cmds[k].cmd = "unreadable"
       \/ i = 0 /\ S = {}
       \/ i \in S /\ i \in Nat /\ i > 0
  <2> HIDE DEF S
  <2>1. QED
    BY <1>8, <1>9, FindFacts
<1>11. S = {} => ordinal \notin DOMAIN deps
  <2> SUFFICES ASSUME ordinal \in DOMAIN deps PROVE S # {}
    OBVIOUS
  <2>1. PICK k \in 1..Len(cmds) : cmds[k] \in T /\ CountIn(cmds, T, k) = ordinal
    BY <1>5, <1>7
  <2>2. OrdinalOf(cmds, k) = ordinal /\ cmds[k].cmd \in DylibCommands
    BY <1>0, <1>1, <1>4, <2>1
  <2>3. Seen(cmds, k) = ordinal
    BY <1>1, <2>2, CountedAlike
  <2>4. IsDylibDependencyCommand(cmds[k])
    BY <1>1, <2>2 DEF CountedUpTo
  <2>5. k \in S
    BY <1>1, <2>3, <2>4
  <2>6. QED
    BY <2>5
<1>12. ASSUME i \in S
       PROVE  /\ i \in DOMAIN cmds /\ IsDylibDependencyCommand(cmds[i])
              /\ ordinal \in DOMAIN deps /\ deps[ordinal] = cmds[i]
  <2>1. i \in DOMAIN cmds /\ IsDylibDependencyCommand(cmds[i]) /\ Seen(cmds, i) = ordinal
    BY <1>12
  <2>2. cmds[i] \in T /\ CountIn(cmds, T, i) = ordinal
    <3>1. OrdinalOf(cmds, i) = ordinal
      BY <1>1, <2>1, CountedAlike
    <3>2. QED
      BY <1>2, <1>4, <2>1, <3>1
  <2>3. QED
    BY <1>1, <1>5, <1>7, <2>1, <2>2
<1> HIDE DEF S
<1>13. QED
  BY <1>10, <1>11, <1>12

(* What try_resolve_via_exports_trie makes of a trie.                      *)
LEMMA ResolutionFacts ==
    ASSUME AllAttached, OrdinalsAgree, NEW f, Known(f), f.found = TrieSpan(f.image),
           f.found.kind = "trie", NEW r, r = TrieResolution(f)
    PROVE  Outcome(f, r)
<1> DEFINE e == ExportOf(f.path, f.symbol)
           a == MappedImages[ImageNamed(f.path)].address
           deps == DependenciesOf(f.path)
<1>1. e = TerminalIn(f.found, f.symbol) /\ e \in Terminal
  BY TerminalFacts
<1>2. /\ cache \in Caches /\ ImageNamed(f.path) # 0 /\ f.load_address = a
      /\ f.image = CommandsOf(f.path) /\ f.image = cache.machos[a]
  BY DEF AllAttached, Known, CommandsOf
<1>3. /\ a \in Nat /\ a \in DOMAIN cache.machos /\ a \in DOMAIN cache.exports
      /\ f.image \in Seq(Command)
  BY <1>2, ImageFacts
<1>4. /\ e.kind = "none" => r = None
      /\ e.kind = "defined" => r = Translate(f.load_address + e.offset)
      /\ e.kind = "reexport" => r = TrieReexport(f.image, e, f.symbol)
  BY <1>1 DEF TrieResolution
<1>5. /\ Defines(Key(f)) <=> e.kind = "defined"
      /\ RuntimeAddress(Key(f)) = a + e.offset + cache.slide
  BY DEF Defines, Key, RuntimeAddress
<1>6. (e.kind = "reexport" /\ e.ordinal \in DOMAIN deps)
        => Successors(f.path, f.symbol) =
              {<<deps[e.ordinal].path, IF e.name = "" THEN f.symbol ELSE e.name>>}
  <2> SUFFICES ASSUME e.kind = "reexport", e.ordinal \in DOMAIN deps
               PROVE  Successors(f.path, f.symbol) =
                        {<<deps[e.ordinal].path, IF e.name = "" THEN f.symbol ELSE e.name>>}
    OBVIOUS
  <2>1. QED
    BY <1>2 DEF Successors
<1>7. e.kind # "defined" /\ ~(e.kind = "reexport" /\ e.ordinal \in DOMAIN deps) => Umbrella(f)
  <2> SUFFICES ASSUME e.kind # "defined", ~(e.kind = "reexport" /\ e.ordinal \in DOMAIN deps)
               PROVE  Umbrella(f)
    OBVIOUS
  <2>1. Successors(f.path, f.symbol) = {<<c.path, f.symbol>> : c \in Reexports(f.image)}
    BY <1>2 DEF Successors, Reexports
  <2>2. QED
    BY <1>5, <2>1 DEF Umbrella
<1>8. deps = SelectIn(f.image, Dependencies(f.image))
  BY <1>2 DEF DependenciesOf, Dependencies
<1> HIDE DEF deps
<1>9. e.kind \in {"none", "defined", "reexport"} /\ (e.kind = "defined" => e.offset \in Nat)
  BY <1>1 DEF Terminal, None
<1>10. CASE e.kind = "none"
  BY <1>4, <1>7, <1>10 DEF Outcome, None
<1>11. CASE e.kind = "defined"
  <2>1. r = IF Located(a + e.offset) THEN Address(a + e.offset + CacheSlide) ELSE Error
    BY <1>2, <1>4, <1>11 DEF Translate
  <2>2. CASE Located(a + e.offset)
    <3>1. AtLikelyBase => CacheSlide = cache.slide
      <4> SUFFICES ASSUME AtLikelyBase PROVE CacheSlide = cache.slide
        OBVIOUS
      <4>1. cache.base = DYLD_LIKELY_UNSLID_VM_ADDR /\ cache.base \in Nat /\ cache.slide \in Nat
        BY <1>2, CacheFacts DEF AtLikelyBase
      <4>2. QED
        BY <4>1 DEF CacheSlide
    <3>2. r.kind = "address" /\ (AtLikelyBase => r.address = RuntimeAddress(Key(f)))
      BY <1>5, <2>1, <2>2, <3>1 DEF Address
    <3>3. QED
      BY <1>5, <1>11, <3>2 DEF Outcome
  <2>3. CASE ~Located(a + e.offset)
    <3>1. r.kind = "error"
      BY <2>1, <2>3 DEF Error
    <3>2. ~Mapped(cache, a + e.offset)
      BY <2>3, LocatedIsMapped
    <3>3. f.symbol \in DOMAIN cache.exports[a] /\ e = cache.exports[a][f.symbol]
      BY <1>2, <1>11 DEF ExportOf, TerminalOf, None
    <3>4. ~WellFormed
      BY <1>3, <1>11, <3>2, <3>3 DEF WellFormed
    <3>5. QED
      BY <3>1, <3>4 DEF Outcome
  <2>4. QED
    BY <2>2, <2>3
<1>12. CASE e.kind = "reexport"
  <2>1. PICK i : i = DylibForOrdinal(f.image, e.ordinal)
    OBVIOUS
  <2> DEFINE sym == IF e.name = "" THEN f.symbol ELSE e.name
             g == [kind |-> "follow", path |-> f.image[i].path, symbol |-> sym]
  <2>2. r = CASE i = -1 -> Error
              [] i = 0 -> None
              [] i > 0 -> IF f.image[i].path = NoName THEN Error ELSE g
    BY <1>4, <1>12, <2>1 DEF TrieReexport
  <2>0. g.kind = "follow" /\ g.path = f.image[i].path /\ g.symbol = sym
    OBVIOUS
  <2> HIDE DEF g
  <2>3. \/ i = -1 /\ \E k \in DOMAIN f.image : f.image[k].cmd = "unreadable"
        \/ i = 0 /\ e.ordinal \notin DOMAIN deps
        \/ /\ i \in Nat /\ i > 0 /\ i \in DOMAIN f.image /\ IsDylibDependencyCommand(f.image[i])
           /\ e.ordinal \in DOMAIN deps /\ deps[e.ordinal] = f.image[i]
    <3>1. e = cache.exports[a][f.symbol] /\ f.symbol \in DOMAIN cache.exports[a]
      BY <1>2, <1>12 DEF ExportOf, TerminalOf, None
    <3>2. MappedImages[ImageNamed(f.path)] \in ToSet(MappedImages)
      BY <1>2, ImageFacts DEF ToSet
    <3>3. CountedUpTo(f.image, e.ordinal)
      BY <1>2, <1>12, <3>1, <3>2 DEF OrdinalsAgree
    <3>4. e.ordinal \in Nat
      BY <1>1, <1>12 DEF Terminal, None
    <3>5. QED
      BY <1>3, <1>8, <2>1, <3>3, <3>4, OrdinalFacts
  <2> HIDE DEF e
  <2>4. CASE i = -1 /\ \E k \in DOMAIN f.image : f.image[k].cmd = "unreadable"
    <3>1. r = Error
      BY <2>2, <2>4
    <3>2. ~WellFormed
      BY <1>2, <1>3, <2>4 DEF WellFormed
    <3>3. QED
      BY <3>1, <3>2 DEF Outcome, Error
  <2>5. CASE i = 0 /\ e.ordinal \notin DOMAIN deps
    <3>1. r = None
      BY <2>2, <2>5
    <3>2. Umbrella(f)
      BY <1>7, <1>12, <2>5
    <3>3. QED
      BY <3>1, <3>2 DEF Outcome, None
  <2>6. CASE /\ i \in Nat /\ i > 0 /\ i \in DOMAIN f.image /\ IsDylibDependencyCommand(f.image[i])
             /\ e.ordinal \in DOMAIN deps /\ deps[e.ordinal] = f.image[i]
    <3>1. CASE f.image[i].path = NoName
      <4>1. r = Error
        BY <2>2, <2>6, <3>1
      <4>2. ~WellFormed
        BY <1>2, <1>3, <2>6, <3>1 DEF WellFormed
      <4>3. QED
        BY <4>1, <4>2 DEF Outcome, Error
    <3>2. CASE f.image[i].path # NoName
      <4>1. r = g
        BY <2>2, <2>6, <3>2
      <4>2. Successors(f.path, f.symbol) = {<<f.image[i].path, sym>>}
        BY <1>6, <1>12, <2>6
      <4>5. r.kind = "follow" /\ Successors(f.path, f.symbol) = {<<r.path, r.symbol>>}
        BY <2>0, <4>1, <4>2
      <4>3. ~Defines(Key(f))
        BY <1>5, <1>12
      <4>4. QED
        BY <4>3, <4>5 DEF Outcome
    <3>3. QED
      BY <3>1, <3>2
  <2>7. QED
    BY <2>3, <2>4, <2>5, <2>6
<1>13. QED
  BY <1>9, <1>10, <1>11, <1>12

ReadableReexports(cmds) ==
    {c \in ToSet(cmds) : c.cmd = "LC_REEXPORT_DYLIB" /\ c.path # NoName}

(* reexported_dylib_paths_collect collects the re-exported libraries.      *)
LEMMA ReexportFacts ==
    ASSUME NEW cmds \in Seq(Command), NEW p, p = ReexportedDylibPaths(cmds)
    PROVE  /\ IsSeq(p)
           /\ \A k \in 1..Len(p) : \E c \in Reexports(cmds) : p[k] = c.path
           /\ \A c \in Reexports(cmds) : c.path # NoName => \E k \in 1..Len(p) : p[k] = c.path
<1> DEFINE T == ReadableReexports(cmds)
           r == SelectIn(cmds, T)
<1>1. p = [i \in DOMAIN r |-> r[i].path]
  BY DEF ReexportedDylibPaths, ReadableReexports
<1>2. /\ \A c \in T : c \in Reexports(cmds)
      /\ \A c \in Reexports(cmds) : c.path # NoName =>
            c \in T /\ \E k \in 1..Len(cmds) : c = cmds[k]
  BY DEF ReadableReexports, Reexports, ToSet
<1> HIDE DEF T
<1>3. /\ r \in Seq(Command)
      /\ \A i \in 1..Len(r) : r[i] \in T
      /\ \A k \in 1..Len(cmds) : cmds[k] \in T => \E i \in 1..Len(r) : r[i] = cmds[k]
  BY SelectFacts
<1> HIDE DEF r
<1>4. Len(r) \in Nat /\ DOMAIN r = 1..Len(r)
  BY <1>3
<1>5. p \in Seq({r[i].path : i \in 1..Len(r)}) /\ Len(p) = Len(r)
      /\ \A i \in 1..Len(r) : p[i] = r[i].path
  BY <1>1, <1>4
<1>6. QED
  <2>1. IsSeq(p)
    BY <1>5, SeqIsSeq
  <2>2. \A k \in 1..Len(p) : \E c \in Reexports(cmds) : p[k] = c.path
    BY <1>2, <1>3, <1>5
  <2>3. \A c \in Reexports(cmds) : c.path # NoName => \E k \in 1..Len(p) : p[k] = c.path
    BY <1>2, <1>3, <1>5
  <2>4. QED
    BY <2>1, <2>2, <2>3

(* What the names, the exports and the re-exports are stays as it is.      *)
LEMMA SameGraph ==
    ASSUME cache' = cache
    PROVE  /\ \A q : Defines(q)' = Defines(q) /\ RuntimeAddress(q)' = RuntimeAddress(q)
           /\ \A f : Known(f)' = Known(f)
           /\ \A path, s : Successors(path, s)' = Successors(path, s)
           /\ \A S : ReachedFrom(S)' = ReachedFrom(S)
           /\ WellFormed' = WellFormed /\ OrdinalsAgree' = OrdinalsAgree
<1>1. MappedImages' = MappedImages
  BY Zenon DEF MappedImages, Mapped
<1>2. ASSUME NEW path
      PROVE  ImageNamed(path)' = ImageNamed(path)
  BY <1>1 DEF ImageNamed, SelectInSeq
<1>3. ASSUME NEW path
      PROVE  /\ CommandsOf(path)' = CommandsOf(path)
             /\ \A s : ExportOf(path, s)' = ExportOf(path, s)
  BY <1>1, <1>2, Zenon DEF CommandsOf, ExportOf
<1>4. ASSUME NEW path
      PROVE  DependenciesOf(path)' = DependenciesOf(path)
  BY <1>3, Zenon DEF DependenciesOf
<1>5. ASSUME NEW path, NEW s
      PROVE  Successors(path, s)' = Successors(path, s)
  BY <1>2, <1>3, <1>4, Zenon DEF Successors
<1>6. ASSUME NEW S
      PROVE  AllSuccessors(S)' = AllSuccessors(S)
  BY <1>5 DEF AllSuccessors
<1>7. ASSUME NEW S
      PROVE  ReachedFrom(S)' = ReachedFrom(S)
  BY <1>6, Zenon DEF ReachedFrom
<1>8. ASSUME NEW q
      PROVE  Defines(q)' = Defines(q) /\ RuntimeAddress(q)' = RuntimeAddress(q)
  BY <1>1, <1>2, <1>3 DEF Defines, RuntimeAddress
<1>9. ASSUME NEW f
      PROVE  Known(f)' = Known(f)
  BY <1>1, <1>2, <1>3 DEF Known
<1>10. WellFormed' = WellFormed
  BY DEF WellFormed, Mapped
<1>11. OrdinalsAgree' = OrdinalsAgree
  BY <1>1, Zenon DEF OrdinalsAgree
<1>12. QED
  BY <1>5, <1>7, <1>8, <1>9, <1>10, <1>11

(* So are the definitions that a query reaches.                            *)
LEMMA SameDefinitions ==
    ASSUME cache' = cache, query' = query
    PROVE  Definitions' = Definitions
<1>1. Reached' = Reached
  <2>1. PICK S : S = {query}
    OBVIOUS
  <2>2. ReachedFrom(S)' = ReachedFrom(S)
    BY SameGraph
  <2>3. QED
    BY <2>1, <2>2 DEF Reached
<1>2. \A q : (ExportOf(q[1], q[2]).kind = "defined")' = (ExportOf(q[1], q[2]).kind = "defined")
  BY SameGraph DEF Defines
<1>3. QED
  BY <1>1, <1>2 DEF Definitions

(* So does what is said of a call.                                         *)
LEMMA SameSearch ==
    ASSUME cache' = cache
    PROVE  /\ \A q, b : Clear(q, b)' = Clear(q, b)
           /\ \A f : Searched(f)' = Searched(f) /\ Umbrella(f)' = Umbrella(f)
           /\ \A f, r : Outcome(f, r)' = Outcome(f, r)
           /\ query' = query => \A f : LookOK(f)' = LookOK(f)
           /\ query' = query => \A fs : SearchOK(fs)' = SearchOK(fs)
<1>1. ASSUME NEW q, NEW b
      PROVE  Clear(q, b)' = Clear(q, b)
  BY SameGraph DEF Clear
<1>2. ASSUME NEW f
      PROVE  Searched(f)' = Searched(f) /\ Umbrella(f)' = Umbrella(f)
  BY <1>1, SameGraph DEF Searched, Umbrella, Key
<1>3. ASSUME NEW f, NEW r
      PROVE  Outcome(f, r)' = Outcome(f, r)
  BY <1>2, SameGraph DEF Outcome, Key
<1>4. ASSUME query' = query, NEW f
      PROVE  LookOK(f)' = LookOK(f)
  BY <1>2, <1>3, <1>4, SameGraph DEF LookOK, Key
<1>5. ASSUME query' = query, NEW fs
      PROVE  SearchOK(fs)' = SearchOK(fs)
  BY <1>1, <1>2, <1>5 DEF SearchOK, Key
<1>6. QED
  BY <1>1, <1>2, <1>3, <1>4, <1>5

-----------------------------------------------------------------------------
(* The stack of calls during a lookup.                                     *)

(* The innermost call goes on: the calls below it stay.                    *)
LEMMA StackFacts ==
    ASSUME IInv, phase = "resolve", NEW f, NEW fs, fs = Replaced(f)
    PROVE  /\ IsSeq(fs) /\ Len(fs) = Len(frames) /\ Len(frames) \in Nat \ {0}
           /\ fs[Len(frames)] = f /\ Top = frames[Len(frames)]
           /\ \A i \in 1..(Len(frames) - 1) : fs[i] = frames[i]
<1>1. IsSeq(frames) /\ Len(frames) \in Nat \ {0}
  BY TopFacts DEF IInv, Typed
<1>2. PICK e : e = Front(frames)
  OBVIOUS
<1>3. /\ IsSeq(e) /\ Len(e) = Len(frames) - 1
      /\ \A i \in 1..(Len(frames) - 1) : e[i] = frames[i]
  BY <1>1, <1>2, FrontFacts DEF Front
<1>4. fs = Append(e, f)
  BY <1>2 DEF Replaced
<1>5. /\ IsSeq(fs) /\ Len(fs) = Len(e) + 1 /\ fs[Len(e) + 1] = f
      /\ \A i \in 1..Len(e) : fs[i] = e[i]
  BY <1>3, <1>4, AppendFacts
<1>6. Top = frames[Len(frames)]
  BY DEF Top, Last
<1>7. QED
  BY <1>1, <1>3, <1>5, <1>6

(* A call that goes on as far from a definition as it was.                 *)
LEMMA SearchReplace ==
    ASSUME IInv, phase = "resolve", SearchOK(frames), NEW f,
           f.stage = "umbrella" => Searched(f),
           Clear(Key(f), f.budget) => Clear(Key(Top), Top.budget),
           NEW fs, fs = Replaced(f)
    PROVE  SearchOK(fs)
<1> DEFINE n == Len(frames)
<1>1. /\ Len(fs) = n /\ n \in Nat \ {0} /\ fs[n] = f /\ Top = frames[n]
      /\ \A i \in 1..(n - 1) : fs[i] = frames[i]
  BY StackFacts
<1>2. /\ \A i \in 1..n :
            frames[i].stage = "umbrella" /\ (i = n \/ Clear(Key(frames[i + 1]), frames[i + 1].budget))
            => Searched(frames[i])
      /\ \A i \in 1..(n - 1) : frames[i].stage = "umbrella"
      /\ Clear(Key(frames[1]), frames[1].budget) => Clear(query, MAX_REEXPORT_RESOLUTION_DEPTH)
  BY <1>1 DEF SearchOK
<1> HIDE DEF n
<1>3. ASSUME NEW i \in 1..n, Clear(Key(fs[i]), fs[i].budget)
      PROVE  Clear(Key(frames[i]), frames[i].budget)
  <2>1. CASE i = n
    BY <1>1, <1>3, <2>1
  <2>2. CASE i # n
    BY <1>1, <1>3, <2>2
  <2>3. QED
    BY <2>1, <2>2
<1>4. ASSUME NEW i \in 1..n, fs[i].stage = "umbrella",
             i = n \/ Clear(Key(fs[i + 1]), fs[i + 1].budget)
      PROVE  Searched(fs[i])
  <2>1. CASE i = n
    BY <1>1, <1>4, <2>1
  <2>2. CASE i # n
    <3>1. i \in 1..(n - 1) /\ i + 1 \in 1..n /\ fs[i] = frames[i]
      BY <1>1, <2>2
    <3>2. Clear(Key(frames[i + 1]), frames[i + 1].budget)
      BY <1>3, <1>4, <2>2, <3>1
    <3>3. QED
      BY <1>2, <1>4, <3>1, <3>2
  <2>3. QED
    BY <2>1, <2>2
<1>5. \A i \in 1..(n - 1) : fs[i].stage = "umbrella"
  BY <1>1, <1>2
<1>6. Clear(Key(fs[1]), fs[1].budget) => Clear(query, MAX_REEXPORT_RESOLUTION_DEPTH)
  BY <1>1, <1>2, <1>3
<1>7. QED
  BY <1>1, <1>4, <1>5, <1>6 DEF SearchOK

(* The innermost call makes another one.                                   *)
LEMMA SearchPush ==
    ASSUME IInv, phase = "resolve", SearchOK(frames), NEW f, NEW g,
           f.stage = "umbrella", g.stage # "umbrella",
           Key(f) = Key(Top), f.budget = Top.budget,
           Clear(Key(g), g.budget) => Searched(f),
           NEW fs, fs = Append(Replaced(f), g)
    PROVE  SearchOK(fs)
<1> DEFINE n == Len(frames)
<1>1. PICK e : e = Replaced(f)
  OBVIOUS
<1>2. /\ IsSeq(e) /\ Len(e) = n /\ n \in Nat \ {0} /\ e[n] = f /\ Top = frames[n]
      /\ \A i \in 1..(n - 1) : e[i] = frames[i]
  BY <1>1, StackFacts
<1>3. /\ \A i \in 1..n :
            frames[i].stage = "umbrella" /\ (i = n \/ Clear(Key(frames[i + 1]), frames[i + 1].budget))
            => Searched(frames[i])
      /\ \A i \in 1..(n - 1) : frames[i].stage = "umbrella"
      /\ Clear(Key(frames[1]), frames[1].budget) => Clear(query, MAX_REEXPORT_RESOLUTION_DEPTH)
  BY <1>2 DEF SearchOK
<1>4. Len(fs) = n + 1 /\ fs[n + 1] = g /\ \A i \in 1..n : fs[i] = e[i]
  BY <1>1, <1>2, AppendFacts
<1> HIDE DEF n
<1>5. ASSUME NEW i \in 1..n
      PROVE  Clear(Key(fs[i]), fs[i].budget) = Clear(Key(frames[i]), frames[i].budget)
  <2>1. CASE i = n
    BY <1>2, <1>4, <2>1
  <2>2. CASE i # n
    BY <1>2, <1>4, <2>2
  <2>3. QED
    BY <2>1, <2>2
<1>6. ASSUME NEW i \in 1..(n + 1), fs[i].stage = "umbrella",
             i = n + 1 \/ Clear(Key(fs[i + 1]), fs[i + 1].budget)
      PROVE  Searched(fs[i])
  <2>1. i # n + 1
    BY <1>4, <1>6
  <2>2. CASE i = n
    BY <1>2, <1>4, <1>6, <2>1, <2>2
  <2>3. CASE i # n
    <3>1. i \in 1..(n - 1) /\ i \in 1..n /\ i + 1 \in 1..n /\ fs[i] = frames[i]
      BY <1>2, <1>4, <2>1, <2>3
    <3>2. Clear(Key(frames[i + 1]), frames[i + 1].budget)
      BY <1>5, <1>6, <2>1, <3>1
    <3>3. QED
      BY <1>3, <1>6, <3>1, <3>2
  <2>4. QED
    BY <2>2, <2>3
<1>7. ASSUME NEW i \in 1..n
      PROVE  fs[i].stage = "umbrella"
  <2>1. CASE i = n
    BY <1>2, <1>4, <2>1
  <2>2. CASE i # n
    BY <1>2, <1>3, <1>4, <2>2
  <2>3. QED
    BY <2>1, <2>2
<1>8. Clear(Key(fs[1]), fs[1].budget) => Clear(query, MAX_REEXPORT_RESOLUTION_DEPTH)
  BY <1>2, <1>3, <1>5
<1>9. Len(fs) = n + 1 /\ Len(fs) - 1 = n /\ Len(fs) > 0
  BY <1>2, <1>4
<1>10. \A i \in 1..Len(fs) :
         fs[i].stage = "umbrella" /\ (i = Len(fs) \/ Clear(Key(fs[i + 1]), fs[i + 1].budget))
         => Searched(fs[i])
  BY <1>6, <1>9
<1>11. \A i \in 1..(Len(fs) - 1) : fs[i].stage = "umbrella"
  BY <1>7, <1>9
<1>12. QED
  BY <1>8, <1>10, <1>11, Zenon DEF SearchOK

(* The innermost call finds nothing.                                       *)
LEMMA SearchPop ==
    ASSUME IInv, phase = "resolve", SearchOK(frames), Clear(Key(Top), Top.budget),
           NEW fs, fs = Front(frames)
    PROVE  /\ SearchOK(fs)
           /\ Len(frames) = 1 => Clear(query, MAX_REEXPORT_RESOLUTION_DEPTH)
<1> DEFINE n == Len(frames)
<1>1. n \in Nat \ {0} /\ IsSeq(frames) /\ Top = frames[n]
  BY TopFacts DEF IInv, Typed, Top, Last
<1>2. Len(fs) = n - 1 /\ \A i \in 1..(n - 1) : fs[i] = frames[i]
  BY <1>1, FrontFacts DEF Front
<1>3. /\ \A i \in 1..n :
            frames[i].stage = "umbrella" /\ (i = n \/ Clear(Key(frames[i + 1]), frames[i + 1].budget))
            => Searched(frames[i])
      /\ \A i \in 1..(n - 1) : frames[i].stage = "umbrella"
      /\ Clear(Key(frames[1]), frames[1].budget) => Clear(query, MAX_REEXPORT_RESOLUTION_DEPTH)
  BY <1>1 DEF SearchOK
<1> HIDE DEF n
<1>4. ASSUME NEW i \in 1..(n - 1), fs[i].stage = "umbrella",
             i = n - 1 \/ Clear(Key(fs[i + 1]), fs[i + 1].budget)
      PROVE  Searched(fs[i])
  <2>1. i \in 1..n /\ fs[i] = frames[i]
    BY <1>1, <1>2
  <2>2. CASE i = n - 1
    BY <1>1, <1>3, <1>4, <2>1, <2>2
  <2>3. CASE i # n - 1
    <3>1. i + 1 \in 1..(n - 1) /\ i # n
      BY <1>1, <2>3
    <3>2. QED
      BY <1>2, <1>3, <1>4, <2>1, <2>3, <3>1
  <2>4. QED
    BY <2>2, <2>3
<1>5. \A i \in 1..(n - 1 - 1) : fs[i].stage = "umbrella"
  BY <1>1, <1>2, <1>3
<1>6. n - 1 > 0 /\ Clear(Key(fs[1]), fs[1].budget) => Clear(query, MAX_REEXPORT_RESOLUTION_DEPTH)
  BY <1>1, <1>2, <1>3
<1>7. n = 1 => Clear(query, MAX_REEXPORT_RESOLUTION_DEPTH)
  BY <1>1, <1>3
<1>8. QED
  BY <1>2, <1>4, <1>5, <1>6, <1>7 DEF SearchOK, n

-----------------------------------------------------------------------------
(* Every step keeps the invariant of the lookup.                           *)

(* The innermost call, its budget and the library it has found.            *)
LEMMA LookFacts ==
    ASSUME IInv, LInv, phase = "resolve"
    PROVE  /\ FrameOK(Top) /\ LookOK(Top) /\ AllAttached /\ result = None
           /\ Top.stage # "entered" =>
                 /\ Known(Top) /\ Top.budget \in 1..MAX_REEXPORT_RESOLUTION_DEPTH
                 /\ Top.image \in Seq(Command)
                 /\ (\E i \in DOMAIN Top.image : Top.image[i].cmd = "unreadable") => ~WellFormed
                 /\ WellFormed => \A c \in Reexports(Top.image) : c.path # NoName
<1>1. Len(frames) \in 1..Len(frames) /\ Top = frames[Len(frames)]
  BY TopFacts DEF Top, Last
<1>2. FrameOK(Top) /\ LookOK(Top) /\ result = None
  BY <1>1, TopFacts DEF LInv, AnswerOK
<1>3. AllAttached
  BY DEF IInv, Typed, AttachedOK, AllAttached
<1>4. ASSUME Top.stage # "entered"
      PROVE  Known(Top) /\ Top.budget \in 1..MAX_REEXPORT_RESOLUTION_DEPTH
  BY <1>2, <1>4, BudgetAssumption DEF FrameOK, LookOK
<1>5. ASSUME Top.stage # "entered"
      PROVE  /\ Top.image \in Seq(Command)
             /\ (\E i \in DOMAIN Top.image : Top.image[i].cmd = "unreadable") => ~WellFormed
             /\ WellFormed => \A c \in Reexports(Top.image) : c.path # NoName
  <2>1. PICK a : a = MappedImages[ImageNamed(Top.path)].address
    OBVIOUS
  <2>2. ImageNamed(Top.path) # 0 /\ Top.image = cache.machos[a]
    BY <1>4, <1>5, <2>1 DEF Known, CommandsOf
  <2>3. a \in DOMAIN cache.machos /\ cache.machos[a] \in Seq(Command)
    BY <1>3, <2>1, <2>2, ImageFacts DEF AllAttached
  <2>4. (\E i \in DOMAIN Top.image : Top.image[i].cmd = "unreadable") => ~WellFormed
    BY <2>2, <2>3 DEF WellFormed
  <2>5. WellFormed => \A c \in Reexports(Top.image) : c.path # NoName
    <3> SUFFICES ASSUME WellFormed, NEW c \in Reexports(Top.image)
                 PROVE  c.path # NoName
      OBVIOUS
    <3>1. PICK i \in DOMAIN cache.machos[a] : c = cache.machos[a][i]
      BY <2>2, <2>3 DEF Reexports, ToSet
    <3>2. c.cmd = "LC_REEXPORT_DYLIB"
      BY DEF Reexports
    <3>3. IsDylibDependencyCommand(c) => c.path # NoName
      BY <2>3, <3>1, Zenon DEF WellFormed
    <3>4. QED
      BY <3>2, <3>3 DEF IsDylibDependencyCommand
  <2>6. QED
    BY <2>2, <2>3, <2>4, <2>5
<1>6. QED
  BY <1>2, <1>3, <1>4, <1>5

(* Nothing has been asked.                                                 *)
LEMMA IdleLInv ==
    ASSUME Len(frames') = 0, result' = None, phase' \notin {"resolve", "answered"}
    PROVE  LInv'
<1>1. result'.kind # "address"
  BY DEF None
<1>2. AnswerOK'
  BY <1>1 DEF AnswerOK, AnswersAsLinked
<1>3. \A i \in 1..Len(frames') : FALSE
  OBVIOUS
<1>4. SearchOK(frames)'
  BY DEF SearchOK
<1>5. QED
  BY <1>2, <1>3, <1>4 DEF LInv

(* The calls go on.                                                        *)
LEMMA ContinueLInv ==
    ASSUME IInv, LInv, phase = "resolve", NEW fs, Continue(fs),
           \A i \in 1..Len(fs) : LookOK(fs[i]), WellFormed => SearchOK(fs)
    PROVE  LInv'
<1>1. /\ frames' = fs /\ cache' = cache /\ query' = query /\ phase' = "resolve"
      /\ result' = result /\ result = None
  BY LookFacts DEF Continue
<1>2. \A i \in 1..Len(frames') : LookOK(frames[i])'
  BY <1>1, SameSearch
<1>3. (WellFormed => SearchOK(frames))'
  BY <1>1, SameSearch, SameGraph
<1>4. result'.kind # "address"
  BY <1>1 DEF None
<1>5. AnswerOK'
  BY <1>1, <1>4 DEF LInv, AnswerOK, AnswersAsLinked
<1>6. QED
  BY <1>2, <1>3, <1>5 DEF LInv

(* A call that is alone in having changed.                                 *)
LEMMA ReplaceLInv ==
    ASSUME IInv, LInv, phase = "resolve", NEW f, Continue(Replaced(f)), LookOK(f),
           WellFormed => /\ f.stage = "umbrella" => Searched(f)
                         /\ Clear(Key(f), f.budget) => Clear(Key(Top), Top.budget)
    PROVE  LInv'
<1>1. PICK fs : fs = Replaced(f)
  OBVIOUS
<1>2. /\ Len(fs) = Len(frames) /\ Len(frames) \in Nat \ {0} /\ fs[Len(frames)] = f
      /\ \A i \in 1..(Len(frames) - 1) : fs[i] = frames[i]
  BY <1>1, StackFacts
<1>3. ASSUME NEW i \in 1..Len(fs)
      PROVE  LookOK(fs[i])
  <2>1. CASE i = Len(frames)
    BY <1>2, <2>1
  <2>2. CASE i # Len(frames)
    BY <1>2, <2>2 DEF LInv
  <2>3. QED
    BY <2>1, <2>2
<1>4. WellFormed => SearchOK(fs)
  BY <1>1, SearchReplace DEF LInv
<1>5. QED
  BY <1>1, <1>3, <1>4, ContinueLInv

(* A call has found nothing within its budget.                             *)
LEMMA ReturnLInv ==
    ASSUME IInv, LInv, phase = "resolve", ReturnNone,
           WellFormed => Clear(Key(Top), Top.budget)
    PROVE  LInv'
<1>1. /\ frames' = Front(frames) /\ cache' = cache /\ query' = query
      /\ phase' = (IF Len(frames) = 1 THEN "answered" ELSE "resolve")
      /\ result' = result /\ result = None
  BY LookFacts DEF ReturnNone
<1>2. PICK fs : fs = Front(frames)
  OBVIOUS
<1>3. IsSeq(frames) /\ Len(frames) \in Nat \ {0}
  BY TopFacts DEF IInv, Typed
<1>4. Len(fs) = Len(frames) - 1 /\ \A i \in 1..(Len(frames) - 1) : fs[i] = frames[i]
  BY <1>2, <1>3, FrontFacts DEF Front
<1>5. \A i \in 1..Len(fs) : LookOK(fs[i])
  BY <1>3, <1>4 DEF LInv
<1>6. WellFormed =>
         /\ SearchOK(fs)
         /\ Len(frames) = 1 => Clear(query, MAX_REEXPORT_RESOLUTION_DEPTH)
  BY <1>2, SearchPop DEF LInv
<1>7. \A i \in 1..Len(frames') : LookOK(frames[i])'
  BY <1>1, <1>2, <1>5, SameSearch
<1>8. (WellFormed => SearchOK(frames))'
  BY <1>1, <1>2, <1>6, SameSearch, SameGraph
<1>9. result'.kind # "address" /\ result'.kind # "error"
  BY <1>1 DEF None
<1>10. phase' = "answered" /\ WellFormed' => Clear(query, MAX_REEXPORT_RESOLUTION_DEPTH)'
  BY <1>1, <1>6, SameSearch, SameGraph
<1>11. query' = <<query'[1], query'[2]>>
  BY <1>1 DEF LInv, AnswerOK
<1>12. AnswerOK'
  BY <1>1, <1>9, <1>10, <1>11 DEF AnswerOK, AnswersAsLinked
<1>13. QED
  BY <1>7, <1>8, <1>12 DEF LInv

(* A definition, or an error of a cache that is not well-formed.           *)
Answer(r) ==
    \/ r.kind = "error" /\ ~WellFormed
    \/ /\ r.kind = "address"
       /\ AtLikelyBase => \E q \in Definitions :
             r.address = RuntimeAddress(q) /\ (query \in Definitions => q = query)

LEMMA LeaveLInv ==
    ASSUME IInv, LInv, phase = "resolve", NEW r, Leave(r), Answer(r)
    PROVE  LInv'
<1>1. /\ frames' = << >> /\ cache' = cache /\ query' = query
      /\ phase' = "answered" /\ result' = r
  BY DEF Leave
<1>2. Len(frames') = 0
  BY <1>1
<1>3. Definitions' = Definitions
  BY <1>1, SameDefinitions
<1>4. Answer(r)' = Answer(r)
  BY <1>1, <1>3, SameGraph DEF Answer
<1>5. AtLikelyBase => AnswersAsLinked'
  BY <1>1, <1>4 DEF Answer, AnswersAsLinked
<1>6. query' = <<query'[1], query'[2]>>
  BY <1>1 DEF LInv, AnswerOK
<1>7. WellFormed' => result'.kind = "address"
  BY <1>1, <1>4 DEF Answer
<1>8. AnswerOK'
  BY <1>1, <1>5, <1>6, <1>7 DEF AnswerOK
<1>9. SearchOK(frames)'
  BY <1>2 DEF SearchOK
<1>10. \A i \in 1..Len(frames') : FALSE
  BY <1>2
<1>11. QED
  BY <1>8, <1>9, <1>10 DEF LInv

(* A library that defines the symbol has no successors; without an export  *)
(* of it those that it re-exports are left.                                *)
LEMMA UmbrellaFacts ==
    ASSUME NEW f
    PROVE  /\ ImageNamed(f.path) = 0 =>
                 ~Defines(Key(f)) /\ Successors(f.path, f.symbol) = {}
           /\ Known(f) /\ ExportOf(f.path, f.symbol) = None => Umbrella(f)
<1>1. Defines(Key(f)) <=> ExportOf(f.path, f.symbol).kind = "defined"
  BY DEF Defines, Key
<1>2. ImageNamed(f.path) = 0 => ~Defines(Key(f)) /\ Successors(f.path, f.symbol) = {}
  BY <1>1 DEF ExportOf, None, Successors
<1>3. ASSUME Known(f), ExportOf(f.path, f.symbol) = None
      PROVE  Umbrella(f)
  <2>1. ImageNamed(f.path) # 0 /\ f.image = CommandsOf(f.path)
    BY <1>3 DEF Known
  <2>2. ExportOf(f.path, f.symbol).kind = "none"
    BY <1>3 DEF None
  <2>3. Successors(f.path, f.symbol) =
           {<<c.path, f.symbol>> : c \in {c \in ToSet(CommandsOf(f.path)) : c.cmd = "LC_REEXPORT_DYLIB"}}
    BY <2>1, <2>2 DEF Successors
  <2>4. QED
    BY <1>1, <2>1, <2>2, <2>3 DEF Umbrella, Reexports
<1>4. QED
  BY <1>2, <1>3

(* The three ways in which a call finds nothing.                           *)
LEMMA ReturnsLInv ==
    ASSUME IInv, LInv, OutOfBudget \/ NotCached \/ UmbrellaDone
    PROVE  LInv'
<1>1. phase = "resolve" /\ ReturnNone
  BY DEF OutOfBudget, NotCached, UmbrellaDone, At
<1>2. PICK t : t = Top
  OBVIOUS
<1>3. FrameOK(t) /\ LookOK(t)
  BY <1>1, <1>2, LookFacts
<1>4. Key(t)[1] = t.path /\ Key(t)[2] = t.symbol
  BY DEF Key
<1>5. CASE OutOfBudget
  <2>1. t.budget = 0
    BY <1>2, <1>5 DEF OutOfBudget
  <2>2. Clear(Key(t), t.budget)
    BY <2>1 DEF Clear
  <2>3. QED
    BY <1>1, <1>2, <2>2, ReturnLInv
<1>6. CASE NotCached
  <2>1. t.budget > 0 /\ LibraryFind(t.path) = 0
    BY <1>2, <1>6 DEF NotCached
  <2>2. t.budget \in 1..MAX_REEXPORT_RESOLUTION_DEPTH
    BY <1>3, <2>1, BudgetAssumption DEF FrameOK
  <2>3. ImageNamed(t.path) = 0
    BY <1>1, <2>1, LibraryFacts
  <2>4. ~Defines(Key(t)) /\ Successors(t.path, t.symbol) = {}
    BY <2>3, UmbrellaFacts
  <2>5. Clear(Key(t), t.budget)
    BY <1>4, <2>2, <2>4, ClearFacts
  <2>6. QED
    BY <1>1, <1>2, <2>5, ReturnLInv
<1>7. CASE UmbrellaDone
  <2>1. t.stage = "umbrella" /\ t.todo = << >>
    BY <1>2, <1>7 DEF UmbrellaDone, At
  <2>2. t.budget \in 1..MAX_REEXPORT_RESOLUTION_DEPTH /\ ~Defines(Key(t))
    BY <1>1, <1>2, <1>3, <2>1, LookFacts DEF LookOK, Umbrella
  <2>3. ASSUME WellFormed
        PROVE  Searched(t)
    <3>1. Len(frames) \in 1..Len(frames) /\ t = frames[Len(frames)]
      BY <1>1, <1>2, TopFacts DEF Top, Last
    <3>2. SearchOK(frames)
      BY <2>3 DEF LInv
    <3>3. QED
      BY <2>1, <3>1, <3>2 DEF SearchOK
  <2>4. ASSUME WellFormed, NEW s \in Successors(t.path, t.symbol)
        PROVE  Clear(s, t.budget - 1)
    BY <2>1, <2>3, <2>4 DEF Searched
  <2>5. WellFormed => Clear(Key(t), t.budget)
    BY <1>4, <2>2, <2>4, ClearFacts
  <2>6. QED
    BY <1>1, <1>2, <2>5, ReturnLInv
<1>8. QED
  BY <1>5, <1>6, <1>7

(* The library of the path is found.                                       *)
LEMMA FindLibraryLInv ==
    ASSUME IInv, LInv, FindLibrary
    PROVE  LInv'
<1>1. PICK t : t = Top
  OBVIOUS
<1>2. phase = "resolve" /\ t.stage = "entered" /\ LibraryFind(t.path) > 0
  BY <1>1 DEF FindLibrary, At
<1>3. PICK lib : lib = libraries[LibraryFind(t.path)]
  OBVIOUS
<1>4. PICK f : /\ f = [t EXCEPT !.stage = "span", !.load_address = lib.load_address,
                           !.image = ImageView(lib)]
               /\ Continue(Replaced(f))
  BY <1>1, <1>3 DEF FindLibrary
<1>5. DOMAIN t = Fields /\ LookOK(t)
  BY <1>1, <1>2, LookFacts DEF FrameOK, Fields
<1>6. /\ f.path = t.path /\ f.symbol = t.symbol /\ f.budget = t.budget /\ f.stage = "span"
      /\ f.load_address = lib.load_address /\ f.image = ImageView(lib)
  BY <1>4, <1>5 DEF Fields
<1>7. Key(f) = Key(t)
  BY <1>6 DEF Key
<1>8. Known(f)
  <2>1. LibraryFind(t.path) # 0
    BY <1>2
  <2>2. /\ ImageNamed(t.path) # 0 /\ ImageView(lib) = CommandsOf(t.path)
        /\ lib.load_address = MappedImages[ImageNamed(t.path)].address
    BY <1>2, <1>3, <2>1, LibraryFacts
  <2>3. QED
    BY <1>6, <2>2 DEF Known
<1>9. LookOK(f)
  BY <1>5, <1>6, <1>7, <1>8 DEF LookOK
<1>10. Clear(Key(f), f.budget) => Clear(Key(Top), Top.budget)
  BY <1>1, <1>6, <1>7
<1>11. QED
  BY <1>2, <1>4, <1>6, <1>9, <1>10, ReplaceLInv

(* The place of the exports trie is known.                                 *)
LEMMA FindTrieLInv ==
    ASSUME IInv, LInv, FindTrie
    PROVE  LInv'
<1>1. PICK t : t = Top
  OBVIOUS
<1>2. phase = "resolve" /\ t.stage = "span"
  BY <1>1 DEF FindTrie, At
<1>3. PICK span : span = TrieSpan(t.image)
  OBVIOUS
<1>4. PICK f : /\ f = [t EXCEPT !.found = span,
                           !.stage = IF span.kind = "trie" THEN "trie" ELSE "looked"]
               /\ Continue(Replaced(f))
  BY <1>1, <1>3 DEF FindTrie
<1>5. DOMAIN t = Fields /\ LookOK(t) /\ Known(t) /\ AllAttached
  BY <1>1, <1>2, LookFacts DEF FrameOK, Fields
<1>6. /\ f.path = t.path /\ f.symbol = t.symbol /\ f.budget = t.budget
      /\ f.load_address = t.load_address /\ f.image = t.image /\ f.found = span
      /\ f.stage = (IF span.kind = "trie" THEN "trie" ELSE "looked")
  BY <1>4, <1>5 DEF Fields
<1>7. Key(f) = Key(t) /\ Known(f)
  BY <1>5, <1>6 DEF Key, Known
<1>8. ASSUME span.kind # "trie"
      PROVE  Outcome(f, span)
  <2>1. /\ span = None => ExportOf(f.path, f.symbol) = None
        /\ span.kind \in {"trie", "none", "error"}
        /\ span.kind = "error" => ~WellFormed
        /\ span.kind = "none" => span = None
    BY <1>3, <1>5, <1>6, TerminalFacts
  <2>2. span.kind = "none" => Umbrella(f)
    BY <1>7, <2>1, UmbrellaFacts
  <2>3. QED
    BY <1>8, <2>1, <2>2 DEF Outcome
<1>9. LookOK(f)
  <2>1. /\ f.stage = "trie" => f.found = TrieSpan(f.image) /\ f.found.kind = "trie"
        /\ f.stage = "looked" => Outcome(f, f.found)
        /\ f.stage # "umbrella"
    BY <1>3, <1>6, <1>8
  <2>2. QED
    BY <1>5, <1>6, <1>7, <2>1 DEF LookOK
<1>10. Clear(Key(f), f.budget) => Clear(Key(Top), Top.budget)
  BY <1>1, <1>6, <1>7
<1>11. f.stage # "umbrella"
  BY <1>6
<1>12. QED
  BY <1>2, <1>4, <1>9, <1>10, <1>11, ReplaceLInv

(* The trie has told what it knows.                                        *)
LEMMA LookInTrieLInv ==
    ASSUME IInv, LInv, OrdinalsAgree, LookInTrie
    PROVE  LInv'
<1>1. PICK t : t = Top
  OBVIOUS
<1>2. phase = "resolve" /\ t.stage = "trie"
  BY <1>1 DEF LookInTrie, At
<1>3. PICK r : r = TrieResolution(t)
  OBVIOUS
<1>4. PICK f : f = [t EXCEPT !.stage = "looked", !.found = r] /\ Continue(Replaced(f))
  BY <1>1, <1>3 DEF LookInTrie
<1>5. DOMAIN t = Fields /\ LookOK(t) /\ Known(t) /\ AllAttached
  BY <1>1, <1>2, LookFacts DEF FrameOK, Fields
<1>6. /\ f.path = t.path /\ f.symbol = t.symbol /\ f.budget = t.budget
      /\ f.load_address = t.load_address /\ f.image = t.image /\ f.found = r
      /\ f.stage = "looked"
  BY <1>4, <1>5 DEF Fields
<1>7. Key(f) = Key(t) /\ Known(f)
  BY <1>5, <1>6 DEF Key, Known
<1>8. Outcome(t, r)
  BY <1>2, <1>3, <1>5, ResolutionFacts DEF LookOK
<1>9. Outcome(f, r)
  BY <1>6, <1>7, <1>8 DEF Outcome, Umbrella
<1>10. LookOK(f)
  BY <1>5, <1>6, <1>7, <1>9 DEF LookOK
<1>11. Clear(Key(f), f.budget) => Clear(Key(Top), Top.budget)
  BY <1>1, <1>6, <1>7
<1>12. QED
  BY <1>2, <1>4, <1>6, <1>10, <1>11, ReplaceLInv

(* An address is that of a definition the re-exports lead to.              *)
LEMMA FoundLInv ==
    ASSUME IInv, LInv, Found
    PROVE  LInv'
<1>1. PICK t : t = Top
  OBVIOUS
<1>2. /\ phase = "resolve" /\ t.stage = "looked" /\ Leave(t.found)
      /\ t.found.kind \in {"address", "error"}
  BY <1>1 DEF Found, At
<1>3. LookOK(t) /\ t.budget \in 1..MAX_REEXPORT_RESOLUTION_DEPTH
  BY <1>1, <1>2, LookFacts
<1>4. Outcome(t, t.found)
  BY <1>2, <1>3 DEF LookOK
<1>5. CASE t.found.kind = "error"
  BY <1>2, <1>4, <1>5, LeaveLInv DEF Outcome, Answer
<1>6. CASE t.found.kind = "address"
  <2>1. Defines(Key(t)) /\ (AtLikelyBase => t.found.address = RuntimeAddress(Key(t)))
    BY <1>4, <1>6 DEF Outcome
  <2>2. Key(t) \in Reached
    <3>1. PICK m : m = MAX_REEXPORT_RESOLUTION_DEPTH - t.budget
      OBVIOUS
    <3>2. m \in 0..LastLevel /\ LastLevel \in m..LastLevel
      BY <1>3, <3>1, BudgetAssumption DEF LastLevel
    <3>3. t.budget > 0
      BY <1>3
    <3>4. Key(t) \in ReachedFrom({query})[m]
      BY <1>3, <3>1, <3>3 DEF LookOK
    <3>5. ReachedFrom({query})[m] \subseteq ReachedFrom({query})[LastLevel]
      BY <3>2, ReachMonotone
    <3>6. QED
      BY <3>4, <3>5 DEF Reached, LastLevel
  <2>3. Key(t) \in Definitions /\ (query \in Definitions => Defines(query))
    BY <2>1, <2>2 DEF Definitions, Defines
  <2>4. query \in Definitions => Key(t) = query
    BY <1>3, <2>3 DEF LookOK
  <2>5. Answer(t.found)
    BY <1>6, <2>1, <2>3, <2>4 DEF Answer
  <2>6. QED
    BY <1>2, <2>5, LeaveLInv
<1>7. QED
  BY <1>2, <1>5, <1>6

(* A command that cannot be read is an error of the cache.                 *)
LEMMA CollectFailsLInv ==
    ASSUME IInv, LInv, CollectFails
    PROVE  LInv'
<1>1. PICK t : t = Top
  OBVIOUS
<1>2. /\ phase = "resolve" /\ t.stage = "looked" /\ Leave(Error)
      /\ LoadCommandsFind(t.image, {}) = -1
  BY <1>1 DEF CollectFails, At
<1>3. /\ t.image \in Seq(Command)
      /\ (\E i \in DOMAIN t.image : t.image[i].cmd = "unreadable") => ~WellFormed
  BY <1>1, <1>2, LookFacts
<1>4. \E i \in DOMAIN t.image : t.image[i].cmd = "unreadable"
  <2>1. PICK S : S = {}
    OBVIOUS
  <2>2. PICK r : r = LoadCommandsFind(t.image, S)
    OBVIOUS
  <2>3. S \subseteq DOMAIN t.image
    BY <2>1
  <2>4. \/ r = -1 /\ \E i \in DOMAIN t.image : t.image[i].cmd = "unreadable"
        \/ r = 0 /\ S = {}
        \/ r \in S /\ r \in Nat /\ r > 0 /\ r = Min(S) /\ S # {}
    BY <1>3, <2>2, <2>3, FindFacts
  <2>5. r = -1
    BY <1>2, <2>1, <2>2
  <2>6. QED
    BY <2>1, <2>4, <2>5
<1>5. Answer(Error)
  BY <1>3, <1>4 DEF Answer, Error
<1>6. QED
  BY <1>2, <1>5, LeaveLInv

(* A call where the re-exports of another one lead.                        *)
LEMMA NextCall ==
    ASSUME IInv, LInv, phase = "resolve", NEW t, t = Top, t.stage # "entered",
           ~Defines(Key(t)), NEW path, NEW symbol, NEW q, q = <<path, symbol>>,
           q \in Successors(t.path, t.symbol),
           NEW f, f = Frame(path, symbol, t.budget - 1)
    PROVE  /\ LookOK(f) /\ Key(f) = q
           /\ f.budget = t.budget - 1 /\ f.stage = "entered"
<1>1. LookOK(t) /\ t.budget \in 1..MAX_REEXPORT_RESOLUTION_DEPTH
  BY LookFacts
<1>2. /\ f.path = path /\ f.symbol = symbol /\ f.budget = t.budget - 1
      /\ f.stage = "entered"
  BY DEF Frame
<1>3. Key(f) = q /\ Key(t)[1] = t.path /\ Key(t)[2] = t.symbol
  BY <1>2 DEF Key
<1>4. ~Defines(query)
  BY <1>1 DEF LookOK
<1>5. ASSUME f.budget > 0
      PROVE  Key(f) \in ReachedFrom({query})[MAX_REEXPORT_RESOLUTION_DEPTH - f.budget]
  <2>1. PICK n : n = MAX_REEXPORT_RESOLUTION_DEPTH - f.budget
    OBVIOUS
  <2>2. /\ n \in 1..LastLevel /\ n - 1 = MAX_REEXPORT_RESOLUTION_DEPTH - t.budget
        /\ t.budget > 0
    BY <1>1, <1>2, <1>5, <2>1, BudgetAssumption DEF LastLevel
  <2>3. Key(t) \in ReachedFrom({query})[n - 1]
    BY <1>1, <2>2 DEF LookOK
  <2>4. PICK k, s : k = Key(t) /\ s = Key(f)
    OBVIOUS
  <2>5. k \in ReachedFrom({query})[n - 1] /\ s \in Successors(k[1], k[2])
    BY <1>3, <2>3, <2>4
  <2>6. s \in ReachedFrom({query})[n]
    BY <2>2, <2>5, ReachStep
  <2>7. QED
    BY <2>1, <2>4, <2>6
<1>6. LookOK(f)
  <2>1. f.stage # "looked" /\ f.stage # "trie" /\ f.stage # "umbrella"
    BY <1>2
  <2>2. QED
    BY <1>2, <1>4, <1>5, <2>1, Zenon DEF LookOK
<1>7. QED
  BY <1>2, <1>3, <1>6

(* The symbol the trie re-exports is looked up instead.                    *)
LEMMA FollowReexportLInv ==
    ASSUME IInv, LInv, FollowReexport
    PROVE  LInv'
<1>1. PICK t : t = Top
  OBVIOUS
<1>2. phase = "resolve" /\ t.stage = "looked" /\ t.found.kind = "follow"
  BY <1>1 DEF FollowReexport, At
<1>3. PICK f : f = Frame(t.found.path, t.found.symbol, t.budget - 1) /\ Continue(Replaced(f))
  BY <1>1 DEF FollowReexport
<1>4. LookOK(t) /\ t.budget \in 1..MAX_REEXPORT_RESOLUTION_DEPTH
  BY <1>1, <1>2, LookFacts
<1>5. ~Defines(Key(t)) /\ Successors(t.path, t.symbol) = {<<t.found.path, t.found.symbol>>}
  BY <1>2, <1>4 DEF LookOK, Outcome
<1>6. /\ LookOK(f) /\ Key(f) = <<t.found.path, t.found.symbol>>
      /\ f.budget = t.budget - 1 /\ f.stage = "entered"
  <2>1. PICK p, s, q : p = t.found.path /\ s = t.found.symbol /\ q = <<p, s>>
    OBVIOUS
  <2>2. /\ t.stage # "entered" /\ q \in Successors(t.path, t.symbol)
        /\ f = Frame(p, s, t.budget - 1)
    BY <1>2, <1>3, <1>5, <2>1
  <2>3. /\ LookOK(f) /\ Key(f) = q
        /\ f.budget = t.budget - 1 /\ f.stage = "entered"
    BY <1>1, <1>2, <1>5, <2>1, <2>2, NextCall
  <2>4. QED
    BY <2>1, <2>3
<1>7. ASSUME Clear(Key(f), f.budget)
      PROVE  Clear(Key(t), t.budget)
  <2>1. Key(t)[1] = t.path /\ Key(t)[2] = t.symbol
    BY DEF Key
  <2>2. \A s \in Successors(t.path, t.symbol) : Clear(s, t.budget - 1)
    BY <1>5, <1>6, <1>7
  <2>3. QED
    BY <1>4, <1>5, <2>1, <2>2, ClearFacts
<1>8. f.stage # "umbrella"
  BY <1>6
<1>9. QED
  BY <1>1, <1>2, <1>3, <1>6, <1>7, <1>8, ReplaceLInv

(* The first of what is to do, and the rest.                               *)
LEMMA TodoFacts ==
    ASSUME NEW s, IsSeq(s), s # << >>
    PROVE  /\ Len(s) \in Nat \ {0} /\ Head(s) = s[1]
           /\ IsSeq(Tail(s)) /\ Len(Tail(s)) = Len(s) - 1
           /\ \A k \in 1..(Len(s) - 1) : Tail(s)[k] = s[k + 1]
<1>1. PICK S : S = {s[k] : k \in 1..Len(s)}
  OBVIOUS
<1>2. s \in Seq(S)
  BY <1>1 DEF IsSeq
<1>3. /\ Head(s) = s[1] /\ Tail(s) \in Seq(S) /\ Len(Tail(s)) = Len(s) - 1
      /\ \A i \in 1..Len(Tail(s)) : Tail(s)[i] = s[i + 1]
  BY <1>2, HeadTailProperties
<1>4. Len(s) \in Nat /\ Len(s) # 0
  BY <1>2, EmptySeq
<1>5. IsSeq(Tail(s))
  BY <1>3, SeqIsSeq
<1>6. QED
  BY <1>3, <1>4, <1>5

(* The re-exported libraries are collected: none has been searched.        *)
LEMMA CollectReexportsLInv ==
    ASSUME IInv, LInv, CollectReexports
    PROVE  LInv'
<1>1. PICK t : t = Top
  OBVIOUS
<1>2. phase = "resolve" /\ t.stage = "looked" /\ t.found.kind = "none"
  BY <1>1 DEF CollectReexports, At
<1>3. PICK p : p = ReexportedDylibPaths(t.image)
  OBVIOUS
<1>4. PICK f : f = [t EXCEPT !.stage = "umbrella", !.todo = p] /\ Continue(Replaced(f))
  BY <1>1, <1>3 DEF CollectReexports
<1>5. /\ DOMAIN t = Fields /\ LookOK(t) /\ Known(t) /\ t.image \in Seq(Command)
      /\ WellFormed => \A c \in Reexports(t.image) : c.path # NoName
  BY <1>1, <1>2, LookFacts DEF FrameOK, Fields
<1>6. /\ f.path = t.path /\ f.symbol = t.symbol /\ f.budget = t.budget
      /\ f.load_address = t.load_address /\ f.image = t.image /\ f.todo = p
      /\ f.stage = "umbrella"
  BY <1>4, <1>5 DEF Fields
<1>7. Key(f) = Key(t) /\ Known(f)
  BY <1>5, <1>6 DEF Key, Known
<1>8. Umbrella(t)
  BY <1>2, <1>5 DEF LookOK, Outcome
<1>9. Umbrella(f)
  BY <1>6, <1>7, <1>8 DEF Umbrella
<1>10. Successors(f.path, f.symbol) = {<<c.path, f.symbol>> : c \in Reexports(f.image)}
  BY <1>9 DEF Umbrella
<1>11. /\ IsSeq(p)
       /\ \A k \in 1..Len(p) : \E c \in Reexports(f.image) : p[k] = c.path
       /\ \A c \in Reexports(f.image) : c.path # NoName => \E k \in 1..Len(p) : p[k] = c.path
  BY <1>3, <1>5, <1>6, ReexportFacts
<1>12. \A k \in 1..Len(f.todo) : <<f.todo[k], f.symbol>> \in Successors(f.path, f.symbol)
  BY <1>6, <1>10, <1>11
<1>13. LookOK(f)
  BY <1>5, <1>6, <1>7, <1>9, <1>11, <1>12 DEF LookOK
<1>14. ASSUME WellFormed
       PROVE  Searched(f)
  <2> SUFFICES ASSUME NEW s \in Successors(f.path, f.symbol)
               PROVE  \E k \in 1..Len(f.todo) : s = <<f.todo[k], f.symbol>>
    BY DEF Searched
  <2>1. PICK c \in Reexports(f.image) : s = <<c.path, f.symbol>>
    BY <1>10
  <2>2. c.path # NoName
    BY <1>5, <1>6, <1>14
  <2>3. QED
    BY <1>6, <1>11, <2>1, <2>2
<1>15. Clear(Key(f), f.budget) => Clear(Key(Top), Top.budget)
  BY <1>1, <1>6, <1>7
<1>16. QED
  BY <1>2, <1>4, <1>13, <1>14, <1>15, ReplaceLInv

(* The next of them is searched with what is left of the budget.           *)
LEMMA UmbrellaNextLInv ==
    ASSUME IInv, LInv, UmbrellaNext
    PROVE  LInv'
<1>1. PICK t : t = Top
  OBVIOUS
<1>2. phase = "resolve" /\ t.stage = "umbrella" /\ t.todo # << >>
  BY <1>1 DEF UmbrellaNext, At
<1>3. PICK p, rest : p = Head(t.todo) /\ rest = Tail(t.todo)
  OBVIOUS
<1>4. PICK f, g : /\ f = [t EXCEPT !.todo = rest] /\ g = Frame(p, t.symbol, t.budget - 1)
                  /\ Continue(Append(Replaced(f), g))
  BY <1>1, <1>3 DEF UmbrellaNext
<1>5. DOMAIN t = Fields /\ LookOK(t) /\ Known(t)
  BY <1>1, <1>2, LookFacts DEF FrameOK, Fields
<1>6. /\ f.path = t.path /\ f.symbol = t.symbol /\ f.budget = t.budget
      /\ f.load_address = t.load_address /\ f.image = t.image /\ f.todo = rest
      /\ f.stage = "umbrella"
  BY <1>2, <1>4, <1>5 DEF Fields
<1>7. Key(f) = Key(t) /\ Known(f)
  BY <1>5, <1>6 DEF Key, Known
<1>8. /\ Umbrella(t) /\ IsSeq(t.todo)
      /\ \A k \in 1..Len(t.todo) : <<t.todo[k], t.symbol>> \in Successors(t.path, t.symbol)
  BY <1>2, <1>5 DEF LookOK
<1>9. /\ Len(t.todo) \in Nat \ {0} /\ p = t.todo[1]
      /\ IsSeq(rest) /\ Len(rest) = Len(t.todo) - 1
      /\ \A k \in 1..(Len(t.todo) - 1) : rest[k] = t.todo[k + 1]
  BY <1>2, <1>3, <1>8, TodoFacts
<1>10. Umbrella(f) /\ ~Defines(Key(t))
  BY <1>6, <1>7, <1>8 DEF Umbrella
<1>11. \A k \in 1..Len(rest) : <<rest[k], t.symbol>> \in Successors(t.path, t.symbol)
  <2> TAKE k \in 1..Len(rest)
  <2>1. k \in 1..(Len(t.todo) - 1) /\ k + 1 \in 1..Len(t.todo)
    BY <1>9
  <2>2. QED
    BY <1>8, <1>9, <2>1
<1>12. LookOK(f)
  BY <1>5, <1>6, <1>7, <1>9, <1>10, <1>11 DEF LookOK
<1>13. PICK q : q = <<p, t.symbol>>
  OBVIOUS
<1>14. q \in Successors(t.path, t.symbol)
  BY <1>8, <1>9, <1>13
<1>15. LookOK(g) /\ Key(g) = q /\ g.budget = t.budget - 1 /\ g.stage = "entered"
  <2>1. t.stage # "entered"
    BY <1>2
  <2>2. PICK y : y = t.symbol
    OBVIOUS
  <2>3. QED
    BY <1>1, <1>2, <1>4, <1>10, <1>13, <1>14, <2>1, <2>2, NextCall
<1>16. PICK e, fs : e = Replaced(f) /\ fs = Append(e, g)
  OBVIOUS
<1>17. /\ IsSeq(e) /\ Len(e) = Len(frames) /\ Len(frames) \in Nat \ {0} /\ e[Len(frames)] = f
       /\ \A i \in 1..(Len(frames) - 1) : e[i] = frames[i]
  BY <1>2, <1>16, StackFacts
<1>18. /\ Len(fs) = Len(frames) + 1 /\ fs[Len(frames) + 1] = g
       /\ \A i \in 1..Len(frames) : fs[i] = e[i]
  BY <1>16, <1>17, AppendFacts
<1>19. ASSUME NEW i \in 1..Len(fs)
       PROVE  LookOK(fs[i])
  <2>1. CASE i = Len(frames) + 1
    BY <1>15, <1>18, <2>1
  <2>2. CASE i = Len(frames)
    BY <1>12, <1>17, <1>18, <2>2
  <2>3. CASE i # Len(frames) /\ i # Len(frames) + 1
    <3>1. i \in 1..(Len(frames) - 1) /\ i \in 1..Len(frames)
      BY <1>17, <1>18, <2>3
    <3>2. fs[i] = frames[i] /\ LookOK(frames[i])
      BY <1>17, <1>18, <3>1 DEF LInv
    <3>3. QED
      BY <3>2
  <2>4. QED
    BY <2>1, <2>2, <2>3
<1>20. ASSUME WellFormed
       PROVE  SearchOK(fs)
  <2>1. SearchOK(frames)
    BY <1>20 DEF LInv
  <2>2. Searched(t)
    <3>1. Len(frames) \in 1..Len(frames) /\ t = frames[Len(frames)]
      BY <1>1, <1>17 DEF Top, Last
    <3>2. QED
      BY <1>2, <2>1, <3>1 DEF SearchOK
  <2>3. ASSUME Clear(Key(g), g.budget), NEW s \in Successors(f.path, f.symbol)
        PROVE  \/ \E k \in 1..Len(f.todo) : s = <<f.todo[k], f.symbol>>
               \/ Clear(s, f.budget - 1)
    <3>1. CASE Clear(s, t.budget - 1)
      BY <1>6, <3>1
    <3>2. CASE ~Clear(s, t.budget - 1)
      <4>1. PICK k \in 1..Len(t.todo) : s = <<t.todo[k], t.symbol>>
        BY <1>6, <2>2, <2>3, <3>2 DEF Searched
      <4>2. s # q
        BY <1>15, <2>3, <3>2
      <4>3. k # 1
        BY <1>9, <1>13, <4>1, <4>2
      <4>4. k - 1 \in 1..Len(rest) /\ k - 1 \in 1..(Len(t.todo) - 1) /\ k - 1 + 1 = k
        BY <1>9, <4>3
      <4>5. rest[k - 1] = t.todo[k]
        BY <1>9, <4>4
      <4>6. QED
        BY <1>6, <4>1, <4>4, <4>5
    <3>3. QED
      BY <3>1, <3>2
  <2>4. Clear(Key(g), g.budget) => Searched(f)
    BY <2>3 DEF Searched
  <2>5. Key(f) = Key(Top) /\ f.budget = Top.budget /\ g.stage # "umbrella"
    BY <1>1, <1>6, <1>7, <1>15
  <2>6. QED
    BY <1>2, <1>6, <1>16, <2>1, <2>4, <2>5, SearchPush
<1>21. QED
  BY <1>2, <1>4, <1>16, <1>19, <1>20, ContinueLInv

(* symbol_resolve starts at what is asked for.                             *)
LEMMA SymbolResolveLInv ==
    ASSUME IInv, LInv, SymbolResolve
    PROVE  LInv'
<1>1. PICK q \in Queries : /\ query' = q
                           /\ frames' = <<Frame(q[1], q[2], MAX_REEXPORT_RESOLUTION_DEPTH)>>
  BY DEF SymbolResolve
<1>2. phase = "ready" /\ phase' = "resolve" /\ cache' = cache /\ result' = result /\ result = None
  BY DEF SymbolResolve, LInv, AnswerOK
<1>3. PICK f : f = Frame(q[1], q[2], MAX_REEXPORT_RESOLUTION_DEPTH)
  OBVIOUS
<1>4. f.path = q[1] /\ f.symbol = q[2] /\ f.budget = MAX_REEXPORT_RESOLUTION_DEPTH /\ f.stage = "entered"
  BY <1>3 DEF Frame
<1>5. q = <<q[1], q[2]>>
  BY QueriesAssumption
<1>6. Key(f) = q
  BY <1>4, <1>5 DEF Key
<1>7. PICK fs : fs = <<f>>
  OBVIOUS
<1>8. frames' = fs /\ Len(fs) = 1 /\ fs[1] = f
  BY <1>1, <1>3, <1>7
<1>9. LookOK(f)'
  <2>1. MAX_REEXPORT_RESOLUTION_DEPTH \in Nat
        /\ MAX_REEXPORT_RESOLUTION_DEPTH - f.budget = 0
    BY <1>4, BudgetAssumption
  <2>2. PICK S : S = {q}
    OBVIOUS
  <2>3. ReachedFrom(S)' = ReachedFrom(S) /\ ReachedFrom(S)[0] = S
    BY <1>2, SameGraph, ReachFacts
  <2>4. Key(f) \in ReachedFrom({query})'[MAX_REEXPORT_RESOLUTION_DEPTH - f.budget]
    BY <1>1, <1>6, <2>1, <2>2, <2>3
  <2>5. f.stage # "looked" /\ f.stage # "trie" /\ f.stage # "umbrella"
    BY <1>4
  <2>6. Key(f)' = query'
    BY <1>1, <1>6 DEF Key
  <2>7. QED
    BY <1>4, <2>4, <2>5, <2>6 DEF LookOK, Key
<1>10. SearchOK(fs)'
  <2>1. \A i \in 1..Len(fs) : fs[i].stage # "umbrella"
    BY <1>4, <1>8
  <2>2. \A i \in 1..(Len(fs) - 1) : FALSE
    BY <1>8
  <2>3. Clear(Key(fs[1]), fs[1].budget)' => Clear(query, MAX_REEXPORT_RESOLUTION_DEPTH)'
    BY <1>1, <1>4, <1>6, <1>8 DEF Key
  <2>4. QED
    BY <2>1, <2>2, <2>3 DEF SearchOK
<1>11. result'.kind # "address"
  BY <1>2 DEF None
<1>12. AnswerOK'
  BY <1>1, <1>2, <1>5, <1>11 DEF AnswerOK, AnswersAsLinked
<1>13. \A i \in 1..Len(frames') : LookOK(frames[i])'
  BY <1>8, <1>9
<1>14. SearchOK(frames)'
  BY <1>8, <1>10
<1>15. QED
  BY <1>12, <1>13, <1>14 DEF LInv

(* Every step keeps what is said of the lookup, as long as the ordinals    *)
(* are counted right.                                                      *)
LEMMA NextLInv == IInv /\ LInv /\ OrdinalsAgree /\ [Next]_vars => LInv'
<1> SUFFICES ASSUME IInv, LInv, OrdinalsAgree, [Next]_vars PROVE LInv'
  OBVIOUS
<1>1. CASE \/ Attach \/ AttachFails \/ Attached \/ IndexImage \/ SkipImage \/ IndexFails
           \/ IndexPanics \/ Indexed
  <2>1. /\ phase \in {"attach", "index"}
        /\ phase' \in {"attach", "index", "ready", "failed", "panicked"}
        /\ frames' = frames /\ result' = result
    BY <1>1 DEF Attach, AttachFails, Attached, AtImage, AtEntry, IndexImage, SkipImage,
                IndexFails, IndexPanics, Indexed
  <2>2. Len(frames) = 0 /\ result = None
    <3>1. IsSeq(frames) /\ ~(Len(frames) > 0)
      BY <2>1 DEF IInv, Typed, FramesOK
    <3>2. Len(frames) \in Nat
      BY <3>1, IsSeqFacts
    <3>3. QED
      BY <2>1, <3>1, <3>2 DEF LInv, AnswerOK
  <2>3. QED
    BY <2>1, <2>2, IdleLInv
<1>2. CASE SymbolResolve
  BY <1>2, SymbolResolveLInv
<1>3. CASE OutOfBudget \/ NotCached \/ UmbrellaDone
  BY <1>3, ReturnsLInv
<1>4. CASE FindLibrary
  BY <1>4, FindLibraryLInv
<1>5. CASE FindTrie
  BY <1>5, FindTrieLInv
<1>6. CASE LookInTrie
  BY <1>6, LookInTrieLInv
<1>7. CASE Found
  BY <1>7, FoundLInv
<1>8. CASE FollowReexport
  BY <1>8, FollowReexportLInv
<1>9. CASE CollectReexports
  BY <1>9, CollectReexportsLInv
<1>10. CASE CollectFails
  BY <1>10, CollectFailsLInv
<1>11. CASE UmbrellaNext
  BY <1>11, UmbrellaNextLInv
<1>12. CASE Ended \/ UNCHANGED vars
  <2>1. cache' = cache /\ phase' = phase /\ query' = query /\ frames' = frames /\ result' = result
    BY <1>12 DEF Ended, vars
  <2>2. \A i \in 1..Len(frames') : LookOK(frames[i])'
    <3>1. PICK fs : fs = frames
      OBVIOUS
    <3>2. \A i \in 1..Len(fs) : LookOK(fs[i])'
      BY <2>1, <3>1, SameSearch DEF LInv
    <3>3. QED
      BY <2>1, <3>1, <3>2
  <2>3. (WellFormed => SearchOK(frames))'
    BY <2>1, SameSearch, SameGraph DEF LInv
  <2>4. AnswersAsLinked' = AnswersAsLinked
    BY <2>1, SameDefinitions, SameGraph DEF AnswersAsLinked
  <2>5. Clear(query, MAX_REEXPORT_RESOLUTION_DEPTH)' = Clear(query, MAX_REEXPORT_RESOLUTION_DEPTH)
    BY <2>1, SameSearch
  <2>6. AnswerOK'
    BY <2>1, <2>4, <2>5, SameGraph DEF LInv, AnswerOK
  <2>7. QED
    BY <2>2, <2>3, <2>6 DEF LInv
<1>13. QED
  BY <1>1, <1>2, <1>3, <1>4, <1>5, <1>6, <1>7, <1>8, <1>9, <1>10, <1>11, <1>12 DEF Next

(* No step changes the cache.                                              *)
LEMMA CacheStays == [Next]_vars => cache' = cache
  BY DEF Next, vars, Attach, AttachFails, Attached, IndexImage, SkipImage, IndexFails,
         IndexPanics, Indexed, SymbolResolve, OutOfBudget, NotCached, FindLibrary, FindTrie,
         LookInTrie, Found, FollowReexport, CollectReexports, CollectFails, UmbrellaNext,
         UmbrellaDone, Ended, ReturnNone, Continue, Leave

(* What symbol_resolve has found, and what it has not, at every moment of  *)
(* a lookup.                                                               *)
THEOREM LookupInvariant == Spec => [](OrdinalsAgree => LInv)
<1>1. Init => LInv
  <2> SUFFICES ASSUME Init PROVE LInv
    OBVIOUS
  <2>1. Len(frames) = 0 /\ result = None /\ phase = "attach"
    BY DEF Init
  <2>2. result.kind # "address"
    BY <2>1 DEF None
  <2>3. AnswerOK
    BY <2>1, <2>2 DEF AnswerOK, AnswersAsLinked
  <2>4. SearchOK(frames) /\ \A i \in 1..Len(frames) : FALSE
    BY <2>1 DEF SearchOK
  <2>5. QED
    BY <2>3, <2>4 DEF LInv
<1>2. IInv /\ (OrdinalsAgree => LInv) /\ [Next]_vars => (OrdinalsAgree => LInv)'
  BY NextLInv, CacheStays, SameGraph
<1>3. QED
  BY <1>1, <1>2, CacheInvariant, PTL DEF Spec

(* An address that symbol_resolve returns is the runtime address of a      *)
(* definition that the re-exports lead to from the query, by the ordinals  *)
(* of all the libraries a file lists, and of the library's own one if it   *)
(* has one: for every cache at the assumed base in which the code counts   *)
(* the ordinals of re-exports right, every re-export graph and budget.     *)
THEOREM AnswersAreDefinitions == AtLikelyBase => (Spec => []ResolvesToDefinition)
<1> SUFFICES ASSUME AtLikelyBase PROVE Spec => []ResolvesToDefinition
  OBVIOUS
<1>1. (OrdinalsAgree => LInv) => ResolvesToDefinition
  BY DEF LInv, AnswerOK, ResolvesToDefinition
<1>2. QED
  BY <1>1, LookupInvariant, PTL

(* A lookup in a well-formed cache does not fail, and none of the          *)
(* definitions within the budget is missed: the depth-first search with a  *)
(* budget per branch, without a memory of what it has visited, reaches all *)
(* that the re-exports reach.                                              *)
THEOREM DefinitionsAreFound == Spec => []FindsDefinition
<1>1. IInv /\ (OrdinalsAgree => LInv) => FindsDefinition
  <2> SUFFICES ASSUME IInv, LInv, phase = "answered", WellFormed
               PROVE  /\ result.kind # "error"
                      /\ Definitions # {} => result.kind = "address"
    BY DEF FindsDefinition
  <2>1. /\ result.kind # "error"
        /\ result.kind = "none" => Clear(query, MAX_REEXPORT_RESOLUTION_DEPTH)
    BY DEF LInv, AnswerOK
  <2>2. result.kind \in {"none", "error", "address"}
    BY DEF IInv, Typed
  <2>3. MAX_REEXPORT_RESOLUTION_DEPTH > 0
    BY BudgetAssumption
  <2>4. Clear(query, MAX_REEXPORT_RESOLUTION_DEPTH) => Definitions = {}
    BY <2>3 DEF Clear, Definitions, Reached, Defines
  <2>5. QED
    BY <2>1, <2>2, <2>4
<1>2. QED
  BY <1>1, CacheInvariant, LookupInvariant, PTL

=============================================================================
