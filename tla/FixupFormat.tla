---------------------------- MODULE FixupFormat ----------------------------
(***************************************************************************)
(* The reference for the fixup parser: the layouts that the comments of    *)
(* bindings_macho.rs document, read in the other direction.  A plan says   *)
(* which pointers an image is meant to have and where; ImageOf lays it out *)
(* in bits, and MeantFixups is what a parser must find.                    *)
(*                                                                         *)
(* A plan has segments; a segment has pages; a page is the sequence of its *)
(* pointers, each at a distance from the one before it (the first one from *)
(* the start of the page).  Its places list them all, in the order of the  *)
(* image.                                                                  *)
(***************************************************************************)
EXTENDS ChainedFixups

DYLD_CHAINED_PTR_START_NONE == 65535

(* The one bits of a number of 16 bits, from the lowest bit up.            *)
WordOf(n) ==
    LET half[b \in 0..15] == IF b = 0 THEN n ELSE half[b - 1] \div 2
    IN  {b \in 0..15 : half[b] % 2 = 1}

(* "stride 8" and "4-byte stride", and the width of the next field         *)
Ptr64 == {"PTR_64", "PTR_64_OFFSET"}
StrideOf(format) == IF format \in Ptr64 THEN 4 ELSE 8
MaxNext(format) == IF format \in Ptr64 THEN 4095 ELSE 2047

(* A pointer's word, field by field.  The fields a pointer does not have   *)
(* are empty.  extra stands for the bits of diversity, key and addrDiv.    *)
Layout(format, p) ==
    LET rebase == p.kind = "rebase"
    IN  IF format \in Ptr64
        THEN [value |-> 0, high8 |-> 36, addend |-> 24, extra |-> 44,
              flags |-> IF rebase THEN {} ELSE {63}]
        ELSE [value |-> 0, high8 |-> 43, addend |-> 32, extra |-> 32,
              flags |-> (IF rebase THEN {} ELSE {62}) \cup (IF p.auth THEN {63} ELSE {})]

Encode(format, p, next) ==
    LET at == Layout(format, p)
    IN  ShiftLeft(p.value, at.value) \cup ShiftLeft(p.high8, at.high8)
          \cup ShiftLeft(p.addend, at.addend) \cup ShiftLeft(p.extra, at.extra)
          \cup ShiftLeft(WordOf(next \div StrideOf(format)), 51) \cup at.flags

(* The pointers of each format, with the widths of their fields.           *)
Field(width) == SUBSET (0..(width - 1))

PointerForm(kind, auth, value, high8, addend, extra) ==
    [kind : {kind}, auth : {auth}, value : Field(value), high8 : Field(high8),
     addend : Field(addend), extra : Field(extra)]

PointerForms(format) ==
    IF format \in Ptr64
    THEN PointerForm("rebase", FALSE, 36, 8, 0, 0) \cup PointerForm("bind", FALSE, 24, 0, 8, 0)
    ELSE LET ordinal == IF format = "ARM64E_USERLAND24" THEN 24 ELSE 16
         IN  PointerForm("rebase", FALSE, 43, 8, 0, 0)
               \cup PointerForm("rebase", TRUE, 32, 0, 0, 19)
               \cup PointerForm("bind", FALSE, ordinal, 0, 19, 0)
               \cup PointerForm("bind", TRUE, ordinal, 0, 0, 19)

-----------------------------------------------------------------------------
(* The bytes from the start of a page to its pointer k.                    *)
Distance(page, k) ==
    LET sum[i \in 0..Len(page)] == IF i = 0 THEN 0 ELSE sum[i - 1] + page[i].distance
    IN  sum[k]

Place(s, g, k) == [seg |-> s, page |-> g, nth |-> k]

PageAt(plan, q) == plan.segments[q.seg].pages[q.page]
FormatAt(plan, q) == plan.segments[q.seg].pointer_format
PlannedAt(plan, q) == PageAt(plan, q)[q.nth].pointer
OffsetAt(plan, q) ==
    plan.segments[q.seg].segment_offset + (q.page - 1) * plan.segments[q.seg].page_size
        + Distance(PageAt(plan, q), q.nth)
NextAt(plan, q) ==
    IF q.nth = Len(PageAt(plan, q)) THEN 0 ELSE PageAt(plan, q)[q.nth + 1].distance

StartsOf(seg) ==
    IF seg.pages = << >> THEN [state |-> "absent"]
    ELSE [state |-> "present", segment_offset |-> seg.segment_offset,
          page_size |-> seg.page_size, page_count |-> Len(seg.pages),
          pointer_format |-> seg.pointer_format,
          page_starts |-> [g \in DOMAIN seg.pages |->
                IF seg.pages[g] = << >> THEN DYLD_CHAINED_PTR_START_NONE
                ELSE seg.pages[g][1].distance]]

(* An import's word: "[0..=7] libOrdinal [8] weakImport [9..=31] nameOffset" *)
ImportWord(import) ==
    WordOf(import.library) \cup (IF import.weak THEN {8} ELSE {})
        \cup ShiftLeft(import.name, 9)

ImageOf(plan) ==
    LET offset(i) == OffsetAt(plan, plan.places[i])
    IN  [commands |-> plan.commands, has_header |-> TRUE,
         imports_format |-> plan.imports_format,
         imports |-> [i \in DOMAIN plan.imports |->
                [header |-> ImportWord(plan.imports[i]), addend |-> plan.imports[i].addend]],
         symbols |-> plan.symbols,
         segs |-> [s \in DOMAIN plan.segments |-> StartsOf(plan.segments[s])],
         size |-> plan.size, rest |-> {},
         words |-> [o \in {offset(i) : i \in DOMAIN plan.places} |->
                LET q == plan.places[CHOOSE i \in DOMAIN plan.places : offset(i) = o]
                IN  Encode(FormatAt(plan, q), PlannedAt(plan, q), NextAt(plan, q))]]

(* "target is vmaddr" in DYLD_CHAINED_PTR_64 and DYLD_CHAINED_PTR_ARM64E,  *)
(* "vm offset" in the others.  vm_base is a word whose bits no offset has. *)
TargetOf(plan, format, p) ==
    (IF format \in {"PTR_64", "ARM64E"} THEN p.value \ plan.vm_base ELSE p.value)
        \cup ShiftLeft(p.high8, 56)

(* "+/-256K": the addend of an ARM64E bind is signed, here by its set of   *)
(* bits and its sign bit 18.                                               *)
AddendOf(format, p) ==
    IF format \in Ptr64 \/ 18 \notin p.addend
    THEN Number(p.addend)
    ELSE Number(p.addend \ {18}) - 2^18

FixupAt(plan, q) ==
    LET p == PlannedAt(plan, q)
    IN  IF p.kind = "rebase"
        THEN [kind |-> "rebase", offset |-> OffsetAt(plan, q),
              target |-> TargetOf(plan, FormatAt(plan, q), p)]
        ELSE [kind |-> "bind", offset |-> OffsetAt(plan, q),
              symbol |-> plan.symbols[plan.imports[p.value].name].text,
              ordinal |-> plan.imports[p.value].library,
              addend |-> IF p.auth THEN 0 ELSE AddendOf(FormatAt(plan, q), p),
              is_auth |-> p.auth]

MeantFixups(plan) ==
    IF \E c \in DOMAIN plan.commands : plan.commands[c] = "LC_DYLD_CHAINED_FIXUPS"
    THEN [i \in DOMAIN plan.places |-> FixupAt(plan, plan.places[i])] ELSE << >>

-----------------------------------------------------------------------------
(* What a linker lays out: chains that stay within the reach of the next   *)
(* field and inside the file, and binds to imports that exist.             *)

IsSegment(seg) ==
    /\ seg.segment_offset \in Nat /\ seg.page_size \in Nat
    /\ seg.pointer_format \in PointerFormats \ {"unimplemented"}
    /\ seg.pages \in Seq(Seq([distance : Nat, pointer : PointerForms(seg.pointer_format)]))
    /\ \A g \in DOMAIN seg.pages : \A k \in DOMAIN seg.pages[g] :
          IF k = 1 THEN seg.pages[g][k].distance < DYLD_CHAINED_PTR_START_NONE
          ELSE \E n \in 1..MaxNext(seg.pointer_format) :
                  seg.pages[g][k].distance = n * StrideOf(seg.pointer_format)

IsPlace(plan, q) ==
    /\ q.seg \in DOMAIN plan.segments
    /\ q.page \in DOMAIN plan.segments[q.seg].pages
    /\ q.nth \in DOMAIN plan.segments[q.seg].pages[q.page]

Before(q, r) ==
    \/ q.seg < r.seg
    \/ q.seg = r.seg /\ q.page < r.page
    \/ q.seg = r.seg /\ q.page = r.page /\ q.nth < r.nth

ListsPlaces(plan) ==
    /\ plan.places \in Seq([seg : Nat, page : Nat, nth : Nat])
    /\ \A i \in DOMAIN plan.places : IsPlace(plan, plan.places[i])
    /\ \A i, j \in DOMAIN plan.places : i < j => Before(plan.places[i], plan.places[j])
    /\ \A s \in DOMAIN plan.segments : \A g \in DOMAIN plan.segments[s].pages :
          \A k \in DOMAIN plan.segments[s].pages[g] :
             \E i \in DOMAIN plan.places : plan.places[i] = Place(s, g, k)

IsPlan(plan) ==
    /\ plan.commands \in Seq({"LC_DYLD_CHAINED_FIXUPS", "other", "unreadable"})
    /\ Len(plan.segments) \in Nat /\ DOMAIN plan.segments = 1..Len(plan.segments)
    /\ \A s \in DOMAIN plan.segments : IsSegment(plan.segments[s])
    /\ ListsPlaces(plan)
    /\ \A i, j \in DOMAIN plan.places :
          OffsetAt(plan, plan.places[i]) = OffsetAt(plan, plan.places[j]) => i = j
    /\ \A i \in DOMAIN plan.places :
          LET q == plan.places[i]
              p == PlannedAt(plan, q)
          IN  /\ OffsetAt(plan, q) + 8 <= plan.size
              /\ p.kind = "bind" =>
                    /\ p.value \in DOMAIN plan.imports
                    /\ plan.imports[p.value].library \in 0..255
                    /\ plan.imports[p.value].name \in Field(23) \cap DOMAIN plan.symbols
                    /\ ~plan.symbols[plan.imports[p.value].name].long

(* The forms that the parser takes as they are documented: no page without *)
(* fixups, imports without addends, no negative addends, targets that are  *)
(* offsets, and load commands it can read up to the one it looks for.      *)
IsPlain(plan) ==
    /\ plan.imports_format = "IMPORT"
    /\ \A s \in DOMAIN plan.segments : \A g \in DOMAIN plan.segments[s].pages :
          plan.segments[s].pages[g] # << >>
    /\ \A i \in DOMAIN plan.places :
          LET p == PlannedAt(plan, plan.places[i])
              format == FormatAt(plan, plan.places[i])
          IN  /\ p.kind = "bind" /\ format \notin Ptr64 => 18 \notin p.addend
              /\ p.kind = "rebase" /\ format \in {"PTR_64", "ARM64E"} =>
                    p.value \cap plan.vm_base = {}
    /\ \A c \in DOMAIN plan.commands : plan.commands[c] = "unreadable" =>
          \E d \in 1..c : plan.commands[d] = "LC_DYLD_CHAINED_FIXUPS"

(* dynld's own image is the layout of such a plan, and the fixups it is    *)
(* meant to have are those of the plan.                                    *)
LaidOut(self, meant) ==
    \E plan : IsPlan(plan) /\ IsPlain(plan)
              /\ self = ImageOf(plan) /\ meant = MeantFixups(plan)
=============================================================================
