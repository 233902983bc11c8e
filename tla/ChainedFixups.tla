--------------------------- MODULE ChainedFixups ---------------------------
(***************************************************************************)
(* chained_fixups_parse_all: finding LC_DYLD_CHAINED_FIXUPS, walking the   *)
(* chains of every page of every segment, and decoding each pointer from   *)
(* its bits.                                                               *)
(*                                                                         *)
(* A 64-bit value is the set of the positions of its one bits, so that     *)
(* (v >> s) & mask is a shifted intersection and | is union.  Offsets are  *)
(* numbers.  The tables of the command's payload are given as they decode; *)
(* a table the file is too short for is marked as such.                    *)
(***************************************************************************)
EXTENDS Integers, Sequences, FiniteSetsExt, TLC

Word == SUBSET (0..63)
U16 == 0..65535

(* (w >> low) & (2^width - 1)                                              *)
Bits(w, low, width) == {b - low : b \in w \cap (low..(low + width - 1))}

ShiftLeft(w, by) == {b + by : b \in w}

(* The number in a field of at most 24 bits, from the highest bit down.    *)
Number(w) ==
    LET value[n \in 0..24] ==
            IF n = 0 THEN 0 ELSE 2 * value[n - 1] + (IF 24 - n \in w THEN 1 ELSE 0)
    IN  value[24]

-----------------------------------------------------------------------------
(* The bit fields of bindings_macho.rs that the parser reads.              *)

dyld_chained_ptr_arm64e_rebase(w) ==
    [target |-> Bits(w, 0, 43), high8 |-> Bits(w, 43, 8), next |-> Bits(w, 51, 11)]

dyld_chained_ptr_arm64e_bind(w) ==
    [ordinal |-> Bits(w, 0, 16), addend |-> Bits(w, 32, 19), next |-> Bits(w, 51, 11)]

dyld_chained_ptr_arm64e_auth_rebase(w) ==
    [target |-> Bits(w, 0, 32), next |-> Bits(w, 51, 11)]

dyld_chained_ptr_arm64e_auth_bind(w) ==
    [ordinal |-> Bits(w, 0, 16), next |-> Bits(w, 51, 11)]

dyld_chained_ptr_64_rebase(w) ==
    [target |-> Bits(w, 0, 36), high8 |-> Bits(w, 36, 8), next |-> Bits(w, 51, 12)]

dyld_chained_ptr_64_bind(w) ==
    [ordinal |-> Bits(w, 0, 24), addend |-> Bits(w, 24, 8), next |-> Bits(w, 51, 12)]

dyld_chained_ptr_arm64e_bind_24(w) ==
    [ordinal |-> Bits(w, 0, 24), addend |-> Bits(w, 32, 19), next |-> Bits(w, 51, 11)]

dyld_chained_ptr_arm64e_auth_bind_24(w) ==
    [ordinal |-> Bits(w, 0, 24), next |-> Bits(w, 51, 11)]

(* Mutant of dyld_chained_import: the weak bit is taken for a bit of the   *)
(* ordinal.                                                                *)
dyld_chained_import_wide(w) ==
    [lib_ordinal |-> Bits(w, 0, 9), name_offset |-> Bits(w, 9, 23)]

dyld_chained_import(w) == [lib_ordinal |-> Bits(w, 0, 8), name_offset |-> Bits(w, 9, 23)]

-----------------------------------------------------------------------------
(* What the parser reads.                                                  *)

PointerFormats == {"PTR_64", "PTR_64_OFFSET", "ARM64E", "ARM64E_USERLAND",
                   "ARM64E_USERLAND24", "unimplemented"}
ImportFormats == {"IMPORT", "IMPORT_ADDEND", "IMPORT_ADDEND64"}

(* An entry of the segment table: absent when its offset is 0, unreadable  *)
(* when the file ends before it.  page_starts may be shorter than          *)
(* page_count when the file ends within it.                                *)
IsStarts(s) ==
    /\ s.state \in {"absent", "unreadable", "present"}
    /\ s.state = "present" =>
          /\ s.segment_offset \in Nat /\ s.page_size \in Nat /\ s.page_count \in Nat
          /\ s.pointer_format \in PointerFormats
          /\ s.page_starts \in Seq(U16) /\ Len(s.page_starts) <= s.page_count

(* An image: its load commands; whether the structures the command leads   *)
(* to can be read; its import table by index, and the string at each name  *)
(* offset (long: more than SYMBOL_NAME_LEN bytes); its segment table; the  *)
(* length of its bytes, and the values in them.                            *)
IsImage(img) ==
    /\ img.commands \in Seq({"LC_DYLD_CHAINED_FIXUPS", "other", "unreadable"})
    /\ img.has_header \in BOOLEAN
    /\ img.imports_format \in ImportFormats
    /\ \A i \in DOMAIN img.imports : i \in Word /\ img.imports[i].header \in Word
                                     /\ img.imports[i].addend \in Word
    /\ \A o \in DOMAIN img.symbols : o \in Word /\ img.symbols[o].text \in STRING
                                     /\ img.symbols[o].long \in BOOLEAN
    /\ Len(img.segs) \in Nat /\ DOMAIN img.segs = 1..Len(img.segs)
    /\ \A i \in DOMAIN img.segs : IsStarts(img.segs[i])
    /\ img.size \in Nat /\ img.rest \in Word
    /\ \A o \in DOMAIN img.words : o \in Nat /\ img.words[o] \in Word

VARIABLES
    image,      \* the image being parsed; never changes
    cursor,     \* where the nested loops are
    fixups      \* the Vec<Fixup> under construction

parser_vars == <<image, cursor, fixups>>

Fixup == [kind : {"rebase"}, offset : Nat, target : Word]
    \cup [kind : {"bind"}, offset : Nat, symbol : STRING, ordinal : 0..255,
          addend : Int, is_auth : BOOLEAN]

Running == {"commands", "segments", "pages", "chain"}
Cursor == [pc : Running \cup {"parsed", "error", "panic"},
           at : Nat, seg : Nat, page : Nat, offset : Nat]

ParserTypeOK == cursor \in Cursor /\ fixups \in Seq(Fixup)

ParserInit ==
    /\ cursor = [pc |-> "commands", at |-> 0, seg |-> 0, page |-> 0, offset |-> 0]
    /\ fixups = << >>

Goto(pc) == cursor' = [cursor EXCEPT !.pc = pc] /\ UNCHANGED <<image, fixups>>

-----------------------------------------------------------------------------
(* chained_fixups_header_and_offset_find: LCIterator up to the command.    *)

Command == image.commands[cursor.at + 1]

SkipCommand ==
    /\ cursor.pc = "commands"
    /\ cursor.at < Len(image.commands) /\ Command = "other"
    /\ cursor' = [cursor EXCEPT !.at = @ + 1]
    /\ UNCHANGED <<image, fixups>>

CommandFails ==
    /\ cursor.pc = "commands"
    /\ cursor.at < Len(image.commands) /\ Command = "unreadable"
    /\ Goto("error")

(* An image without the command has no fixups, which is not an error.      *)
NoFixups ==
    /\ cursor.pc = "commands"
    /\ cursor.at = Len(image.commands)
    /\ Goto("parsed")

(* linkedit_data_command, dyld_chained_fixups_header and                   *)
(* dyld_chained_starts_in_image.                                           *)
ReadHeader ==
    /\ cursor.pc = "commands"
    /\ cursor.at < Len(image.commands) /\ Command = "LC_DYLD_CHAINED_FIXUPS"
    /\ \/ image.has_header /\ Goto("segments")
       \/ ~image.has_header /\ Goto("error")

-----------------------------------------------------------------------------
(* The loops over segments and pages.                                      *)

Starts == image.segs[cursor.seg + 1]

(* "Sometimes segment_offset is 0 ... just ignores them"                   *)
SkipSegment ==
    /\ cursor.pc = "segments"
    /\ cursor.seg < Len(image.segs) /\ Starts.state = "absent"
    /\ cursor' = [cursor EXCEPT !.seg = @ + 1]
    /\ UNCHANGED <<image, fixups>>

EnterSegment ==
    /\ cursor.pc = "segments"
    /\ cursor.seg < Len(image.segs) /\ Starts.state = "present"
    /\ cursor' = [cursor EXCEPT !.pc = "pages", !.page = 0]
    /\ UNCHANGED <<image, fixups>>

SegmentFails ==
    /\ cursor.pc = "segments"
    /\ cursor.seg < Len(image.segs) /\ Starts.state = "unreadable"
    /\ Goto("error")

SegmentsDone ==
    /\ cursor.pc = "segments"
    /\ cursor.seg = Len(image.segs)
    /\ Goto("parsed")

(* The first location of the page's chain.  DYLD_CHAINED_PTR_START_NONE is *)
(* a page start like any other.                                            *)
EnterPage ==
    /\ cursor.pc = "pages"
    /\ cursor.page < Starts.page_count /\ cursor.page < Len(Starts.page_starts)
    /\ cursor' = [cursor EXCEPT
          !.pc = "chain",
          !.offset = Starts.segment_offset + cursor.page * Starts.page_size
                        + Starts.page_starts[cursor.page + 1]]
    /\ UNCHANGED <<image, fixups>>

PageFails ==
    /\ cursor.pc = "pages"
    /\ cursor.page < Starts.page_count /\ cursor.page >= Len(Starts.page_starts)
    /\ Goto("error")

PagesDone ==
    /\ cursor.pc = "pages"
    /\ cursor.page = Starts.page_count
    /\ cursor' = [cursor EXCEPT !.pc = "segments", !.seg = @ + 1]
    /\ UNCHANGED <<image, fixups>>

-----------------------------------------------------------------------------
(* One pointer.  next is in bytes; a bind names an entry of the imports.   *)

Rebase(target, next) == [kind |-> "rebase", target |-> target, next |-> next]
Bind(import, next, addend, is_auth) ==
    [kind |-> "bind", import |-> import, next |-> next, addend |-> addend,
     is_auth |-> is_auth]

fixup_64_parse_one(value) ==
    IF 63 \in value
    THEN LET p == dyld_chained_ptr_64_bind(value)
         IN  Bind(p.ordinal, Number(p.next) * 4, Number(p.addend), FALSE)
    ELSE LET p == dyld_chained_ptr_64_rebase(value)
         IN  Rebase(p.target \cup ShiftLeft(p.high8, 56), Number(p.next) * 4)

fixup_arm64e_parse_one(value) ==
    CASE 62 \in value /\ 63 \in value ->
            LET p == dyld_chained_ptr_arm64e_auth_bind(value)
            IN  Bind(p.ordinal, Number(p.next) * 8, 0, TRUE)
      [] 62 \in value /\ 63 \notin value ->
            LET p == dyld_chained_ptr_arm64e_bind(value)
            IN  Bind(p.ordinal, Number(p.next) * 8, Number(p.addend), FALSE)
      [] 62 \notin value /\ 63 \in value ->
            LET p == dyld_chained_ptr_arm64e_auth_rebase(value)
            IN  Rebase(p.target, Number(p.next) * 8)
      [] OTHER ->
            LET p == dyld_chained_ptr_arm64e_rebase(value)
            IN  Rebase(p.target \cup ShiftLeft(p.high8, 56), Number(p.next) * 8)

(* Mutant of fixup_arm64e_userland24_parse_one: binds are read with the    *)
(* 16-bit ordinals of the other ARM64E formats.                            *)
fixup_arm64e_userland24_parse_one_narrow(value) == fixup_arm64e_parse_one(value)

fixup_arm64e_userland24_parse_one(value) ==
    CASE 62 \in value /\ 63 \in value ->
            LET p == dyld_chained_ptr_arm64e_auth_bind_24(value)
            IN  Bind(p.ordinal, Number(p.next) * 8, 0, TRUE)
      [] 62 \in value /\ 63 \notin value ->
            LET p == dyld_chained_ptr_arm64e_bind_24(value)
            IN  Bind(p.ordinal, Number(p.next) * 8, Number(p.addend), FALSE)
      [] OTHER -> fixup_arm64e_parse_one(value)

(* match pointer_format                                                    *)
ParseOne(value) ==
    CASE Starts.pointer_format \in {"PTR_64", "PTR_64_OFFSET"} -> fixup_64_parse_one(value)
      [] Starts.pointer_format \in {"ARM64E", "ARM64E_USERLAND"} ->
            fixup_arm64e_parse_one(value)
      [] Starts.pointer_format = "ARM64E_USERLAND24" ->
            fixup_arm64e_userland24_parse_one(value)

(* import_symbol_parse, for an index inside the table.  The two formats    *)
(* with addends take the addend for the name offset.                       *)
ImportOf(index) ==
    LET import == image.imports[index]
        header == dyld_chained_import(import.header)
    IN  [lib_ordinal |-> Number(header.lib_ordinal),
         name_offset |-> IF image.imports_format = "IMPORT"
                         THEN header.name_offset
                         ELSE Bits(import.addend, 0, 32)]

(* The u64 at the cursor, if the container holds eight bytes there.        *)
Readable == cursor.offset + 8 <= image.size
Value == IF cursor.offset \in DOMAIN image.words
         THEN image.words[cursor.offset] ELSE image.rest
Pointer == ParseOne(Value)

AtPointer ==
    /\ cursor.pc = "chain"
    /\ Readable
    /\ Starts.pointer_format # "unimplemented"

(* fixups.push, then the end of the chain or its next location.            *)
Push(fixup, next) ==
    /\ UNCHANGED image
    /\ fixups' = Append(fixups, fixup)
    /\ cursor' = IF next = 0
                 THEN [cursor EXCEPT !.pc = "pages", !.page = @ + 1]
                 ELSE [cursor EXCEPT !.offset = @ + next]

PushRebase ==
    /\ AtPointer
    /\ \E p \in {Pointer} :
          /\ p.kind = "rebase"
          /\ Push([kind |-> "rebase", offset |-> cursor.offset, target |-> p.target],
                  p.next)

PushBind ==
    /\ AtPointer
    /\ \E p \in {Pointer} :
          /\ p.kind = "bind" /\ p.import \in DOMAIN image.imports
          /\ LET import == ImportOf(p.import)
             IN  /\ import.name_offset \in DOMAIN image.symbols
                 /\ ~image.symbols[import.name_offset].long
                 /\ Push([kind |-> "bind", offset |-> cursor.offset,
                          symbol |-> image.symbols[import.name_offset].text,
                          ordinal |-> import.lib_ordinal,
                          addend |-> p.addend, is_auth |-> p.is_auth], p.next)

(* The import's index lies behind the end of the file.                     *)
ImportFails ==
    /\ AtPointer
    /\ Pointer.kind = "bind" /\ Pointer.import \notin DOMAIN image.imports
    /\ Goto("error")

(* deserialize_string_at_offset panics without a terminated UTF-8 string   *)
(* there, and the unwrap of try_from_str on one that is too long.          *)
NamePanics ==
    /\ AtPointer
    /\ Pointer.kind = "bind" /\ Pointer.import \in DOMAIN image.imports
    /\ LET offset == ImportOf(Pointer.import).name_offset
       IN  offset \in DOMAIN image.symbols => image.symbols[offset].long
    /\ Goto("panic")

ValueFails ==
    /\ cursor.pc = "chain"
    /\ ~Readable
    /\ Goto("error")

FormatPanics ==
    /\ cursor.pc = "chain"
    /\ Readable
    /\ Starts.pointer_format = "unimplemented"
    /\ Goto("panic")

Parse ==
    \/ SkipCommand \/ CommandFails \/ NoFixups \/ ReadHeader
    \/ SkipSegment \/ EnterSegment \/ SegmentFails \/ SegmentsDone
    \/ EnterPage \/ PageFails \/ PagesDone
    \/ PushRebase \/ PushBind \/ ImportFails \/ NamePanics \/ ValueFails \/ FormatPanics
=============================================================================
