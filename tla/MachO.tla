------------------------------- MODULE MachO -------------------------------
(***************************************************************************)
(* The data the loader works on: Mach-O files as their sequence of load    *)
(* commands, install names and paths, and the pure decisions loader.rs     *)
(* takes on them (which symbol-table entries it accepts, where it looks    *)
(* for a library).                                                         *)
(*                                                                         *)
(* A path is a sequence of components, so the source's                     *)
(* format!("{exec_dir}/{rest}") is concatenation.  An install name is its  *)
(* placeholder ("" when it has none) and the rest of the name.             *)
(***************************************************************************)
EXTENDS Naturals, FiniteSets, SequencesExt, Selection

CONSTANTS
    PAGE_ZERO_SIZE,     \* size of __PAGEZERO, 4 GiB in the source
    PAGE_SIZE           \* bytes in a page of the kernel's

ASSUME PageZeroAssumption == PAGE_ZERO_SIZE \in Nat
ASSUME PageSizeAssumption == PAGE_SIZE \in Nat \ {0}

Path == Seq(STRING)
Placeholder == {"@rpath", "@loader_path", "@executable_path", ""}
InstallName == [at : Placeholder, rest : Path]

(* Rpath: the three placeholders parse_rpath accepts, "" for None.         *)
Rpath == {"@rpath", "@loader_path", "@executable_path"}

-----------------------------------------------------------------------------
(* Chained fixups, as chained_fixups_parse_all returns them.               *)

RebaseFixup == [kind : {"rebase"}, offset : Nat, target : Nat]
BindFixup   == [kind : {"bind"}, offset : Nat, symbol : STRING, ordinal : Nat]
Fixup == RebaseFixup \cup BindFixup

BIND_SPECIAL_DYLIB_SELF            == 0
BIND_SPECIAL_DYLIB_WEAK_LOOKUP     == 253
BIND_SPECIAL_DYLIB_FLAT_LOOKUP     == 254
BIND_SPECIAL_DYLIB_MAIN_EXECUTABLE == 255

UnsupportedOrdinals == {BIND_SPECIAL_DYLIB_SELF, BIND_SPECIAL_DYLIB_FLAT_LOOKUP,
                        BIND_SPECIAL_DYLIB_MAIN_EXECUTABLE}

Segment == [vm_addr : Nat, vm_size : Nat, file_offset : Nat]
Section == [type : {"init_func_offsets", "thread_local_variables", "other"},
            funcs : Seq(Nat)]

(* An nlist_64 entry.  kind is n_type & N_TYPE, or "stab" when a stab bit  *)
(* is set; long says that the name exceeds SYMBOL_NAME_LEN.                *)
NList == [name : STRING, long : BOOLEAN, kind : {"stab", "sect", "undf", "other"},
          value : Nat, ext : BOOLEAN, pext : BOOLEAN, weak_def : BOOLEAN,
          weak_ref : BOOLEAN, alt_entry : BOOLEAN, resolver : BOOLEAN]
Symbol == [name : STRING, impl_offset : Nat]

LinkedDylibCommands == {"LC_LOAD_DYLIB", "LC_LOAD_WEAK_DYLIB", "LC_LAZY_LOAD_DYLIB"}
DylibCommands == LinkedDylibCommands \cup {"LC_REEXPORT_DYLIB", "LC_LOAD_UPWARD_DYLIB"}

(* A load command.  "unreadable" stands for a command, or a table it       *)
(* refers to, that the file is too short for; "bad_string" for one whose   *)
(* string has no terminator or is not UTF-8; "other" for every command the *)
(* parser does not act on.                                                 *)
Command ==
         [cmd : DylibCommands, name : InstallName]
    \cup [cmd : {"LC_MAIN"}, entryoff : Nat]
    \cup [cmd : {"LC_SYMTAB"}, entries : Seq(NList)]
    \cup [cmd : {"LC_SEGMENT_64"}, segment : Segment, scanned : BOOLEAN,
          sections : Seq(Section)]
    \cup [cmd : {"LC_DYLD_CHAINED_FIXUPS"}, fixups : Seq(Fixup)]
    \cup [cmd : {"LC_RPATH"}, path : Rpath \cup {"unknown"}]
    \cup [cmd : {"unreadable", "bad_string", "other"}]

(* What the export trie of a library says of a symbol.                     *)
Export == [kind : {"defined"}, offset : Nat] \cup [kind : {"reexported"}, ordinal : Nat]

(* A file: its header's type, its load commands, its size, the offset of   *)
(* its exports trie and the exports by name.  misread is what a lookup     *)
(* finds when the mapped image does not have the header or the trie where  *)
(* the file has it: whatever those bytes happen to say.                    *)
IsFile(f) ==
    /\ f = [filetype |-> f.filetype, commands |-> f.commands, size |-> f.size,
            trie |-> f.trie, exports |-> f.exports, misread |-> f.misread]
    /\ f.filetype \in {"MH_EXECUTE", "MH_DYLIB", "unsupported"}
    /\ f.commands \in Seq(Command)
    /\ f.size \in Nat /\ f.trie \in Nat
    /\ \A s \in DOMAIN f.exports : s \in STRING /\ f.exports[s] \in Export
    /\ \A s \in DOMAIN f.misread : s \in STRING /\ f.misread[s] \in Export

(* What one start of dynld finds: the executable, its directory, the files *)
(* that open() would find, and the libraries of the shared cache with the  *)
(* symbols each of them resolves.                                          *)
IsWorld(w) ==
    /\ w.exe \in DOMAIN w.disk /\ w.exec_dir \in Path /\ IsFiniteSet(DOMAIN w.disk)
    /\ \A p \in DOMAIN w.disk : p \in Path /\ IsFile(w.disk[p])
    /\ \A n \in DOMAIN w.cache : n \in InstallName /\ w.cache[n] \subseteq STRING

-----------------------------------------------------------------------------
(* classify_defined_symbol: the rows of its table that yield a symbol.     *)
SupportedDefinition(e) ==
    /\ ~e.alt_entry
    /\ \/ ~e.ext /\ ~e.weak_def
       \/ e.ext /\ ~e.pext /\ e.weak_def /\ ~e.weak_ref
       \/ e.ext /\ ~e.pext /\ ~e.weak_def /\ ~e.resolver

(* parse_symtab's loop body: what one entry does to the parse.             *)
SymbolVerdict(e) ==
    CASE e.kind = "sect" -> IF e.long THEN "skip"
                            ELSE IF SupportedDefinition(e) THEN "push" ELSE "error"
      [] e.kind = "undf" -> IF e.value # 0 THEN "panic"
                            ELSE IF e.long THEN "skip" ELSE "push"
      [] OTHER -> "skip"

(* The entry that ends the loop early, 0 if none does.                     *)
FatalSymbol(entries) ==
    SelectInSeq(entries, LAMBDA e : SymbolVerdict(e) \in {"error", "panic"})

(* Symbol::make_*: an undefined entry has n_value 0, so impl_offset is the *)
(* entry's value in every constructor.                                     *)
MakeSymbol(e) == [name |-> e.name, impl_offset |-> e.value]

SymbolsOf(entries) ==
    LET kept == SelectIn(entries, {e \in ToSet(entries) : SymbolVerdict(e) = "push"})
    IN  [i \in DOMAIN kept |-> MakeSymbol(kept[i])]

(* parse_segment and scan_section: only __TEXT* and __DATA* segments are   *)
(* searched for initializers and thread-local variables.                   *)
SectionsOf(c, type) ==
    IF c.scanned THEN SelectIn(c.sections, {s \in ToSet(c.sections) : s.type = type})
    ELSE << >>

InitFuncsOf(c) ==
    LET secs == SectionsOf(c, "init_func_offsets")
    IN  FlattenSeq([i \in DOMAIN secs |-> secs[i].funcs])

(* chained_fixups_parse_all: however many LC_DYLD_CHAINED_FIXUPS a file    *)
(* has, the first one is parsed.                                           *)
chained_fixups_parse_all(f) ==
    LET first == SelectInSeq(f.commands, LAMBDA c : c.cmd = "LC_DYLD_CHAINED_FIXUPS")
    IN  IF first = 0 THEN << >> ELSE f.commands[first].fixups

CommandsOf(f, kinds) == SelectIn(f.commands, {c \in ToSet(f.commands) : c.cmd \in kinds})

SegmentsOf(f) ==
    LET cs == CommandsOf(f, {"LC_SEGMENT_64"}) IN [k \in DOMAIN cs |-> cs[k].segment]

-----------------------------------------------------------------------------
(* The region that macho_segments_map_to_vm allocates, in bytes.  Without  *)
(* segments 0 - u64::MAX is 1 in a build that does not check overflow.     *)
RegionSize(segments) ==
    IF segments = << >> THEN 1
    ELSE Max({s.vm_addr + s.vm_size : s \in ToSet(segments)})
            - Min({s.vm_addr : s \in ToSet(segments)})

(* The kernel maps whole pages.                                            *)
RoundUp(bytes) == ((bytes + PAGE_SIZE - 1) \div PAGE_SIZE) * PAGE_SIZE

BeyondRegion(segments, offset, size) ==
    size > 0 /\ offset + size > RoundUp(RegionSize(segments))

(* Of the executable the segment at address 0 is not copied, of any other  *)
(* all vm_size bytes are, whatever the file has of them.                   *)
Skipped(is_executable, s) == is_executable /\ s.vm_addr = 0

CopyStrays(f, segments, s) ==
    \/ s.vm_size > 0 /\ s.file_offset + s.vm_size > RoundUp(f.size)
    \/ BeyondRegion(segments, s.vm_addr, s.vm_size)

(* A library is searched in the region it has been mapped to, at offsets   *)
(* from its file.  A byte is there if the segments that cover the offset   *)
(* in memory have their bytes from the same place in the file.             *)
InPlace(f, offset) ==
    LET covering == {s \in ToSet(SegmentsOf(f)) :
                        offset \in s.vm_addr..(s.vm_addr + s.vm_size - 1)}
    IN  /\ covering # {} /\ \A s \in covering : s.file_offset = s.vm_addr
        /\ offset < RegionSize(SegmentsOf(f))

ReadInPlace(f) == InPlace(f, 0) /\ InPlace(f, f.trie)

ExportsRead(f) == IF ReadInPlace(f) THEN f.exports ELSE f.misread

(* dylib_symbol_resolve: a library without a trie exports nothing, and a   *)
(* re-export whose ordinal counts past the dependencies is not found.      *)
DependencyCount(f) ==
    Len(SelectSeq(f.commands, LAMBDA c : c.cmd \in {"LC_LOAD_DYLIB", "LC_REEXPORT_DYLIB"}))

dylib_symbol_resolve(f, symbol) ==
    LET exports == ExportsRead(f)
    IN  IF \/ symbol \notin DOMAIN exports
           \/ /\ exports[symbol].kind = "reexported"
              /\ exports[symbol].ordinal \notin 1..DependencyCount(f)
        THEN [kind |-> "none"]
        ELSE exports[symbol]

(* user_dylib_disk_path_resolve, except for the @rpath/@rpath case, which  *)
(* panics (RpathUnimplemented).  A name without placeholder is used as it  *)
(* is, and so is what follows @rpath/ when the image has no LC_RPATH.      *)
RpathUnimplemented(name, rpath) == name.at = "@rpath" /\ rpath = "@rpath"

DiskPath(name, rpath, exec_dir) ==
    IF \/ name.at \in {"@loader_path", "@executable_path"}
       \/ name.at = "@rpath" /\ rpath # ""
    THEN exec_dir \o name.rest
    ELSE name.rest
=============================================================================
