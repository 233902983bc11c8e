----------------------------- MODULE SharedCache -----------------------------
(***************************************************************************)
(* dynld's view of the dyld shared cache that the kernel has mapped        *)
(* (dyld_shared_cache.rs, and the Mach-O queries of macho_image.rs):       *)
(* attaching the sub-caches, indexing the libraries, and resolving a       *)
(* symbol through exports tries and re-exports with a depth budget.        *)
(*                                                                         *)
(* Addresses and offsets are numbers.  The tables of the cache files are   *)
(* sequences; what lies at an unslid address (a path, the load commands of *)
(* an image, an exports trie) is given by the functions strings, machos    *)
(* and tries of a cache.  The walk of a trie is taken as the terminal it   *)
(* ends in: module ExportsTrie is about the walk.                          *)
(***************************************************************************)
EXTENDS Integers, FiniteSets, SequencesExt, Selection

CONSTANTS
    Caches,         \* records [base, slide, subs, images, strings, machos, tries,
                    \* exports]; the last one only for the properties
    Queries,        \* the lookups made, pairs <<install path, symbol>>
    DYLD_LIKELY_UNSLID_VM_ADDR,
    MAX_REEXPORT_RESOLUTION_DEPTH,  \* 16
    HEADER_SIZE,                    \* of dyld_cache_header
    PROVISIONAL_MAPPINGS            \* mappings readable before the length is known, 64

U8 == 256       \* sub_cache_index is a u8

ASSUME BudgetAssumption == MAX_REEXPORT_RESOLUTION_DEPTH \in Nat \ {0}
ASSUME SizesAssumption ==
    /\ HEADER_SIZE \in Nat \ {0} /\ PROVISIONAL_MAPPINGS \in Nat
    /\ DYLD_LIKELY_UNSLID_VM_ADDR \in Nat
ASSUME QueriesAssumption == \A q \in Queries : q \in STRING \X STRING

None == [kind |-> "none"]
Error == [kind |-> "error"]
Address(a) == [kind |-> "address", address |-> a]

(* Mappings: records [address, size, file_offset], in table order.         *)

Mapping == [address : Nat, size : Nat, file_offset : Nat]
(* A file of the cache; listed says that its entry of the sub-cache array  *)
(* can be read.  Likewise readable, of an entry of the image table.        *)
SubCache == [offset : Nat, mappings : Seq(Mapping), listed : BOOLEAN]
ImageInfo == [address : Nat, path_file_offset : Nat, name : STRING, readable : BOOLEAN]

(* A path without a terminator in its file, or that is not UTF-8.          *)
BadPath == "bad path"

Covers(m, vm) == vm \in m.address .. (m.address + m.size - 1)
CoversFile(m, off) == off \in m.file_offset .. (m.file_offset + m.size - 1)

(* The address at which a mapping has the byte at an offset of the file.   *)
AddressOf(m, off) == m.address + (off - m.file_offset)

(* read_main_cache_total_mapped_length_from: the end of the last mapping,  *)
(* from the address of the first.                                          *)
MappedLength(ms) ==
    Max({0} \cup {ms[i].address - ms[1].address + ms[i].size : i \in DOMAIN ms})

Mapped(c, vm) == \E i \in DOMAIN c.subs : \E j \in DOMAIN c.subs[i].mappings :
                     Covers(c.subs[i].mappings[j], vm)

(* The load commands that name a library, all of which take an ordinal.    *)
DylibCommands == {"LC_LOAD_DYLIB", "LC_LOAD_WEAK_DYLIB", "LC_REEXPORT_DYLIB",
                  "LC_LOAD_UPWARD_DYLIB", "LC_LAZY_LOAD_DYLIB"}

(* The load commands the lookups meet; name and path as in dylib_command,  *)
(* dataoff and datasize also for the exports of dyld_info_command.         *)
Command ==
    [cmd : DylibCommands, path : STRING]
    \cup [cmd : {"LC_SEGMENT_64"}, segname : STRING, vmaddr : Nat, fileoff : Nat]
    \cup [cmd : {"LC_DYLD_EXPORTS_TRIE", "LC_DYLD_INFO_ONLY"}, dataoff : Nat, datasize : Nat]
    \cup [cmd : {"unreadable"}]

TrieCommands(cmds) ==
    {i \in DOMAIN cmds : cmds[i].cmd \in {"LC_DYLD_EXPORTS_TRIE", "LC_DYLD_INFO_ONLY"}}
LinkeditCommands(cmds) ==
    {i \in DOMAIN cmds : cmds[i].cmd = "LC_SEGMENT_64" /\ cmds[i].segname = "__LINKEDIT"}
TrieVm(trie, linkedit) == linkedit.vmaddr + (trie.dataoff - linkedit.fileoff)

(* ExportTerminal, or none.                                                *)
Terminal ==
    {None} \cup [kind : {"defined"}, offset : Nat]
    \cup [kind : {"reexport"}, ordinal : Nat, name : STRING]

(* exports_trie_walk_for_symbol.                                           *)
TerminalOf(trie, symbol) == IF symbol \in DOMAIN trie THEN trie[symbol] ELSE None

(* Every mapping lies in one file: its first mapping starts where its      *)
(* header is and is the lowest, and files share no address.                *)
FilesLaidOut(c) ==
    /\ \A i \in DOMAIN c.subs : \A j \in DOMAIN c.subs[i].mappings :
        /\ c.subs[i].mappings[1].address = c.base + c.subs[i].offset
        /\ c.subs[i].mappings[j].address >= c.base + c.subs[i].offset
    /\ \A i, k \in DOMAIN c.subs :
        \A m \in ToSet(c.subs[i].mappings), n \in ToSet(c.subs[k].mappings) :
            i # k => m.address + m.size <= n.address \/ n.address + n.size <= m.address

(* The path of an image is its name.                                       *)
PathsAreNames(c) ==
    LET ms == c.subs[1].mappings
    IN  \A i \in DOMAIN c.images : \A j \in DOMAIN ms :
            LET off == c.images[i].path_file_offset
            IN  (CoversFile(ms[j], off) /\ \A k \in 1..(j - 1) : ~CoversFile(ms[k], off))
                => c.strings[AddressOf(ms[j], off)] = c.images[i].name

InOneFile(c, vm, size) ==
    \E i \in DOMAIN c.subs :
        /\ \E j \in DOMAIN c.subs[i].mappings : Covers(c.subs[i].mappings[j], vm)
        /\ vm + size <= c.base + c.subs[i].offset + MappedLength(c.subs[i].mappings)

(* An image exports what its trie holds: the first one, at its place in    *)
(* the first __LINKEDIT, if that is in a file of the cache.                *)
ExportsItsTrie(c, a) ==
    LET cmds == c.machos[a]
        t == cmds[Min(TrieCommands(cmds))]
        l == cmds[Min(LinkeditCommands(cmds))]
    IN  IF /\ TrieCommands(cmds) # {} /\ LinkeditCommands(cmds) # {}
           /\ InOneFile(c, TrieVm(t, l), t.datasize)
        THEN c.exports[a] = c.tries[TrieVm(t, l)]
        ELSE \A s \in DOMAIN c.exports[a] : c.exports[a][s] = None

(* The cache as it is built and as the kernel maps it, of at most 256      *)
(* files, each with its mapping table in the memory that the table spans.  *)
(* What its images export is stated for the properties.                    *)
IsCache(c) ==
    /\ c.base \in Nat /\ c.slide \in Nat
    /\ c.subs \in Seq(SubCache)
    /\ Len(c.subs) \in 1..U8 /\ c.subs[1].offset = 0 /\ c.subs[1].listed
    /\ FilesLaidOut(c)
    /\ c.images \in Seq(ImageInfo)
    /\ PathsAreNames(c)
    /\ \A i \in DOMAIN c.images :
        LET a == c.images[i].address
        IN  Mapped(c, a) =>
                /\ a \in DOMAIN c.machos /\ c.machos[a] \in Seq(Command)
                /\ a \in DOMAIN c.exports
                /\ \A s \in DOMAIN c.exports[a] : c.exports[a][s] \in Terminal
                /\ ExportsItsTrie(c, a)

ASSUME CachesAssumption == \A c \in Caches : IsCache(c)

VARIABLES
    cache,      \* the cache in memory
    phase,      \* attach, index, ready, resolve, failed, panicked, answered
    subs,       \* DyldSharedCache.sub_caches
    next,       \* the next entry of the table being read
    libraries,  \* DyldSharedCache.libraries
    query,      \* the lookup being made
    frames,     \* the calls of symbol_resolve_with_max_depth, innermost last
    result      \* what symbol_resolve returns

vars == <<cache, phase, subs, next, libraries, query, frames, result>>

(* dynld_entrypoint: the base address the kernel reports, less the address *)
(* the cache is built for.                                                 *)
CacheSlide == cache.base + cache.slide - DYLD_LIKELY_UNSLID_VM_ADDR

-----------------------------------------------------------------------------
(* Sub-caches.                                                             *)

(* DyldSharedSubCache: the runtime pointer and length of its container.    *)
SubCacheView(s) ==
    [pointer |-> cache.base + cache.slide + s.offset,
     length |-> MappedLength(s.mappings),
     unslid_base |-> cache.base + s.offset, mappings |-> s.mappings]

(* The object that container c shows at offset: memory holds at the slid   *)
(* address what the cache holds at the unslid one.                         *)
UnslidAt(c, offset) == c.pointer + offset - cache.slide

(* subcache_and_offset_locate_from_addr: the first sub-cache with a        *)
(* mapping that covers vm.  The index counts from 0 and is cut to a u8.    *)
Located(vm) == \E i \in DOMAIN subs : \E j \in DOMAIN subs[i].mappings :
                    Covers(subs[i].mappings[j], vm)

(* Mutant of Locate: every offset is taken from the main cache's base.     *)
LocateFromMainBase(vm) ==
    LET i == SelectInSeq(subs, LAMBDA s :
                 \E j \in DOMAIN s.mappings : Covers(s.mappings[j], vm))
    IN  [sub |-> (i - 1) % U8, offset |-> vm - subs[1].unslid_base]

Locate(vm) ==
    LET i == SelectInSeq(subs, LAMBDA s :
                 \E j \in DOMAIN s.mappings : Covers(s.mappings[j], vm))
    IN  [sub |-> (i - 1) % U8, offset |-> vm - subs[i].unslid_base]

Container(sub) == subs[sub + 1]

(* runtime_offset_for_file_offset of the main cache.                       *)
PathOffset(off) ==
    LET ms == subs[1].mappings
        m == ms[SelectInSeq(ms, LAMBDA x : CoversFile(x, off))]
    IN  (m.address - subs[1].unslid_base) + (off - m.file_offset)

-----------------------------------------------------------------------------
(* from_existing: attaching and indexing                                   *)

Init ==
    /\ cache \in Caches
    /\ phase = "attach" /\ subs = <<>> /\ next = 1
    /\ libraries = <<>> /\ query = <<>> /\ frames = <<>> /\ result = None

(* The entry of a sub-cache in the array, its header and its mapping table *)
(* can be read.                                                            *)
Attachable(s) ==
    /\ s.listed
    /\ Len(s.mappings) <= PROVISIONAL_MAPPINGS
    /\ MappedLength(s.mappings) >= HEADER_SIZE

(* dyld_shared_cache_attach_all: the main cache, then each entry of the    *)
(* sub-cache array.                                                        *)
Attach ==
    /\ phase = "attach" /\ next <= Len(cache.subs)
    /\ Attachable(cache.subs[next])
    /\ subs' = Append(subs, SubCacheView(cache.subs[next]))
    /\ next' = next + 1
    /\ UNCHANGED <<cache, phase, libraries, query, frames, result>>

AttachFails ==
    /\ phase = "attach" /\ next <= Len(cache.subs)
    /\ ~Attachable(cache.subs[next])
    /\ phase' = "failed"
    /\ UNCHANGED <<cache, subs, next, libraries, query, frames, result>>

Attached ==
    /\ phase = "attach" /\ next > Len(cache.subs)
    /\ phase' = "index" /\ next' = 1
    /\ UNCHANGED <<cache, subs, libraries, query, frames, result>>

AtEntry == phase = "index" /\ next <= Len(cache.images)
AtImage == AtEntry /\ cache.images[next].readable

PathCovered(off) ==
    \E j \in DOMAIN subs[1].mappings : CoversFile(subs[1].mappings[j], off)

PathAt(off) == cache.strings[UnslidAt(subs[1], PathOffset(off))]

(* main_cache_libraries_index_all: an image in no mapping is left out.     *)
IndexImage ==
    /\ AtImage
    /\ LET i == cache.images[next]
           at == Locate(i.address)
       IN  /\ Located(i.address) /\ PathCovered(i.path_file_offset)
           /\ PathAt(i.path_file_offset) # BadPath
           /\ libraries' = Append(libraries,
                  [sub |-> at.sub, offset |-> at.offset,
                   path |-> PathAt(i.path_file_offset), load_address |-> i.address])
    /\ next' = next + 1
    /\ UNCHANGED <<cache, phase, subs, query, frames, result>>

(* Mutant of SkipImage: an image in no mapping ends the loop.              *)
SkipImageBreaks ==
    /\ AtImage /\ ~Located(cache.images[next].address)
    /\ next' = Len(cache.images) + 1
    /\ UNCHANGED <<cache, phase, subs, libraries, query, frames, result>>

SkipImage ==
    /\ AtImage /\ ~Located(cache.images[next].address)
    /\ next' = next + 1
    /\ UNCHANGED <<cache, phase, subs, libraries, query, frames, result>>

IndexFails ==
    /\ AtEntry
    /\ \/ ~cache.images[next].readable
       \/ /\ Located(cache.images[next].address)
          /\ ~PathCovered(cache.images[next].path_file_offset)
    /\ phase' = "failed"
    /\ UNCHANGED <<cache, subs, next, libraries, query, frames, result>>

(* deserialize_cstr_at_offset and to_str().unwrap().                       *)
IndexPanics ==
    /\ AtImage /\ Located(cache.images[next].address)
    /\ PathCovered(cache.images[next].path_file_offset)
    /\ PathAt(cache.images[next].path_file_offset) = BadPath
    /\ phase' = "panicked"
    /\ UNCHANGED <<cache, subs, next, libraries, query, frames, result>>

Indexed ==
    /\ phase = "index" /\ next > Len(cache.images)
    /\ phase' = "ready"
    /\ UNCHANGED <<cache, subs, next, libraries, query, frames, result>>

-----------------------------------------------------------------------------
(* The Mach-O queries of macho_image.rs over an image's load commands.     *)

(* load_commands_find: the first command of those that visit accepts, 0    *)
(* when there is none, -1 when a command before it cannot be read.         *)
LoadCommandsFind(cmds, accepted) ==
    LET bad == {i \in DOMAIN cmds : cmds[i].cmd = "unreadable"}
        hits == accepted \cup bad
    IN  CASE hits = {} -> 0
          [] hits # {} /\ Min(hits) \in bad -> -1
          [] hits # {} /\ Min(hits) \notin bad -> Min(hits)

(* dylib_install_name_read fails for this one.                             *)
NoName == "no name"

ExportsTrieSpanFind(cmds) ==
    LoadCommandsFind(cmds, TrieCommands(cmds))

LinkeditSegmentFind(cmds) ==
    LoadCommandsFind(cmds, LinkeditCommands(cmds))

IsDylibDependencyCommand(c) == c.cmd \in {"LC_LOAD_DYLIB", "LC_REEXPORT_DYLIB"}

(* How many dependencies have been seen at a command, itself included.     *)
Seen(cmds, i) == Cardinality({k \in 1..i : IsDylibDependencyCommand(cmds[k])})

(* The command dylib_install_path_for_ordinal stops at.                    *)
DylibForOrdinal(cmds, ordinal) ==
    LoadCommandsFind(cmds, {i \in DOMAIN cmds :
        /\ IsDylibDependencyCommand(cmds[i])
        /\ Seen(cmds, i) = ordinal})

(* reexported_dylib_paths_collect: names that cannot be read are left out. *)
ReexportedDylibPaths(cmds) ==
    LET readable == SelectIn(cmds, {c \in ToSet(cmds) :
                        c.cmd = "LC_REEXPORT_DYLIB" /\ c.path # NoName})
    IN  [i \in DOMAIN readable |-> readable[i].path]

-----------------------------------------------------------------------------
(* symbol_resolve_with_max_depth                                           *)

(* library_find_by_install_path, 0 when it is not cached.                  *)
LibraryFind(path) == SelectInSeq(libraries, LAMBDA l : l.path = path)

(* image_view_for_library, as the load commands it sees.                   *)
ImageView(lib) == cache.machos[UnslidAt(Container(lib.sub), lib.offset)]

(* Where the trie is: try_resolve_via_exports_trie up to trie_unslid_vm.   *)
TrieSpan(cmds) ==
    LET t == ExportsTrieSpanFind(cmds)
        l == LinkeditSegmentFind(cmds)
    IN  CASE t = -1 \/ (t > 0 /\ l = -1) -> Error
          [] t = 0 \/ (t > 0 /\ l = 0) -> None
          [] t > 0 /\ l > 0 -> [kind |-> "trie", vm |-> TrieVm(cmds[t], cmds[l]),
                               size |-> cmds[t].datasize]

(* The terminal that the walk of a trie finds, None also when the slice is *)
(* not in a container.                                                     *)
TerminalIn(trie, symbol) ==
    LET at == Locate(trie.vm)
    IN  IF Located(trie.vm) /\ at.offset + trie.size <= Container(at.sub).length
        THEN TerminalOf(cache.tries[UnslidAt(Container(at.sub), at.offset)], symbol)
        ELSE None

(* unslid_address_to_runtime_pointer_translate.                            *)
Translate(vm) == IF Located(vm) THEN Address(vm + CacheSlide) ELSE Error

(* Mutant of TrieReexport: the alias of the re-exported symbol is ignored. *)
TrieReexportUnaliased(cmds, t, symbol) ==
    LET i == DylibForOrdinal(cmds, t.ordinal)
    IN  CASE i = -1 -> Error
          [] i = 0 -> None
          [] i > 0 -> IF cmds[i].path = NoName THEN Error
                      ELSE [kind |-> "follow", path |-> cmds[i].path, symbol |-> symbol]

(* The target of a re-export: an ordinal no command has is no resolution.  *)
TrieReexport(cmds, t, symbol) ==
    LET i == DylibForOrdinal(cmds, t.ordinal)
    IN  CASE i = -1 -> Error
          [] i = 0 -> None
          [] i > 0 -> IF cmds[i].path = NoName THEN Error
                      ELSE [kind |-> "follow", path |-> cmds[i].path,
                            symbol |-> IF t.name = "" THEN symbol ELSE t.name]

(* try_resolve_via_exports_trie, from the trie on.                         *)
TrieResolution(f) ==
    LET t == TerminalIn(f.found, f.symbol)
    IN  CASE t.kind = "none" -> None
          [] t.kind = "defined" -> Translate(f.load_address + t.offset)
          [] t.kind = "reexport" -> TrieReexport(f.image, t, f.symbol)

(* A call: its arguments, how far it is, the library it has found (load    *)
(* address and load commands), what it has found in the exports trie, and  *)
(* the re-exported libraries still to be searched.                         *)
Frame(path, symbol, budget) ==
    [path |-> path, symbol |-> symbol, budget |-> budget, stage |-> "entered",
     load_address |-> 0, image |-> <<>>, found |-> None, todo |-> <<>>]

Top == Last(frames)
Replaced(f) == Append(Front(frames), f)

(* Ok(Some(_)) and Err(_) leave every call; Ok(None) goes back to the loop *)
(* of the caller, if there is one.                                         *)
Leave(r) ==
    /\ frames' = <<>> /\ result' = r /\ phase' = "answered"
    /\ UNCHANGED <<cache, subs, next, libraries, query>>

(* Mutant of ReturnNone: the outermost call goes on.                       *)
ReturnNoneStays ==
    /\ frames' = Front(frames)
    /\ UNCHANGED <<cache, phase, subs, next, libraries, query, result>>

ReturnNone ==
    /\ frames' = Front(frames)
    /\ phase' = IF Len(frames) = 1 THEN "answered" ELSE "resolve"
    /\ UNCHANGED <<cache, subs, next, libraries, query, result>>

Continue(fs) ==
    /\ frames' = fs
    /\ UNCHANGED <<cache, phase, subs, next, libraries, query, result>>

(* symbol_resolve, called for a bind to a system library.                  *)
SymbolResolve ==
    /\ phase = "ready"
    /\ \E q \in Queries :
        /\ query' = q
        /\ frames' = <<Frame(q[1], q[2], MAX_REEXPORT_RESOLUTION_DEPTH)>>
    /\ phase' = "resolve"
    /\ UNCHANGED <<cache, subs, next, libraries, result>>

At(stage) == phase = "resolve" /\ Top.stage = stage

OutOfBudget == At("entered") /\ Top.budget = 0 /\ ReturnNone

NotCached ==
    At("entered") /\ Top.budget > 0 /\ LibraryFind(Top.path) = 0 /\ ReturnNone

FindLibrary ==
    /\ At("entered") /\ Top.budget > 0 /\ LibraryFind(Top.path) > 0
    /\ LET lib == libraries[LibraryFind(Top.path)]
       IN  Continue(Replaced([Top EXCEPT !.stage = "span",
               !.load_address = lib.load_address, !.image = ImageView(lib)]))

FindTrie ==
    /\ At("span")
    /\ LET span == TrieSpan(Top.image)
       IN  Continue(Replaced([Top EXCEPT !.found = span,
               !.stage = IF span.kind = "trie" THEN "trie" ELSE "looked"]))

LookInTrie ==
    /\ At("trie")
    /\ Continue(Replaced([Top EXCEPT !.stage = "looked", !.found = TrieResolution(Top)]))

(* The address, or the error, is the answer.                               *)
Found == At("looked") /\ Top.found.kind \in {"address", "error"} /\ Leave(Top.found)

(* Mutant of FollowReexport: the budget is not spent.                      *)
FollowReexportUnbudgeted ==
    /\ At("looked") /\ Top.found.kind = "follow"
    /\ Continue(Replaced(Frame(Top.found.path, Top.found.symbol, Top.budget)))

(* The answer of the call is the caller's answer: nothing is left to do.   *)
FollowReexport ==
    /\ At("looked") /\ Top.found.kind = "follow"
    /\ Continue(Replaced(Frame(Top.found.path, Top.found.symbol, Top.budget - 1)))

(* try_resolve_via_umbrella_reexports.                                     *)
CollectReexports ==
    /\ At("looked") /\ Top.found.kind = "none"
    /\ LoadCommandsFind(Top.image, {}) = 0
    /\ Continue(Replaced([Top EXCEPT
           !.stage = "umbrella", !.todo = ReexportedDylibPaths(Top.image)]))

CollectFails ==
    /\ At("looked") /\ Top.found.kind = "none"
    /\ LoadCommandsFind(Top.image, {}) = -1
    /\ Leave(Error)

(* Mutant of UmbrellaNext: only the first re-exported library is searched. *)
UmbrellaNextFirstOnly ==
    /\ At("umbrella") /\ Top.todo # <<>>
    /\ Continue(Append(Replaced([Top EXCEPT !.todo = <<>>]),
                       Frame(Head(Top.todo), Top.symbol, Top.budget - 1)))

UmbrellaNext ==
    /\ At("umbrella") /\ Top.todo # <<>>
    /\ Continue(Append(Replaced([Top EXCEPT !.todo = Tail(@)]),
                       Frame(Head(Top.todo), Top.symbol, Top.budget - 1)))

UmbrellaDone == At("umbrella") /\ Top.todo = <<>> /\ ReturnNone

Ended == phase \in {"failed", "panicked", "answered"} /\ UNCHANGED vars

Next ==
    \/ Attach \/ AttachFails \/ Attached
    \/ IndexImage \/ SkipImage \/ IndexFails \/ IndexPanics \/ Indexed
    \/ SymbolResolve
    \/ OutOfBudget \/ NotCached \/ FindLibrary \/ FindTrie \/ LookInTrie \/ Found \/ FollowReexport
    \/ CollectReexports \/ CollectFails \/ UmbrellaNext \/ UmbrellaDone
    \/ Ended

Spec == Init /\ [][Next]_vars
FairSpec == Spec /\ WF_vars(Next)
-----------------------------------------------------------------------------
(* Properties.  A cache also says what it holds: images have a name, and   *)
(* exports gives the terminal of every symbol of the image at an address,  *)
(* none where the image has no trie inside a sub-cache.                    *)

(* The state has its type: offsets and budgets are in range, a lookup is   *)
(* under way exactly while symbol_resolve_with_max_depth has a frame, and  *)
(* the answer is one of the three that symbol_resolve has.                 *)
TypeOK ==
    /\ phase \in {"attach", "index", "ready", "resolve", "failed", "panicked", "answered"}
    /\ Len(subs) <= Len(cache.subs) /\ Len(libraries) <= Len(cache.images)
    /\ next \in Nat \ {0}
    /\ \A i \in DOMAIN libraries :
        libraries[i].sub \in 0..(U8 - 1) /\ libraries[i].offset \in Nat
    /\ \A i \in DOMAIN frames :
        frames[i].budget \in 0..MAX_REEXPORT_RESOLUTION_DEPTH
    /\ (phase = "resolve") <=> (frames # <<>>)
    /\ result.kind \in {"none", "error", "address"}

(* The sub-cache index and the offset that indexing has stored for a       *)
(* library lead back to its Mach-O header: they are computed from unslid   *)
(* addresses and used on containers at slid ones, and the index is a u8.   *)
LibrariesInPlace ==
    \A i \in DOMAIN libraries :
        LET l == libraries[i]
        IN  /\ l.sub + 1 \in DOMAIN subs
            /\ l.offset < Container(l.sub).length
            /\ UnslidAt(Container(l.sub), l.offset) = l.load_address

MappedImages == SelectIn(cache.images, {i \in ToSet(cache.images) : Mapped(cache, i.address)})

(* is_library_cached knows every image that is mapped, in the order of the *)
(* image table and under its own name, and no other: an image that no      *)
(* mapping covers is passed over without losing those after it.            *)
IndexedExactly ==
    phase \in {"ready", "resolve", "answered"} =>
        /\ Len(libraries) = Len(MappedImages)
        /\ \A i \in DOMAIN libraries :
            /\ libraries[i].path = MappedImages[i].name
            /\ libraries[i].load_address = MappedImages[i].address

(* What a symbol of a library denotes, by the two-level namespace: its own *)
(* definition; else the symbol its trie entry re-exports; else the symbol  *)
(* of the same name in a library it re-exports.                            *)
ImageNamed(path) == SelectInSeq(MappedImages, LAMBDA i : i.name = path)
ExportOf(path, symbol) ==
    IF ImageNamed(path) = 0 THEN None
    ELSE TerminalOf(cache.exports[MappedImages[ImageNamed(path)].address], symbol)
CommandsOf(path) == cache.machos[MappedImages[ImageNamed(path)].address]

(* "The ordinal recorded references the libraries listed in the Mach-O's   *)
(* LC_LOAD_DYLIB, LC_LOAD_WEAK_DYLIB, LC_REEXPORT_DYLIB,                   *)
(* LC_LOAD_UPWARD_DYLIB, and LC_LAZY_LOAD_DYLIB, etc. load commands in the *)
(* order they appear" (bindings_macho.rs).                                 *)
DependenciesOf(path) ==
    SelectIn(CommandsOf(path), {c \in ToSet(CommandsOf(path)) : c.cmd \in DylibCommands})

Successors(path, symbol) ==
    LET e == ExportOf(path, symbol)
        own == e.kind = "reexport" /\ e.ordinal \in DOMAIN DependenciesOf(path)
        umbrella == {c \in ToSet(CommandsOf(path)) : c.cmd = "LC_REEXPORT_DYLIB"}
    IN  CASE ImageNamed(path) = 0 \/ e.kind = "defined" -> {}
          [] ImageNamed(path) # 0 /\ own ->
                {<<DependenciesOf(path)[e.ordinal].path,
                   IF e.name = "" THEN symbol ELSE e.name>>}
          [] ImageNamed(path) # 0 /\ e.kind # "defined" /\ ~own ->
                {<<c.path, symbol>> : c \in umbrella}

AllSuccessors(S) == UNION {Successors(q[1], q[2]) : q \in S}

(* What is reached from S in at most n re-exports.                         *)
ReachedFrom(S) ==
    LET reach[n \in 0..(MAX_REEXPORT_RESOLUTION_DEPTH - 1)] ==
            IF n = 0 THEN S ELSE reach[n - 1] \cup AllSuccessors(reach[n - 1])
    IN  reach

Reached == ReachedFrom({query})[MAX_REEXPORT_RESOLUTION_DEPTH - 1]

Definitions == {q \in Reached : ExportOf(q[1], q[2]).kind = "defined"}

(* Where the kernel has mapped the definition.                             *)
RuntimeAddress(q) ==
    MappedImages[ImageNamed(q[1])].address + ExportOf(q[1], q[2]).offset + cache.slide

(* What the comment on library ordinals makes of an answer: an address is  *)
(* that of a definition reached from the query through re-exports, and of  *)
(* the library's own definition if it has one.                             *)
AnswersAsLinked ==
    result.kind = "address" =>
        \E q \in Definitions :
            /\ result.address = RuntimeAddress(q)
            /\ query \in Definitions => q = query

(* dylib_install_path_for_ordinal does not count weak, upward and lazy     *)
(* libraries.  It counts right to an ordinal if none of them is among the  *)
(* libraries up to it.                                                     *)
OrdinalOf(cmds, i) == Cardinality({k \in 1..i : cmds[k].cmd \in DylibCommands})

CountedUpTo(cmds, ordinal) ==
    \A i \in DOMAIN cmds :
        cmds[i].cmd \in DylibCommands /\ OrdinalOf(cmds, i) <= ordinal
            => IsDylibDependencyCommand(cmds[i])

OrdinalsAgree ==
    \A image \in ToSet(MappedImages) :
        LET a == image.address
        IN  \A s \in DOMAIN cache.exports[a] :
                cache.exports[a][s].kind = "reexport"
                    => CountedUpTo(cache.machos[a], cache.exports[a][s].ordinal)

(* Where the trie's ordinals are counted right, an address symbol_resolve  *)
(* returns is that of a definition reached from the query through          *)
(* re-exports, and of the library's own definition if it has one:          *)
(* whichever sub-caches header, trie and symbol lie in, and whatever calls *)
(* have failed to find it before.                                          *)
ResolvesToDefinition == OrdinalsAgree => AnswersAsLinked

(* The slide is the kernel's if the cache is built for the address that    *)
(* dynld takes it to be built for.                                         *)
AtLikelyBase == \A c \in Caches : c.base = DYLD_LIKELY_UNSLID_VM_ADDR

(* Everything a lookup can need is readable and mapped.                    *)
WellFormed ==
    /\ \A a \in DOMAIN cache.machos : \A i \in DOMAIN cache.machos[a] :
        LET c == cache.machos[a][i]
        IN  c.cmd # "unreadable" /\ (IsDylibDependencyCommand(c) => c.path # NoName)
    /\ \A a \in DOMAIN cache.exports : \A s \in DOMAIN cache.exports[a] :
        cache.exports[a][s].kind = "defined" => Mapped(cache, a + cache.exports[a][s].offset)

(* In a well-formed cache whose ordinals are counted right symbol_resolve  *)
(* never fails, and it finds a definition whenever one is reached through  *)
(* fewer re-exports than the budget: cycles among umbrella libraries and   *)
(* branches that run out of budget do not hide a definition in a later     *)
(* branch.                                                                 *)
FindsDefinition ==
    phase = "answered" /\ WellFormed /\ OrdinalsAgree =>
        /\ result.kind # "error"
        /\ Definitions # {} => result.kind = "address"

(* Every lookup is answered, in cyclic re-export graphs too.               *)
Termination == <>(phase \in {"failed", "panicked", "answered"})
=============================================================================
