------------------------------ MODULE Linkable ------------------------------
(***************************************************************************)
(* A reference definition of the programs dynld can load, stated on the    *)
(* files alone: no activation, no stack, no order.  The runs compare it    *)
(* with what the loader does step by step.                                 *)
(***************************************************************************)
EXTENDS Loader

LinkedNames(f) ==
    LET cs == CommandsOf(f, LinkedDylibCommands) IN [k \in DOMAIN cs |-> cs[k].name]

(* Of several LC_RPATH the last one is in force, of several                *)
(* LC_DYLD_CHAINED_FIXUPS the first one.                                   *)
LastCommand(f, cmd) == Max({0} \cup {k \in DOMAIN f.commands : f.commands[k].cmd = cmd})

RpathOf(f) ==
    LET k == LastCommand(f, "LC_RPATH") IN IF k = 0 THEN "" ELSE f.commands[k].path

Fixups(f) == chained_fixups_parse_all(f)

UserNames(w, f) == {n \in ToSet(LinkedNames(f)) : n \notin DOMAIN w.cache}

LibraryPaths(w, p) ==
    {DiskPath(n, RpathOf(w.disk[p]), w.exec_dir) : n \in UserNames(w, w.disk[p])}

(* The files that the files in S lead to, S included, in as many steps as  *)
(* there are files; files not on the disk lead nowhere.                    *)
LibrariesOf(w, T) == UNION {LibraryPaths(w, p) : p \in T \cap DOMAIN w.disk}

Closure(w, S) ==
    LET reach[n \in 0..Cardinality(DOMAIN w.disk)] ==
            IF n = 0 THEN S ELSE reach[n - 1] \cup LibrariesOf(w, reach[n - 1])
    IN  reach[Cardinality(DOMAIN w.disk)] \cap DOMAIN w.disk

Reachable(w) == Closure(w, {w.exe})

Cyclic(w) == \E p \in Reachable(w) : p \in Closure(w, LibraryPaths(w, p))

(* The stack has room for as many activations as files are reached.        *)
StackHoldsAll == \A w \in Worlds : Cardinality(Reachable(w)) <= StackLimit

(* A file the parser accepts.                                              *)
Acceptable(f, c) ==
    /\ c.cmd \notin {"unreadable", "bad_string"}
    /\ c.cmd = "LC_MAIN" => f.filetype # "MH_DYLIB"
    /\ c.cmd = "LC_RPATH" => c.path # "unknown"
    /\ c.cmd = "LC_SYMTAB" =>
          \A e \in ToSet(c.entries) : SymbolVerdict(e) \in {"push", "skip"}

Parseable(f) ==
    /\ f.filetype # "unsupported"
    /\ \A c \in ToSet(f.commands) : Acceptable(f, c)
    /\ Len(LinkedNames(f)) <= MAX_DEPENDENCIES
    /\ Len(LinkedNames(f)) <= ARRAY_CAPACITY
    /\ Len(CommandsOf(f, {"LC_SEGMENT_64"})) <= ARRAY_CAPACITY

SymbolTable(f) ==
    UNION {ToSet(SymbolsOf(c.entries)) : c \in {d \in ToSet(f.commands) : d.cmd = "LC_SYMTAB"}}

(* The library an ordinal selects defines the symbol.                      *)
Binds(w, f, fix) ==
    \/ /\ fix.ordinal = BIND_SPECIAL_DYLIB_WEAK_LOOKUP
       /\ \E s \in SymbolTable(f) : s.name = fix.symbol
    \/ /\ fix.ordinal \in DOMAIN LinkedNames(f)
       /\ fix.ordinal # BIND_SPECIAL_DYLIB_WEAK_LOOKUP
       /\ LET n == LinkedNames(f)[fix.ordinal]
          IN  IF n \in DOMAIN w.cache
              THEN fix.symbol \in w.cache[n]
              ELSE LET lib == w.disk[DiskPath(n, RpathOf(f), w.exec_dir)]
                   IN  /\ fix.symbol \in DOMAIN ExportsRead(lib)
                       /\ ExportsRead(lib)[fix.symbol].kind = "defined"

LibrariesPresent(w, p) ==
    /\ ~\E n \in UserNames(w, w.disk[p]) : RpathUnimplemented(n, RpathOf(w.disk[p]))
    /\ LibraryPaths(w, p) \subseteq DOMAIN w.disk

LinkableProgram(w) ==
    /\ \A p \in Reachable(w) : Parseable(w.disk[p]) /\ LibrariesPresent(w, p)
    /\ ~Cyclic(w)
    /\ \A p \in Reachable(w) : \A fix \in ToSet(Fixups(w.disk[p])) :
          fix.kind = "bind" => Binds(w, w.disk[p], fix)

(* An initializer of a library is called at an address that is not its     *)
(* own, so what happens next is undefined.                                 *)
LibraryInitializers(w) ==
    \E p \in Reachable(w) \ {w.exe} : \E c \in ToSet(w.disk[p].commands) :
        c.cmd = "LC_SEGMENT_64" /\ InitFuncsOf(c) # << >>

(* What a file needs to be mapped without undefined behaviour: it has      *)
(* segments, each of which is in the file and, placed at its address, in   *)
(* the region, as are the pointers to fix up and the initializers.         *)
Mappable(w, p) ==
    LET f == w.disk[p]
        segments == SegmentsOf(f)
        base == IF p = w.exe THEN PAGE_ZERO_SIZE ELSE 0
        scanned == CommandsOf(f, {"LC_SEGMENT_64"})
    IN  /\ segments # << >> /\ RegionSize(segments) > 0
        /\ \A s \in ToSet(segments) : Skipped(p = w.exe, s) \/ ~CopyStrays(f, segments, s)
        /\ \A fix \in ToSet(Fixups(f)) :
              ~BeyondRegion(segments, fix.offset + base, PointerSize)
        /\ \A c \in ToSet(scanned) : \A func \in ToSet(InitFuncsOf(c)) :
              ~BeyondRegion(segments, func + base, 1)

MappableProgram(w) == \A p \in Reachable(w) : Mappable(w, p)

-----------------------------------------------------------------------------
(* Only a linkable program is ever entered, whatever order its libraries   *)
(* are loaded in and whichever system call fails.                          *)
EntersOnlyLinkable == outcome = "entered" => LinkableProgram(world)

(* The recursion has no list of loaded images and no depth limit: it runs  *)
(* out of stack only when the libraries need each other in a cycle.        *)
OverflowsOnlyOnCycles == outcome = "overflow" => Cyclic(world)

(* What the pointer of a fixup has to be, going by the file alone.  A      *)
(* library whose header or trie is not in place in memory is excepted: it  *)
(* is searched for exports where they are not.                             *)
Denotes(i, fix, target) ==
    LET f == FileOf(i)
        n == LinkedNames(f)[fix.ordinal]
        path == DiskPath(n, RpathOf(f), world.exec_dir)
        lib == world.disk[path]
    IN  \/ fix.kind = "rebase" /\ target = ImageAddress(i, fix.target + PageZeroOf(i))
        \/ /\ fix.kind = "bind" /\ fix.ordinal = BIND_SPECIAL_DYLIB_WEAK_LOOKUP
           /\ \E s \in SymbolTable(f) :
                 s.name = fix.symbol /\ target = ImageAddress(i, s.impl_offset)
        \/ /\ fix.kind = "bind" /\ fix.ordinal # BIND_SPECIAL_DYLIB_WEAK_LOOKUP
           /\ fix.ordinal \in DOMAIN LinkedNames(f)
           /\ \/ /\ n \in DOMAIN world.cache
                 /\ target = [space |-> "cache", library |-> n, symbol |-> fix.symbol]
              \/ /\ n \notin DOMAIN world.cache
                 /\ target.space = "image" /\ target.image \in Images
                 /\ images[target.image].path = path
                 /\ ReadInPlace(lib) => /\ fix.symbol \in DOMAIN lib.exports
                                        /\ lib.exports[fix.symbol].kind = "defined"
                                        /\ target.offset = lib.exports[fix.symbol].offset

(* Every pointer written so far, in any image, is at the place of the      *)
(* fixup it stands for and leads where the files say: into the image       *)
(* itself, or to the definition in the library the ordinal counts to.      *)
PointersDenote ==
    \A i \in Images : \A k \in DOMAIN images[i].mem :
        LET fix == Fixups(FileOf(i))[k]
        IN  /\ images[i].mem[k][1] = fix.offset + PageZeroOf(i)
            /\ Denotes(i, fix, images[i].mem[k][2])

(* A linkable program that can be mapped and has no library initializers   *)
(* is entered in the end, unless the load stops at a system call that      *)
(* fails.                                                                  *)
LinkableIsEntered ==
    LinkableProgram(world) /\ MappableProgram(world) /\ ~LibraryInitializers(world)
        => <>(outcome \in {"entered"} \cup Failures)
=============================================================================
