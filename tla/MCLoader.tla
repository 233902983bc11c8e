------------------------------ MODULE MCLoader ------------------------------
(***************************************************************************)
(* Programs for the loader: the link tests of test/binaries, one program   *)
(* for each way a load can end, and every small dependency graph.          *)
(***************************************************************************)
EXTENDS Linkable, TLC

App == <<"app">>
Name(at, rest) == [at |-> at, rest |-> rest]
System == Name("", <<"usr", "lib", "libSystem">>)
Rp(lib) == Name("@rpath", <<lib>>)

Cache == (System :> {"printf"})

\* Load commands.
Dylib(cmd, name) == [cmd |-> cmd, name |-> name]
Load(name) == Dylib("LC_LOAD_DYLIB", name)
Main == [cmd |-> "LC_MAIN", entryoff |-> 4]
RpathCmd(path) == [cmd |-> "LC_RPATH", path |-> path]
Other == [cmd |-> "other"]
Segment64(addr, size, offset, scanned, sections) ==
    [cmd |-> "LC_SEGMENT_64", scanned |-> scanned, sections |-> sections,
     segment |-> [vm_addr |-> addr, vm_size |-> size, file_offset |-> offset]]

\* The segments of an image that starts at the address: the text with the
\* header in front, and the rest of the file, with the exports trie.
TextSize == 64
LinkEditSize == 10
FileSize == TextSize + LinkEditSize
InitOffsets(inits) == [type |-> "init_func_offsets", funcs |-> inits]
Text(addr, inits, tlv) ==
    Segment64(addr, TextSize, 0, TRUE,
              <<InitOffsets(inits),
                [type |-> IF tlv THEN "thread_local_variables" ELSE "other", funcs |-> << >>]>>)
LinkEdit(addr) ==
    Segment64(addr + TextSize, LinkEditSize, TextSize, FALSE, <<InitOffsets(<<7>>)>>)
PageZero == Segment64(0, PAGE_ZERO_SIZE, 0, FALSE, << >>)
ExeSegments(inits, tlv) ==
    <<PageZero, Text(PAGE_ZERO_SIZE, inits, tlv), LinkEdit(PAGE_ZERO_SIZE)>>
DylibSegments(inits) == <<Text(0, inits, FALSE), LinkEdit(0)>>

Fixing(fixups) == [cmd |-> "LC_DYLD_CHAINED_FIXUPS", fixups |-> fixups]
\* Fixups, by the number of the pointer in the text.
Rebase(n, target) == [kind |-> "rebase", offset |-> PointerSize * n, target |-> target]
Bind(n, symbol, ordinal) ==
    [kind |-> "bind", offset |-> PointerSize * n, symbol |-> symbol, ordinal |-> ordinal]

\* Symbol-table entries.
Entry(name, kind, value, flags) ==
    [name |-> name, long |-> "long" \in flags, kind |-> kind, value |-> value,
     ext |-> "ext" \in flags, pext |-> "pext" \in flags, weak_def |-> "weak_def" \in flags,
     weak_ref |-> "weak_ref" \in flags, alt_entry |-> "alt_entry" \in flags,
     resolver |-> "resolver" \in flags]
Symtab(entries) == [cmd |-> "LC_SYMTAB", entries |-> entries]

Defined(offset) == [kind |-> "defined", offset |-> offset]
Reexported(ordinal) == [kind |-> "reexported", ordinal |-> ordinal]

File(type, commands, exports) ==
    [filetype |-> type, commands |-> commands, size |-> FileSize, trie |-> TextSize,
     exports |-> exports, misread |-> << >>]
BareExe(commands) == File("MH_EXECUTE", <<Main>> \o commands, << >>)
Exe(commands) == BareExe(ExeSegments(<< >>, FALSE) \o commands)
LibraryFile(inits, commands, exports) ==
    File("MH_DYLIB", DylibSegments(inits) \o commands, exports)
\* A library without code of its own to run, exporting "f".
Dylib1(commands) == LibraryFile(<< >>, commands, ("f" :> Defined(2)))

ExePath == <<"app", "hello_world">>
Lp(lib) == <<"app", lib>>
World(exe, libs) ==
    [exe |-> ExePath, exec_dir |-> App, disk |-> (ExePath :> exe) @@ libs, cache |-> Cache]

-----------------------------------------------------------------------------
(* Link tests of test/binaries that dynld passes: the executable has a     *)
(* constructor, thread-local variables, a weak definition and a pointer    *)
(* into each library.                                                      *)

FullExe(dylibCmd, at) ==
    BareExe(ExeSegments(<<1, 2>>, TRUE) \o
        <<RpathCmd("@executable_path"),
          Dylib(dylibCmd, Name(at, <<"libfoo">>)), Load(System),
          Symtab(<<Entry("w", "undf", 0, {"ext"}), Entry("l", "sect", 5, {"long"}),
                   Entry("d", "stab", 3, {}), Entry("w", "sect", 6, {"ext", "weak_def"})>>),
          Fixing(<<Rebase(0, 3), Bind(1, "f", 1), Bind(2, "printf", 2),
                   Bind(3, "w", BIND_SPECIAL_DYLIB_WEAK_LOOKUP)>>), Other>>)

PassingTests ==
    {World(FullExe(cmd, at), (Lp("libfoo") :> Dylib1(<<Load(System), Other,
                Fixing(<<Bind(4, "printf", 1), Rebase(5, 1)>>)>>))) :
        cmd \in LinkedDylibCommands, at \in Rpath}

-----------------------------------------------------------------------------
(* Programs for each way a load can end other than in the program, and     *)
(* some that just do not end there.                                        *)

Broken(commands) == World(Exe(commands), << >>)
Linking(file) == World(Exe(<<RpathCmd("@executable_path"), Load(Rp("libfoo")),
                             Fixing(<<Bind(1, "f", 1)>>)>>),
                       (Lp("libfoo") :> file))

(* libfoo has no LC_RPATH, so its @rpath/libbar is a relative path.        *)
NestedWithoutRpath ==
    World(Exe(<<RpathCmd("@executable_path"), Load(Rp("libfoo"))>>),
          (Lp("libfoo") :> Dylib1(<<Load(Rp("libbar"))>>))
            @@ (Lp("libbar") :> Dylib1(<< >>)) @@ (<<"libbar">> :> Dylib1(<< >>)))

(* A library whose second half is not at its file offset in memory: what   *)
(* is there instead may look like an export of "f", or may not.            *)
MovedLinkEdit(found) ==
    [File("MH_DYLIB", <<Text(0, << >>, FALSE),
                        Segment64(96, LinkEditSize, TextSize, FALSE, << >>)>>,
          ("f" :> Defined(2)))
        EXCEPT !.misread = found]

(* Images that are not mapped as they should be: without segments, with a  *)
(* region of no bytes, with a copy that leaves the file or the region, and *)
(* with a pointer or an initializer behind the region.                     *)
UnmappablePrograms ==
    {World(BareExe(commands), << >>) : commands \in
        {<< >>, <<Segment64(0, 0, 0, TRUE, << >>)>>,
         <<PageZero, Segment64(PAGE_ZERO_SIZE, 4 * TextSize, 0, TRUE, << >>)>>,
         <<Text(PAGE_ZERO_SIZE, << >>, FALSE)>>,
         <<PageZero, Text(PAGE_ZERO_SIZE, <<9 * TextSize>>, FALSE)>>,
         ExeSegments(<< >>, FALSE) \o <<Fixing(<<Rebase(10, 0)>>)>>}}

FailingPrograms ==
    UnmappablePrograms \cup
    {World(File("unsupported", << >>, << >>), << >>),
     Broken(<<Fixing(<<Rebase(1, 2)>>), Fixing(<<Rebase(2, 3), Rebase(3, 3)>>)>>),
     Broken(<<Fixing(<<Rebase(9, 0)>>)>>),
     Broken(<<[cmd |-> "unreadable"]>>),
     Broken(<<[cmd |-> "bad_string"]>>),
     Broken(<<RpathCmd("unknown")>>),
     Broken(<<Symtab(<<Entry("a", "sect", 1, {"ext", "pext"})>>)>>),
     Broken(<<Symtab(<<Entry("a", "undf", 0, {"long"}), Entry("a", "undf", 1, {"ext"})>>)>>),
     Broken([i \in 1..(MAX_DEPENDENCIES + 1) |-> Load(System)]),
     Broken([i \in 1..(ARRAY_CAPACITY + 1) |-> Load(System)]),
     Broken([i \in 1..(ARRAY_CAPACITY + 1) |-> PageZero]),
     Broken(<<Load(Rp("libfoo"))>>),
     Broken(<<RpathCmd("@rpath"), Load(Rp("libfoo"))>>),
     Broken(<<Fixing(<<Bind(1, "f", BIND_SPECIAL_DYLIB_FLAT_LOOKUP)>>)>>),
     Broken(<<Fixing(<<Bind(1, "f", BIND_SPECIAL_DYLIB_WEAK_LOOKUP)>>)>>),
     Broken(<<Load(System), Fixing(<<Bind(1, "f", 2)>>)>>),
     Broken(<<Load(System), Fixing(<<Bind(1, "f", 1)>>)>>),
     Linking(LibraryFile(<< >>, <<Main>>, << >>)),
     Linking(LibraryFile(<< >>, << >>, << >>)),
     Linking(LibraryFile(<< >>, << >>, ("f" :> Reexported(1)))),
     Linking(LibraryFile(<< >>, <<Dylib("LC_REEXPORT_DYLIB", System)>>, ("f" :> Reexported(1)))),
     Linking(LibraryFile(<<1>>, << >>, ("f" :> Defined(2)))),
     Linking(File("MH_DYLIB", << >>, ("f" :> Defined(2)))),
     Linking(MovedLinkEdit(<< >>)), Linking(MovedLinkEdit("f" :> Defined(3))),
     Linking(Dylib1(<<Dylib("LC_REEXPORT_DYLIB", System)>>)),
     NestedWithoutRpath}

-----------------------------------------------------------------------------
(* Every dependency graph of an executable and two libraries in which each *)
(* file links at most two of them, in either order, possibly twice; each   *)
(* file binds "f" through each of its ordinals.                            *)

Linking2(libs) ==
    <<RpathCmd("@loader_path")>> \o [i \in DOMAIN libs |-> Load(Rp(libs[i]))]
        \o <<Fixing([i \in DOMAIN libs |-> Bind(i, "f", i)])>>

GraphWorlds ==
    LET choices == BoundedSeq({"libA", "libB"}, 2)
    IN  {World(BareExe(ExeSegments(<<1>>, FALSE) \o Linking2(e)),
               (Lp("libA") :> Dylib1(Linking2(a))) @@ (Lp("libB") :> Dylib1(Linking2(b)))) :
            e \in choices, a \in choices, b \in choices}

-----------------------------------------------------------------------------
(* Link tests of test/binaries that dynld does not pass, and one for the   *)
(* comment on @loader_path.                                                *)

UseRpath == RpathCmd("@executable_path")

\* 23_weak_dylib_missing: libmissing is linked weakly and then removed.
WeakDylibMissing ==
    {World(Exe(<<UseRpath, Dylib("LC_LOAD_WEAK_DYLIB", Rp("libmissing")), Load(System),
                 Fixing(<<Bind(1, "other_symbol", 1), Bind(2, "printf", 2)>>)>>), << >>)}

\* Libraries a and b built without an LC_RPATH of their own, as 24 and 28
\* are.  What follows @rpath/ in their install names is then a relative path:
\* it names a file only when the tests are started in their own directory.
LibAB(a, b, started_there) ==
    (Lp("libA") :> a) @@ (Lp("libB") :> b)
        @@ (IF started_there THEN (<<"libA">> :> a) @@ (<<"libB">> :> b) ELSE << >>)

UsesLibA(symbol) ==
    Exe(<<UseRpath, Load(Rp("libA")), Load(System), Fixing(<<Bind(1, symbol, 1)>>)>>)

\* 24_upward_dylib, started in its own directory: libB's first library is
\* libA, linked upward.
UpwardDylib ==
    {World(UsesLibA("entry"),
           LibAB(LibraryFile(<< >>, <<Load(Rp("libB")), Load(System),
                                  Fixing(<<Bind(1, "from_b", 1), Bind(2, "printf", 2)>>)>>,
                      ("from_a" :> Defined(1)) @@ ("entry" :> Defined(2))),
                 LibraryFile(<< >>, <<Dylib("LC_LOAD_UPWARD_DYLIB", Rp("libA")), Load(System),
                                  Fixing(<<Bind(1, "from_a", 1)>>)>>,
                      ("from_b" :> Defined(1))),
                 TRUE))}

\* 28_init_calls_dependent: libA has a constructor that calls into libB.
InitCallsDependent(started_there) ==
    World(UsesLibA("touch"),
          LibAB(LibraryFile(<<3>>, <<Load(Rp("libB")), Load(System),
                                 Fixing(<<Bind(1, "greet", 1)>>)>>,
                     ("touch" :> Defined(1))),
                LibraryFile(<< >>, <<Load(System),
                                 Fixing(<<Bind(1, "printf", 1)>>)>>,
                     ("greet" :> Defined(1))),
                started_there))
DylibInitializer == {InitCallsDependent(TRUE)}
RpathOfDependent == {InitCallsDependent(FALSE)}

\* 29_rpath_chain and 30_rpath_in_dependent: an LC_RPATH that is more than
\* the bare placeholder.
RpathWithDirectory ==
    {World(Exe(<<Load(Rp("libfoo")), Load(System), RpathCmd("unknown"), RpathCmd("unknown")>>),
           (<<"app", "subdir", "libfoo">> :> Dylib1(<< >>))),
     World(Exe(<<UseRpath, Load(Rp("libmiddle"))>>),
           (Lp("libmiddle") :> Dylib1(<<RpathCmd("unknown"), Load(Rp("libleaf"))>>))
             @@ (<<"app", "sub", "libleaf">> :> Dylib1(<< >>)))}

\* A library in a directory of its own looks for another one beside itself.
LoaderPathInDependent ==
    {World(Exe(<<UseRpath, Load(Name("@executable_path", <<"sub", "libmiddle">>))>>),
           (<<"app", "sub", "libmiddle">> :>
                Dylib1(<<RpathCmd("@loader_path"), Load(Rp("libleaf"))>>))
             @@ (<<"app", "sub", "libleaf">> :> Dylib1(<< >>)))}

LinkTests == WeakDylibMissing \cup UpwardDylib \cup RpathWithDirectory
                \cup RpathOfDependent \cup DylibInitializer \cup LoaderPathInDependent

(* Each of these fails on its own account: it can be mapped, and either it *)
(* is not linkable as dynld links, so that EntersOnlyLinkable says it is   *)
(* never entered, or a library of it has an initializer.                   *)
ASSUME LinkTestsDiverge ==
    \A w \in LinkTests : /\ MappableProgram(w)
                         /\ ~LinkableProgram(w) \/ w \in DylibInitializer

(* None of these can, though each would be linkable.                       *)
ASSUME UnmappableOnly ==
    \A w \in UnmappablePrograms : LinkableProgram(w) /\ ~MappableProgram(w)

-----------------------------------------------------------------------------
AllWorlds == PassingTests \cup FailingPrograms \cup GraphWorlds \cup LinkTests

(* OverflowNeedsCycle is proved from this.                                 *)
ASSUME StackIsLargeEnough == StackHoldsAll
=============================================================================
