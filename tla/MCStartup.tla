----------------------------- MODULE MCStartup -----------------------------
(***************************************************************************)
(* Starts of dynld: every documented form of pointer in its own image,     *)
(* every arrangement of few pointers on few pages, one image for each way  *)
(* the parse can end, and every combination of what the kernel provides.   *)
(***************************************************************************)
EXTENDS Startup, FixupFormat, SequencesExt

-----------------------------------------------------------------------------
(* Pointers, at the limits of their fields.                                *)

Pattern(width) == {{}, {0}, {width - 1}, 0..(width - 1)}

RebasePtr(target, high8) ==
    [kind |-> "rebase", auth |-> FALSE, value |-> target, high8 |-> high8, addend |-> {},
     extra |-> {}]
AuthRebasePtr(target, extra) ==
    [kind |-> "rebase", auth |-> TRUE, value |-> target, high8 |-> {}, addend |-> {},
     extra |-> extra]
BindPtr(import, addend) ==
    [kind |-> "bind", auth |-> FALSE, value |-> import, high8 |-> {}, addend |-> addend,
     extra |-> {}]
AuthBindPtr(import, extra) ==
    [kind |-> "bind", auth |-> TRUE, value |-> import, high8 |-> {}, addend |-> {},
     extra |-> extra]

\* Import 65537 needs more than 16 bits of ordinal.
Narrow == {{}, {0}}
Wide == Narrow \cup {{0, 16}}
High8 == {{}, {0, 7}}
Diversity == 0..18

PointersOf(format) ==
    CASE format \in {"PTR_64", "PTR_64_OFFSET"} ->
            {RebasePtr(t, h) : t \in Pattern(36), h \in High8}
              \cup {BindPtr(i, a) : i \in Wide, a \in Pattern(8)}
      [] format \in {"ARM64E", "ARM64E_USERLAND"} ->
            {RebasePtr(t, h) : t \in Pattern(43), h \in High8}
              \cup {AuthRebasePtr(t, x) : t \in Pattern(32), x \in {{}, Diversity}}
              \cup {BindPtr(i, a) : i \in Narrow, a \in Pattern(18)}
              \cup {AuthBindPtr(i, x) : i \in Narrow, x \in {{}, Diversity}}
      [] OTHER ->
            {RebasePtr(t, h) : t \in Pattern(43), h \in High8}
              \cup {AuthRebasePtr(t, Diversity) : t \in Pattern(32)}
              \cup {BindPtr(i, a) : i \in Wide, a \in Pattern(18)}
              \cup {AuthBindPtr(i, Diversity) : i \in Wide}

Formats == PointerFormats \ {"unimplemented"}

-----------------------------------------------------------------------------
(* Plans.                                                                  *)

Symbols == ({} :> [text |-> "malloc", long |-> FALSE])
             @@ ({0, 22} :> [text |-> "pthread_key_create", long |-> FALSE])
             @@ ({1} :> [text |-> "free", long |-> FALSE])
             @@ ({2} :> [text |-> "long", long |-> TRUE])
Import(library, weak, name) ==
    [library |-> library, weak |-> weak, name |-> name, addend |-> {}]
Imports == ({} :> Import(1, FALSE, {})) @@ ({0} :> Import(255, TRUE, {0, 22}))
             @@ ({0, 16} :> Import(2, FALSE, {1}))

\* Every pointer of the segments, in order.
Places(segments) ==
    FlattenSeq([s \in DOMAIN segments |->
        FlattenSeq([g \in DOMAIN segments[s].pages |->
            [k \in DOMAIN segments[s].pages[g] |-> Place(s, g, k)]])])

Plan(segments) ==
    [commands |-> <<"other", "LC_DYLD_CHAINED_FIXUPS", "other">>, vm_base |-> {},
     imports_format |-> "IMPORT", imports |-> Imports, symbols |-> Symbols,
     segments |-> segments, places |-> Places(segments), size |-> 100000]

Seg(offset, format, pages) ==
    [segment_offset |-> offset, page_size |-> 32, pointer_format |-> format,
     pages |-> pages]
At(distance, pointer) == [distance |-> distance, pointer |-> pointer]
R == RebasePtr({4}, {})
B == BindPtr({0}, {})

\* Two pointers of every form, one after the other, the second one as far
\* away as the field for its distance can say.
FormPlans ==
    {Plan(<<Seg(64, f, <<<<At(8, p), At(d, q)>>>>)>>) :
        f \in {"PTR_64"}, p \in PointersOf("PTR_64"), q \in {R, B}, d \in {12, 4 * 4095}}
    \cup UNION {{Plan(<<Seg(64, f, <<<<At(8, q), At(d, p)>>>>)>>) :
                    p \in PointersOf(f), q \in {R, B}, d \in {16, 8 * 2047}} :
                f \in Formats}

\* Every segment table of up to three entries: absent, one page of one or
\* two pointers, or two pages.
SegmentForms(base, format) ==
    {Seg(base, format, << >>),
     Seg(base, format, <<<<At(0, R)>>>>),
     Seg(base, format, <<<<At(8, B), At(8, R)>>>>),
     Seg(base, format, <<<<At(0, R), At(8, R), At(16, B)>>, <<At(24, R)>>>>)}
TablePlans ==
    {Plan(<< >>)}
    \cup {Plan(<<a, b, c>>) : a \in SegmentForms(0, "PTR_64_OFFSET"),
                              b \in SegmentForms(64, "ARM64E"),
                              c \in SegmentForms(128, "ARM64E_USERLAND24")}
    \cup {[Plan(<<Seg(0, "PTR_64", <<<<At(0, R)>>>>)>>) EXCEPT !.commands = c] :
            c \in {<< >>, <<"other">>, <<"LC_DYLD_CHAINED_FIXUPS", "unreadable">>}}

Standard == Plan(<<Seg(0, "ARM64E", <<<<At(0, R), At(8, B)>>>>)>>)

\* What bindings_macho.rs documents and the parser does not do: a page
\* without fixups, imports with addends, signed addends, addends applied to
\* the symbol, targets that are addresses in an image whose base is not 0.
DivergentPlans ==
    {Plan(<<Seg(64, "ARM64E_USERLAND24", <<<<At(8, R)>>, << >>, <<At(0, B)>>>>)>>),
     [Standard EXCEPT !.imports_format = "IMPORT_ADDEND"],
     [Standard EXCEPT !.imports_format = "IMPORT_ADDEND64"],
     Plan(<<Seg(64, "ARM64E", <<<<At(8, BindPtr({0}, 0..18))>>>>)>>),
     Plan(<<Seg(64, "PTR_64_OFFSET", <<<<At(8, BindPtr({0}, {3}))>>>>)>>),
     [Plan(<<Seg(64, "PTR_64", <<<<At(8, RebasePtr({4, 32}, {}))>>>>)>>) EXCEPT
        !.vm_base = {32}]}

ASSUME PlansAreSound == \A p \in FormPlans \cup TablePlans : IsPlan(p) /\ IsPlain(p)
ASSUME DivergentPlansAreSound == \A p \in DivergentPlans : IsPlan(p)

-----------------------------------------------------------------------------
(* Images no linker produces, one for each way the parse can end.          *)

Base == ImageOf(Standard)
Broken ==
    {[Base EXCEPT !.commands = <<"other", "unreadable">>],
     [Base EXCEPT !.has_header = FALSE],
     [Base EXCEPT !.segs = <<[state |-> "unreadable"]>>],
     [Base EXCEPT !.segs[1].page_count = 2],
     [Base EXCEPT !.segs[1].pointer_format = "unimplemented"],
     [Base EXCEPT !.segs[1].segment_offset = 1000000],
     [Base EXCEPT !.size = 12],
     [Base EXCEPT !.words[8] = Encode("ARM64E", BindPtr({5}, {}), 0)],
     [Base EXCEPT !.words[8] = Encode("ARM64E", B, 8), !.size = 20],
     [Base EXCEPT !.imports[{0}].header = ShiftLeft({2}, 9)],
     [Base EXCEPT !.imports[{0}].header = ShiftLeft({5}, 9)]}

-----------------------------------------------------------------------------
(* Worlds.                                                                 *)

LibSystem == {"malloc", "free", "pthread_key_create"}
Thin(magic, arm64) == [image |-> [magic |-> magic, short |-> FALSE, arm64 |-> arm64],
                       slices |-> << >>]
SliceOf(magic, arm64, inside) ==
    [magic |-> magic, short |-> FALSE, arm64 |-> arm64, inside |-> inside]
Fat(magic, slices) ==
    [image |-> [magic |-> magic, short |-> FALSE, arm64 |-> FALSE], slices |-> slices]
Arm == SliceOf("MH_MAGIC_64", TRUE, TRUE)
Intel == SliceOf("MH_MAGIC_64", FALSE, TRUE)
Away == SliceOf("MH_MAGIC_64", TRUE, FALSE)
Executables ==
    {Thin(m, a) : m \in Magics \cup {"unknown"}, a \in BOOLEAN}
    \cup {[Thin("MH_MAGIC_64", TRUE) EXCEPT !.image.short = TRUE]}
    \cup {Fat("FAT_CIGAM", s) : s \in BoundedSeq({Arm, Intel, Away,
                SliceOf("unknown", TRUE, TRUE)}, 3)}
    \cup {Fat("FAT_CIGAM", <<[Arm EXCEPT !.short = TRUE], Arm>>),
          Fat("FAT_MAGIC", <<Arm>>), Fat("FAT_CIGAM_64", <<Arm>>)}

World(plan) ==
    [self |-> ImageOf(plan), meant |-> MeantFixups(plan), sound |-> TRUE,
     exe |-> Thin("MH_MAGIC_64", TRUE), cache |-> "attached", libsystem |-> LibSystem,
     argv0 |-> "path", loader |-> "entry", returns |-> FALSE, stderr |-> TRUE,
     exits |-> TRUE]

StandardWorld == World(Standard)

FormWorlds == {World(p) : p \in FormPlans \cup TablePlans}
BrokenWorlds ==
    {[StandardWorld EXCEPT !.self = b, !.sound = FALSE, !.stderr = e, !.exits = x] :
        b \in Broken, e \in BOOLEAN, x \in BOOLEAN}
ExecutableWorlds ==
    {[StandardWorld EXCEPT !.exe = e, !.stderr = s] : e \in Executables, s \in BOOLEAN}
KernelWorlds ==
    {[StandardWorld EXCEPT !.cache = c, !.libsystem = l, !.argv0 = a, !.loader = r,
                           !.returns = b, !.stderr = e, !.exits = x] :
        c \in {"unknown", "broken", "panic", "attached"}, l \in {LibSystem, {"free"}},
        a \in {"path", "null", "not_utf8"}, r \in {"entry", "error", "panic", "crash"},
        b \in BOOLEAN, e \in BOOLEAN, x \in BOOLEAN}

AllStarts == FormWorlds \cup BrokenWorlds \cup ExecutableWorlds \cup KernelWorlds
DivergentStarts == {World(p) : p \in DivergentPlans}
=============================================================================
