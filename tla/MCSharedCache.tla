---------------------------- MODULE MCSharedCache ----------------------------
(* Small caches of four libraries in two sub-caches: every graph of        *)
(* re-exports that GraphCaches spans, and one cache per way its tables can *)
(* be laid out or be broken.                                               *)
EXTENDS SharedCache

Defined(off) == [kind |-> "defined", offset |-> off]
Reexport(ord, name) == [kind |-> "reexport", ordinal |-> ord, name |-> name]

Load(p) == [cmd |-> "LC_LOAD_DYLIB", path |-> p]
ReexportDylib(p) == [cmd |-> "LC_REEXPORT_DYLIB", path |-> p]
Weak(p) == [cmd |-> "LC_LOAD_WEAK_DYLIB", path |-> p]
Upward(p) == [cmd |-> "LC_LOAD_UPWARD_DYLIB", path |-> p]
Lazy(p) == [cmd |-> "LC_LAZY_LOAD_DYLIB", path |-> p]
Unreadable == [cmd |-> "unreadable"]
Segment(name) == [cmd |-> "LC_SEGMENT_64", segname |-> name, vmaddr |-> 180, fileoff |-> 20]
Trie(cmd, vm) == [cmd |-> cmd, dataoff |-> vm - 160, datasize |-> 2]

(* The main cache lies at 100 with a hole at 120..129, the sub-cache at    *)
(* 150 with a hole at 170..179.  A is in the main cache, the other         *)
(* libraries and all tries are in the sub-cache; paths are in the main     *)
(* cache's second mapping, where file and memory offsets differ.           *)
MappingAt(a, s, f) == [address |-> a, size |-> s, file_offset |-> f]
MainMappings == <<MappingAt(100, 20, 0), MappingAt(130, 10, 20)>>
SubMappings == <<MappingAt(150, 20, 0), MappingAt(180, 10, 20)>>

Image(a, off, name) ==
    [address |-> a, path_file_offset |-> off, name |-> name, readable |-> TRUE]

TwoFiles(cmdsA, cmdsB, cmdsC, exA, exB, exC) ==
    [base |-> 100, slide |-> 7,
     subs |-> <<[offset |-> 0, mappings |-> MainMappings, listed |-> TRUE],
                [offset |-> 50, mappings |-> SubMappings, listed |-> TRUE]>>,
     images |-> <<Image(110, 20, "A"), Image(155, 22, "B"),
                  Image(160, 24, "C"), Image(165, 26, "D")>>,
     strings |-> (130 :> "A" @@ 132 :> "B" @@ 134 :> "C" @@ 136 :> "D"),
     machos |-> (110 :> <<Segment("__TEXT"), Segment("__LINKEDIT"),
                          Trie("LC_DYLD_EXPORTS_TRIE", 180)>> \o cmdsA
                 @@ 155 :> cmdsB \o <<Segment("__LINKEDIT"),
                          Trie("LC_DYLD_INFO_ONLY", 182)>>
                 @@ 160 :> <<Segment("__LINKEDIT"),
                          Trie("LC_DYLD_EXPORTS_TRIE", 184)>> \o cmdsC
                 @@ 165 :> <<Segment("__LINKEDIT"),
                          Trie("LC_DYLD_EXPORTS_TRIE", 186)>>),
     exports |-> (110 :> exA @@ 155 :> exB @@ 160 :> exC
                  @@ 165 :> [x |-> Defined(4), y |-> None]),
     tries |-> (180 :> exA @@ 182 :> exB @@ 184 :> exC
                @@ 186 :> [x |-> Defined(4), y |-> None])]

(* Load commands after those of the segments and the trie; of B, before    *)
(* them.                                                                   *)
DepsOfA == LET d == {Load("B"), ReexportDylib("B"), ReexportDylib("A")}
           IN  {<<>>, <<ReexportDylib("C")>>} \cup {<<p>> : p \in d}
                    \cup {<<p, ReexportDylib("C")>> : p \in d}
                    \cup {<<Load("B"), Weak("D"), ReexportDylib("C")>>}
DepsOfB == {<<ReexportDylib("C")>>, <<ReexportDylib("A")>>,
            <<Load("C"), ReexportDylib("D")>>, <<Unreadable>>}
DepsOfC == {<<>>, <<ReexportDylib("A")>>, <<Unreadable>>,
            <<ReexportDylib("gone"), ReexportDylib("D")>>}

(* Symbol x may be re-exported, under its own name or as y.                *)
ExportsOf(X, Y) == [x : X, y : Y]
GraphCaches ==
    {TwoFiles(a, b, c, ea, eb, ec) :
        a \in DepsOfA, b \in DepsOfB, c \in DepsOfC,
        ea \in ExportsOf({None, Defined(1), Reexport(1, ""), Reexport(1, "y"),
                          Reexport(2, "")}, {None}),
        eb \in ExportsOf({None, Defined(2), Reexport(1, "")}, {Defined(3)}),
        ec \in ExportsOf({None, Defined(2)}, {None})}

Plain == TwoFiles(<<ReexportDylib("B")>>, <<Load("C")>>, <<>>,
                  [x |-> None, y |-> Defined(1)],
                  [x |-> Reexport(1, "y"), y |-> None],
                  [x |-> None, y |-> Defined(3)])

LayoutCaches ==
    {[Plain EXCEPT !.slide = 0],
     \* an image in the hole, before the others and between them
     [Plain EXCEPT !.images[1].address = 125],
     [Plain EXCEPT !.images[2].address = 170],
     \* a path that no mapping covers
     [Plain EXCEPT !.images[3].path_file_offset = 40],
     \* a definition outside the mappings
     [Plain EXCEPT !.exports[160].y = Defined(10), !.tries[184].y = Defined(10)],
     \* a trie past the end of its sub-cache, and one in no sub-cache
     [Plain EXCEPT !.machos[155][3].datasize = 9, !.exports[155].x = None],
     [Plain EXCEPT !.machos[155][3].dataoff = 30, !.exports[155].x = None],
     \* such a trie in a library that also re-exports another
     [Plain EXCEPT !.machos[155] = <<Load("C"), ReexportDylib("D"), Segment("__LINKEDIT"),
                                     Trie("LC_DYLD_EXPORTS_TRIE", 189)>>,
                   !.exports[155].x = None],
     \* an image without __LINKEDIT and one without a trie
     [Plain EXCEPT !.machos[155] = <<Load("C"), Trie("LC_DYLD_EXPORTS_TRIE", 182)>>,
                   !.exports[155].x = None],
     [Plain EXCEPT !.machos[155] = <<Load("C"), Segment("__LINKEDIT")>>,
                   !.exports[155].x = None],
     \* names that cannot be read: of an umbrella's member, of a re-export's target
     [Plain EXCEPT !.machos[110] = <<ReexportDylib(NoName)>> \o @],
     [Plain EXCEPT !.machos[155][1] = Load(NoName)],
     \* no mapping at all, and more than fit in the provisional header
     [Plain EXCEPT !.subs[2].mappings = <<>>, !.exports[110].y = None],
     [Plain EXCEPT !.subs[1].mappings = MainMappings \o <<MappingAt(142, 2, 30), MappingAt(146, 2, 32)>>],
     \* entries of the sub-cache array and of the image table that cannot be read
     [Plain EXCEPT !.subs[2].listed = FALSE],
     [Plain EXCEPT !.images[2].readable = FALSE],
     \* a path that is no string
     [Plain EXCEPT !.images[2].name = BadPath, !.strings[132] = BadPath],
     \* the names of two images are the same
     [Plain EXCEPT !.images[4].name = "C", !.strings[136] = "C"]}

AllCaches == GraphCaches \cup LayoutCaches

(* A re-exports x of its second library.  The first one, or the second, is *)
(* of a kind that is not counted.                                          *)
OrdinalCaches ==
    {TwoFiles(<<Load("B"), Load("C")>>, <<>>, <<>>, [x |-> Reexport(2, ""), y |-> None],
              [x |-> Defined(2), y |-> None], [x |-> Defined(3), y |-> None])}
    \cup
    {TwoFiles(deps, <<>>, <<>>, [x |-> Reexport(2, ""), y |-> None],
              [x |-> Defined(2), y |-> None], [x |-> Defined(3), y |-> None]) :
        deps \in UNION {{<<Load("C"), c, Load("D")>>, <<c, Load("C"), Load("D")>>} :
                            c \in {Weak("B"), Upward("B"), Lazy("B")}}}

AllQueries == {<<"A", "x">>, <<"gone", "x">>}
=============================================================================
