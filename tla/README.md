# dynld in TLA+

dynld is a dynamic linker for macOS on arm64, written in `no_std` Rust. The kernel
(or the test launcher) maps it next to an executable; it rebases itself, finds the dyld
shared cache the process already has, loads the executable's user libraries from disk
recursively, binds and rebases every image through its chained fixups, runs the
initializers and jumps to the program's entry point. This directory holds a TLA+
model of it, the TLC runs that check the model on small instances, and TLAPS proofs.

Paths below are relative to the repository (`src/loader.rs` is the linker's loader).

## 1. Inventory

| Part | State | Operations | Hard behaviour | What makes it correct |
|---|---|---|---|---|
| Image loader (`src/loader.rs`, `src/user_dylibs.rs`) | one `ParsedImage` per activation of `macho_loader`, the call stack, mapped segments and their pages, the list of dylib images | `macho_parser` (one function per load command), `dependencies_collect`, `user_dylibs_load_recursively`, `macho_segments_map_to_vm`, `image_fixups_apply`, `image_finalize` | unbounded recursion over the dependency graph, order of the phases across activations, failure in the middle of one, segments that share pages or are longer than their file bytes | code runs only in linked, protected images; ordinals denote the right library; only linkable programs are entered; every byte of a segment is at its address |
| Chained fixups (`src/fixups.rs`) | list of fixups per image | decoding chains (`chained_fixups_parse_all`), applying them (`fixup_all_chained_fixups`) | bit layouts and strides per pointer format, pages without fixups, addends, special ordinals | exactly the pointers the image has are found, and each gets the address it denotes |
| Symbol lookup in a dylib (`src/dylib.rs`, `src/macho_image.rs`) | none | `symbol_resolve`, re-export chase with a budget of 16, export-trie walk with a visit budget | cyclic tries, cyclic re-exports, ordinals that count different commands | finds exactly the exported names, ends on any input |
| Shared cache (`src/dyld_shared_cache.rs`, `src/dsc.rs`, `libdsc/`) | attached subcaches, mappings, index of images | `attach_all`, `index_all`, `locate`, `symbol_resolve`, umbrella search | address translation across subcaches, budgets, an error that ends the search | a name resolves to the library that defines it |
| Allocator (`src/allocator.rs`) | spinlock, bump chunk, free list threaded through the free blocks | `alloc_impl`, `dealloc_impl`, `with_state`, `bump_alloc`, `take_from_free_list` | threads, long sequences of splits and reuses, alignment | the `GlobalAlloc` contract: unique, aligned blocks |
| Startup and exit (`src/main.rs`, `src/entrypoint.rs`, `src/libc.rs`, `src/print.rs`, `src/__dyld_start.s`) | `HAS_REBASED_SELF`, dynld's own fixups, the container of the executable | `rebase_self_and_extract_bind_fixups`, `start`, `arm64_container_create`, `tls_functions_self_bind_hack`, `dynld_entrypoint`, `panic`, `exit_error`, `write_all` | code that must not use its own pointers yet, panics in the panic handler, partial writes | nothing uses a pointer before it is fixed up; the loader runs only then; error handling ends |
| Thread-local variables (`libtlv/`, `src/tlv.rs`) | pthread key per image, list of images, per-thread blocks, terminator lists | `initialize_descriptors`, lazy allocation on first access, `_tlv_atexit`, finalization | threads racing to register and to read, destructors that register destructors | one block per thread and image, every destructor once, in reverse |
| Fixed-capacity containers (`src/array.rs`) | `FixedVec`, `FixedString`, `IntoIter` over slots that are never cleared | push, try_push, pop, clear, into_inner, drop, iteration from both ends, try_push_str | capacity, ownership of what the slots hold | every element has one owner and is dropped once; a bounded sequence |
| Kernel interface, printing, bindings, `ptrauth` (not built), launcher | - | wrappers, generated structures | - | not modelled |

How they interact: `start` parses and rebases dynld's own image, then `dynld_entrypoint` builds the container and the shared-cache view and
calls `macho_loader` for the executable. `macho_loader` calls itself once per user
library and reads the export tries of the images that call returned; system libraries
are only looked up in the shared cache. Everything is sequential up to the program's
entry point, but initializers and thread-local accessors run program code. All heap
state goes through the global allocator, which claims `Sync` and may be called by any thread.

## 2. Modules

| Module | Models |
|---|---|
| `MachO` | the data: files as sequences of load commands, install names, symbol-table entries, and the pure decisions of `loader.rs` on them (symbol classification, sections, where a library is looked for) |
| `Loader` | `macho_loader` and all it calls, as a state machine |
| `Linkable` | a reference definition of loadable programs, on the files alone, and the properties that compare the loader with it |
| `MCLoader` | the programs: link tests of `test/`, one program per way a load can end, all small dependency graphs |
| `LoaderProofs` | types, nesting, ordinals, order of initialization and sealed images, that only linkable programs are entered and that only cycles exhaust the stack, proved |
| `SegmentMap` | `macho_segments_map_to_vm` and `macho_segments_vm_protect` on bytes and pages |
| `MCSegmentMap` | images as linkers lay them out, and images with segments that overlap |
| `SegmentMapProofs` | segments in place and their protection, proved |
| `ChainedFixups` | `chained_fixups_parse_all`, down to the bit fields |
| `FixupFormat` | the layouts that `bindings_macho.rs` documents, as an encoder, and which plans of an image are well formed: the reference for the parser |
| `Startup` | dynld's start and every way out; composes `ChainedFixups` |
| `MCStartup` | starts: every form of pointer, of executable, of what the kernel provides |
| `Selection` | the loop that keeps some elements of a vector, in a form that can be reasoned about |
| `StartupProofs` | types, the slice, the ends of error handling, that an image laid out as documented is decoded exactly, and the two passes over dynld's own pointers, proved |
| `BoundedSequence` | what `array.rs` promises |
| `FixedVec` | `FixedVec`, `IntoIter`, `FixedString` |
| `MCFixedVec` | an array of three slots, five items, four strings |
| `FixedVecProofs` | ownership, and that `FixedVec` implements `BoundedSequence`, proved |
| `AbstractAllocator` | the `GlobalAlloc` contract quoted in `allocator.rs` |
| `Allocator` | the allocator, any number of threads |
| `MCAllocator` | bounded sequences of calls |
| `AllocatorProofs` | exclusion, uniqueness, containment and alignment of memory, and that `Allocator` implements `AbstractAllocator`, proved |
| `SharedCache` | `DyldSharedCache`: attaching, indexing, symbol resolution |
| `MCSharedCache` | small caches: re-export graphs, layouts, broken tables |
| `SharedCacheProofs` | types, that the index holds the mapped images at their places, that answers are definitions and that none is missed, proved |
| `ExportsTrie` | the walk of an exports trie |
| `MCExportsTrie` | all tries of three nodes over few labels, and one of no bytes |
| `ExportsTrieProofs` | the walk and its budget, proved |
| `SequenceLemmas` | sequences that are appended to, shortened or written, least elements, induction over a set of naturals, maxima and minima, that functions defined by recursion exist, what a selection holds and how to count in it: used by the proofs of several components |

### Loader

Variables: `world` is what one start of dynld finds (executable, its directory, the files
`open` would find, the cached libraries with the symbols each resolves); it never
changes. `images` has one record per activation of `macho_loader`, in the order they
start: the fields of `ParsedImage` plus `pc`, the phase it is in, `at`, the items of
that phase already dealt with, `libs` (`dylib_images`), `mem` (the pointers written by
fixups), `sealed` (protected segments) and `calls` (addresses called as initializers).
`stack` holds the activations that have not returned; only its top steps. `outcome` is
`"loading"` until the outermost activation ends.

Actions follow the functions: one per load command kind in `macho_parser`
(`ParseDylib`, `ParseMain`, `ParseSymtab`, `ParseSegment`, `ParseChainedFixups`,
`ParseRpath`, `SkipCommand`, and the failures `BadHeader`, `BadCommand`);
`CollectDependencies`; `LoadSystemDylib`, `LoadUserDylib` (open, mmap and the recursive
call) and `LoadUserDylibFails`; `MapSegments`; one action per kind of fixup
(`ApplyRebase`, `ApplyWeakBind`, `ApplySystemBind`, `ApplyUserBind`, and the rejected
binds); `TlvInitialize`, `ProtectSegment`, `CallInitializer`; `ReturnToCaller` and
`EnterProgram`. Every `?` and every panic is an outcome of its own (`Stop`).

Abstractions: a path is a sequence of components, an install name its placeholder and
the rest; reading bytes succeeds or fails as a whole (`"unreadable"`, `"bad_string"`
commands); a file's export trie is a function from names to what `dylib_symbol_resolve`
makes of its terminals (defined, re-exported or not there); the shared cache is a function
from install names to symbols; the contents of segments other than fixed-up pointers are
left out. Wherever the code copies, writes or jumps outside the memory it has, what happens is
undefined, and the model lets the load either go on or end with `"fault"`: a copy that leaves the
file's pages or the region (`CopyStrays`), a pointer or an initializer behind the region
(`BeyondRegion`), an initializer called at an address that is not its own. Without
segments `MapSegments` panics or allocates one byte (`RegionSize`), as the build checks overflow or
not. A file is parsed where `mmap` has put it, but the exports of a library are read from the region it was copied to, at offsets from
its file: `ReadInPlace` says that header and trie are there, and where they are not a lookup finds
whatever `misread` holds. Of several `LC_DYLD_CHAINED_FIXUPS` the first is parsed, each time one is met.
That `vm_addr + vm_size` may exceed 64 bits is left out.

### Segment map

In `Loader` mapping is one step and protecting one per segment, and only what may stop the load or lead it
astray is told apart; here both are done byte by byte. An address counts from the start of the region the kernel gave; the byte at offset
`o` of the file is `o + 1`, so that every byte of memory tells where it comes from.
`CopySegment` copies `vm_size` bytes from the mapped file, whose last page `mmap` fills
with zeros and behind which anything may lie (`FileByte`, `CopyFaults`); `stray` records a
copy or a protection beyond the region. `ProtectSegment` makes one of the two `vm_protect`
calls of a segment on whole pages, as the kernel does (external). An image without
segments overflows `max_addr - min_addr`, which panics or wraps, depending on the build.

### Chained fixups

A 64-bit word is the set of the positions of its one bits: shifts and masks are exact at
full width, and a field of 43 bits at its limits is one small set. `cursor` is the state of
the loops of `chained_fixups_parse_all`: load command, segment, page, offset in the chain;
`fixups` is the vector it fills. One action per kind of step: `SkipCommand`, `ReadHeader`,
`SkipSegment`, `EnterSegment`, `EnterPage`, `PushRebase`, `PushBind` (which goes through
`import_symbol_parse`), and one for every `?`, `unwrap` and `unimplemented!` on the way. The tables in
the command's payload are given decoded, with marks for those the file is too short for.

`FixupFormat` goes the other way: from a plan of the pointers an image is meant to have it
computes the words (`Encode`), the chains and the tables, following the comments in
`bindings_macho.rs`, and the fixups a parser must find (`MeantFixups`). A plan lists the places
of its pointers in the order of the image. `IsPlan` says what a linker can lay out (fields within
their widths, distances the next field can hold, binds to imports that exist), `IsPlain` which
of the documented forms the parser takes as they are documented: it leaves out those of the finding
`fixup_formats`, whose other half (addends that are decoded and then not applied) comes after the parse.
`LaidOut` is an image of such a plan. `MCStartup` states as assumptions, which TLC evaluates, that
its plans are of this kind, so the theorems about `LaidOut` images speak of the images that are run.

### Startup

The state of the parser, and: `mem`, the pointers written into dynld's own image;
`HAS_REBASED_SELF`; `slice`, the part of the executable chosen; `depth`, the nested
panics; `pending`, the `write_str` calls left of a message. `ParseSelf` steps the parser,
`RebaseOne` and `BindOne` are the two passes of `fixup_all_chained_fixups` over dynld
itself, the second after the kept binds were redirected to libSystem (`AttachCache`).
`ContainerCreate` is `arm64_container_create`, with the magics read in both byte orders.
`Fail` and `Panic` are what every error path and every `unwrap` lead to; `WriteAll` takes any part of the
buffer, `WriteFails` re-enters the handler. `RunLoader` and `AttachCache` have the results
that `Loader` and `SharedCache` can have.

### Fixed-capacity containers

Moving an element out of a slot leaves its bits behind, so `slots` keeps old values and
`len` and `index` alone say which are owned. `held`, `dropped` and `forgotten` follow
the items outside: the user has them, their destructor has run, or nothing will ever run
it (`into_inner` hands out uninitialized slots). One action per method that changes
something; `form` is the type the memory belongs to.

### Allocator

Addresses and sizes are bytes. `free` is the list of nodes, head first (in the code each
node lies in the first bytes of its block), `chunk` the bump chunk, `live` the blocks
callers hold, `chunks` a history of the regions obtained for chunks, `th` the program
counter and locals of each thread. `with_state` is `Acquire` ... `Release`; the search
of the free list takes one step per node (`Walk`), so other threads interleave at every
node; `Take`, `Push`, `Bump`, `Grow` and `Rebump` are the effects in the section. A
failed compare-exchange changes nothing and is a stuttering step. `FreshRegions` stands for `vm_allocate` (external): any
page-aligned region that overlaps nothing mapped, or a refusal. `align_up`'s bit mask is
written as rounding with division, which is the same for powers of two; the assumption
actually used is only that of two alignments one divides the other.

### Shared cache

`cache` is what the kernel has mapped: base, slide, tables, and what lies at each unslid
address. `subs` and `libraries` are the two vectors of `DyldSharedCache`; a sub-cache is
a container at a runtime address, so reading a header or a trie goes through the runtime
pointer and offset the code computes, and the model knows whether that is the right
place. `Attach`, `AttachFails`, `Attached`, `IndexImage`, `SkipImage`, `IndexFails`, `IndexPanics` and
`Indexed` are `from_existing`, one table entry per step; `SymbolResolve` starts one
lookup (the view is immutable afterwards). `frames` are the recursive calls of
`symbol_resolve_with_max_depth`: `FindLibrary`, `FindTrie` and `LookInTrie` are the
stages of `try_resolve_via_exports_trie`, `FollowReexport` the tail call,
`CollectReexports`, `UmbrellaNext` and `UmbrellaDone` the umbrella search. Abstractions:
an image's load commands are a sequence in which `"unreadable"` marks the first one that
cannot be read; the trie walk is the terminal it ends in. A table entry that lies outside its
container is marked (`listed`, `readable`), and a path that is not a UTF-8 string is `BadPath`, on which
`IndexPanics`. That the mapping table of a sub-cache lies within the memory it spans is assumed
(`IsCache`), so the `expect` at line 68 never fails here.

The reference the answers are compared with is a graph on (library, symbol) pairs drawn
from what the cache holds, not from the tables: `Definitions` are the definitions fewer
than `MAX_REEXPORT_RESOLUTION_DEPTH` re-exports away. A library ordinal counts the load commands of
every kind of library there (`DependenciesOf`, after the comment in `bindings_macho.rs`), while
the code counts `LC_LOAD_DYLIB` and `LC_REEXPORT_DYLIB` only. `AnswersAsLinked` compares answers with that
reference, and the code violates it (run `cache_ordinals`); `ResolvesToDefinition` and `FindsDefinition` say the same of
caches in which the two ways of counting agree on every ordinal that is used (`OrdinalsAgree`: no weak,
upward or lazy library is listed at or before it).

### Exports trie

One action per way a round of the loop ends. A trie is given decoded: at each offset a
node or nothing. Any graph of nodes is possible, since malformed bytes may decode to any
node at any offset that leaves room for its two bytes (`IsTrie`, from `TrieNodeReader::open`). The budget is the number of bytes, as in the code.

## 3. Runs

| Run | Question | Result |
|---|---|---|
| `loader` | For every program of `MCLoader` and any failing system call: are the phases of nested activations well ordered (`CallChain`, `RunsOnlyLinkedCode`, `SealedImagesStay`), do ordinals denote the right libraries (`OrdinalsDenoteLibraries`), are only linkable programs entered (`EntersOnlyLinkable`, `EntersSafely`), is the stack exhausted only by cycles (`OverflowsOnlyOnCycles`), is every pointer at its place and does it lead where the files say (`PointersDenote`)? Does every load end (`Termination`), for a linkable program that can be mapped and has no library initializers in its entry unless a system call fails (`LinkableIsEntered`)? | holds |
| `link_tests` | Do the link tests that exercise weak and upward libraries, run paths with directories, run paths of dependents, library initializers and `@loader_path` get what their expected output, or the code's comments, say (`LoadsProgram`)? | violated by each, see findings |
| `segment_map` | Is every file byte of every segment at its address and nothing else written, in images that start at 0 (`SegmentsInPlace`)? Does no page end up with an access its segment does not have (`ProtectsAsAsked`)? | holds |
| `segment_bytes` | Do images with zero-fill, and libraries linked at an address, get their file bytes and zeros (`MapsAsDescribed`)? | violated, see findings |
| `startup` | Does the parser find exactly the fixups of every form of image (`DecodesExactly`)? Is no message formatted before all rebases (`FormatsOnlyRebased`), no library loaded before dynld is fixed up everywhere it must be (`LoadsOnlyFixedUp`), only an arm64 image loaded (`LoadsArm64`)? Does error handling itself never kill the process unless the kernel takes no output or does not exit (`DiesOnlyWithoutKernel`)? Does every start end (`Termination`)? | holds |
| `fixup_formats` | Are forms of pointers and imports that `bindings_macho.rs` documents decoded and applied as it says (`FixedUpAsDocumented`)? | violated by six forms, see findings |
| `fixed_vec` | Does every item have one owner after any sequence of calls (`OwnedOnce`); is the array a bounded sequence (`ImplementsSequence`)? | holds |
| `allocator` | Two threads, every sequence of five calls over five layouts, every interleaving: types, `MutualExclusion`, `NoOverlap`, `InsideChunks`, `NodesFit`, `FreshChunkFits`, the refinement `ImplementsContract`; is the lock always released (`LockIsReleased`)? | holds |
| `allocator_alignment` | Is every block aligned as asked for? | violated, see findings |
| `shared_cache` | Do the stored offsets lead back to the headers (`LibrariesInPlace`), is every mapped image indexed (`IndexedExactly`), and, where ordinals are counted right, is every answer a reachable definition (`ResolvesToDefinition`) and every reachable definition found in a well-formed cache (`FindsDefinition`)? Is every lookup answered, with cyclic re-exports too (`Termination`)? | holds |
| `cache_ordinals` | Does a re-export by ordinal lead to the library that the ordinal counts, with weak, upward and lazy libraries before it (`AnswersAsLinked`)? | violated, see findings |
| `exports_trie` | Does the walk return only what the symbol spells (`TerminalIsSpelled`), miss nothing in a sound trie (`ExportedIsFound`) and run out of budget only in cyclic tries and in one of no bytes (`BudgetEndsOnlyCycles`)? | holds |

**Bounds.** `GraphWorlds` has all 343 graphs of an executable and two libraries with at
most two links per file, self-links, double links and cycles included: with three files
every acyclic chain has depth at most 3, so `StackLimit = 4` separates cycles from
everything else (`StackHoldsAll`, which `MCLoader` assumes and TLC evaluates). The capacities 64 and 32 are 4 and 3, so that programs at and above
them exist. `PAGE_ZERO_SIZE = 64`, the size of a text segment, is larger than every offset used in one, so an address with
the page zero added is never mistaken for one without. Images have the segments a linker gives them (page zero, text, link edit, with
`PAGE_SIZE = 16`), and `UnmappablePrograms` has one for each way they can be wrong: none, no bytes, a copy that leaves the
file, a copy that leaves the region, an initializer and a pointer behind it; `MovedLinkEdit` is a library whose trie is elsewhere
in memory. `MCLoader` assumes, and TLC evaluates, that the unmappable programs are all linkable
(`UnmappableOnly`), so that they show what mapping does, and that the link tests can all be mapped (`LinkTestsDiverge`). For the allocator a chunk of 20
bytes, nodes of 4 bytes and layouts rounded to 4, 6 and 8 let five calls fill a chunk,
split and reuse nodes, leave remainders too small for a node and start second and third
chunks; one layout needs a chunk larger than `CHUNK_SIZE` (alignment 32), one is large.
`AddressLimit = 52` leaves room for two chunks or a chunk and large blocks, and makes
refusals happen. The proofs need none of these bounds.
In the shared cache a depth budget of 3 and four libraries give chains within and beyond
it and cycles that use it up, and one library with a weak dependency before a re-exported one; two sub-caches with holes, and a slide, keep every two ways
of counting an offset apart. Three trie nodes give every kind of edge (to the parent, to
itself, to the sibling, to nothing), and a symbol of 30 characters outlasts the bytes of
every such trie.
Segment images have pages of 2 bytes and up to four segments: enough for a page that is
full, half full or all zero-fill, for file and memory offsets that differ, and for two
segments on one page. `MCStartup` has each field of each pointer format empty, with its
lowest and highest bit and with all bits, one and several pointers on one and several
pages and segments, and an import index of more than 16 bits; its names are few, as only
which one is read matters. `StackLimit = 3` panics stand for the stack: an error path causes
at most one without a failing write. In `MCFixedVec` five items and three slots let
slots be reused over old bits, and strings of up to three bytes be too long for what is left.

**Fairness.** The loader, the lookup and the start are sequential and take a step whenever one is possible:
`WF_vars(Next)`. For the allocator every thread keeps running (`WF` on the steps of the
section and on `Acquire`): a thread inside the section never waits for anything but the
kernel, so the lock comes back. Nothing is claimed for a single spinning thread, which
may lose every race.

## 4. Findings

Each is shown by a run that TLC refutes (`link_tests`, `allocator_alignment`, `fixup_formats`,
`cache_ordinals`, `segment_bytes`). The worlds of such a run each fail on their own account,
and `MCLoader` assumes so for the link tests; the tests under `test/binaries` named here are the ones
`readme.md` says may fail.

- A missing library that is linked weakly ends the load (test 23).
- `LC_LOAD_UPWARD_DYLIB` and `LC_REEXPORT_DYLIB` take no ordinal, so later binds look in
  the wrong library (test 24).
- An `LC_RPATH` with anything after the placeholder is an error (tests 29, 30).
- An `@rpath` name in a library without `LC_RPATH` is opened relative to the working
  directory; the run paths of the images that load it are not consulted (test 28).
- `PAGE_ZERO_SIZE` is added to the address of a library's initializers, which have no
  page zero below them: they are never called at their own address.
- `@loader_path` is the executable's directory for every image.
- A large request aligned above a VM page gets a page-aligned block.
- A page without fixups (`DYLD_CHAINED_PTR_START_NONE`) is walked as if a chain started there.
- Imports with addends, in both forms, have their addend read as the offset of the name.
- The addend of an arm64e bind is documented as signed and decoded as unsigned.
- The addend of a bind is not applied.
- The target of `DYLD_CHAINED_PTR_64`, an address, is added to the base like an offset.
- The ordinal of a trie re-export in a cached library skips weak, upward and lazy libraries: the symbol of
  a later library is returned.
- The zero-filled end of a segment gets the file bytes that follow, or the copy runs past
  the end of the file.
- A library linked at an address other than 0 is copied beyond the region allocated for it.

Read in the code, without a run: `EXIT_FAILURE` is 0 (`libc.rs:4`), so a failed load exits with the
status of success, as `Startup` has it. A library whose `__LINKEDIT` is not at its file offset in memory
is searched for exports in the wrong bytes (`dylib.rs:35`), which `Loader` has as `misread`.

## 5. Proofs

For any number of threads, any layouts and any sizes of node, chunk, page and address
space that satisfy the assumptions of `Allocator` (sizes are natural numbers and not
zero where the code divides by them; of a layout's alignment and `MIN_ALIGN` one
divides the other; a node's size and a page are multiples of `MIN_ALIGN`):

- `TypeCorrect`, `LockIsExclusive`, `MemoryIsUnique`, `MemoryIsMapped`;
- `FreeNodesFit`, `SecondBumpSucceeds`, `AllocatorImplementsContract`, all in
  `AllocatorProofs`; the last one assumes `LargeLayoutsPageAligned`, the condition
  that the finding on alignment violates.

The argument. `NoOverlap` is not inductive: a node found by the search must still fit
when it is taken (`ThreadsOK`, which needs `MutualExclusion`), a fresh region must be
disjoint from every owner (`InsideChunks` and `ChunkOK`: everything lies in a region the
kernel knows of). Their conjunction is `IInv`. Each action has a lemma `...Step`;
`RemoveAtFacts` and `TakenList` say that every node of the list after a take lies inside
one node of the old list, no two in the same one, which carries disjointness over.
`AInv` adds where blocks start: `AlignUpFacts`, `ModSum` and `ModTransitive` are the
arithmetic, `FreshChunk` remembers what the first `bump_alloc` has established for the
second. The refinement maps `live` to itself: `AllocLarge` and a `Release` that returns
a block are `Alloc`, the two deallocs `Dealloc`, all else stutters.

For any capacity, any items and any strings over bytes (`FixedVecProofs`):

- `TypeCorrect`: `index <= len <= Capacity` in every form of the array;
- `ItemsAreOwnedOnce`: every item is held, dropped, forgotten or in exactly one owning slot;
- `FixedVecImplementsSequence`: the array implements `BoundedSequence`, with the slots
  from `index` to `len` as the sequence.

The inductive invariant is `TypeOK`, `OwnedOnce` and `FormOK`: that only an iterator has
an `index`, that memory of no one has length 0, and that a string owns bytes only. The refinement rests on lemmas
about a window of a function: what it is after a slot is written behind it (`WindowAppend`, `WindowConcat`)
and when it shrinks at either end (`WindowFront`, `WindowTail`).

For any set of worlds (files, directories, cached libraries), any stack limit, any limits of
`array.rs` and any set of failing system calls (`LoaderProofs`, from the assumptions of `Loader`: worlds are
typed as `IsWorld` says, with finitely many files; limits are natural numbers):

- `NestsProperly` (`CallChain`), `BindsToTheRightLibrary` (`OrdinalsDenoteLibraries`),
  `InitializesBottomUp` (`RunsOnlyLinkedCode`), `PointsWhereFilesSay` (`PointersDenote`) and
  `EntersLinkedProgram` (`EntersSafely`): on entry every image loaded is fixed up and protected, and every
  initializer of the executable has been called at its own address. A library with initializers is excepted, since theirs
  are called at an address that is not theirs (the finding at `loader.rs:648`);
- the action property `WritesOnlyUnsealed` (`SealedImagesStay`);
- `EntersLinkableOnly` (`EntersOnlyLinkable`), `OverflowNeedsCycle` (`OverflowsOnlyOnCycles`, under
  `StackHoldsAll`: the stack has room for as many activations as a program has files) and
  `LoaderTypes` (`TypeOK`).

None of these is inductive alone. `ChainOK` says of the stack that each activation waits for
exactly the file of its pending load command, `StackOK` that an activation is on the stack until
it is done;
`LinksOK` says that the library list of an image follows its load commands up to the point
reached (`LibsOK`) and that each pointer written leads to a library whose activation has
returned (`MemOK`, `TargetOK`). Almost every action is a step of the running activation on its own
image (`Local`) or ends the load (`Stopped`), each treated once; what is left are
`LoadUserDylib`, which pushes an activation its caller waits for, `ReturnToCaller`, the one
step that makes an image done and an entry of another, and `EnterProgram`.

`Linkable` is stated on the files alone, so a second invariant, `PInv`, ties the state to the files: an image
holds what the commands of its file read so far say (`CommandsUpTo`, `InForce`), a library's activation starts
after its loader's, and each fixup that was applied found a definition, from which `PointersAreRight` reads off where its
pointer leads. The reference's set of files
is computed level by level; `ClosureFacts`, `ClosureWithin` and `ChainReaches` say that the levels, no more than
there are files, reach everything that dependencies lead to. That an entered program is acyclic follows from its
images: take the last image of a file on a supposed cycle; the library it needs was
loaded after it, hence is a later image of a file of the cycle. For the overflow, the images on the stack are a
chain of dependencies with more members than files (`Nested`, `NestedIsChain`), so by the
pigeonhole principle a file is on it twice (`OverflowIsCyclic`). For the types, the selections of the parser are
written with `SelectIn`, and what a concatenation of sequences holds is shown by induction on its length.

For any images and page size (`SegmentMapProofs`): `MapsSegmentsInPlace` (`SegmentsInPlace`)
and `ProtectsSegments` (`ProtectsAsAsked`). `BytesOK` says that the segments already copied are
in place: a later copy must not overwrite them, which is where the layout comes in
(`WellLaidOut`, `NoZeroFill`). The attempt corrected that condition: the code skips the segment at address 0
of an executable, so a well laid out one has no file bytes there. For the protections the two calls per segment
are told apart: between them (`HalfwayOK`) a page has its maximum but not its current
protection lowered. `NothingFails` is why no call of a well laid out image is refused: its
segments share no page, so a page's maximum is still untouched (`FreshOK`) when its turn comes.

For any executable, any image of dynld and any behaviour of the kernel (`StartupProofs`):

- `StartTypes` (`TypeOK`): `Number` is a recursive function over the bits, and `WordSteps` bounds
  it by the width of the field, so that an ordinal of 8 bits stays below 256;
- `LoadsTheArm64Slice` (`LoadsArm64`);
- `ErrorHandlingEnds` (`DiesOnlyWithoutKernel`): a panic nests only when the message of
  another could not be printed, so with a working stderr the handler is entered at most once;
- `LaidOutDecodes` (`DecodesExactly`): an image with `LaidOut` is decoded without error to exactly the
  fixups it is meant to have. One half is a round trip on one word: `Packs` says that the fields of an encoded
  pointer do not overlap, `Unpacks` that a shift and a mask give a field back, `WordFacts` that a number is
  the value of its bits, and `RoundTrip` puts them together for each format and form. The other half, `DInv`, follows the cursor:
  `Decoding` relates it to a place of the plan, `ReadTo` says that the fixups found are those of the
  places before it, and `NextPlace` that a chain's next field, the next page and the next segment all lead to the place
  that follows in the list. Distances are sums along a page (`DistanceFacts`), so no place is skipped or read twice;
- `FormatsAfterRebase` (`FormatsOnlyRebased`) and `LoadsAfterSelfBind`
  (`LoadsOnlyFixedUp`), both under the hypothesis `[]DecodesExactly`, and `LaidOutFormats` and `LaidOutLoads`,
  which replace that hypothesis by one on dynld's image alone, `LaidOut`: `FInv` follows the
  pointers through the two passes. Offsets are distinct, so no write undoes another; the binds
  kept by the first pass are all there are (`BindsOfFacts`, on `SelectIn`), so the second
  completes what the first left.

For any trie and any symbol (`ExportsTrieProofs`, from `TriesAssumption`: offsets are natural numbers and a node
has at least two bytes): `WalkTypes`, `ReturnsSpelledTerminal`, `BudgetIsEnough`,
`FindsWhatIsExported`. `OnPath` says that what has been taken off the symbol spells the
current node. `Walked` keeps one edge per visit, so that a walk of as many visits as
there are bytes has, by counting, been at one node twice: a cycle, in which every node is
`Beyond` itself. `OnlyPath` is for completeness: in a trie as the linker writes it no label of a node
is a prefix of another (`UniqueEdge`), hence no node is spelled but those the walk
goes through (`NothingBetween`, `OnlyStep`), and not going back loses nothing. The attempt corrected
`BudgetEndsOnlyCycles`: the budget of a trie of no bytes is spent before the first visit.

For any cache and any lookups (`SharedCacheProofs`, from `CachesAssumption`: a cache has at most 256
sub-caches, since `sub_cache_index` is a `u8` that the code casts to without a test; the first mapping of a
sub-cache is the lowest and starts at the address its table entry gives; what lies at the file offset of an image's path
is its name): `CacheTypes` (`TypeOK`), `HeadersAreFound` (`LibrariesInPlace`), `IndexIsExact` (`IndexedExactly`).
`AttachedOK` says that the containers attached so far are those the sub-cache table describes, and
that all are before the first image is indexed; without it the search for the sub-cache of an image could
miss one. `LocateFacts` is the arithmetic of the translation: the sub-cache it finds, by an index
of eight bits, and the offset lead back to the address, which a mapping of the cache covers (`LocatedIsMapped`, and
`LengthFacts` for the bound of the container). `IndexedOK` compares the index, while it grows, with the
selection of the mapped images among those read (`UpToFacts`); the path is read by file offset in the main cache, and `PathFacts` says
that it is the image's name. `FramesOK` keeps the budget of a frame above zero once its library has been looked at, so that
the frame it calls has one.

For the same caches, with what `CachesAssumption` says of the images themselves (no two files share an address, load commands and
exports are typed, and a library exports what its trie holds if that can be read):

- `AnswersAreDefinitions` (`ResolvesToDefinition`), for a cache built for the base address that dynld assumes
  (`AtLikelyBase`, the hazard at `entrypoint.rs:94`: with another base every address would be off);
- `DefinitionsAreFound` (`FindsDefinition`).

Both properties have `OrdinalsAgree` as a premise, without which the code has the finding at `macho_image.rs:173`.

`LInv` follows the frames along the re-export graph. `LookOK` says that the query of each frame is reached from that of the
frame below it by one re-export, so that an answer of the top frame is a definition which the first
query leads to, with as many steps as the budget has lost. For completeness `Clear` says of each library a frame has done
with that no definition is within the budget from it, and `Searched` and `SearchOK` that the frames have done
with every re-export before the one they wait for. `ReachFirst` splits a path at its first edge; `OrdinalFacts`
shows that the ordinal of a trie re-export selects the load command it counts, which needs the counting lemmas on selections
(`CountFacts`, `SelectPositions`); the code counts other commands than the reference, and `CountsFacts` and `CountedAlike` show that, as
far as `OrdinalsAgree` reaches, both counts arrive at the same command.

Each inductive invariant was first checked by TLC in the states of the component's run, except `DInv`: it quantifies over
all plans, so that there TLC checks its consequence `DecodesExactly`.

**Only model-checked**, and why:

- Liveness (`Termination`, `LinkableIsEntered`, `LockIsReleased`): fairness is out of the prover's reach.

Every safety property of a passing run is stated by a theorem. Some theorems have a hypothesis on the input: `DecodesExactly` is
checked by TLC in every world marked `sound` and proved for `LaidOut` images, which include all plans of
the run (`PlansAreSound`); `ResolvesToDefinition` is proved for caches with `AtLikelyBase`, and it and `FindsDefinition` speak only of caches with `OrdinalsAgree`.

## 6. Plan

Done: all modules of section 2, with proofs for the allocator, the containers, the loader, the
segment map, chained fixups and startup, the exports trie and the shared cache. What could follow is
more of the system: the symbol choice of weak lookups (`fixups.rs:561`) and the
base address of the cache (`entrypoint.rs:94`), which no property settles, and the one copy of a library per path that leads
to it (`loader.rs:150`), which the model makes as the code does.

## 7. Not modelled

- Thread-local variables: `libtlv/readme.md` says that the code "was copied directly from
  dyld"; `src/tlv.rs` declares one external function. The loader's call of it is modelled,
  and that dynld binds the symbols it needs before.
- The kernel interface (`mach.rs`, `mmap.rs`, `syscalls.rs`): wrappers of traps, which
  appear as calls that succeed or fail.
- `dylib_symbol_resolve_following_reexports`, which nothing calls, and
  `into_inner_slice` only as far as ownership: what its uninitialized slots hold is not.
- The pointer-authentication code (not part of the build), formatting, the structures of the bindings
  without behaviour, the launcher (a test tool), and the machine code of jumps.
- Descriptors of library files, which are never closed: nothing in the loader reads them
  again.
