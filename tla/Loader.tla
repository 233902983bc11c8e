------------------------------- MODULE Loader -------------------------------
(***************************************************************************)
(* macho_loader and everything it calls: parsing one image, loading the    *)
(* libraries it names recursively, mapping it, applying its chained        *)
(* fixups, protecting its segments and calling its initializers.           *)
(*                                                                         *)
(* Every activation of macho_loader is one image, numbered in the order    *)
(* the activations start; stack holds the activations that have not        *)
(* returned, innermost last.  The program has one thread: only the top of  *)
(* the stack takes steps.  An image's address space is modelled relative   *)
(* to its own vm base.                                                     *)
(***************************************************************************)
EXTENDS MachO

CONSTANTS
    Worlds,             \* the file systems and executables to start from
    ARRAY_CAPACITY,     \* capacity of ParsedImage's libraries and segments, 64
    MAX_DEPENDENCIES,   \* capacity of dependencies_collect's vector, 32
    StackLimit,         \* nested activations the process stack has room for
    Failures            \* system calls that may fail: subset of FallibleCalls

FallibleCalls == {"mmap", "vm_alloc", "vm_protect"}

ASSUME WorldsAssumption == \A w \in Worlds : IsWorld(w)
ASSUME LimitsAssumption == /\ ARRAY_CAPACITY \in Nat /\ MAX_DEPENDENCIES \in Nat
                           /\ StackLimit \in Nat \ {0}
ASSUME FailuresAssumption == Failures \subseteq FallibleCalls

VARIABLES
    world,      \* what this start of dynld finds; never changes
    images,     \* every activation of macho_loader so far
    stack,      \* the activations that have not returned
    outcome     \* "loading" until the outermost activation ends

vars == <<world, images, stack, outcome>>

-----------------------------------------------------------------------------
(* An activation.  at counts the items of the current phase already dealt  *)
(* with: load commands, dependencies, fixups, segments or initializers.    *)
(* libs is dylib_images; mem the pointers the fixups wrote, by offset from *)
(* the vm base; sealed the segments whose protection has been applied;     *)
(* calls the addresses called as initializers, as offsets from the base.   *)

Phases == <<"parse", "load", "map", "fixup", "tlv", "protect", "init", "done">>
Phase == {Phases[i] : i \in DOMAIN Phases}

Address == [space : {"image"}, image : Nat, offset : Nat]
      \cup [space : {"cache"}, library : InstallName, symbol : STRING]
Library == [kind : {"system"}, name : InstallName]
      \cup [kind : {"user"}, image : Nat, name : InstallName]

ImageType ==
    [path : Path, is_executable : BOOLEAN, pc : Phase, at : Nat,
     segments : Seq(Segment), fixups : Seq(Fixup), symbols : Seq(Symbol),
     init_functions : Seq(Nat), libraries : Seq(InstallName), entry_point : Nat,
     has_thread_locals : BOOLEAN, rpath : Rpath \cup {""},
     libs : Seq(Library), mem : Seq(Nat \X Address), tlv : BOOLEAN,
     sealed : Nat, calls : Seq(Nat)]

NewImage(path, is_executable) ==
    [path |-> path, is_executable |-> is_executable, pc |-> "parse", at |-> 0,
     segments |-> << >>, fixups |-> << >>, symbols |-> << >>,
     init_functions |-> << >>, libraries |-> << >>, entry_point |-> 0,
     has_thread_locals |-> FALSE, rpath |-> "",
     libs |-> << >>, mem |-> << >>, tlv |-> FALSE, sealed |-> 0, calls |-> << >>]

Errors == {"not_a_macho", "bad_command", "bad_rpath", "main_in_dylib", "bad_symbol",
           "too_many_dylibs", "open", "mmap", "vm_alloc", "unsupported_bind",
           "unresolved", "vm_protect"}
Outcomes == {"loading", "entered", "panic", "fault", "overflow"} \cup Errors

Cur == stack[Len(stack)]
Img == images[Cur]
FileOf(i) == world.disk[images[i].path]

(* What is true before every step of the running activation.               *)
In(phase) == outcome = "loading" /\ Img.pc = phase

SetImg(img) == images' = [images EXCEPT ![Cur] = img]

(* Err(..) is returned through every activation by `?`, and a panic ends   *)
(* the process: either way no activation takes another step.               *)
Stop(why) == outcome' = why /\ UNCHANGED <<world, images, stack>>

Init ==
    /\ world \in Worlds
    /\ images = <<NewImage(world.exe, TRUE)>>
    /\ stack = <<1>>
    /\ outcome = "loading"

-----------------------------------------------------------------------------
(* macho_parser: one step per load command.                                *)

Commands == FileOf(Cur).commands
Cmd == Commands[Img.at + 1]

BadHeader ==
    /\ In("parse")
    /\ FileOf(Cur).filetype = "unsupported"
    /\ Stop("not_a_macho")

(* The next load command to parse is one of these.                         *)
AtCommand(kinds) ==
    /\ In("parse")
    /\ FileOf(Cur).filetype # "unsupported"
    /\ Img.at < Len(Commands)
    /\ Cmd.cmd \in kinds

Parsed(img) ==
    /\ SetImg([img EXCEPT !.at = @ + 1])
    /\ UNCHANGED <<world, stack, outcome>>

ParseDylib ==
    /\ AtCommand(LinkedDylibCommands)
    /\ \/ /\ Len(Img.libraries) < ARRAY_CAPACITY
          /\ Parsed([Img EXCEPT !.libraries = Append(@, Cmd.name)])
       \/ /\ Len(Img.libraries) >= ARRAY_CAPACITY
          /\ Stop("panic")

ParseMain ==
    /\ AtCommand({"LC_MAIN"})
    /\ \/ /\ FileOf(Cur).filetype = "MH_EXECUTE"
          /\ Parsed([Img EXCEPT !.entry_point = Cmd.entryoff])
       \/ /\ FileOf(Cur).filetype = "MH_DYLIB"
          /\ Stop("main_in_dylib")

ParseSymtab ==
    /\ AtCommand({"LC_SYMTAB"})
    /\ LET fatal == FatalSymbol(Cmd.entries)
       IN  \/ /\ fatal = 0
              /\ Parsed([Img EXCEPT !.symbols = @ \o SymbolsOf(Cmd.entries)])
           \/ /\ fatal # 0 /\ SymbolVerdict(Cmd.entries[fatal]) = "error"
              /\ Stop("bad_symbol")
           \/ /\ fatal # 0 /\ SymbolVerdict(Cmd.entries[fatal]) = "panic"
              /\ Stop("panic")

ParseSegment ==
    /\ AtCommand({"LC_SEGMENT_64"})
    /\ \/ /\ Len(Img.segments) < ARRAY_CAPACITY
          /\ Parsed([Img EXCEPT
                !.segments = Append(@, Cmd.segment),
                !.init_functions = @ \o InitFuncsOf(Cmd),
                !.has_thread_locals = \/ @
                                      \/ SectionsOf(Cmd, "thread_local_variables") # << >>])
       \/ /\ Len(Img.segments) >= ARRAY_CAPACITY
          /\ Stop("panic")

(* The command that is met only says that there are fixups.                *)
ParseChainedFixups ==
    /\ AtCommand({"LC_DYLD_CHAINED_FIXUPS"})
    /\ Parsed([Img EXCEPT !.fixups = chained_fixups_parse_all(FileOf(Cur))])


(* Mutant of ParseRpath: @loader_path is not recognised.                   *)
ParseRpathExecutableOnly ==
    /\ AtCommand({"LC_RPATH"})
    /\ \/ Cmd.path = "@executable_path" /\ Parsed([Img EXCEPT !.rpath = Cmd.path])
       \/ Cmd.path # "@executable_path" /\ Stop("bad_rpath")

ParseRpath ==
    /\ AtCommand({"LC_RPATH"})
    /\ \/ Cmd.path # "unknown" /\ Parsed([Img EXCEPT !.rpath = Cmd.path])
       \/ Cmd.path = "unknown" /\ Stop("bad_rpath")


(* Mutant of SkipCommand: offset is not advanced past a skipped command.   *)
SkipCommandStuck ==
    /\ AtCommand((DylibCommands \ LinkedDylibCommands) \cup {"other"})
    /\ UNCHANGED vars

(* Every other command, LC_REEXPORT_DYLIB and LC_LOAD_UPWARD_DYLIB         *)
(* included, is skipped.                                                   *)
SkipCommand ==
    /\ AtCommand((DylibCommands \ LinkedDylibCommands) \cup {"other"})
    /\ Parsed(Img)

BadCommand ==
    \/ AtCommand({"unreadable"}) /\ Stop("bad_command")
    \/ AtCommand({"bad_string"}) /\ Stop("panic")

(* The end of the parse and dependencies_collect, which refuses more       *)
(* libraries than its vector holds.  Whether a library is in the shared    *)
(* cache is read from world where the dependency is loaded.                *)
CollectDependencies ==
    /\ In("parse")
    /\ FileOf(Cur).filetype # "unsupported"
    /\ Img.at = Len(Commands)
    /\ \/ /\ Len(Img.libraries) <= MAX_DEPENDENCIES
          /\ SetImg([Img EXCEPT !.pc = "load", !.at = 0])
          /\ UNCHANGED <<world, stack, outcome>>
       \/ /\ Len(Img.libraries) > MAX_DEPENDENCIES
          /\ Stop("too_many_dylibs")

MachoParser ==
    \/ BadHeader \/ ParseDylib \/ ParseMain \/ ParseSymtab \/ ParseSegment
    \/ ParseChainedFixups \/ ParseRpath \/ SkipCommand \/ BadCommand
    \/ CollectDependencies

-----------------------------------------------------------------------------
(* user_dylibs_load_recursively: one step per dependency.                  *)

AtDependency == In("load") /\ Img.at < Len(Img.libraries)
Dep == Img.libraries[Img.at + 1]

(* Mutant of DepPath: the executable's rpath is used for every image.      *)
DepPathExecutableRpath == DiskPath(Dep, images[1].rpath, world.exec_dir)

DepPath == DiskPath(Dep, Img.rpath, world.exec_dir)


(* Mutant of LoadSystemDylib: a cached library takes no place in the list. *)
LoadSystemDylibUnlisted ==
    /\ AtDependency
    /\ Dep \in DOMAIN world.cache
    /\ SetImg([Img EXCEPT !.at = @ + 1])
    /\ UNCHANGED <<world, stack, outcome>>

LoadSystemDylib ==
    /\ AtDependency
    /\ Dep \in DOMAIN world.cache
    /\ SetImg([Img EXCEPT !.at = @ + 1,
                          !.libs = Append(@, [kind |-> "system", name |-> Dep])])
    /\ UNCHANGED <<world, stack, outcome>>

(* disk_path_mmap and the recursive call of macho_loader.                  *)
LoadUserDylib ==
    /\ AtDependency
    /\ Dep \notin DOMAIN world.cache
    /\ ~RpathUnimplemented(Dep, Img.rpath)
    /\ DepPath \in DOMAIN world.disk
    /\ Len(stack) < StackLimit
    /\ images' = Append(images, NewImage(DepPath, FALSE))
    /\ stack' = Append(stack, Len(images) + 1)
    /\ UNCHANGED <<world, outcome>>


(* Mutant of LoadUserDylibFails: the limit counts every image loaded.      *)
LoadUserDylibFailsCountingAll ==
    /\ AtDependency
    /\ Dep \notin DOMAIN world.cache
    /\ ~RpathUnimplemented(Dep, Img.rpath)
    /\ DepPath \in DOMAIN world.disk
    /\ Len(images) >= StackLimit /\ Stop("overflow")

LoadUserDylibFails ==
    /\ AtDependency
    /\ Dep \notin DOMAIN world.cache
    /\ \/ RpathUnimplemented(Dep, Img.rpath) /\ Stop("panic")
       \/ /\ ~RpathUnimplemented(Dep, Img.rpath)
          /\ \/ DepPath \notin DOMAIN world.disk /\ Stop("open")
             \/ /\ DepPath \in DOMAIN world.disk
                /\ \/ "mmap" \in Failures /\ Stop("mmap")
                   \/ Len(stack) >= StackLimit /\ Stop("overflow")

DependenciesLoaded ==
    /\ In("load") /\ Img.at = Len(Img.libraries)
    /\ SetImg([Img EXCEPT !.pc = "map", !.at = 0])
    /\ UNCHANGED <<world, stack, outcome>>

UserDylibsLoadRecursively ==
    LoadSystemDylib \/ LoadUserDylib \/ LoadUserDylibFails \/ DependenciesLoaded

-----------------------------------------------------------------------------
(* macho_segments_map_to_vm: the segments' bytes are copied into a fresh   *)
(* region, in which nothing has been fixed up yet.  Without segments a     *)
(* build that checks overflow panics, and any other allocates one byte; a  *)
(* region of no bytes is an error.  A copy that reads behind the file's    *)
(* pages or writes behind the region's may fault, and if it does not the   *)
(* load goes on.  SegmentMap has the copies one by one.                    *)


(* Mutant of MapSegments: the regions get their final protection as they   *)
(* are mapped.                                                             *)
MapSegmentsSealed ==
    /\ In("map")
    /\ SetImg([Img EXCEPT !.pc = "fixup", !.sealed = Len(Img.segments)])
    /\ UNCHANGED <<world, stack, outcome>>

MapSegments ==
    /\ In("map")
    /\ \/ /\ RegionSize(Img.segments) > 0
          /\ SetImg([Img EXCEPT !.pc = "fixup"])
          /\ UNCHANGED <<world, stack, outcome>>
       \/ Img.segments = << >> /\ Stop("panic")
       \/ (RegionSize(Img.segments) = 0 \/ "vm_alloc" \in Failures) /\ Stop("vm_alloc")
       \/ /\ \E s \in ToSet(Img.segments) :
                ~Skipped(Img.is_executable, s) /\ CopyStrays(FileOf(Cur), Img.segments, s)
          /\ Stop("fault")

-----------------------------------------------------------------------------
(* image_fixups_apply and fixup_all_chained_fixups: one step per fixup.    *)

AtFixup(kind) == /\ In("fixup") /\ Img.at < Len(Img.fixups)
                 /\ Img.fixups[Img.at + 1].kind = kind
Fix == Img.fixups[Img.at + 1]

PageZeroOf(i) == IF images[i].is_executable THEN PAGE_ZERO_SIZE ELSE 0

(* Mutant of FixupBase: the page zero is forgotten.                        *)
FixupBaseZero == 0

FixupBase == PageZeroOf(Cur)

ImageAddress(i, offset) == [space |-> "image", image |-> i, offset |-> offset]

(* A pointer is 8 bytes; one that goes behind the region may fault.        *)
PointerSize == 8

Write(value) ==
    \/ /\ SetImg([Img EXCEPT !.at = @ + 1,
                             !.mem = Append(@, <<Fix.offset + FixupBase, value>>)])
       /\ UNCHANGED <<world, stack, outcome>>
    \/ /\ BeyondRegion(Img.segments, Fix.offset + FixupBase, PointerSize)
       /\ Stop("fault")

ApplyRebase ==
    /\ AtFixup("rebase")
    /\ Write(ImageAddress(Cur, Fix.target + FixupBase))

ApplyUnsupportedBind ==
    /\ AtFixup("bind") /\ Fix.ordinal \in UnsupportedOrdinals
    /\ Stop("unsupported_bind")

(* fixup_dylib_weak_symbol: the first symbol of that name in this image's  *)
(* own symbol table; its value is an address, page zero included.          *)
ApplyWeakBind ==
    /\ AtFixup("bind") /\ Fix.ordinal = BIND_SPECIAL_DYLIB_WEAK_LOOKUP
    /\ LET k == SelectInSeq(Img.symbols, LAMBDA s : s.name = Fix.symbol)
       IN  \/ k # 0 /\ Write(ImageAddress(Cur, Img.symbols[k].impl_offset))
           \/ k = 0 /\ Stop("unresolved")

(* fixup_regular_symbol with the library dylibs[ordinal - 1].              *)
RegularBind ==
    /\ AtFixup("bind")
    /\ Fix.ordinal \notin UnsupportedOrdinals \cup {BIND_SPECIAL_DYLIB_WEAK_LOOKUP}
Lib == Img.libs[Fix.ordinal]

ApplyBindOutOfBounds ==
    /\ RegularBind /\ Fix.ordinal > Len(Img.libs)
    /\ Stop("panic")


(* Mutant of ApplySystemBind: a symbol that is not found is left alone.    *)
ApplySystemBindLenient ==
    /\ RegularBind /\ Fix.ordinal <= Len(Img.libs) /\ Lib.kind = "system"
    /\ Write([space |-> "cache", library |-> Lib.name, symbol |-> Fix.symbol])

ApplySystemBind ==
    /\ RegularBind /\ Fix.ordinal <= Len(Img.libs) /\ Lib.kind = "system"
    /\ \/ /\ Fix.symbol \in world.cache[Lib.name]
          /\ Write([space |-> "cache", library |-> Lib.name, symbol |-> Fix.symbol])
       \/ Fix.symbol \notin world.cache[Lib.name] /\ Stop("unresolved")

ApplyUserBind ==
    /\ RegularBind /\ Fix.ordinal <= Len(Img.libs) /\ Lib.kind = "user"
    /\ LET found == dylib_symbol_resolve(FileOf(Lib.image), Fix.symbol)
       IN  \/ found.kind = "none" /\ Stop("unresolved")
           \/ found.kind = "defined" /\ Write(ImageAddress(Lib.image, found.offset))
           \/ found.kind = "reexported" /\ Stop("panic")

(* Mutant of FixupsApplied: the last fixup may be missed.                  *)
FixupsAppliedEarly ==
    /\ In("fixup") /\ Img.at + 1 >= Len(Img.fixups)
    /\ SetImg([Img EXCEPT !.pc = "tlv", !.at = 0])
    /\ UNCHANGED <<world, stack, outcome>>

FixupsApplied ==
    /\ In("fixup") /\ Img.at = Len(Img.fixups)
    /\ SetImg([Img EXCEPT !.pc = "tlv", !.at = 0])
    /\ UNCHANGED <<world, stack, outcome>>

ImageFixupsApply ==
    \/ ApplyRebase \/ ApplyUnsupportedBind \/ ApplyWeakBind \/ ApplyBindOutOfBounds
    \/ ApplySystemBind \/ ApplyUserBind \/ FixupsApplied

-----------------------------------------------------------------------------
(* image_finalize: thread-local variables (of the executable only), then   *)
(* the protections, then the initializers.                                 *)

TlvInitialize ==
    /\ In("tlv")
    /\ SetImg([Img EXCEPT !.pc = "protect",
                          !.tlv = Img.is_executable /\ Img.has_thread_locals])
    /\ UNCHANGED <<world, stack, outcome>>

(* macho_segments_vm_protect: both vm_protect calls of one segment, which  *)
(* may also fail when there is no memory at its address.                   *)
ProtectSegment ==
    /\ In("protect") /\ Img.at < Len(Img.segments)
    /\ \/ /\ SetImg([Img EXCEPT !.at = @ + 1, !.sealed = @ + 1])
          /\ UNCHANGED <<world, stack, outcome>>
       \/ /\ \/ "vm_protect" \in Failures
             \/ LET seg == Img.segments[Img.at + 1]
                IN  BeyondRegion(Img.segments, seg.vm_addr, seg.vm_size)
          /\ Stop("vm_protect")

SegmentsProtected ==
    /\ In("protect") /\ Img.at = Len(Img.segments)
    /\ SetImg([Img EXCEPT !.pc = "init", !.at = 0])
    /\ UNCHANGED <<world, stack, outcome>>


(* Mutant of InitTarget: the page zero is taken off instead of added.      *)
InitTargetBelowBase(func) == func - PAGE_ZERO_SIZE

(* macho_init_functions_exec: the address called is base + offset +        *)
(* PAGE_ZERO_SIZE whatever the image is.                                   *)
InitTarget(func) == func + PAGE_ZERO_SIZE

(* Where the initializer at this offset really is: only an executable has  *)
(* a page zero in front of its header.                                     *)
InitAddress(i, func) == func + PageZeroOf(i)

(* Jumping anywhere else, or out of the region, is undefined: the process  *)
(* faults, or whatever is there returns.                                   *)
CallInitializer ==
    /\ In("init") /\ Img.at < Len(Img.init_functions)
    /\ LET func == Img.init_functions[Img.at + 1]
       IN  \/ /\ SetImg([Img EXCEPT !.at = @ + 1, !.calls = Append(@, InitTarget(func))])
              /\ UNCHANGED <<world, stack, outcome>>
           \/ /\ \/ InitTarget(func) # InitAddress(Cur, func)
                 \/ BeyondRegion(Img.segments, InitTarget(func), 1)
              /\ Stop("fault")

ImageFinalize == TlvInitialize \/ ProtectSegment \/ SegmentsProtected \/ CallInitializer

-----------------------------------------------------------------------------
(* macho_loader returns: to the caller's loop, which records the library,  *)
(* or to dynld_entrypoint, which enters the program.                       *)

ReturnToCaller ==
    /\ In("init") /\ Img.at = Len(Img.init_functions)
    /\ Len(stack) > 1
    /\ LET caller == stack[Len(stack) - 1]
           dep == images[caller].libraries[images[caller].at + 1]
       IN  images' = [images EXCEPT
               ![Cur].pc = "done",
               ![caller].at = @ + 1,
               ![caller].libs = Append(@, [kind |-> "user", image |-> Cur, name |-> dep])]
    /\ stack' = SubSeq(stack, 1, Len(stack) - 1)
    /\ UNCHANGED <<world, outcome>>


(* Mutant of EnterProgram: the initializers need not all have been called. *)
EnterProgramEarly ==
    /\ In("init")
    /\ Len(stack) = 1
    /\ SetImg([Img EXCEPT !.pc = "done"])
    /\ outcome' = "entered"
    /\ UNCHANGED <<world, stack>>

EnterProgram ==
    /\ In("init") /\ Img.at = Len(Img.init_functions)
    /\ Len(stack) = 1
    /\ SetImg([Img EXCEPT !.pc = "done"])
    /\ outcome' = "entered"
    /\ UNCHANGED <<world, stack>>

(* The load has ended: dynld does nothing more.                            *)
Ended == outcome # "loading" /\ UNCHANGED vars

Next ==
    \/ MachoParser \/ UserDylibsLoadRecursively \/ MapSegments \/ ImageFixupsApply
    \/ ImageFinalize \/ ReturnToCaller \/ EnterProgram \/ Ended

Spec == Init /\ [][Next]_vars

(* The loader is a sequential program: as long as a step is possible it    *)
(* takes one.                                                              *)
FairSpec == Spec /\ WF_vars(Next)

-----------------------------------------------------------------------------
(* Type correctness of the loader's state.                                 *)
TypeOK ==
    /\ world \in Worlds
    /\ images \in Seq(ImageType)
    /\ stack \in Seq(Nat)
    /\ outcome \in Outcomes

Images == DOMAIN images
OnStack(i) == \E k \in DOMAIN stack : stack[k] = i

(* The recursion of macho_loader is well nested: the activations on the    *)
(* stack are the unfinished ones, each but the innermost is waiting in     *)
(* user_dylibs_load_recursively for the next one, and the next one is the  *)
(* file its pending dependency resolves to.                                *)
CallChain ==
    /\ \A i \in Images : (images[i].pc # "done" <=> outcome # "entered" /\ OnStack(i))
    /\ \A k \in 1..Len(stack) - 1 :
          LET i == stack[k]
          IN  /\ i < stack[k + 1]
              /\ images[i].pc = "load" /\ images[i].at < Len(images[i].libraries)
              /\ images[stack[k + 1]].path =
                    DiskPath(images[i].libraries[images[i].at + 1], images[i].rpath,
                             world.exec_dir)

(* Once user_dylibs_load_recursively has returned, bind ordinal k of an    *)
(* image denotes its k-th linked library: a cached one by name, any other  *)
(* as a finished image of the file its install name resolves to.  This is  *)
(* what dylibs[ordinal - 1] in fixups.rs relies on.                        *)
OrdinalsDenoteLibraries ==
    \A i \in Images : images[i].pc \notin {"parse", "load"} =>
        /\ Len(images[i].libs) = Len(images[i].libraries)
        /\ \A k \in DOMAIN images[i].libs :
              LET lib  == images[i].libs[k]
                  name == images[i].libraries[k]
              IN  /\ lib.name = name
                  /\ lib.kind = "system" <=> name \in DOMAIN world.cache
                  /\ lib.kind = "user" =>
                        /\ lib.image \in Images /\ images[lib.image].pc = "done"
                        /\ images[lib.image].path =
                              DiskPath(name, images[i].rpath, world.exec_dir)

(* Everything macho_loader owes an image before its code may run.          *)
Linked(i) ==
    /\ Len(images[i].mem) = Len(images[i].fixups)
    /\ images[i].sealed = Len(images[i].segments)
    /\ images[i].tlv = (images[i].is_executable /\ images[i].has_thread_locals)

(* An initializer only runs in a linked world: when an image's first       *)
(* initializer is called, every fixup of the image has been written and    *)
(* every segment protected, and every pointer its fixups hold leads into   *)
(* the image itself or into one that is linked and has made all its        *)
(* initializer calls.                                                      *)
(* macho_loader's comment: "the image has been mapped, fixed up, and its   *)
(* initializers have run".                                                 *)
RunsOnlyLinkedCode ==
    \A i \in Images : images[i].calls # << >> \/ images[i].pc = "done" =>
        /\ Linked(i)
        /\ \A k \in DOMAIN images[i].mem :
              LET target == images[i].mem[k][2]
              IN  target.space = "image" /\ target.image # i =>
                    /\ images[target.image].pc = "done" /\ Linked(target.image)
                    /\ Len(images[target.image].calls) =
                          Len(images[target.image].init_functions)

(* Every initializer of the image has been called, in order and at its own *)
(* address.                                                                *)
Initialized(i) ==
    /\ Len(images[i].calls) = Len(images[i].init_functions)
    /\ \A k \in DOMAIN images[i].calls :
          images[i].calls[k] = InitAddress(i, images[i].init_functions[k])

(* "jumping to the returned address enters the program safely": when the   *)
(* program is entered every image that was loaded is linked, and the       *)
(* executable, and every library without initializers, is initialized.     *)
(* The initializers of a library are called at addresses that are not      *)
(* theirs, so that nothing can be said of them: LoadsProgram is about that.*)
EntersSafely ==
    outcome = "entered" =>
        \A i \in Images :
            /\ images[i].pc = "done" /\ Linked(i)
            /\ images[i].is_executable \/ images[i].init_functions = << >> => Initialized(i)

(* No step writes a pointer into an image once the first of its segments   *)
(* has its final protection, or changes an image that is finished: a write *)
(* there would hit read-only memory, or memory a program already uses.     *)
SealedImagesStay ==
    [][\A i \in Images :
          /\ images[i].sealed > 0 => images'[i].mem = images[i].mem
          /\ images[i].pc = "done" => images'[i] = images[i]]_vars

(* What the link tests, and the comments on rpaths and initializers, say   *)
(* of a program whose libraries are all in place or linked weakly: it is   *)
(* entered, and macho_init_functions_exec calls "every initializer         *)
(* collected from S_INIT_FUNC_OFFSETS, in order", each at its own address. *)
LoadsProgram ==
    /\ outcome \in {"loading", "entered"}
    /\ \A i \in Images : \A k \in DOMAIN images[i].calls :
          images[i].calls[k] = InitAddress(i, images[i].init_functions[k])

(* The load ends: with the program entered, an error, a panic or a fault.  *)
Termination == <>(outcome # "loading")
=============================================================================
