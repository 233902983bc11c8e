------------------------------ MODULE Startup ------------------------------
(***************************************************************************)
(* dynld's own start, from the kernel's jump to the program's entry point  *)
(* or the end of the process: parsing its own fixups (ChainedFixups),      *)
(* rebasing itself, choosing the arm64 image, attaching the shared cache,  *)
(* binding the symbols libtlv needs, running macho_loader and entering the *)
(* program; and every way out, with the panic handler and the output it    *)
(* writes.                                                                 *)
(*                                                                         *)
(* Loading the program and attaching the cache are modules of their own    *)
(* (Loader, SharedCache); here they have the results those can have.       *)
(***************************************************************************)
EXTENDS ChainedFixups, Functions, Selection

CONSTANTS
    StartWorlds,    \* what a start of dynld may find
    StackLimit      \* nested panics the stack has room for

ASSUME StackLimitAssumption == StackLimit \in Nat \ {0}

EXIT_FAILURE == 0

(* The bytes of each write_str of a message: text, then the newline.       *)
Message == <<2, 1>>

-----------------------------------------------------------------------------
(* The executable, thin or fat.  magic is the first word of the bytes read *)
(* in the byte order of the machine.                                       *)

Magics == {"MH_MAGIC", "MH_CIGAM", "MH_MAGIC_64", "MH_CIGAM_64", "FAT_MAGIC",
           "FAT_CIGAM", "FAT_MAGIC_64", "FAT_CIGAM_64"}
Bytes == [magic : Magics \cup {"unknown"}, short : BOOLEAN, arm64 : BOOLEAN]
Slice == [magic : Magics \cup {"unknown"}, short : BOOLEAN, arm64 : BOOLEAN,
          inside : BOOLEAN]

LittleEndian(magic) == magic \in {"MH_MAGIC", "MH_MAGIC_64"}

Swapped == [m \in Magics |->
    CASE m = "MH_MAGIC" -> "MH_CIGAM"       [] m = "MH_CIGAM" -> "MH_MAGIC"
      [] m = "MH_MAGIC_64" -> "MH_CIGAM_64" [] m = "MH_CIGAM_64" -> "MH_MAGIC_64"
      [] m = "FAT_MAGIC" -> "FAT_CIGAM"     [] m = "FAT_CIGAM" -> "FAT_MAGIC"
      [] m = "FAT_MAGIC_64" -> "FAT_CIGAM_64" [] m = "FAT_CIGAM_64" -> "FAT_MAGIC_64"]

(* header.magic as the container deserializes it.                          *)
HeaderMagic(magic) == IF LittleEndian(magic) THEN magic ELSE Swapped[magic]

HasHeader(bytes) == ~bytes.short /\ bytes.magic \in Magics
IsArm64(bytes) ==
    HasHeader(bytes) /\ HeaderMagic(bytes.magic) = "MH_MAGIC_64" /\ bytes.arm64

Arm64Slices(exe) ==
    {i \in DOMAIN exe.slices : exe.slices[i].inside /\ IsArm64(exe.slices[i])}

(* What this start finds: the executable; whether the kernel gives the     *)
(* cache's address, and how from_existing ends; the symbols libSystem      *)
(* resolves; argv[0]; what macho_loader returns; whether the program       *)
(* returns from its entry point; whether stderr accepts writes and exit    *)
(* exits; dynld's own image.  The fixups that image is meant to have, and  *)
(* whether it is the encoding of a plan of FixupFormat (sound), are known  *)
(* to the properties only.  No two pointers are meant for the same place.  *)
IsWorld(w) ==
    /\ w.exe.image \in Bytes /\ w.exe.slices \in Seq(Slice)
    /\ w.cache \in {"unknown", "broken", "panic", "attached"}
    /\ w.libsystem \subseteq STRING
    /\ w.argv0 \in {"path", "null", "not_utf8"}
    /\ w.loader \in {"entry", "error", "panic", "crash"}
    /\ \A b \in {w.returns, w.stderr, w.exits, w.sound} : b \in BOOLEAN
    /\ IsImage(w.self) /\ w.meant \in Seq(Fixup)
    /\ \A i, j \in DOMAIN w.meant : w.meant[i].offset = w.meant[j].offset => i = j

ASSUME StartWorldsAssumption == \A w \in StartWorlds : IsWorld(w)

VARIABLES
    world,              \* what this start finds; never changes
    pc,
    at,                 \* fixups already dealt with in the current pass
    mem,                \* the pointers written into dynld's own image
    HAS_REBASED_SELF,
    slice,              \* the part of the executable that is loaded, 0: all of it
    depth,              \* panics in progress
    pending,            \* write_str calls left of the message being printed
    then,               \* where printing it leads
    status              \* argument of the exit that ended the process

own_vars == <<world, pc, at, mem, HAS_REBASED_SELF, slice, depth, pending, then, status>>
vars == <<parser_vars, own_vars>>

Final == {"exited", "overflow", "fault", "program_exited"}
Pcs == Final \cup {"parse", "rebase", "container", "cache", "bind", "exec_dir", "loader",
                   "program", "printing", "exit_error", "panic_exit"}

Pointers ==
    [space : {"self"}, target : Word] \cup [space : {"libSystem"}, symbol : STRING, addend : Int]

TypeOK ==
    /\ ParserTypeOK
    /\ pc \in Pcs /\ at \in Nat
    /\ DOMAIN mem \subseteq Nat /\ \A o \in DOMAIN mem : mem[o] \in Pointers
    /\ HAS_REBASED_SELF \in BOOLEAN /\ slice \in Nat /\ depth \in 0..StackLimit
    /\ pending \in Seq(Nat \ {0}) /\ then \in {"exit_error", "panic_exit"}
    /\ status \in Nat

Init ==
    /\ world \in StartWorlds
    /\ image = world.self
    /\ ParserInit
    /\ pc = "parse" /\ at = 0 /\ mem = << >> /\ HAS_REBASED_SELF = FALSE /\ slice = 0
    /\ depth = 0 /\ pending = << >> /\ then = "exit_error" /\ status = 0

-----------------------------------------------------------------------------
(* The ways out.                                                           *)

(* Mutant of Panic: the message is formatted whether or not dynld has      *)
(* rebased itself.                                                         *)
PanicAlwaysFormats ==
    /\ UNCHANGED <<parser_vars, world, at, mem, HAS_REBASED_SELF, slice, status>>
    /\ IF depth = StackLimit
       THEN pc' = "overflow" /\ UNCHANGED <<depth, pending, then>>
       ELSE depth' = depth + 1 /\ pc' = "printing" /\ pending' = Message
            /\ then' = "panic_exit"

(* The panic handler, entered once more when printing its message panics.  *)
(* Before the rebase it only makes a bare write whose result it ignores.   *)
Panic ==
    /\ UNCHANGED <<parser_vars, world, at, mem, HAS_REBASED_SELF, slice, status>>
    /\ \/ /\ depth = StackLimit
          /\ pc' = "overflow" /\ UNCHANGED <<depth, pending, then>>
       \/ /\ depth < StackLimit /\ HAS_REBASED_SELF
          /\ depth' = depth + 1
          /\ pc' = "printing" /\ pending' = Message /\ then' = "panic_exit"
       \/ /\ depth < StackLimit /\ ~HAS_REBASED_SELF
          /\ depth' = depth + 1
          /\ pc' = "panic_exit" /\ UNCHANGED <<pending, then>>

(* println_err!(..); exit_error()                                          *)
Fail ==
    /\ pc' = "printing" /\ pending' = Message /\ then' = "exit_error"
    /\ UNCHANGED <<parser_vars, world, at, mem, HAS_REBASED_SELF, slice, depth, status>>

Continue(next_pc) ==
    /\ pc' = next_pc /\ at' = 0
    /\ UNCHANGED <<parser_vars, world, mem, HAS_REBASED_SELF, slice, depth, pending, then,
                   status>>

(* Mutant of WriteAll: the bytes already written are not cut off.          *)
WriteAllAgain ==
    /\ pc = "printing" /\ pending # << >> /\ world.stderr
    /\ UNCHANGED vars

(* write_all: the kernel takes at least a byte of what is left.            *)
WriteAll ==
    /\ pc = "printing" /\ pending # << >> /\ world.stderr
    /\ \E n \in 1..Head(pending) :
          pending' = IF n = Head(pending) THEN Tail(pending)
                     ELSE <<Head(pending) - n>> \o Tail(pending)
    /\ UNCHANGED <<parser_vars, world, pc, at, mem, HAS_REBASED_SELF, slice, depth, then,
                   status>>

(* A write that fails, or writes nothing, is unwrapped in _print_err.      *)
WriteFails ==
    /\ pc = "printing" /\ pending # << >> /\ ~world.stderr
    /\ Panic

Printed ==
    /\ pc = "printing" /\ pending = << >>
    /\ pc' = then
    /\ UNCHANGED <<parser_vars, world, at, mem, HAS_REBASED_SELF, slice, depth, pending,
                   then, status>>

Exit ==
    /\ pc' = "exited" /\ status' = EXIT_FAILURE
    /\ UNCHANGED <<parser_vars, world, at, mem, HAS_REBASED_SELF, slice, depth, pending,
                   then>>

(* exit_error, with its unreachable! when the system call returns.         *)
ExitError ==
    /\ pc = "exit_error"
    /\ \/ world.exits /\ Exit
       \/ ~world.exits /\ Panic

(* Mutant of PanicExit: the handler does not try to exit.                  *)
PanicExitFaults ==
    /\ pc = "panic_exit"
    /\ pc' = "fault"
    /\ UNCHANGED <<parser_vars, world, at, mem, HAS_REBASED_SELF, slice, depth, pending,
                   then, status>>

(* "if exit failed, we segfault to kill the process"                       *)
PanicExit ==
    /\ pc = "panic_exit"
    /\ \/ world.exits /\ Exit
       \/ /\ ~world.exits
          /\ pc' = "fault"
          /\ UNCHANGED <<parser_vars, world, at, mem, HAS_REBASED_SELF, slice, depth,
                         pending, then, status>>

-----------------------------------------------------------------------------
(* start and rebase_self_and_extract_bind_fixups.                          *)

ParseSelf ==
    /\ pc = "parse"
    /\ Parse
    /\ UNCHANGED own_vars

(* The bare writes before exit_error ignore their results.                 *)
ParseEnds ==
    /\ pc = "parse"
    /\ \/ cursor.pc = "parsed" /\ Continue("rebase")
       \/ cursor.pc = "error" /\ Continue("exit_error")
       \/ cursor.pc = "panic" /\ Panic

Write(offset, pointer) ==
    mem' = [o \in DOMAIN mem \cup {offset} |-> IF o = offset THEN pointer ELSE mem[o]]

(* fixup_all_chained_fixups with ignore_binds and a page zero of 0.        *)
RebaseOne ==
    /\ pc = "rebase" /\ at < Len(fixups)
    /\ \/ /\ fixups[at + 1].kind = "rebase"
          /\ Write(fixups[at + 1].offset,
                   [space |-> "self", target |-> fixups[at + 1].target])
       \/ fixups[at + 1].kind = "bind" /\ UNCHANGED mem
    /\ at' = at + 1
    /\ UNCHANGED <<parser_vars, world, pc, HAS_REBASED_SELF, slice, depth, pending, then,
                   status>>

(* The binds are kept for tls_functions_self_bind_hack.                    *)
Rebased ==
    /\ pc = "rebase" /\ at = Len(fixups)
    /\ HAS_REBASED_SELF' = TRUE
    /\ fixups' = SelectIn(fixups, {f \in Range(fixups) : f.kind = "bind"})
    /\ pc' = "container" /\ at' = 0
    /\ UNCHANGED <<image, cursor, world, mem, slice, depth, pending, then, status>>

-----------------------------------------------------------------------------
(* dynld_entrypoint.                                                       *)

UseSlice(i) ==
    /\ slice' = i /\ pc' = "cache"
    /\ UNCHANGED <<parser_vars, world, at, mem, HAS_REBASED_SELF, depth, pending, then,
                   status>>

(* Mutant of ContainerCreate: the first slice that has a header is taken.  *)
ContainerCreateAnyCpu ==
    LET exe == world.exe
        slices == {i \in DOMAIN exe.slices : exe.slices[i].inside /\ HasHeader(exe.slices[i])}
    IN  /\ pc = "container"
        /\ \/ ~HasHeader(exe.image) /\ Panic
           \/ IsArm64(exe.image) /\ UseSlice(0)
           \/ /\ HasHeader(exe.image) /\ ~IsArm64(exe.image)
              /\ IF HeaderMagic(exe.image.magic) = "FAT_MAGIC" /\ slices # {}
                 THEN UseSlice(Min(slices)) ELSE Fail

(* arm64_container_create.  A header that cannot be read is unwrapped; a   *)
(* fat image yields its first arm64 slice, which the recursive call then   *)
(* returns as it is.                                                       *)
ContainerCreate ==
    LET exe == world.exe
    IN  /\ pc = "container"
        /\ \/ ~HasHeader(exe.image) /\ Panic
           \/ IsArm64(exe.image) /\ UseSlice(0)
           \/ /\ HasHeader(exe.image) /\ ~IsArm64(exe.image)
              /\ HeaderMagic(exe.image.magic) # "FAT_MAGIC"
              /\ Fail
           \/ /\ HasHeader(exe.image) /\ HeaderMagic(exe.image.magic) = "FAT_MAGIC"
              /\ Arm64Slices(exe) = {}
              /\ Fail
           \/ /\ HasHeader(exe.image) /\ HeaderMagic(exe.image.magic) = "FAT_MAGIC"
              /\ Arm64Slices(exe) # {}
              /\ UseSlice(Min(Arm64Slices(exe)))

(* The cache's address, DyldSharedCache::from_existing, and the start of   *)
(* tls_functions_self_bind_hack: every bind is looked up in libSystem.     *)
AttachCache ==
    /\ pc = "cache"
    /\ \/ world.cache \in {"unknown", "broken"} /\ Fail
       \/ world.cache = "panic" /\ Panic
       \/ /\ world.cache = "attached"
          /\ fixups' = [i \in DOMAIN fixups |-> [fixups[i] EXCEPT !.ordinal = 1]]
          /\ pc' = "bind" /\ at' = 0
          /\ UNCHANGED <<image, cursor, world, mem, HAS_REBASED_SELF, slice, depth,
                         pending, then, status>>

(* Mutant of BindOne: a symbol that libSystem does not have is passed over. *)
BindOneLenient ==
    /\ pc = "bind" /\ at < Len(fixups)
    /\ \/ /\ fixups[at + 1].symbol \in world.libsystem
          /\ Write(fixups[at + 1].offset,
                   [space |-> "libSystem", symbol |-> fixups[at + 1].symbol, addend |-> 0])
       \/ fixups[at + 1].symbol \notin world.libsystem /\ UNCHANGED mem
    /\ at' = at + 1
    /\ UNCHANGED <<parser_vars, world, pc, HAS_REBASED_SELF, slice, depth, pending, then,
                   status>>

(* fixup_all_chained_fixups on the kept binds: fixup_regular_symbol in the *)
(* only library of the list.  The addend is not looked at.                 *)
BindOne ==
    /\ pc = "bind" /\ at < Len(fixups)
    /\ \/ /\ fixups[at + 1].symbol \in world.libsystem
          /\ Write(fixups[at + 1].offset,
                   [space |-> "libSystem", symbol |-> fixups[at + 1].symbol, addend |-> 0])
          /\ at' = at + 1
          /\ UNCHANGED <<parser_vars, world, pc, HAS_REBASED_SELF, slice, depth, pending,
                         then, status>>
       \/ fixups[at + 1].symbol \notin world.libsystem /\ Fail

SelfBound ==
    /\ pc = "bind" /\ at = Len(fixups)
    /\ Continue("exec_dir")

(* argv0 and exe_dir                                                       *)
FindExecDir ==
    /\ pc = "exec_dir"
    /\ \/ world.argv0 = "path" /\ Continue("loader")
       \/ world.argv0 # "path" /\ Fail

RunLoader ==
    /\ pc = "loader"
    /\ \/ world.loader = "entry" /\ Continue("program")
       \/ world.loader = "error" /\ Fail
       \/ world.loader = "panic" /\ Panic
       \/ world.loader = "crash" /\ Continue("fault")

(* jump::entry_and_ret: a program that returns ends as a failure.          *)
RunProgram ==
    /\ pc = "program"
    /\ \/ ~world.returns /\ Continue("program_exited")
       \/ world.returns /\ Continue("exit_error")

Ended == pc \in Final /\ UNCHANGED vars

Next ==
    \/ ParseSelf \/ ParseEnds \/ RebaseOne \/ Rebased
    \/ ContainerCreate \/ AttachCache \/ BindOne \/ SelfBound \/ FindExecDir
    \/ RunLoader \/ RunProgram
    \/ WriteAll \/ WriteFails \/ Printed \/ ExitError \/ PanicExit
    \/ Ended

Spec == Init /\ [][Next]_vars
FairSpec == Spec /\ WF_vars(Next)

-----------------------------------------------------------------------------
(* What the image must hold where a fixup is meant.                        *)
PointerFor(f, addend) ==
    IF f.kind = "rebase" THEN [space |-> "self", target |-> f.target]
    ELSE [space |-> "libSystem", symbol |-> f.symbol, addend |-> addend]

Meant == {world.meant[i] : i \in DOMAIN world.meant}

(* chained_fixups_parse_all finds exactly the pointers the image was laid  *)
(* out with, each once, in order, with the fields its format documents,    *)
(* whatever mix of formats, strides, pages and segments the chains cross;  *)
(* and it neither fails nor panics on an image marked sound: the encoding  *)
(* of a plan of FixupFormat, in which no symbol has a name too long to     *)
(* read.  The plans of the run of all starts are also plain (IsPlain):     *)
(* they leave out the forms that FixedUpAsDocumented is about.             *)
DecodesExactly ==
    /\ pc = "parse" /\ cursor.pc = "parsed" => fixups = world.meant
    /\ world.sound => cursor.pc \notin {"error", "panic"}

(* "This program cannot use any DATA pointers before this function is      *)
(* called": a message is only formatted once every pointer of dynld's own  *)
(* image that needs a rebase has been given it, also when the message is   *)
(* that of a panic.                                                        *)
FormatsOnlyRebased ==
    pc = "printing" =>
        \A f \in Meant : f.kind = "rebase" =>
            f.offset \in DOMAIN mem /\ mem[f.offset] = PointerFor(f, 0)

(* When macho_loader runs, and with it libtlv, dynld's own image holds the *)
(* right pointer at every place that is meant to have one, rebased in the  *)
(* first pass or bound to libSystem in the second, and was written nowhere *)
(* else.  (Addends aside: see FixedUpAsDocumented.)                        *)
LoadsOnlyFixedUp ==
    pc \in {"loader", "program"} =>
        /\ DOMAIN mem = {f.offset : f \in Meant}
        /\ \A f \in Meant : mem[f.offset] = PointerFor(f, 0)

(* Only an arm64 image is handed to macho_loader, and of a fat file the    *)
(* first slice that is one.                                                *)
LoadsArm64 ==
    pc \in {"loader", "program"} =>
        \/ slice = 0 /\ IsArm64(world.exe.image)
        \/ slice \in Arm64Slices(world.exe) /\ \A i \in 1..(slice - 1) : i \notin Arm64Slices(world.exe)

(* The process never dies of its error handling: the panic handler runs    *)
(* into itself only when stderr takes no output, and the null dereference  *)
(* is reached only when exit does not exit.                                *)
DiesOnlyWithoutKernel ==
    /\ pc = "overflow" => ~world.stderr
    /\ pc = "fault" => ~world.exits \/ world.loader = "crash"

(* A start always ends: in the program, an exit, or a fault.               *)
Termination == <>(pc \in Final)

(* The image is decoded and fixed up as the layouts in bindings_macho.rs   *)
(* document it, the addend of a bind included, which is "applied to the    *)
(* symbol".                                                                *)
FixedUpAsDocumented ==
    /\ DecodesExactly
    /\ pc \in {"loader", "program"} =>
          \A f \in Meant : f.kind = "bind" => mem[f.offset] = PointerFor(f, f.addend)
=============================================================================
