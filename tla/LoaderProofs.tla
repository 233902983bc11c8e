---------------------------- MODULE LoaderProofs ----------------------------
(***************************************************************************)
(* For every set of worlds, every stack limit and every combination of     *)
(* failing calls: the recursion of macho_loader is well nested, ordinals   *)
(* denote the libraries they should, pointers lead where the files say,    *)
(* code runs only in linked images, a finished image never changes, only   *)
(* programs that the reference of Linkable accepts are entered, and only   *)
(* cycles exhaust the stack.                                               *)
(*                                                                         *)
(* IInv, the first inductive invariant, says nothing of what the symbol    *)
(* tables and the initializer sections of a file contain; PInv adds that   *)
(* an image agrees with the part of its file that has been read, and the   *)
(* last part of the module gives everything its type.                      *)
(***************************************************************************)
EXTENDS Linkable, SequenceLemmas, TLAPS

-----------------------------------------------------------------------------
(* The inductive invariant.                                                *)

Fields ==
    {"path", "is_executable", "pc", "at", "segments", "fixups", "symbols",
     "init_functions", "libraries", "entry_point", "has_thread_locals", "rpath", "libs",
     "mem", "tlv", "sealed", "calls"}

ImageShape(img) ==
    /\ DOMAIN img = Fields
    /\ img.pc \in Phase /\ img.at \in Nat /\ img.sealed \in Nat
    /\ IsSeq(img.segments) /\ img.fixups \in Seq(Fixup) /\ IsSeq(img.libraries)
    /\ IsSeq(img.libs) /\ IsSeq(img.mem) /\ IsSeq(img.calls)

(* What each phase has done to its image, and what it has left for later.  *)
Wired(img) == Len(img.mem) = Len(img.fixups)
TlvSet(img) == img.tlv = (img.is_executable /\ img.has_thread_locals)
Called(img) ==
    \A k \in 1..Len(img.calls) : img.calls[k] = InitTarget(img.init_functions[k])

PhaseOK(img) ==
    /\ img.pc = "parse" => img.libs = << >>
    /\ img.pc = "load" => Len(img.libs) = img.at /\ img.at <= Len(img.libraries)
    /\ img.pc \notin {"parse", "load"} => Len(img.libs) = Len(img.libraries)
    /\ img.pc \in {"parse", "load", "map"} => img.mem = << >>
    /\ img.pc \in {"map", "tlv"} => img.at = 0
    /\ img.pc = "fixup" => Len(img.mem) = img.at /\ img.at <= Len(img.fixups)
    /\ img.pc \in {"tlv", "protect", "init", "done"} => Wired(img)
    /\ img.pc \in {"parse", "load", "map", "fixup", "tlv"} => img.sealed = 0
    /\ img.pc = "protect" => img.sealed = img.at
    /\ img.pc \in {"protect", "init", "done"} => TlvSet(img)
    /\ img.pc \in {"init", "done"} => img.sealed = Len(img.segments)
    /\ img.pc \notin {"init", "done"} => img.calls = << >>
    /\ img.pc = "init" => Len(img.calls) = img.at
    /\ img.pc \in {"init", "done"} => Called(img)
    /\ img.pc = "done" => Len(img.calls) = Len(img.init_functions)

ImageOK(img) == ImageShape(img) /\ PhaseOK(img)

Finished(j) == j \in 1..Len(images) /\ images[j].pc = "done"

(* An entry of an image's dylib list stands for the library of that name.  *)
LibOK(img, lib, name) ==
    /\ lib.name = name
    /\ lib.kind \in {"system", "user"}
    /\ lib.kind = "system" <=> name \in DOMAIN world.cache
    /\ lib.kind = "user" =>
          Finished(lib.image)
            /\ images[lib.image].path = DiskPath(name, img.rpath, world.exec_dir)

LibsOK(img) == \A k \in 1..Len(img.libs) : LibOK(img, img.libs[k], img.libraries[k])

(* A pointer leads into the image itself, the cache or a finished image.   *)
TargetOK(i, target) ==
    target.space = "image" /\ target.image # i => Finished(target.image)

MemOK(i, img) == \A k \in 1..Len(img.mem) : TargetOK(i, img.mem[k][2])

Typed ==
    /\ world \in Worlds
    /\ IsSeq(images) /\ IsSeq(stack)
    /\ \A i \in 1..Len(images) : ImageOK(images[i]) /\ images[i].path \in DOMAIN world.disk

StackOK ==
    /\ Len(stack) > 0
    /\ \A k \in 1..Len(stack) : stack[k] \in 1..Len(images)
    /\ \A j, k \in 1..Len(stack) : j < k => stack[j] < stack[k]
    /\ \A i \in 1..Len(images) :
          images[i].pc # "done" <=>
             outcome # "entered" /\ \E k \in 1..Len(stack) : stack[k] = i

(* The library that the activation at this place of the stack is waiting   *)
(* for is the one at the next place.                                       *)
Waiting(i, j) ==
    /\ images[i].pc = "load" /\ images[i].at < Len(images[i].libraries)
    /\ LET dep == images[i].libraries[images[i].at + 1]
       IN  /\ dep \notin DOMAIN world.cache
           /\ images[j].path = DiskPath(dep, images[i].rpath, world.exec_dir)

ChainOK == \A k \in 1..(Len(stack) - 1) : Waiting(stack[k], stack[k + 1])

LinksOK == \A i \in 1..Len(images) : LibsOK(images[i]) /\ MemOK(i, images[i])

IInv == Typed /\ StackOK /\ ChainOK /\ LinksOK

-----------------------------------------------------------------------------
(* Steps of the running activation on its own image.                       *)

(* What the invariant says of the running activation.                      *)
LEMMA CurFacts ==
    ASSUME IInv
    PROVE  /\ Len(stack) \in Nat \ {0} /\ Len(images) \in Nat
           /\ Cur \in 1..Len(images) /\ ImageOK(Img) /\ Img.path \in DOMAIN world.disk
           /\ LibsOK(Img) /\ MemOK(Cur, Img)
  BY DEF IInv, Typed, StackOK, LinksOK, Cur, Img, IsSeq

(* While the load goes on the top of the stack has not finished.           *)
LEMMA RunningFacts ==
    ASSUME IInv, outcome = "loading"
    PROVE  Img.pc # "done"
<1>1. Len(stack) \in 1..Len(stack) /\ stack[Len(stack)] = Cur
  BY CurFacts DEF Cur
<1>2. QED
  BY <1>1, CurFacts DEF IInv, StackOK, Img

(* SetImg changes the running activation's image only.                     *)
LEMMA SetImgFacts ==
    ASSUME IInv, NEW img, SetImg(img)
    PROVE  /\ IsSeq(images') /\ Len(images') = Len(images)
           /\ images'[Cur] = img
           /\ \A i \in 1..Len(images) : i # Cur => images'[i] = images[i]
<1>1. IsSeq(images) /\ Cur \in 1..Len(images)
  BY CurFacts DEF IInv, Typed
<1>2. PutAt(images', images, Cur, img)
  BY DEF SetImg, PutAt
<1>3. QED
  BY <1>1, <1>2, ExceptFacts

(* A step that changes nothing but the image of the running activation:    *)
(* its list of libraries may grow by a cached one, its memory by pointers  *)
(* to where they may lead.                                                 *)
Local(img) ==
    /\ outcome = "loading"
    /\ SetImg(img) /\ UNCHANGED <<world, stack, outcome>>
    /\ ImageOK(img) /\ img.pc # "done" /\ img.path = Img.path
    /\ LibsOK(img) /\ MemOK(Cur, img)
    /\ Img.sealed > 0 => img.mem = Img.mem

(* A step of one activation on its own image keeps the invariant.          *)
LEMMA LocalPreserves ==
    ASSUME IInv, NEW img, Local(img)
    PROVE  IInv'
<1> USE CurFacts, RunningFacts, SetImgFacts
<1>1. /\ IsSeq(images') /\ Len(images') = Len(images) /\ images'[Cur] = img
      /\ \A i \in 1..Len(images) : i # Cur => images'[i] = images[i]
      /\ world' = world /\ stack' = stack /\ outcome' = outcome /\ outcome = "loading"
  BY DEF Local
<1>2. Img.pc # "done" /\ img.pc # "done" /\ Img = images[Cur]
  BY DEF Local, Img
<1>3. Typed'
  BY <1>1, <1>2 DEF IInv, Typed, Local
<1>4. StackOK'
  BY <1>1, <1>2 DEF IInv, StackOK
<1>5. ChainOK'
  <2> SUFFICES ASSUME NEW k \in 1..(Len(stack) - 1)
               PROVE  Waiting(stack[k], stack[k + 1])'
    BY <1>1 DEF ChainOK
  <2>1. Waiting(stack[k], stack[k + 1])
    BY DEF IInv, ChainOK
  <2>2. /\ stack[k] \in 1..Len(images) /\ stack[k] # Cur
        /\ stack[k + 1] \in 1..Len(images)
    <3>1. /\ Len(stack) \in Nat /\ k \in 1..Len(stack) /\ k + 1 \in 1..Len(stack)
          /\ Len(stack) \in 1..Len(stack) /\ k < Len(stack)
      OBVIOUS
    <3>2. /\ \A l \in 1..Len(stack) : stack[l] \in 1..Len(images)
          /\ \A j, l \in 1..Len(stack) : j < l => stack[j] < stack[l]
      BY DEF IInv, StackOK
    <3>3. stack[k] < stack[Len(stack)]
      BY <3>1, <3>2
    <3>4. QED
      BY <3>1, <3>2, <3>3 DEF Cur
  <2>3. images'[stack[k]] = images[stack[k]]
    BY <1>1, <2>2
  <2>4. images'[stack[k + 1]].path = images[stack[k + 1]].path
    BY <1>1, <1>2, <2>2 DEF Local
  <2>5. QED
    BY <1>1, <2>1, <2>3, <2>4 DEF Waiting
<1>6. ASSUME NEW j, Finished(j)
      PROVE  Finished(j)' /\ images'[j] = images[j]
  BY <1>1, <1>2, <1>6 DEF Finished
<1>7. LinksOK'
  <2> SUFFICES ASSUME NEW i \in 1..Len(images)
               PROVE  LibsOK(images[i])' /\ MemOK(i, images[i])'
    BY <1>1 DEF LinksOK
  <2> DEFINE old == IF i = Cur THEN img ELSE images[i]
  <2>1. images'[i] = old
    BY <1>1
  <2>2. LibsOK(old) /\ MemOK(i, old)
    BY DEF Local, IInv, LinksOK
  <2> HIDE DEF old
  <2>3. LibsOK(images[i])'
    BY <1>1, <1>6, <2>1, <2>2 DEF LibsOK, LibOK
  <2>4. MemOK(i, images[i])'
    BY <1>6, <2>1, <2>2 DEF MemOK, TargetOK
  <2>5. QED
    BY <2>3, <2>4
<1>8. QED
  BY <1>3, <1>4, <1>5, <1>7 DEF IInv

(* A step that stops the load, with an error, a panic or a fault.          *)
Stopped ==
    /\ outcome = "loading" /\ outcome' # "entered"
    /\ UNCHANGED <<world, images, stack>>

(* An error or a panic ends the load and changes no image.                 *)
LEMMA StoppedPreserves ==
    ASSUME IInv, Stopped
    PROVE  IInv'
<1>1. /\ world' = world /\ images' = images /\ stack' = stack
      /\ outcome # "entered" /\ outcome' # "entered"
  BY DEF Stopped
<1>2. Typed'
  BY <1>1 DEF IInv, Typed, ImageOK, ImageShape, PhaseOK, Wired, TlvSet, Called
<1>3. StackOK'
  BY <1>1 DEF IInv, StackOK
<1>4. ChainOK'
  BY <1>1 DEF IInv, ChainOK, Waiting
<1>5. LinksOK'
  BY <1>1 DEF IInv, LinksOK, LibsOK, LibOK, MemOK, TargetOK, Finished
<1>6. QED
  BY <1>2, <1>3, <1>4, <1>5 DEF IInv

(* The file of the running activation, and the load command it has come to.*)
LEMMA FileFacts ==
    ASSUME IInv
    PROVE  IsFile(FileOf(Cur)) /\ Commands \in Seq(Command)
<1>1. world \in Worlds /\ IsWorld(world)
  BY WorldsAssumption DEF IInv, Typed
<1>2. FileOf(Cur) = world.disk[Img.path] /\ Img.path \in DOMAIN world.disk
  BY CurFacts DEF FileOf, Img
<1>3. IsFile(FileOf(Cur))
  BY <1>1, <1>2 DEF IsWorld
<1>4. QED
  BY <1>3 DEF IsFile, Commands

(* What chained_fixups_parse_all returns is a list of fixups.              *)
LEMMA FixupsTyped ==
    ASSUME NEW f, f.commands \in Seq(Command)
    PROVE  chained_fixups_parse_all(f) \in Seq(Fixup)
<1> DEFINE I == {k \in 1..Len(f.commands) : f.commands[k].cmd = "LC_DYLD_CHAINED_FIXUPS"}
           first == SelectInSeq(f.commands, LAMBDA c : c.cmd = "LC_DYLD_CHAINED_FIXUPS")
<1>1. first = IF I # {} THEN Min(I) ELSE 0
  BY DEF SelectInSeq
<1>2. I \subseteq Nat /\ 0 \notin I /\ I \subseteq 1..Len(f.commands)
  OBVIOUS
<1>3. \A k \in I : f.commands[k] \in Command /\ f.commands[k].cmd = "LC_DYLD_CHAINED_FIXUPS"
  BY <1>2
<1>4. chained_fixups_parse_all(f) = IF first = 0 THEN << >> ELSE f.commands[first].fixups
  BY DEF chained_fixups_parse_all
<1> HIDE DEF I, first
<1>5. first # 0 => first \in I
  BY <1>1, <1>2, MinFacts
<1>6. ASSUME NEW k \in I PROVE f.commands[k].fixups \in Seq(Fixup)
  BY <1>3 DEF Command, DylibCommands, LinkedDylibCommands
<1>7. QED
  BY <1>4, <1>5, <1>6

(* A step that leaves the libraries and the memory of its image alone.     *)
LEMMA QuietIsLocal ==
    ASSUME IInv, outcome = "loading", NEW img,
           SetImg(img), UNCHANGED <<world, stack, outcome>>,
           ImageOK(img), img.pc # "done", img.path = Img.path, img.libs = Img.libs,
           img.libraries = Img.libraries, img.rpath = Img.rpath, img.mem = Img.mem
    PROVE  Local(img)
<1>1. LibsOK(img) /\ MemOK(Cur, img)
  BY CurFacts DEF LibsOK, LibOK, MemOK
<1>2. QED
  BY <1>1 DEF Local

-----------------------------------------------------------------------------
(* macho_parser.                                                           *)

(* A load command that is parsed is a step on the image alone.             *)
LEMMA ParsedIsLocal ==
    ASSUME IInv, In("parse"), NEW img, Parsed(img), DOMAIN img = Fields,
           img.pc = "parse", img.at = Img.at, img.path = Img.path,
           IsSeq(img.segments), img.fixups \in Seq(Fixup), IsSeq(img.libraries),
           img.libs = Img.libs, img.mem = Img.mem, img.sealed = Img.sealed,
           img.calls = Img.calls
    PROVE  \E i : Local(i)
<1> DEFINE new == [img EXCEPT !.at = @ + 1]
<1>1. ImageShape(Img) /\ PhaseOK(Img) /\ Img.pc = "parse" /\ outcome = "loading"
  BY CurFacts DEF ImageOK, In
<1>2. Img.libs = << >> /\ Img.mem = << >> /\ Img.sealed = 0 /\ Img.calls = << >>
  BY <1>1 DEF PhaseOK
<1>3. /\ DOMAIN new = Fields /\ new.pc = "parse" /\ new.at = Img.at + 1
      /\ new.segments = img.segments /\ new.fixups = img.fixups
      /\ new.libraries = img.libraries /\ new.libs = << >> /\ new.mem = << >>
      /\ new.sealed = 0 /\ new.calls = << >> /\ new.path = Img.path
  BY <1>2 DEF Fields
<1>4. SetImg(new) /\ UNCHANGED <<world, stack, outcome>>
  BY DEF Parsed
<1> HIDE DEF new
<1>5. ImageShape(new)
  BY <1>1, <1>3, EmptyIsSeq DEF ImageShape
<1>6. PhaseOK(new)
  BY <1>3 DEF PhaseOK
<1>7. LibsOK(new) /\ MemOK(Cur, new)
  BY <1>3, EmptyIsSeq DEF LibsOK, MemOK
<1>8. Local(new)
  BY <1>1, <1>2, <1>3, <1>4, <1>5, <1>6, <1>7 DEF Local, ImageOK
<1>9. QED
  BY <1>8

(* macho_parser and dependencies_collect: local steps and errors.          *)
LEMMA ParserSteps ==
    ASSUME IInv, MachoParser
    PROVE  (\E img : Local(img)) \/ Stopped
<1>1. ImageShape(Img) /\ PhaseOK(Img) /\ Img.pc = "parse" /\ outcome = "loading" /\ In("parse")
  BY CurFacts DEF ImageOK, In, MachoParser, BadHeader, ParseDylib, ParseMain, ParseSymtab,
     ParseSegment, ParseChainedFixups, ParseRpath, SkipCommand, BadCommand,
     CollectDependencies, AtCommand
<1>2. ASSUME NEW why, Stop(why), why # "entered"
      PROVE  Stopped
  BY <1>1, <1>2 DEF Stop, Stopped
<1>3. CASE BadHeader \/ BadCommand
  BY <1>2, <1>3 DEF BadHeader, BadCommand
<1>4. CASE ParseDylib
  <2> DEFINE img == [Img EXCEPT !.libraries = Append(@, Cmd.name)]
  <2>1. Parsed(img) \/ Stop("panic")
    BY <1>4 DEF ParseDylib
  <2>2. /\ DOMAIN img = Fields /\ img.pc = "parse" /\ img.at = Img.at /\ img.path = Img.path
        /\ img.segments = Img.segments /\ img.fixups = Img.fixups
        /\ img.libraries = Append(Img.libraries, Cmd.name) /\ img.libs = Img.libs
        /\ img.mem = Img.mem /\ img.sealed = Img.sealed /\ img.calls = Img.calls
    BY <1>1 DEF ImageShape, Fields
  <2> HIDE DEF img
  <2>3. IsSeq(img.segments) /\ img.fixups \in Seq(Fixup) /\ IsSeq(img.libraries)
    BY <1>1, <2>2, AppendFacts DEF ImageShape
  <2>4. QED
    BY <1>1, <1>2, <2>1, <2>2, <2>3, ParsedIsLocal
<1>5. CASE ParseMain
  <2> DEFINE img == [Img EXCEPT !.entry_point = Cmd.entryoff]
  <2>1. Parsed(img) \/ Stop("main_in_dylib")
    BY <1>5 DEF ParseMain
  <2>2. /\ DOMAIN img = Fields /\ img.pc = "parse" /\ img.at = Img.at /\ img.path = Img.path
        /\ img.segments = Img.segments /\ img.fixups = Img.fixups
        /\ img.libraries = Img.libraries /\ img.libs = Img.libs
        /\ img.mem = Img.mem /\ img.sealed = Img.sealed /\ img.calls = Img.calls
    BY <1>1 DEF ImageShape, Fields
  <2> HIDE DEF img
  <2>3. IsSeq(img.segments) /\ img.fixups \in Seq(Fixup) /\ IsSeq(img.libraries)
    BY <1>1, <2>2 DEF ImageShape
  <2>4. QED
    BY <1>1, <1>2, <2>1, <2>2, <2>3, ParsedIsLocal
<1>6. CASE ParseSymtab
  <2> DEFINE img == [Img EXCEPT !.symbols = @ \o SymbolsOf(Cmd.entries)]
  <2>1. Parsed(img) \/ Stop("bad_symbol") \/ Stop("panic")
    BY <1>6 DEF ParseSymtab
  <2>2. /\ DOMAIN img = Fields /\ img.pc = "parse" /\ img.at = Img.at /\ img.path = Img.path
        /\ img.segments = Img.segments /\ img.fixups = Img.fixups
        /\ img.libraries = Img.libraries /\ img.libs = Img.libs
        /\ img.mem = Img.mem /\ img.sealed = Img.sealed /\ img.calls = Img.calls
    BY <1>1 DEF ImageShape, Fields
  <2> HIDE DEF img
  <2>3. IsSeq(img.segments) /\ img.fixups \in Seq(Fixup) /\ IsSeq(img.libraries)
    BY <1>1, <2>2 DEF ImageShape
  <2>4. QED
    BY <1>1, <1>2, <2>1, <2>2, <2>3, ParsedIsLocal
<1>7. CASE ParseSegment
  <2> DEFINE img == [Img EXCEPT
                !.segments = Append(@, Cmd.segment),
                !.init_functions = @ \o InitFuncsOf(Cmd),
                !.has_thread_locals = \/ @
                                      \/ SectionsOf(Cmd, "thread_local_variables") # << >>]
  <2>1. Parsed(img) \/ Stop("panic")
    BY <1>7 DEF ParseSegment
  <2>2. /\ DOMAIN img = Fields /\ img.pc = "parse" /\ img.at = Img.at /\ img.path = Img.path
        /\ img.segments = Append(Img.segments, Cmd.segment) /\ img.fixups = Img.fixups
        /\ img.libraries = Img.libraries /\ img.libs = Img.libs
        /\ img.mem = Img.mem /\ img.sealed = Img.sealed /\ img.calls = Img.calls
    BY <1>1 DEF ImageShape, Fields
  <2> HIDE DEF img
  <2>3. IsSeq(img.segments) /\ img.fixups \in Seq(Fixup) /\ IsSeq(img.libraries)
    BY <1>1, <2>2, AppendFacts DEF ImageShape
  <2>4. QED
    BY <1>1, <1>2, <2>1, <2>2, <2>3, ParsedIsLocal
<1>8. CASE ParseChainedFixups
  <2> DEFINE fixups == chained_fixups_parse_all(FileOf(Cur))
             img == [Img EXCEPT !.fixups = fixups]
  <2>1. Parsed(img)
    BY <1>8 DEF ParseChainedFixups
  <2>2. /\ DOMAIN img = Fields /\ img.pc = "parse" /\ img.at = Img.at /\ img.path = Img.path
        /\ img.segments = Img.segments /\ img.fixups = fixups
        /\ img.libraries = Img.libraries /\ img.libs = Img.libs
        /\ img.mem = Img.mem /\ img.sealed = Img.sealed /\ img.calls = Img.calls
    BY <1>1 DEF ImageShape, Fields
  <2>3. FileOf(Cur).commands \in Seq(Command)
    BY FileFacts DEF Commands
  <2>4. fixups \in Seq(Fixup)
    BY <2>3, FixupsTyped
  <2> HIDE DEF img, fixups
  <2>5. IsSeq(img.segments) /\ img.fixups \in Seq(Fixup) /\ IsSeq(img.libraries)
    BY <1>1, <2>2, <2>4, SeqIsSeq DEF ImageShape
  <2>6. QED
    BY <1>1, <1>2, <2>1, <2>2, <2>5, ParsedIsLocal
<1>9. CASE ParseRpath
  <2> DEFINE img == [Img EXCEPT !.rpath = Cmd.path]
  <2>1. Parsed(img) \/ Stop("bad_rpath")
    BY <1>9 DEF ParseRpath
  <2>2. /\ DOMAIN img = Fields /\ img.pc = "parse" /\ img.at = Img.at /\ img.path = Img.path
        /\ img.segments = Img.segments /\ img.fixups = Img.fixups
        /\ img.libraries = Img.libraries /\ img.libs = Img.libs
        /\ img.mem = Img.mem /\ img.sealed = Img.sealed /\ img.calls = Img.calls
    BY <1>1 DEF ImageShape, Fields
  <2> HIDE DEF img
  <2>3. IsSeq(img.segments) /\ img.fixups \in Seq(Fixup) /\ IsSeq(img.libraries)
    BY <1>1, <2>2 DEF ImageShape
  <2>4. QED
    BY <1>1, <1>2, <2>1, <2>2, <2>3, ParsedIsLocal
<1>10. CASE SkipCommand
  <2>1. Parsed(Img)
    BY <1>10 DEF SkipCommand
  <2>2. QED
    BY <1>1, <2>1, ParsedIsLocal DEF ImageShape
<1>11. CASE CollectDependencies
  <2> DEFINE img == [Img EXCEPT !.pc = "load", !.at = 0]
  <2>1. \/ SetImg(img) /\ UNCHANGED <<world, stack, outcome>>
        \/ Stop("too_many_dylibs")
    BY <1>11 DEF CollectDependencies
  <2>2. /\ DOMAIN img = Fields /\ img.pc = "load" /\ img.at = 0
        /\ \A f \in Fields \ {"pc", "at"} : img[f] = Img[f]
    BY <1>1 DEF ImageShape, Fields
  <2>3. /\ img.path = Img.path /\ img.segments = Img.segments /\ img.fixups = Img.fixups
        /\ img.libraries = Img.libraries /\ img.libs = Img.libs /\ img.mem = Img.mem
        /\ img.sealed = Img.sealed /\ img.calls = Img.calls /\ img.rpath = Img.rpath
    BY <2>2 DEF Fields
  <2> HIDE DEF img
  <2>4. ImageShape(img)
    BY <1>1, <2>2, <2>3 DEF ImageShape, Phase, Phases
  <2>5. Len(Img.libraries) \in Nat
    BY <1>1 DEF ImageShape, IsSeq
  <2>6. PhaseOK(img)
    BY <1>1, <2>2, <2>3, <2>5, EmptyIsSeq DEF PhaseOK
  <2>7. CASE Stop("too_many_dylibs")
    BY <1>2, <2>7
  <2>8. CASE SetImg(img) /\ UNCHANGED <<world, stack, outcome>>
    <3>1. Local(img)
      BY <1>1, <2>2, <2>3, <2>4, <2>6, <2>8, QuietIsLocal DEF ImageOK
    <3>2. QED
      BY <3>1
  <2>9. QED
    BY <2>1, <2>7, <2>8
<1>12. QED
  BY <1>3, <1>4, <1>5, <1>6, <1>7, <1>8, <1>9, <1>10, <1>11 DEF MachoParser

-----------------------------------------------------------------------------
(* The steps of user_dylibs_load_recursively that stay in one activation.  *)

(* A cached library, a library that cannot be loaded, the end of the list. *)
LEMMA LoadSteps ==
    ASSUME IInv, LoadSystemDylib \/ LoadUserDylibFails \/ DependenciesLoaded
    PROVE  (\E img : Local(img)) \/ Stopped
<1>1. ImageShape(Img) /\ PhaseOK(Img) /\ Img.pc = "load" /\ outcome = "loading"
  BY CurFacts DEF ImageOK, In, LoadSystemDylib, LoadUserDylibFails, DependenciesLoaded,
     AtDependency
<1>2. ASSUME NEW why, Stop(why), why # "entered"
      PROVE  Stopped
  BY <1>1, <1>2 DEF Stop, Stopped
<1>3. /\ Len(Img.libs) = Img.at /\ Img.at <= Len(Img.libraries) /\ Img.at \in Nat
      /\ Len(Img.libraries) \in Nat /\ IsSeq(Img.libs) /\ Img.mem = << >>
      /\ Img.sealed = 0 /\ Img.calls = << >>
  BY <1>1 DEF PhaseOK, ImageShape, IsSeq
<1>4. CASE LoadSystemDylib
  <2> DEFINE lib == [kind |-> "system", name |-> Dep]
             img == [Img EXCEPT !.at = @ + 1, !.libs = Append(@, lib)]
  <2>1. SetImg(img) /\ UNCHANGED <<world, stack, outcome>>
    BY <1>4 DEF LoadSystemDylib
  <2>2. Img.at < Len(Img.libraries) /\ Dep \in DOMAIN world.cache
    BY <1>4 DEF LoadSystemDylib, AtDependency
  <2>3. /\ DOMAIN img = Fields /\ img.pc = "load" /\ img.at = Img.at + 1
        /\ img.libs = Append(Img.libs, lib)
        /\ img.path = Img.path /\ img.segments = Img.segments /\ img.fixups = Img.fixups
        /\ img.libraries = Img.libraries /\ img.mem = Img.mem
        /\ img.sealed = Img.sealed /\ img.calls = Img.calls /\ img.rpath = Img.rpath
    BY <1>1 DEF ImageShape, Fields
  <2> HIDE DEF img
  <2>4. /\ IsSeq(img.libs) /\ Len(img.libs) = Img.at + 1 /\ img.libs[Img.at + 1] = lib
        /\ \A k \in 1..Img.at : img.libs[k] = Img.libs[k]
    BY <1>3, <2>3, AppendFacts
  <2>5. ImageShape(img)
    BY <1>1, <2>3, <2>4 DEF ImageShape
  <2>6. PhaseOK(img)
    BY <1>3, <2>2, <2>3, <2>4 DEF PhaseOK
  <2>7. ASSUME NEW k \in 1..Len(img.libs)
        PROVE  LibOK(img, img.libs[k], img.libraries[k])
    <3>1. CASE k = Img.at + 1
      BY <2>2, <2>3, <2>4, <3>1 DEF LibOK, Dep
    <3>2. CASE k # Img.at + 1
      <4>1. k \in 1..Len(Img.libs)
        BY <1>3, <2>4, <3>2
      <4>2. LibOK(Img, Img.libs[k], Img.libraries[k])
        BY <4>1, CurFacts DEF LibsOK
      <4>3. QED
        BY <1>3, <2>3, <2>4, <4>1, <4>2 DEF LibOK
    <3>3. QED
      BY <3>1, <3>2
  <2>8. MemOK(Cur, img)
    BY <2>3, CurFacts DEF MemOK
  <2>9. Local(img)
    BY <1>1, <2>1, <2>3, <2>5, <2>6, <2>7, <2>8 DEF Local, ImageOK, LibsOK
  <2>10. QED
    BY <2>9
<1>5. CASE LoadUserDylibFails
  BY <1>2, <1>5 DEF LoadUserDylibFails
<1>6. CASE DependenciesLoaded
  <2> DEFINE img == [Img EXCEPT !.pc = "map", !.at = 0]
  <2>1. SetImg(img) /\ UNCHANGED <<world, stack, outcome>> /\ Img.at = Len(Img.libraries)
    BY <1>6 DEF DependenciesLoaded
  <2>2. /\ DOMAIN img = Fields /\ img.pc = "map" /\ img.at = 0
        /\ img.path = Img.path /\ img.segments = Img.segments /\ img.fixups = Img.fixups
        /\ img.libraries = Img.libraries /\ img.libs = Img.libs /\ img.mem = Img.mem
        /\ img.sealed = Img.sealed /\ img.calls = Img.calls /\ img.rpath = Img.rpath
    BY <1>1 DEF ImageShape, Fields
  <2> HIDE DEF img
  <2>3. ImageShape(img)
    BY <1>1, <2>2 DEF ImageShape, Phase, Phases
  <2>4. PhaseOK(img)
    BY <1>3, <2>1, <2>2 DEF PhaseOK
  <2>5. Local(img)
    BY <1>1, <2>1, <2>2, <2>3, <2>4, QuietIsLocal DEF ImageOK
  <2>6. QED
    BY <2>5
<1>7. QED
  BY <1>4, <1>5, <1>6

-----------------------------------------------------------------------------
(* macho_segments_map_to_vm and image_fixups_apply.                        *)

(* macho_segments_map_to_vm succeeds or fails.                             *)
LEMMA MapSteps ==
    ASSUME IInv, MapSegments
    PROVE  (\E img : Local(img)) \/ Stopped
<1>1. ImageShape(Img) /\ PhaseOK(Img) /\ Img.pc = "map" /\ outcome = "loading"
  BY CurFacts DEF ImageOK, In, MapSegments
<1> DEFINE img == [Img EXCEPT !.pc = "fixup"]
<1>2. CASE SetImg(img) /\ UNCHANGED <<world, stack, outcome>>
  <2>1. /\ DOMAIN img = Fields /\ img.pc = "fixup" /\ img.at = Img.at
        /\ img.path = Img.path /\ img.segments = Img.segments /\ img.fixups = Img.fixups
        /\ img.libraries = Img.libraries /\ img.libs = Img.libs /\ img.mem = Img.mem
        /\ img.sealed = Img.sealed /\ img.calls = Img.calls /\ img.rpath = Img.rpath
    BY <1>1 DEF ImageShape, Fields
  <2> HIDE DEF img
  <2>2. ImageShape(img)
    BY <1>1, <2>1 DEF ImageShape, Phase, Phases
  <2>3. PhaseOK(img)
    BY <1>1, <2>1, EmptyIsSeq DEF PhaseOK
  <2>4. Local(img)
    BY <1>1, <1>2, <2>1, <2>2, <2>3, QuietIsLocal DEF ImageOK
  <2>5. QED
    BY <2>4
<1>3. CASE Stop("vm_alloc") \/ Stop("panic") \/ Stop("fault")
  BY <1>1, <1>3 DEF Stop, Stopped
<1>4. QED
  BY <1>2, <1>3 DEF MapSegments

(* A fixup writes one pointer, into the image being fixed up.              *)
LEMMA WriteIsLocal ==
    ASSUME IInv, In("fixup"), Img.at < Len(Img.fixups), NEW value, Write(value),
           TargetOK(Cur, value)
    PROVE  (\E img : Local(img)) \/ Stopped
<1>1. ImageShape(Img) /\ PhaseOK(Img) /\ Img.pc = "fixup" /\ outcome = "loading"
  BY CurFacts DEF ImageOK, In
<1>2. /\ Len(Img.mem) = Img.at /\ Img.at \in Nat /\ IsSeq(Img.mem) /\ Img.sealed = 0
      /\ Len(Img.libs) = Len(Img.libraries) /\ Img.calls = << >>
  BY <1>1 DEF PhaseOK, ImageShape
<1> DEFINE entry == <<Fix.offset + FixupBase, value>>
           img == [Img EXCEPT !.at = @ + 1, !.mem = Append(@, entry)]
<1>3. (SetImg(img) /\ UNCHANGED <<world, stack, outcome>>) \/ Stop("fault")
  BY DEF Write
<1>4. /\ DOMAIN img = Fields /\ img.pc = "fixup" /\ img.at = Img.at + 1
      /\ img.mem = Append(Img.mem, entry)
      /\ img.path = Img.path /\ img.segments = Img.segments /\ img.fixups = Img.fixups
      /\ img.libraries = Img.libraries /\ img.libs = Img.libs
      /\ img.sealed = Img.sealed /\ img.calls = Img.calls /\ img.rpath = Img.rpath
  BY <1>1 DEF ImageShape, Fields
<1>5. entry[2] = value
  OBVIOUS
<1> HIDE DEF img, entry
<1>6. /\ IsSeq(img.mem) /\ Len(img.mem) = Img.at + 1 /\ img.mem[Img.at + 1] = entry
      /\ \A k \in 1..Img.at : img.mem[k] = Img.mem[k]
  BY <1>2, <1>4, AppendFacts
<1>7. ImageShape(img)
  BY <1>1, <1>4, <1>6 DEF ImageShape
<1>8. PhaseOK(img)
  BY <1>2, <1>4, <1>6 DEF PhaseOK
<1>9. LibsOK(img)
  BY <1>4, CurFacts DEF LibsOK, LibOK
<1>10. MemOK(Cur, img)
  <2> SUFFICES ASSUME NEW k \in 1..Len(img.mem)
               PROVE  TargetOK(Cur, img.mem[k][2])
    BY DEF MemOK
  <2>1. CASE k = Img.at + 1
    BY <1>5, <1>6, <2>1
  <2>2. CASE k # Img.at + 1
    <3>1. k \in 1..Len(Img.mem) /\ img.mem[k] = Img.mem[k]
      BY <1>2, <1>6, <2>2
    <3>2. QED
      BY <3>1, CurFacts DEF MemOK
  <2>3. QED
    BY <2>1, <2>2
<1>11. CASE SetImg(img) /\ UNCHANGED <<world, stack, outcome>>
  <2>1. Local(img)
    BY <1>1, <1>2, <1>4, <1>7, <1>8, <1>9, <1>10, <1>11 DEF Local, ImageOK
  <2>2. QED
    BY <2>1
<1>12. CASE Stop("fault")
  BY <1>1, <1>12 DEF Stop, Stopped
<1>13. QED
  BY <1>3, <1>11, <1>12

(* image_fixups_apply writes pointers to finished libraries only.          *)
LEMMA FixupSteps ==
    ASSUME IInv, ImageFixupsApply
    PROVE  (\E img : Local(img)) \/ Stopped
<1>1. /\ ImageShape(Img) /\ PhaseOK(Img) /\ Img.pc = "fixup" /\ outcome = "loading"
      /\ In("fixup")
  BY CurFacts DEF ImageOK, In, ImageFixupsApply, ApplyRebase, ApplyUnsupportedBind,
     ApplyWeakBind, ApplyBindOutOfBounds, ApplySystemBind, ApplyUserBind, FixupsApplied,
     AtFixup, RegularBind
<1>2. ASSUME NEW why, Stop(why), why # "entered"
      PROVE  Stopped
  BY <1>1, <1>2 DEF Stop, Stopped
<1>3. ASSUME NEW offset
      PROVE  TargetOK(Cur, ImageAddress(Cur, offset))
  BY DEF TargetOK, ImageAddress
<1>4. CASE ApplyRebase
  <2>1. Img.at < Len(Img.fixups) /\ Write(ImageAddress(Cur, Fix.target + FixupBase))
    BY <1>4 DEF ApplyRebase, AtFixup
  <2>2. QED
    BY <1>1, <1>3, <2>1, WriteIsLocal
<1>5. CASE ApplyUnsupportedBind \/ ApplyBindOutOfBounds
  BY <1>2, <1>5 DEF ApplyUnsupportedBind, ApplyBindOutOfBounds
<1>6. CASE ApplyWeakBind
  <2>1. /\ Img.at < Len(Img.fixups)
        /\ (\E offset : Write(ImageAddress(Cur, offset))) \/ Stop("unresolved")
    BY <1>6 DEF ApplyWeakBind, AtFixup
  <2>2. QED
    BY <1>1, <1>2, <1>3, <2>1, WriteIsLocal
<1>7. CASE ApplySystemBind
  <2> DEFINE value == [space |-> "cache", library |-> Lib.name, symbol |-> Fix.symbol]
  <2>1. Img.at < Len(Img.fixups) /\ (Write(value) \/ Stop("unresolved"))
    BY <1>7 DEF ApplySystemBind, RegularBind, AtFixup
  <2>2. TargetOK(Cur, value)
    BY DEF TargetOK
  <2> HIDE DEF value
  <2>3. QED
    BY <1>1, <1>2, <2>1, <2>2, WriteIsLocal
<1>8. CASE ApplyUserBind
  <2>1. /\ Img.at < Len(Img.fixups) /\ Fix.kind = "bind"
        /\ Fix.ordinal # 0 /\ Fix.ordinal <= Len(Img.libs) /\ Lib.kind = "user"
        /\ \/ \E offset : Write(ImageAddress(Lib.image, offset))
           \/ Stop("unresolved") \/ Stop("panic")
    BY <1>8 DEF ApplyUserBind, RegularBind, AtFixup, Fix, UnsupportedOrdinals,
       BIND_SPECIAL_DYLIB_SELF
  <2>2. Fix \in Fixup
    BY <1>1, <2>1 DEF Fix, ImageShape
  <2>3. Fix.ordinal \in Nat /\ Len(Img.libs) \in Nat
    BY <1>1, <2>1, <2>2 DEF Fixup, RebaseFixup, BindFixup, ImageShape, IsSeq
  <2>4. Fix.ordinal \in 1..Len(Img.libs)
    BY <2>1, <2>3
  <2>5. LibOK(Img, Lib, Img.libraries[Fix.ordinal])
    BY <2>4, CurFacts DEF LibsOK, Lib
  <2>6. ASSUME NEW offset
        PROVE  TargetOK(Cur, ImageAddress(Lib.image, offset))
    BY <2>1, <2>5 DEF LibOK, TargetOK, ImageAddress
  <2>7. QED
    BY <1>1, <1>2, <2>1, <2>6, WriteIsLocal
<1>9. CASE FixupsApplied
  <2> DEFINE img == [Img EXCEPT !.pc = "tlv", !.at = 0]
  <2>1. SetImg(img) /\ UNCHANGED <<world, stack, outcome>> /\ Img.at = Len(Img.fixups)
    BY <1>9 DEF FixupsApplied
  <2>2. /\ DOMAIN img = Fields /\ img.pc = "tlv" /\ img.at = 0
        /\ img.path = Img.path /\ img.segments = Img.segments /\ img.fixups = Img.fixups
        /\ img.libraries = Img.libraries /\ img.libs = Img.libs /\ img.mem = Img.mem
        /\ img.sealed = Img.sealed /\ img.calls = Img.calls /\ img.rpath = Img.rpath
    BY <1>1 DEF ImageShape, Fields
  <2> HIDE DEF img
  <2>3. ImageShape(img)
    BY <1>1, <2>2 DEF ImageShape, Phase, Phases
  <2>4. PhaseOK(img)
    BY <1>1, <2>1, <2>2 DEF PhaseOK, Wired
  <2>5. Local(img)
    BY <1>1, <2>1, <2>2, <2>3, <2>4, QuietIsLocal DEF ImageOK
  <2>6. QED
    BY <2>5
<1>10. QED
  BY <1>4, <1>5, <1>6, <1>7, <1>8, <1>9 DEF ImageFixupsApply

-----------------------------------------------------------------------------
(* image_finalize.                                                         *)

(* image_finalize: thread-local setup, protection and initializers.        *)
LEMMA FinalizeSteps ==
    ASSUME IInv, ImageFinalize
    PROVE  (\E img : Local(img)) \/ Stopped
<1>1. ImageShape(Img) /\ PhaseOK(Img) /\ outcome = "loading"
  BY CurFacts DEF ImageOK, In, ImageFinalize, TlvInitialize, ProtectSegment,
     SegmentsProtected, CallInitializer
<1>2. ASSUME NEW why, Stop(why), why # "entered"
      PROVE  Stopped
  BY <1>1, <1>2 DEF Stop, Stopped
<1>3. CASE TlvInitialize
  <2> DEFINE img == [Img EXCEPT !.pc = "protect",
                                !.tlv = Img.is_executable /\ Img.has_thread_locals]
  <2>1. SetImg(img) /\ UNCHANGED <<world, stack, outcome>> /\ Img.pc = "tlv"
    BY <1>3 DEF TlvInitialize, In
  <2>2. /\ DOMAIN img = Fields /\ img.pc = "protect" /\ img.at = Img.at
        /\ img.path = Img.path /\ img.segments = Img.segments /\ img.fixups = Img.fixups
        /\ img.libraries = Img.libraries /\ img.libs = Img.libs /\ img.mem = Img.mem
        /\ img.sealed = Img.sealed /\ img.calls = Img.calls /\ img.rpath = Img.rpath
        /\ img.tlv = (img.is_executable /\ img.has_thread_locals)
    BY <1>1 DEF ImageShape, Fields
  <2> HIDE DEF img
  <2>3. ImageShape(img)
    BY <1>1, <2>2 DEF ImageShape, Phase, Phases
  <2>4. PhaseOK(img)
    BY <1>1, <2>1, <2>2 DEF PhaseOK, Wired, TlvSet
  <2>5. Local(img)
    BY <1>1, <2>1, <2>2, <2>3, <2>4, QuietIsLocal DEF ImageOK
  <2>6. QED
    BY <2>5
<1>4. CASE ProtectSegment
  <2> DEFINE img == [Img EXCEPT !.at = @ + 1, !.sealed = @ + 1]
  <2>1. /\ (SetImg(img) /\ UNCHANGED <<world, stack, outcome>>) \/ Stop("vm_protect")
        /\ Img.pc = "protect"
    BY <1>4 DEF ProtectSegment, In
  <2>2. /\ DOMAIN img = Fields /\ img.pc = "protect" /\ img.at = Img.at + 1
        /\ img.path = Img.path /\ img.segments = Img.segments /\ img.fixups = Img.fixups
        /\ img.libraries = Img.libraries /\ img.libs = Img.libs /\ img.mem = Img.mem
        /\ img.sealed = Img.sealed + 1 /\ img.calls = Img.calls /\ img.rpath = Img.rpath
        /\ img.tlv = Img.tlv /\ img.is_executable = Img.is_executable
        /\ img.has_thread_locals = Img.has_thread_locals
    BY <1>1, <2>1 DEF ImageShape, Fields
  <2> HIDE DEF img
  <2>3. ImageShape(img)
    BY <1>1, <2>2 DEF ImageShape, Phase, Phases
  <2>4. PhaseOK(img)
    BY <1>1, <2>1, <2>2 DEF PhaseOK, Wired, TlvSet
  <2>5. CASE SetImg(img) /\ UNCHANGED <<world, stack, outcome>>
    <3>1. Local(img)
      BY <1>1, <2>2, <2>3, <2>4, <2>5, QuietIsLocal DEF ImageOK
    <3>2. QED
      BY <3>1
  <2>6. QED
    BY <1>2, <2>1, <2>5
<1>5. CASE SegmentsProtected
  <2> DEFINE img == [Img EXCEPT !.pc = "init", !.at = 0]
  <2>1. /\ SetImg(img) /\ UNCHANGED <<world, stack, outcome>>
        /\ Img.pc = "protect" /\ Img.at = Len(Img.segments)
    BY <1>5 DEF SegmentsProtected, In
  <2>2. /\ DOMAIN img = Fields /\ img.pc = "init" /\ img.at = 0
        /\ img.path = Img.path /\ img.segments = Img.segments /\ img.fixups = Img.fixups
        /\ img.libraries = Img.libraries /\ img.libs = Img.libs /\ img.mem = Img.mem
        /\ img.sealed = Img.sealed /\ img.calls = Img.calls /\ img.rpath = Img.rpath
        /\ img.tlv = Img.tlv /\ img.is_executable = Img.is_executable
        /\ img.has_thread_locals = Img.has_thread_locals
    BY <1>1 DEF ImageShape, Fields
  <2> HIDE DEF img
  <2>3. ImageShape(img)
    BY <1>1, <2>2 DEF ImageShape, Phase, Phases
  <2>4. PhaseOK(img)
    BY <1>1, <2>1, <2>2, EmptyIsSeq DEF PhaseOK, Wired, TlvSet, Called
  <2>5. Local(img)
    BY <1>1, <2>1, <2>2, <2>3, <2>4, QuietIsLocal DEF ImageOK
  <2>6. QED
    BY <2>5
<1>6. CASE CallInitializer
  <2> DEFINE called == InitTarget(Img.init_functions[Img.at + 1])
             img == [Img EXCEPT !.at = @ + 1, !.calls = Append(@, called)]
  <2>1. /\ (SetImg(img) /\ UNCHANGED <<world, stack, outcome>>) \/ Stop("fault")
        /\ Img.pc = "init"
    BY <1>6 DEF CallInitializer, In
  <2>2. /\ DOMAIN img = Fields /\ img.pc = "init" /\ img.at = Img.at + 1
        /\ img.path = Img.path /\ img.segments = Img.segments /\ img.fixups = Img.fixups
        /\ img.libraries = Img.libraries /\ img.libs = Img.libs /\ img.mem = Img.mem
        /\ img.sealed = Img.sealed /\ img.calls = Append(Img.calls, called)
        /\ img.rpath = Img.rpath /\ img.init_functions = Img.init_functions
        /\ img.tlv = Img.tlv /\ img.is_executable = Img.is_executable
        /\ img.has_thread_locals = Img.has_thread_locals
        /\ called = InitTarget(Img.init_functions[Img.at + 1])
    BY <1>1, <2>1 DEF ImageShape, Fields
  <2> HIDE DEF img, called
  <2>3. /\ IsSeq(img.calls) /\ Len(img.calls) = Len(Img.calls) + 1
        /\ Len(Img.calls) \in Nat /\ img.calls[Len(Img.calls) + 1] = called
        /\ \A k \in 1..Len(Img.calls) : img.calls[k] = Img.calls[k]
    BY <1>1, <2>2, AppendFacts DEF ImageShape, IsSeq
  <2>4. ImageShape(img)
    BY <1>1, <2>2, <2>3 DEF ImageShape, Phase, Phases
  <2>5. PhaseOK(img)
    <3>1. Len(Img.calls) = Img.at /\ Called(Img)
      BY <1>1, <2>1 DEF PhaseOK
    <3>2. Called(img)
      BY <2>2, <2>3, <3>1 DEF Called
    <3>3. QED
      BY <1>1, <2>1, <2>2, <2>3, <3>2 DEF PhaseOK, Wired, TlvSet
  <2>6. CASE SetImg(img) /\ UNCHANGED <<world, stack, outcome>>
    <3>1. Local(img)
      BY <1>1, <2>2, <2>4, <2>5, <2>6, QuietIsLocal DEF ImageOK
    <3>2. QED
      BY <3>1
  <2>7. QED
    BY <1>2, <2>1, <2>6
<1>7. QED
  BY <1>3, <1>4, <1>5, <1>6 DEF ImageFinalize

-----------------------------------------------------------------------------
(* The recursive call of macho_loader and its return.                      *)

(* The recursive call: a new activation whose caller waits for it.         *)
LEMMA LoadUserDylibPreserves ==
    ASSUME IInv, LoadUserDylib
    PROVE  IInv'
<1> DEFINE n == Len(images) + 1
           new == NewImage(DepPath, FALSE)
<1>1. /\ Img.pc = "load" /\ outcome = "loading" /\ Img.at < Len(Img.libraries)
      /\ Dep \notin DOMAIN world.cache /\ DepPath \in DOMAIN world.disk
      /\ images' = Append(images, new) /\ stack' = Append(stack, n)
      /\ world' = world /\ outcome' = outcome
  BY DEF LoadUserDylib, AtDependency, In
<1>2. /\ DOMAIN new = Fields /\ new.pc = "parse" /\ new.at = 0 /\ new.path = DepPath
      /\ new.segments = << >> /\ new.fixups = << >> /\ new.libraries = << >>
      /\ new.libs = << >> /\ new.mem = << >> /\ new.sealed = 0 /\ new.calls = << >>
  BY DEF NewImage, Fields
<1> HIDE DEF new
<1>3. /\ IsSeq(images) /\ IsSeq(stack) /\ Len(images) \in Nat /\ Len(stack) \in Nat \ {0}
      /\ Cur \in 1..Len(images) /\ n \in Nat
  BY CurFacts DEF IInv, Typed
<1>4. /\ IsSeq(images') /\ Len(images') = n /\ images'[n] = new
      /\ \A i \in 1..Len(images) : images'[i] = images[i]
  BY <1>1, <1>3, AppendFacts
<1>5. /\ IsSeq(stack') /\ Len(stack') = Len(stack) + 1 /\ stack'[Len(stack) + 1] = n
      /\ \A k \in 1..Len(stack) : stack'[k] = stack[k]
  BY <1>1, <1>3, AppendFacts
<1>6. ASSUME NEW i \in 1..n, i # n
      PROVE  i \in 1..Len(images) /\ images'[i] = images[i]
  BY <1>3, <1>4, <1>6
<1>7. \A k \in 1..Len(stack) : stack[k] \in 1..Len(images) /\ stack[k] # n /\ stack[k] < n
  BY <1>3 DEF IInv, StackOK
<1> HIDE DEF n
<1>8. ImageOK(new)
  BY <1>2, EmptyIsSeq DEF ImageOK, ImageShape, PhaseOK, Phase, Phases
<1>9. Typed'
  BY <1>1, <1>2, <1>4, <1>5, <1>6, <1>8 DEF IInv, Typed
<1>10. ASSUME NEW k \in 1..(Len(stack) + 1), k # Len(stack) + 1
       PROVE  k \in 1..Len(stack) /\ stack'[k] = stack[k]
  BY <1>3, <1>5, <1>10
<1>11. StackOK'
  <2>1. Len(stack') > 0
    BY <1>3, <1>5
  <2>2. \A k \in 1..Len(stack') : stack'[k] \in 1..Len(images')
    BY <1>3, <1>4, <1>5, <1>7, <1>10 DEF n
  <2>3. \A j, k \in 1..Len(stack') : j < k => stack'[j] < stack'[k]
    <3> SUFFICES ASSUME NEW j \in 1..Len(stack'), NEW k \in 1..Len(stack'), j < k
                 PROVE  stack'[j] < stack'[k]
      OBVIOUS
    <3>1. j \in 1..Len(stack) /\ stack'[j] = stack[j]
      BY <1>3, <1>5
    <3>2. CASE k = Len(stack) + 1
      BY <1>5, <1>7, <3>1, <3>2
    <3>3. CASE k # Len(stack) + 1
      BY <1>5, <1>10, <3>1, <3>3 DEF IInv, StackOK
    <3>4. QED
      BY <3>2, <3>3
  <2>4. ASSUME NEW i \in 1..Len(images')
        PROVE  images'[i].pc # "done" <=> \E k \in 1..Len(stack') : stack'[k] = i
    <3>1. CASE i = n
      <4>1. Len(stack) + 1 \in 1..Len(stack')
        BY <1>3, <1>5
      <4>2. QED
        BY <1>2, <1>4, <1>5, <3>1, <4>1
    <3>2. CASE i # n
      <4>1. i \in 1..Len(images) /\ images'[i] = images[i]
        BY <1>4, <1>6, <3>2
      <4>2. (\E k \in 1..Len(stack') : stack'[k] = i) <=> \E k \in 1..Len(stack) : stack[k] = i
        BY <1>3, <1>5, <1>10, <3>2
      <4>3. QED
        BY <1>1, <4>1, <4>2 DEF IInv, StackOK
    <3>3. QED
      BY <3>1, <3>2
  <2>5. QED
    BY <1>1, <2>1, <2>2, <2>3, <2>4 DEF StackOK
<1>12. ChainOK'
  <2> SUFFICES ASSUME NEW k \in 1..(Len(stack') - 1)
               PROVE  Waiting(stack[k], stack[k + 1])'
    BY DEF ChainOK
  <2>1. k \in 1..Len(stack) /\ stack'[k] = stack[k] /\ images'[stack[k]] = images[stack[k]]
    BY <1>3, <1>4, <1>5, <1>7
  <2>2. CASE k = Len(stack)
    <3>1. stack'[k + 1] = n /\ stack'[k] = Cur /\ images'[Cur] = Img /\ images'[n].path = DepPath
      BY <1>2, <1>4, <1>5, <2>1, <2>2 DEF Cur, Img
    <3>2. QED
      BY <1>1, <3>1 DEF Waiting, Dep, DepPath
  <2>3. CASE k # Len(stack)
    <3>1. k \in 1..(Len(stack) - 1) /\ k + 1 \in 1..Len(stack)
      BY <1>3, <2>1, <2>3
    <3>2. stack'[k + 1] = stack[k + 1] /\ images'[stack[k + 1]] = images[stack[k + 1]]
      BY <1>4, <1>5, <1>7, <3>1
    <3>3. Waiting(stack[k], stack[k + 1])
      BY <3>1 DEF IInv, ChainOK
    <3>4. QED
      BY <1>1, <2>1, <3>2, <3>3 DEF Waiting
  <2>4. QED
    BY <2>2, <2>3
<1>13. ASSUME NEW j, Finished(j)
       PROVE  Finished(j)' /\ images'[j] = images[j]
  BY <1>3, <1>4, <1>13 DEF Finished, n
<1>14. LinksOK'
  <2> SUFFICES ASSUME NEW i \in 1..Len(images')
               PROVE  LibsOK(images[i])' /\ MemOK(i, images[i])'
    BY DEF LinksOK
  <2>1. CASE i = n
    BY <1>2, <1>4, <2>1, EmptyIsSeq DEF LibsOK, MemOK
  <2>2. CASE i # n
    <3>1. images'[i] = images[i] /\ LibsOK(images[i]) /\ MemOK(i, images[i])
      BY <1>4, <1>6, <2>2 DEF IInv, LinksOK
    <3>2. world' = world
      BY <1>1
    <3>3. LibsOK(images[i])'
      BY <1>13, <3>1, <3>2 DEF LibsOK, LibOK
    <3>4. MemOK(i, images[i])'
      BY <1>13, <3>1 DEF MemOK, TargetOK
    <3>5. QED
      BY <3>3, <3>4
  <2>3. QED
    BY <2>1, <2>2
<1>15. QED
  BY <1>9, <1>11, <1>12, <1>14 DEF IInv

(* The outermost activation ends with everything finished.                 *)
LEMMA EnterProgramPreserves ==
    ASSUME IInv, EnterProgram
    PROVE  IInv'
<1> DEFINE img == [Img EXCEPT !.pc = "done"]
<1>1. /\ SetImg(img) /\ Img.pc = "init" /\ Img.at = Len(Img.init_functions)
      /\ Len(stack) = 1 /\ outcome = "loading" /\ outcome' = "entered"
      /\ world' = world /\ stack' = stack
  BY DEF EnterProgram, In
<1>2. ImageShape(Img) /\ PhaseOK(Img)
  BY CurFacts DEF ImageOK
<1>3. /\ DOMAIN img = Fields /\ img.pc = "done" /\ img.at = Img.at
      /\ img.path = Img.path /\ img.segments = Img.segments /\ img.fixups = Img.fixups
      /\ img.libraries = Img.libraries /\ img.libs = Img.libs /\ img.mem = Img.mem
      /\ img.sealed = Img.sealed /\ img.calls = Img.calls /\ img.rpath = Img.rpath
      /\ img.tlv = Img.tlv /\ img.is_executable = Img.is_executable
      /\ img.has_thread_locals = Img.has_thread_locals
      /\ img.init_functions = Img.init_functions
  BY <1>2 DEF ImageShape, Fields
<1> HIDE DEF img
<1>4. /\ IsSeq(images') /\ Len(images') = Len(images) /\ images'[Cur] = img
      /\ \A i \in 1..Len(images) : i # Cur => images'[i] = images[i]
      /\ Cur \in 1..Len(images) /\ Cur = stack[1] /\ Img = images[Cur]
  BY <1>1, SetImgFacts, CurFacts DEF Cur, Img
<1>5. ImageOK(img)
  BY <1>1, <1>2, <1>3 DEF ImageOK, ImageShape, PhaseOK, Wired, TlvSet, Called, Phase, Phases
<1>6. Typed'
  BY <1>1, <1>3, <1>4, <1>5 DEF IInv, Typed
<1>7. \A i \in 1..Len(images) : images'[i].pc = "done"
  BY <1>1, <1>3, <1>4 DEF IInv, StackOK
<1>8. StackOK'
  BY <1>1, <1>4, <1>7 DEF IInv, StackOK
<1>9. ChainOK'
  <2>1. Len(stack') = 1
    BY <1>1
  <2>2. ASSUME NEW k \in 1..(Len(stack') - 1)
        PROVE  FALSE
    BY <2>1
  <2>3. QED
    BY <2>2 DEF ChainOK
<1>10. \A j \in 1..Len(images) : images'[j].path = images[j].path
  BY <1>3, <1>4
<1>11. LinksOK'
  <2> SUFFICES ASSUME NEW i \in 1..Len(images)
               PROVE  LibsOK(images[i])' /\ MemOK(i, images[i])'
    BY <1>4 DEF LinksOK
  <2>1. LibsOK(images[i]) /\ MemOK(i, images[i])
    BY DEF IInv, LinksOK
  <2>2. /\ images'[i].libs = images[i].libs /\ images'[i].libraries = images[i].libraries
        /\ images'[i].rpath = images[i].rpath /\ images'[i].mem = images[i].mem
    BY <1>3, <1>4
  <2>3. LibsOK(images[i])'
    BY <1>1, <1>4, <1>7, <1>10, <2>1, <2>2 DEF LibsOK, LibOK, Finished
  <2>4. MemOK(i, images[i])'
    BY <1>4, <1>7, <2>1, <2>2 DEF MemOK, TargetOK, Finished
  <2>5. QED
    BY <2>3, <2>4
<1>12. QED
  BY <1>6, <1>8, <1>9, <1>11 DEF IInv

(* What a return does to the two images it touches.                        *)
Caller == stack[Len(stack) - 1]
Entry == [kind |-> "user", image |-> Cur, name |-> images[Caller].libraries[images[Caller].at + 1]]

(* What a return of macho_loader changes.                                  *)
LEMMA ReturnFacts ==
    ASSUME IInv, ReturnToCaller
    PROVE  /\ Caller \in 1..Len(images) /\ Cur \in 1..Len(images) /\ Caller # Cur
           /\ Img.pc = "init" /\ Img.at = Len(Img.init_functions) /\ Len(stack) > 1
           /\ outcome = "loading" /\ Waiting(Caller, Cur)
           /\ world' = world /\ outcome' = outcome
           /\ IsSeq(images') /\ Len(images') = Len(images)
           /\ images'[Cur] = [Img EXCEPT !.pc = "done"]
           /\ images'[Caller] = [images[Caller] EXCEPT !.at = @ + 1,
                                                       !.libs = Append(@, Entry)]
           /\ \A i \in 1..Len(images) : i # Cur /\ i # Caller => images'[i] = images[i]
           /\ IsSeq(stack') /\ Len(stack') = Len(stack) - 1
           /\ \A k \in 1..(Len(stack) - 1) : stack'[k] = stack[k]
<1>1. /\ Img.pc = "init" /\ Img.at = Len(Img.init_functions) /\ Len(stack) > 1
      /\ outcome = "loading" /\ world' = world /\ outcome' = outcome
      /\ stack' = SubSeq(stack, 1, Len(stack) - 1)
  BY DEF ReturnToCaller, In
<1>2. /\ IsSeq(images) /\ IsSeq(stack) /\ Len(images) \in Nat /\ Len(stack) \in Nat
      /\ Cur \in 1..Len(images)
  BY CurFacts DEF IInv, Typed
<1>3. Len(stack) - 1 \in 1..(Len(stack) - 1) /\ Len(stack) \in 1..Len(stack)
      /\ Len(stack) - 1 \in 1..Len(stack) /\ Len(stack) - 1 < Len(stack)
      /\ Len(stack) - 1 + 1 = Len(stack)
  BY <1>1, <1>2
<1>4. Caller \in 1..Len(images) /\ Caller < Cur
  BY <1>3 DEF IInv, StackOK, Caller, Cur
<1>5. Waiting(Caller, Cur)
  BY <1>3 DEF IInv, ChainOK, Caller, Cur
<1>6. IsSeq(stack') /\ Len(stack') = Len(stack) - 1
      /\ \A k \in 1..(Len(stack) - 1) : stack'[k] = stack[k]
  BY <1>1, <1>2, FrontFacts
<1>7. images' = [images EXCEPT ![Cur].pc = "done",
                               ![Caller].at = @ + 1,
                               ![Caller].libs = Append(@, Entry)]
  BY Zenon DEF ReturnToCaller, Caller, Entry
<1> DEFINE img == [Img EXCEPT !.pc = "done"]
           mid == [images EXCEPT ![Cur] = img]
           top == [images[Caller] EXCEPT !.at = @ + 1, !.libs = Append(@, Entry)]
<1>8. Caller # Cur
  BY <1>2, <1>4
<1>9. images' = [mid EXCEPT ![Caller] = top]
  BY <1>2, <1>4, <1>7, <1>8, IsSeqFacts DEF Img
<1>10. PutAt(mid, images, Cur, img) /\ PutAt(images', mid, Caller, top)
  BY <1>9 DEF PutAt
<1> HIDE DEF img, mid, top
<1>11. /\ IsSeq(mid) /\ Len(mid) = Len(images) /\ mid[Cur] = img
       /\ \A i \in 1..Len(images) : i # Cur => mid[i] = images[i]
  BY <1>2, <1>10, ExceptFacts
<1>12. /\ IsSeq(images') /\ Len(images') = Len(mid) /\ images'[Caller] = top
       /\ \A i \in 1..Len(mid) : i # Caller => images'[i] = mid[i]
  BY <1>4, <1>10, <1>11, ExceptFacts
<1>13. images'[Cur] = img
  BY <1>2, <1>8, <1>11, <1>12
<1>14. \A i \in 1..Len(images) : i # Cur /\ i # Caller => images'[i] = images[i]
  BY <1>11, <1>12
<1>15. QED
  BY <1>1, <1>2, <1>4, <1>5, <1>6, <1>8, <1>11, <1>12, <1>13, <1>14 DEF img, top

(* A return finishes one image and hands it to the caller that waits for   *)
(* it.                                                                     *)
LEMMA ReturnPreserves ==
    ASSUME IInv, ReturnToCaller
    PROVE  IInv'
<1> DEFINE old == images[Caller]
           img == images'[Cur]
           top == images'[Caller]
<1>1. /\ Caller \in 1..Len(images) /\ Cur \in 1..Len(images) /\ Caller # Cur
      /\ Len(stack) > 1 /\ Len(stack) \in Nat /\ Len(images) \in Nat
      /\ IsSeq(images') /\ Len(images') = Len(images)
      /\ \A i \in 1..Len(images) : i # Cur /\ i # Caller => images'[i] = images[i]
  BY ReturnFacts, CurFacts
<1>2. /\ IsSeq(stack') /\ Len(stack') = Len(stack) - 1
      /\ \A k \in 1..(Len(stack) - 1) : stack'[k] = stack[k]
      /\ \A k \in 1..Len(stack') : k \in 1..Len(stack) /\ k # Len(stack)
      /\ Cur = stack[Len(stack)]
  BY <1>1, ReturnFacts DEF Cur
<1>3. world' = world /\ outcome' = outcome /\ outcome = "loading"
  BY ReturnFacts
<1>4. /\ ImageShape(Img) /\ PhaseOK(Img) /\ Img.pc = "init"
      /\ Img.at = Len(Img.init_functions) /\ Img = images[Cur]
  BY ReturnFacts, CurFacts DEF ImageOK, Img
<1>5. Waiting(Caller, Cur) /\ ImageShape(old) /\ PhaseOK(old)
  BY <1>1, ReturnFacts DEF IInv, Typed, ImageOK
<1>6. /\ DOMAIN img = Fields /\ img.pc = "done" /\ img.at = Img.at
      /\ img.path = Img.path /\ img.segments = Img.segments /\ img.fixups = Img.fixups
      /\ img.libraries = Img.libraries /\ img.libs = Img.libs /\ img.mem = Img.mem
      /\ img.sealed = Img.sealed /\ img.calls = Img.calls /\ img.rpath = Img.rpath
      /\ img.tlv = Img.tlv /\ img.is_executable = Img.is_executable
      /\ img.has_thread_locals = Img.has_thread_locals
      /\ img.init_functions = Img.init_functions
  <2>1. img = [Img EXCEPT !.pc = "done"]
    BY ReturnFacts
  <2> HIDE DEF img
  <2>2. QED
    BY <1>4, <2>1 DEF ImageShape, Fields
<1>7. /\ DOMAIN top = Fields /\ top.pc = old.pc /\ top.at = old.at + 1
      /\ top.path = old.path /\ top.segments = old.segments /\ top.fixups = old.fixups
      /\ top.libraries = old.libraries /\ top.libs = Append(old.libs, Entry)
      /\ top.mem = old.mem
      /\ top.sealed = old.sealed /\ top.calls = old.calls /\ top.rpath = old.rpath
  <2>1. top = [old EXCEPT !.at = @ + 1, !.libs = Append(@, Entry)]
    BY ReturnFacts
  <2> HIDE DEF top, old
  <2>2. QED
    BY <1>5, <2>1 DEF ImageShape, Fields
<1>8. /\ old.pc = "load" /\ old.at < Len(old.libraries) /\ Len(old.libs) = old.at
      /\ old.at \in Nat /\ Len(old.libraries) \in Nat /\ IsSeq(old.libs)
      /\ old.mem = << >> /\ old.sealed = 0 /\ old.calls = << >>
  BY <1>5 DEF Waiting, PhaseOK, ImageShape, IsSeq
<1>9. /\ IsSeq(top.libs) /\ Len(top.libs) = old.at + 1 /\ top.libs[old.at + 1] = Entry
      /\ \A k \in 1..old.at : top.libs[k] = old.libs[k]
  BY <1>7, <1>8, AppendFacts
<1>10. /\ Entry.kind = "user" /\ Entry.image = Cur
       /\ Entry.name = old.libraries[old.at + 1]
  BY DEF Entry
<1>11. \A i \in 1..Len(images) : i = Cur \/ i = Caller \/ images'[i] = images[i]
  BY <1>1
<1> HIDE DEF old, img, top
<1>12. ImageOK(img)
  BY <1>4, <1>6 DEF ImageOK, ImageShape, PhaseOK, Wired, TlvSet, Called, Phase, Phases
<1>13. ImageOK(top)
  BY <1>5, <1>7, <1>8, <1>9 DEF ImageOK, ImageShape, PhaseOK
<1>14. Typed'
  <2>1. old.path \in DOMAIN world.disk /\ Img.path \in DOMAIN world.disk
    BY <1>1, CurFacts DEF IInv, Typed, old
  <2>2. QED
    BY <1>1, <1>2, <1>3, <1>6, <1>7, <1>11, <1>12, <1>13, <2>1 DEF IInv, Typed, img, top
<1>15. ASSUME NEW j, Finished(j)
       PROVE  /\ Finished(j)' /\ images'[j] = images[j] /\ j # Cur /\ j # Caller
  BY <1>1, <1>4, <1>8, <1>15 DEF Finished, old
<1>16. /\ Cur \in 1..Len(images') /\ images'[Cur].pc = "done"
       /\ images'[Cur].path = Img.path
  BY <1>1, <1>6 DEF img

<1>17. StackOK'
  <2>1. Len(stack') > 0
    BY <1>1, <1>2
  <2>2. \A k \in 1..Len(stack') : stack'[k] = stack[k]
    BY <1>1, <1>2
  <2>3. \A k \in 1..Len(stack') : stack'[k] \in 1..Len(images')
    BY <1>1, <1>2, <2>2 DEF IInv, StackOK
  <2>4. \A j, k \in 1..Len(stack') : j < k => stack'[j] < stack'[k]
    BY <1>2, <2>2 DEF IInv, StackOK
  <2>5. ASSUME NEW i \in 1..Len(images)
        PROVE  images'[i].pc # "done" <=> \E k \in 1..Len(stack') : stack'[k] = i
    <3>1. CASE i = Cur
      <4>1. ASSUME NEW k \in 1..Len(stack')
            PROVE  stack'[k] # i
        <5>1. /\ k \in 1..Len(stack) /\ Len(stack) \in 1..Len(stack) /\ k < Len(stack)
              /\ stack'[k] = stack[k]
          BY <1>1, <1>2, <2>2
        <5>2. stack[k] \in 1..Len(images) /\ stack[k] < stack[Len(stack)]
          BY <5>1 DEF IInv, StackOK
        <5>3. stack[k] # Cur
          BY <1>1, <1>2, <5>2
        <5>4. QED
          BY <3>1, <5>1, <5>3
      <4>2. QED
        BY <1>6, <3>1, <4>1 DEF img
    <3>2. CASE i # Cur
      <4>1. images'[i].pc = images[i].pc
        BY <1>7, <1>11, <3>2 DEF top, old
      <4>2. (\E k \in 1..Len(stack') : stack'[k] = i) <=> \E k \in 1..Len(stack) : stack[k] = i
        <5>1. ASSUME NEW k \in 1..Len(stack), stack[k] = i
              PROVE  k \in 1..Len(stack') /\ stack'[k] = i
          BY <1>1, <1>2, <3>2, <5>1
        <5>2. QED
          BY <1>2, <2>2, <5>1
      <4>3. QED
        BY <1>3, <4>1, <4>2 DEF IInv, StackOK
    <3>3. QED
      BY <3>1, <3>2
  <2>6. QED
    BY <1>1, <1>3, <2>1, <2>3, <2>4, <2>5 DEF StackOK
<1>18. ChainOK'
  <2> SUFFICES ASSUME NEW k \in 1..(Len(stack') - 1)
               PROVE  Waiting(stack[k], stack[k + 1])'
    BY DEF ChainOK
  <2>1. /\ k \in 1..(Len(stack) - 1) /\ k + 1 \in 1..(Len(stack) - 1) /\ k \in 1..Len(stack)
        /\ k + 1 \in 1..Len(stack) /\ Len(stack) \in 1..Len(stack)
        /\ k < Len(stack) - 1 /\ k + 1 < Len(stack)
        /\ Len(stack) - 1 \in 1..Len(stack)
    BY <1>1, <1>2
  <2>2. stack'[k] = stack[k] /\ stack'[k + 1] = stack[k + 1]
    BY <1>2, <2>1
  <2>3. Waiting(stack[k], stack[k + 1])
    BY <2>1 DEF IInv, ChainOK
  <2>4. /\ stack[k] \in 1..Len(images) /\ stack[k + 1] \in 1..Len(images)
        /\ stack[k] < Caller /\ stack[k] < Cur /\ stack[k + 1] < Cur
    <3>1. Caller = stack[Len(stack) - 1] /\ Cur = stack[Len(stack)]
      BY DEF Caller, Cur
    <3>2. \A a, b \in 1..Len(stack) : a < b => stack[a] < stack[b]
      BY DEF IInv, StackOK
    <3>3. stack[k] \in 1..Len(images) /\ stack[k + 1] \in 1..Len(images)
      BY <2>1 DEF IInv, StackOK
    <3>4. k < Len(stack)
      BY <2>1
    <3>5. QED
      BY <2>1, <3>1, <3>2, <3>3, <3>4
  <2>5. images'[stack[k]] = images[stack[k]]
    BY <1>1, <1>11, <2>4
  <2>6. images'[stack[k + 1]].path = images[stack[k + 1]].path
    BY <1>1, <1>7, <1>11, <2>4 DEF top, old
  <2>7. QED
    BY <1>3, <2>2, <2>3, <2>5, <2>6 DEF Waiting
<1>19. ASSUME NEW i \in 1..Len(images), NEW k \in 1..Len(images'[i].libs)
       PROVE  \/ i = Caller /\ k = old.at + 1 /\ images'[i].libs[k] = Entry
              \/ k \in 1..Len(images[i].libs) /\ images'[i].libs[k] = images[i].libs[k]
  <2>1. CASE i = Caller
    BY <1>8, <1>9, <2>1 DEF top, old
  <2>2. CASE i # Caller
    BY <1>4, <1>6, <1>11, <2>2 DEF img
  <2>3. QED
    BY <2>1, <2>2
<1>20. ASSUME NEW i \in 1..Len(images)
       PROVE  /\ images'[i].libraries = images[i].libraries
              /\ images'[i].rpath = images[i].rpath /\ images'[i].mem = images[i].mem
  BY <1>4, <1>6, <1>7, <1>11 DEF img, top, old
<1>21. LinksOK'
  <2> SUFFICES ASSUME NEW i \in 1..Len(images)
               PROVE  LibsOK(images[i])' /\ MemOK(i, images[i])'
    BY <1>1 DEF LinksOK
  <2>1. LibsOK(images[i]) /\ MemOK(i, images[i])
    BY DEF IInv, LinksOK
  <2>2. ASSUME NEW k \in 1..Len(images'[i].libs)
        PROVE  LibOK(images[i], images[i].libs[k], images[i].libraries[k])'
    <3>1. CASE i = Caller /\ k = old.at + 1 /\ images'[i].libs[k] = Entry
      <4>1. /\ old.libraries[old.at + 1] \notin DOMAIN world.cache
            /\ Img.path = DiskPath(old.libraries[old.at + 1], old.rpath, world.exec_dir)
        BY <1>4, <1>5 DEF Waiting, old
      <4>2. images'[i].libraries[k] = old.libraries[old.at + 1] /\ images'[i].rpath = old.rpath
        BY <1>20, <3>1 DEF old
      <4>3. QED
        BY <1>3, <1>10, <1>16, <3>1, <4>1, <4>2 DEF LibOK, Finished
    <3>2. CASE k \in 1..Len(images[i].libs) /\ images'[i].libs[k] = images[i].libs[k]
      <4>1. LibOK(images[i], images[i].libs[k], images[i].libraries[k])
        BY <2>1, <3>2 DEF LibsOK
      <4>2. QED
        BY <1>3, <1>15, <1>20, <3>2, <4>1 DEF LibOK
    <3>3. QED
      BY <1>19, <3>1, <3>2
  <2>3. LibsOK(images[i])'
    BY <2>2 DEF LibsOK
  <2>4. MemOK(i, images[i])'
    BY <1>15, <1>20, <2>1 DEF MemOK, TargetOK
  <2>5. QED
    BY <2>3, <2>4
<1>22. QED
  BY <1>14, <1>17, <1>18, <1>21 DEF IInv

-----------------------------------------------------------------------------
(* The invariant, and what it says of the loader.                          *)

(* One activation, for the executable.                                     *)
LEMMA InitIInv == Init => IInv
<1> SUFFICES ASSUME Init PROVE IInv
  OBVIOUS
<1> DEFINE new == NewImage(world.exe, TRUE)
<1>1. world \in Worlds /\ images = <<new>> /\ stack = <<1>> /\ outcome = "loading"
  BY DEF Init
<1>2. /\ DOMAIN new = Fields /\ new.pc = "parse" /\ new.at = 0 /\ new.path = world.exe
      /\ new.segments = << >> /\ new.fixups = << >> /\ new.libraries = << >>
      /\ new.libs = << >> /\ new.mem = << >> /\ new.sealed = 0 /\ new.calls = << >>
  BY DEF NewImage, Fields
<1> HIDE DEF new
<1>3. /\ Len(images) = 1 /\ images[1] = new /\ IsSeq(images)
      /\ Len(stack) = 1 /\ stack[1] = 1 /\ IsSeq(stack)
  BY <1>1 DEF IsSeq
<1>4. ImageOK(new)
  BY <1>2, EmptyIsSeq DEF ImageOK, ImageShape, PhaseOK, Phase, Phases
<1>5. world.exe \in DOMAIN world.disk
  BY <1>1, WorldsAssumption DEF IsWorld
<1>6. \A i \in 1..Len(images) : i = 1
  BY <1>3
<1>7. Typed
  BY <1>1, <1>2, <1>3, <1>4, <1>5, <1>6 DEF Typed
<1>8. StackOK
  BY <1>1, <1>2, <1>3, <1>6 DEF StackOK
<1>9. ChainOK
  BY <1>3 DEF ChainOK
<1>10. LinksOK
  BY <1>2, <1>3, <1>6, EmptyIsSeq DEF LinksOK, LibsOK, MemOK
<1>11. QED
  BY <1>7, <1>8, <1>9, <1>10 DEF IInv

(* Every step is one of these four.                                        *)
LEMMA Steps ==
    ASSUME IInv, Next
    PROVE  \/ (\E img : Local(img)) \/ Stopped \/ LoadUserDylib
           \/ ReturnToCaller \/ EnterProgram \/ UNCHANGED vars
<1>1. CASE MachoParser
  BY <1>1, ParserSteps
<1>2. CASE LoadUserDylib
  BY <1>2
<1>3. CASE LoadSystemDylib \/ LoadUserDylibFails \/ DependenciesLoaded
  BY <1>3, LoadSteps
<1>4. CASE MapSegments
  BY <1>4, MapSteps
<1>5. CASE ImageFixupsApply
  BY <1>5, FixupSteps
<1>6. CASE ImageFinalize
  BY <1>6, FinalizeSteps
<1>7. CASE Ended
  BY <1>7 DEF Ended
<1>8. QED
  BY <1>1, <1>2, <1>3, <1>4, <1>5, <1>6, <1>7 DEF Next, UserDylibsLoadRecursively

(* Nothing changes, nothing is lost.                                       *)
LEMMA StutterPreserves ==
    ASSUME IInv, UNCHANGED vars
    PROVE  IInv'
  BY DEF IInv, vars, Typed, StackOK, ChainOK, Waiting, LinksOK, LibsOK, LibOK, MemOK,
         TargetOK, Finished, ImageOK, ImageShape, PhaseOK, Wired, TlvSet, Called

(* Every step of a load keeps the invariant.                               *)
LEMMA NextIInv == IInv /\ [Next]_vars => IInv'
<1> SUFFICES ASSUME IInv, [Next]_vars PROVE IInv'
  OBVIOUS
<1>1. CASE \E img : Local(img)
  BY <1>1, LocalPreserves
<1>2. CASE Stopped
  BY <1>2, StoppedPreserves
<1>3. CASE LoadUserDylib
  BY <1>3, LoadUserDylibPreserves
<1>4. CASE ReturnToCaller
  BY <1>4, ReturnPreserves
<1>5. CASE EnterProgram
  BY <1>5, EnterProgramPreserves
<1>6. CASE UNCHANGED vars
  BY <1>6, StutterPreserves
<1>7. QED
  BY <1>1, <1>2, <1>3, <1>4, <1>5, <1>6, Steps

(* The inductive invariant holds in every reachable state of macho_loader. *)
THEOREM LoaderInvariant == Spec => []IInv
<1>1. QED
  BY InitIInv, NextIInv, PTL DEF Spec

(* The chain of waiting activations is the call chain.                     *)
LEMMA IInvCallChain == IInv => CallChain
<1> SUFFICES ASSUME IInv PROVE CallChain
  OBVIOUS
<1>1. DOMAIN images = 1..Len(images) /\ DOMAIN stack = 1..Len(stack) /\ Len(stack) \in Nat
  BY IsSeqFacts DEF IInv, Typed
<1>2. \A i \in Images : (images[i].pc # "done" <=> outcome # "entered" /\ OnStack(i))
  BY <1>1 DEF IInv, StackOK, Images, OnStack
<1>3. ASSUME NEW k \in 1..Len(stack) - 1
      PROVE  stack[k] < stack[k + 1] /\ Waiting(stack[k], stack[k + 1])
  <2>1. k \in 1..Len(stack) /\ k + 1 \in 1..Len(stack) /\ k < k + 1
    BY <1>1
  <2>2. QED
    BY <2>1 DEF IInv, StackOK, ChainOK
<1>4. QED
  BY <1>2, <1>3 DEF CallChain, Waiting

(* The list under construction follows the load commands entry by entry.   *)
LEMMA IInvOrdinals == IInv => OrdinalsDenoteLibraries
<1> SUFFICES ASSUME IInv, NEW i \in Images, images[i].pc \notin {"parse", "load"}
             PROVE  /\ Len(images[i].libs) = Len(images[i].libraries)
                    /\ \A k \in DOMAIN images[i].libs :
                          LET lib  == images[i].libs[k]
                              name == images[i].libraries[k]
                          IN  /\ lib.name = name
                              /\ lib.kind = "system" <=> name \in DOMAIN world.cache
                              /\ lib.kind = "user" =>
                                    /\ lib.image \in Images /\ images[lib.image].pc = "done"
                                    /\ images[lib.image].path =
                                          DiskPath(name, images[i].rpath, world.exec_dir)
  BY DEF OrdinalsDenoteLibraries
<1>1. Images = 1..Len(images)
  BY IsSeqFacts DEF IInv, Typed, Images
<1>2. ImageShape(images[i]) /\ PhaseOK(images[i]) /\ LibsOK(images[i])
  BY <1>1 DEF IInv, Typed, LinksOK, ImageOK
<1>3. Len(images[i].libs) = Len(images[i].libraries)
  BY <1>2 DEF PhaseOK
<1>4. DOMAIN images[i].libs = 1..Len(images[i].libs)
  BY <1>2, IsSeqFacts DEF ImageShape
<1>5. QED
  BY <1>1, <1>2, <1>3, <1>4 DEF LibsOK, LibOK, Finished

(* A finished image owes nothing to the program.                           *)
LEMMA FinishedIsLinked ==
    ASSUME IInv, NEW j, Finished(j)
    PROVE  Linked(j) /\ Len(images[j].calls) = Len(images[j].init_functions)
<1>1. PhaseOK(images[j]) /\ images[j].pc = "done"
  BY DEF Finished, IInv, Typed, ImageOK
<1>2. QED
  BY <1>1 DEF PhaseOK, Linked, Wired, TlvSet

(* Initializers come after fixups and protection, in libraries first.      *)
LEMMA IInvRunsOnlyLinkedCode == IInv => RunsOnlyLinkedCode
<1> SUFFICES ASSUME IInv, NEW i \in Images, images[i].calls # << >> \/ images[i].pc = "done"
             PROVE  /\ Linked(i)
                    /\ \A k \in DOMAIN images[i].mem :
                          LET target == images[i].mem[k][2]
                          IN  target.space = "image" /\ target.image # i =>
                                /\ images[target.image].pc = "done" /\ Linked(target.image)
                                /\ Len(images[target.image].calls) =
                                      Len(images[target.image].init_functions)
  BY DEF RunsOnlyLinkedCode
<1>1. i \in 1..Len(images)
  BY IsSeqFacts DEF IInv, Typed, Images
<1>2. ImageShape(images[i]) /\ PhaseOK(images[i]) /\ MemOK(i, images[i])
  BY <1>1 DEF IInv, Typed, LinksOK, ImageOK
<1>3. images[i].pc \in {"init", "done"}
  BY <1>2 DEF PhaseOK
<1>4. Linked(i)
  BY <1>2, <1>3 DEF PhaseOK, Linked, Wired, TlvSet
<1>5. DOMAIN images[i].mem = 1..Len(images[i].mem)
  BY <1>2, IsSeqFacts DEF ImageShape
<1>6. ASSUME NEW k \in DOMAIN images[i].mem, images[i].mem[k][2].space = "image",
             images[i].mem[k][2].image # i
      PROVE  /\ images[images[i].mem[k][2].image].pc = "done"
             /\ Linked(images[i].mem[k][2].image)
             /\ Len(images[images[i].mem[k][2].image].calls) =
                   Len(images[images[i].mem[k][2].image].init_functions)
  <2>1. Finished(images[i].mem[k][2].image)
    BY <1>2, <1>5, <1>6 DEF MemOK, TargetOK
  <2>2. QED
    BY <2>1, FinishedIsLinked DEF Finished
<1>7. QED
  BY <1>4, <1>6

(* Initializers are jumped to in order; of the executable the jump leads   *)
(* to the initializer.                                                     *)
LEMMA IInvEntersSafely == IInv => EntersSafely
<1> SUFFICES ASSUME IInv, outcome = "entered", NEW i \in Images
             PROVE  /\ images[i].pc = "done" /\ Linked(i)
                    /\ images[i].is_executable \/ images[i].init_functions = << >>
                          => Initialized(i)
  BY DEF EntersSafely
<1>1. i \in 1..Len(images)
  BY IsSeqFacts DEF IInv, Typed, Images
<1>2. images[i].pc = "done" /\ Finished(i)
  BY <1>1 DEF IInv, StackOK, Finished
<1>3. /\ ImageShape(images[i]) /\ Called(images[i])
      /\ DOMAIN images[i].calls = 1..Len(images[i].calls)
  BY <1>1, <1>2, IsSeqFacts DEF IInv, Typed, ImageOK, ImageShape, PhaseOK
<1>4. Linked(i) /\ Len(images[i].calls) = Len(images[i].init_functions)
  BY <1>2, FinishedIsLinked
<1>5. ASSUME images[i].is_executable PROVE Initialized(i)
  <2>1. ASSUME NEW func PROVE InitTarget(func) = InitAddress(i, func)
    BY <1>5 DEF InitTarget, InitAddress, PageZeroOf
  <2>2. \A k \in DOMAIN images[i].calls :
            images[i].calls[k] = InitTarget(images[i].init_functions[k])
    BY <1>3 DEF Called
  <2>3. QED
    BY <1>4, <2>1, <2>2, Zenon DEF Initialized
<1>6. ASSUME images[i].init_functions = << >> PROVE Initialized(i)
  <2>1. Len(images[i].calls) = 0 /\ DOMAIN images[i].calls = {}
    BY <1>3, <1>4, <1>6, EmptyIsSeq
  <2>2. QED
    BY <1>4, <2>1 DEF Initialized
<1>7. QED
  BY <1>2, <1>4, <1>5, <1>6

(* CallChain: at every point of user_dylibs_load_recursively's recursion,  *)
(* however deep and whatever fails, the activations of macho_loader that   *)
(* have not returned form one chain, each waiting for the file that its    *)
(* pending dependency resolves to.                                         *)
THEOREM NestsProperly == Spec => []CallChain
<1>1. QED
  BY LoaderInvariant, IInvCallChain, PTL

(* OrdinalsDenoteLibraries: dylibs[ordinal - 1] in fixups.rs is the        *)
(* library that the ordinal names, for every executable and file system.   *)
THEOREM BindsToTheRightLibrary == Spec => []OrdinalsDenoteLibraries
<1>1. QED
  BY LoaderInvariant, IInvOrdinals, PTL

(* RunsOnlyLinkedCode: macho_init_functions_exec runs only in an image     *)
(* that is fixed up and protected, and whose pointers lead to images whose *)
(* own initializers have run.                                              *)
THEOREM InitializesBottomUp == Spec => []RunsOnlyLinkedCode
<1>1. QED
  BY LoaderInvariant, IInvRunsOnlyLinkedCode, PTL

(* EntersSafely: whichever way the libraries were found, the program that  *)
(* dynld_entrypoint jumps to has only linked images, and those without     *)
(* initializers and the executable are initialized, by jumps to each of    *)
(* the executable's initializers in order.  Of the initializers of         *)
(* libraries it says nothing: they are missed by a page zero.              *)
THEOREM EntersLinkedProgram == Spec => []EntersSafely
<1>1. QED
  BY LoaderInvariant, IInvEntersSafely, PTL

(* No step writes into an image that is sealed or finished.                *)
LEMMA StepsKeepSealedImages ==
    IInv /\ [Next]_vars =>
        [\A i \in Images :
            /\ images[i].sealed > 0 => images'[i].mem = images[i].mem
            /\ images[i].pc = "done" => images'[i] = images[i]]_vars
<1> SUFFICES ASSUME IInv, Next, NEW i \in Images
             PROVE  /\ images[i].sealed > 0 => images'[i].mem = images[i].mem
                    /\ images[i].pc = "done" => images'[i] = images[i]
  OBVIOUS
<1>1. i \in 1..Len(images) /\ Img = images[Cur] /\ IsSeq(images)
  BY IsSeqFacts DEF IInv, Typed, Images, Img
<1>2. CASE \E img : Local(img)
  <2>1. PICK img : Local(img)
    BY <1>2
  <2>2. /\ outcome = "loading" /\ images'[Cur] = img /\ (Img.sealed > 0 => img.mem = Img.mem)
        /\ \A k \in 1..Len(images) : k # Cur => images'[k] = images[k]
    BY <2>1, SetImgFacts DEF Local
  <2>3. QED
    BY <1>1, <2>2, RunningFacts
<1>3. CASE Stopped \/ UNCHANGED vars
  BY <1>3 DEF Stopped, vars
<1>4. CASE LoadUserDylib
  <2>1. images' = Append(images, NewImage(DepPath, FALSE))
    BY <1>4 DEF LoadUserDylib
  <2>2. images'[i] = images[i]
    BY <1>1, <2>1, AppendFacts
  <2>3. QED
    BY <2>2
<1>5. CASE ReturnToCaller
  <2>1. images[Caller].pc = "load" /\ images[Caller].sealed = 0
    BY <1>5, ReturnFacts DEF Waiting, IInv, Typed, ImageOK, PhaseOK
  <2>2. CASE i = Cur
    <3>1. images'[i] = [Img EXCEPT !.pc = "done"] /\ Img.pc = "init"
      BY <1>5, <2>2, ReturnFacts
    <3>2. images'[i].mem = Img.mem
      BY <3>1, CurFacts DEF ImageOK, ImageShape, Fields
    <3>3. QED
      BY <1>1, <2>2, <3>1, <3>2
  <2>3. CASE i = Caller
    BY <2>1, <2>3
  <2>4. CASE i # Cur /\ i # Caller
    BY <1>1, <1>5, <2>4, ReturnFacts
  <2>5. QED
    BY <2>2, <2>3, <2>4
<1>6. CASE EnterProgram
  <2>1. SetImg([Img EXCEPT !.pc = "done"]) /\ Img.pc = "init"
    BY <1>6 DEF EnterProgram, In
  <2>2. /\ images'[Cur] = [Img EXCEPT !.pc = "done"]
        /\ \A k \in 1..Len(images) : k # Cur => images'[k] = images[k]
    BY <2>1, SetImgFacts
  <2>3. images'[Cur].mem = Img.mem
    BY <2>2, CurFacts DEF ImageOK, ImageShape, Fields
  <2>4. QED
    BY <1>1, <2>1, <2>2, <2>3
<1>7. QED
  BY <1>2, <1>3, <1>4, <1>5, <1>6, Steps

(* SealedImagesStay: after macho_segments_vm_protect has protected the     *)
(* first segment of an image no fixup is written into it, and a finished   *)
(* image is never touched again.                                           *)
THEOREM WritesOnlyUnsealed == Spec => SealedImagesStay
<1>1. QED
  BY LoaderInvariant, StepsKeepSealedImages, PTL DEF Spec, SealedImagesStay

-----------------------------------------------------------------------------
(* What the loader has found out about the files, image by image.          *)

(* The file of an image, and how many of its load commands have been read. *)
DiskFile(w, img) == w.disk[img.path]
Read(f, img) == IF img.pc = "parse" THEN img.at ELSE Len(f.commands)

(* The commands of some kinds that a loop over the first n meets.          *)
KindsOf(f, kinds) == {c \in ToSet(f.commands) : c.cmd \in kinds}
CommandsUpTo(f, kinds, n) ==
    (CHOOSE g : Rows(g, Len(f.commands), f.commands, KindsOf(f, kinds)))[n]

(* The k-th command is the last of its kind among the first n, 0 if there  *)
(* is none.                                                                *)
InForce(f, cmd, n, k) ==
    /\ k \in 0..n /\ (k # 0 => f.commands[k].cmd = cmd)
    /\ \A l \in (k + 1)..n : f.commands[l].cmd # cmd

(* What the parser has made of the first n commands of a file.             *)
NamesOK(img, cs) ==
    /\ Len(img.libraries) = Len(cs) /\ Len(img.libraries) <= ARRAY_CAPACITY
    /\ \A k \in 1..Len(cs) : img.libraries[k] = cs[k].name
SegmentsOK(img, cs) ==
    Len(img.segments) = Len(cs) /\ Len(img.segments) <= ARRAY_CAPACITY
SymbolsOK(f, img) == img.symbols \in Seq(SymbolTable(f))
RpathOK(f, n, img) ==
    \E k \in 0..n : /\ InForce(f, "LC_RPATH", n, k)
                    /\ img.rpath = IF k = 0 THEN "" ELSE f.commands[k].path
HasFixups(f, n) == \E k \in 1..n : f.commands[k].cmd = "LC_DYLD_CHAINED_FIXUPS"
FixupsOK(f, n, img) ==
    img.fixups = IF HasFixups(f, n) THEN chained_fixups_parse_all(f) ELSE << >>

Collected(f, n, img) ==
    /\ NamesOK(img, CommandsUpTo(f, LinkedDylibCommands, n))
    /\ SegmentsOK(img, CommandsUpTo(f, {"LC_SEGMENT_64"}, n))
    /\ SymbolsOK(f, img) /\ RpathOK(f, n, img) /\ FixupsOK(f, n, img)

ParsedOK(f, n, img) ==
    /\ n \in 0..Len(f.commands)
    /\ \A k \in 1..n : Acceptable(f, f.commands[k])
    /\ Collected(f, n, img)
    /\ img.pc # "parse" =>
          f.filetype # "unsupported" /\ Len(img.libraries) <= MAX_DEPENDENCIES

(* A library comes after the image that has loaded it.                     *)
LoadedOK(i, img) ==
    \A k \in 1..Len(img.libs) : img.libs[k].kind = "user" =>
        i < img.libs[k].image /\ ~RpathUnimplemented(img.libraries[k], img.rpath)

(* A fixup that has been applied has found its symbol, and the pointer     *)
(* leads there.                                                            *)
Base(img) == IF img.is_executable THEN PAGE_ZERO_SIZE ELSE 0

Defines(w, lib, rpath, symbol, target) ==
    LET exports == ExportsRead(w.disk[DiskPath(lib.name, rpath, w.exec_dir)])
    IN  \/ /\ lib.kind = "system" /\ symbol \in w.cache[lib.name]
           /\ target = [space |-> "cache", library |-> lib.name, symbol |-> symbol]
        \/ /\ lib.kind = "user" /\ symbol \in DOMAIN exports
           /\ exports[symbol].kind = "defined"
           /\ target = ImageAddress(lib.image, exports[symbol].offset)

Bound(w, i, img, fix, target) ==
    \/ /\ fix.ordinal = BIND_SPECIAL_DYLIB_WEAK_LOOKUP
       /\ \E k \in 1..Len(img.symbols) :
             /\ img.symbols[k].name = fix.symbol
             /\ target = ImageAddress(i, img.symbols[k].impl_offset)
    \/ /\ fix.ordinal \in 1..Len(img.libs) /\ fix.ordinal # BIND_SPECIAL_DYLIB_WEAK_LOOKUP
       /\ Defines(w, img.libs[fix.ordinal], img.rpath, fix.symbol, target)

PointerOK(w, i, img, fix, pointer) ==
    /\ pointer[1] = fix.offset + Base(img)
    /\ fix.kind = "rebase" => pointer[2] = ImageAddress(i, fix.target + Base(img))
    /\ fix.kind = "bind" => Bound(w, i, img, fix, pointer[2])

BoundOK(w, i, img) ==
    \A k \in 1..Len(img.mem) : PointerOK(w, i, img, img.fixups[k], img.mem[k])

Good(w, i, img) ==
    /\ ParsedOK(DiskFile(w, img), Read(DiskFile(w, img), img), img)
    /\ LoadedOK(i, img) /\ BoundOK(w, i, img)

(* The library that an image is waiting for.                               *)
Wanted(img) == img.libraries[img.at + 1]
Locatable(img) == ~RpathUnimplemented(Wanted(img), img.rpath)

PendingOK == \A k \in 1..(Len(stack) - 1) : Locatable(images[stack[k]])

(* The library that there is no room on the stack for.                     *)
OverflowOK ==
    outcome = "overflow" =>
        /\ Len(stack) >= StackLimit
        /\ Img.pc = "load" /\ Img.at < Len(Img.libraries)
        /\ Wanted(Img) \notin DOMAIN world.cache
        /\ DiskPath(Wanted(Img), Img.rpath, world.exec_dir) \in DOMAIN world.disk

(* The first image is the executable, each image agrees with its file, and *)
(* every library that is being loaded was looked for in a known place.     *)
PInv ==
    /\ images[1].path = world.exe /\ stack[1] = 1
    /\ \A i \in 1..Len(images) : Good(world, i, images[i])
    /\ PendingOK /\ OverflowOK

-----------------------------------------------------------------------------
(* The loop over the load commands.                                        *)

(* One iteration of it.                                                    *)
NextRow(f, kinds, m, n) ==
    CommandsUpTo(f, kinds, n) =
        IF f.commands[n].cmd \in kinds THEN Append(CommandsUpTo(f, kinds, m), f.commands[n])
        ELSE CommandsUpTo(f, kinds, m)

(* The rows of the loop for a kind of commands.                            *)
LEMMA CommandRows ==
    ASSUME NEW f, f.commands \in Seq(Command), NEW kinds
    PROVE  /\ CommandsUpTo(f, kinds, 0) = << >>
           /\ CommandsUpTo(f, kinds, Len(f.commands)) = CommandsOf(f, kinds)
           /\ \A n \in 1..Len(f.commands) : NextRow(f, kinds, n - 1, n)
<1> DEFINE N == Len(f.commands)
           T == KindsOf(f, kinds)
           g == CHOOSE h : Rows(h, N, f.commands, T)
<1>1. N \in Nat
  OBVIOUS
<1>2. Rows(g, N, f.commands, T)
  BY <1>1, RowsExist
<1>3. \A n : CommandsUpTo(f, kinds, n) = g[n]
  BY DEF CommandsUpTo
<1>4. CommandsOf(f, kinds) = g[N]
  BY DEF CommandsOf, SelectIn, Rows, KindsOf
<1> HIDE DEF g
<1>5. /\ g[0] = << >>
      /\ \A n \in 1..N : g[n] = IF f.commands[n] \in T THEN Append(g[n - 1], f.commands[n])
                                ELSE g[n - 1]
  BY <1>1, <1>2, RowsFacts
<1>6. \A n \in 1..N : f.commands[n] \in T <=> f.commands[n].cmd \in kinds
  BY <1>1 DEF KindsOf, ToSet
<1> HIDE DEF T
<1>7. ASSUME NEW n \in 1..N PROVE NextRow(f, kinds, n - 1, n)
  BY <1>3, <1>5, <1>6 DEF NextRow
<1>8. QED
  BY <1>3, <1>4, <1>5, <1>7

(* Every row is a sequence.                                                *)
LEMMA RowsAreSeqs ==
    ASSUME NEW f, f.commands \in Seq(Command), NEW kinds, NEW m \in 0..Len(f.commands)
    PROVE  IsSeq(CommandsUpTo(f, kinds, m))
<1> DEFINE N == Len(f.commands)
           row(n) == CommandsUpTo(f, kinds, n)
           S == {n \in Nat : n <= N => IsSeq(row(n))}
<1>1. N \in Nat
  OBVIOUS
<1>2. /\ row(0) = << >>
      /\ \A n \in 1..N : \E c : row(n) = row(n - 1) \/ row(n) = Append(row(n - 1), c)
  <2>1. row(0) = << >>
    BY CommandRows
  <2>2. ASSUME NEW n \in 1..N
        PROVE  \E c : row(n) = row(n - 1) \/ row(n) = Append(row(n - 1), c)
    <3>1. NextRow(f, kinds, n - 1, n)
      BY CommandRows
    <3>2. QED
      BY <3>1 DEF NextRow
  <2>3. QED
    BY <2>1, <2>2
<1> HIDE DEF row, N
<1>3. 0 \in S
  BY <1>2, EmptyIsSeq
<1>4. ASSUME NEW n \in Nat, n \in S
      PROVE  n + 1 \in S
  <2> SUFFICES ASSUME n + 1 <= N PROVE IsSeq(row(n + 1))
    OBVIOUS
  <2>1. n + 1 \in 1..N /\ n <= N /\ n + 1 - 1 = n
    BY <1>1
  <2>2. IsSeq(row(n))
    BY <1>4, <2>1
  <2>3. PICK c : row(n + 1) = row(n) \/ row(n + 1) = Append(row(n), c)
    BY <1>2, <2>1
  <2>4. PICK q, r : q = row(n) /\ r = row(n + 1)
    BY Zenon
  <2>5. IsSeq(q) /\ (r = q \/ r = Append(q, c))
    BY <2>2, <2>3, <2>4
  <2>6. IsSeq(Append(q, c))
    BY <2>5, AppendFacts
  <2>7. QED
    BY <2>4, <2>5, <2>6
<1>5. m \in Nat /\ m <= N
  BY <1>1 DEF N
<1>6. m \in S
  <2> HIDE DEF S
  <2>1. QED
    BY <1>3, <1>4, <1>5, NatInd
<1>7. QED
  BY <1>5, <1>6 DEF row

(* The last command of a kind after one more command.                      *)
LEMMA ForceStep ==
    ASSUME NEW f, NEW cmd, NEW n \in Nat, NEW k, InForce(f, cmd, n, k),
           NEW c, c = f.commands[n + 1]
    PROVE  /\ c.cmd = cmd => InForce(f, cmd, n + 1, n + 1)
           /\ c.cmd # cmd => InForce(f, cmd, n + 1, k)
  BY DEF InForce

(* At the end of the file it is the one the reference takes.               *)
LEMMA ForceEnds ==
    ASSUME NEW f, f.commands \in Seq(Command), NEW cmd, NEW k,
           InForce(f, cmd, Len(f.commands), k)
    PROVE  LastCommand(f, cmd) = k
<1> DEFINE N == Len(f.commands)
           S == {0} \cup {l \in DOMAIN f.commands : f.commands[l].cmd = cmd}
<1>1. N \in Nat /\ DOMAIN f.commands = 1..N
  OBVIOUS
<1>2. k \in S /\ k \in Nat
  BY <1>1 DEF InForce
<1>3. \A l \in S : l \in Nat /\ l <= N /\ l <= k
  BY <1>1 DEF InForce
<1>4. LastCommand(f, cmd) = Max(S)
  BY DEF LastCommand
<1> HIDE DEF S, N
<1>5. PICK x : x = Max(S)
  OBVIOUS
<1>6. x \in S /\ k <= x
  BY <1>1, <1>2, <1>3, <1>5, MaxFacts
<1>7. x = k
  BY <1>2, <1>3, <1>6
<1>8. QED
  BY <1>4, <1>5, <1>7

(* What one load command of a file adds to the image.                      *)
Took(f, old, new, c) ==
    /\ \/ /\ c.cmd \in LinkedDylibCommands
          /\ Len(old.libraries) < ARRAY_CAPACITY
          /\ new.libraries = Append(old.libraries, c.name)
       \/ c.cmd \notin LinkedDylibCommands /\ new.libraries = old.libraries
    /\ \/ /\ c.cmd = "LC_SEGMENT_64"
          /\ Len(old.segments) < ARRAY_CAPACITY
          /\ new.segments = Append(old.segments, c.segment)
       \/ c.cmd # "LC_SEGMENT_64" /\ new.segments = old.segments
    /\ \/ c.cmd = "LC_RPATH" /\ new.rpath = c.path
       \/ c.cmd # "LC_RPATH" /\ new.rpath = old.rpath
    /\ \/ /\ c.cmd = "LC_DYLD_CHAINED_FIXUPS"
          /\ new.fixups = chained_fixups_parse_all(f)
       \/ c.cmd # "LC_DYLD_CHAINED_FIXUPS" /\ new.fixups = old.fixups

(* The libraries after one more load command.                              *)
LEMMA NamesStep ==
    ASSUME NEW f, NEW old, NEW new, NEW c, NEW cs, NEW ds, IsSeq(cs), IsSeq(old.libraries),
           NamesOK(old, cs), Took(f, old, new, c),
           ds = IF c.cmd \in LinkedDylibCommands THEN Append(cs, c) ELSE cs
    PROVE  NamesOK(new, ds)
<1>1. CASE c.cmd \notin LinkedDylibCommands
  BY <1>1 DEF NamesOK, Took
<1>2. CASE c.cmd \in LinkedDylibCommands
  <2> DEFINE n == Len(cs)
  <2>1. /\ n \in Nat /\ Len(old.libraries) = n /\ n < ARRAY_CAPACITY
        /\ \A k \in 1..n : old.libraries[k] = cs[k].name
    BY <1>2 DEF NamesOK, Took, IsSeq
  <2>2. new.libraries = Append(old.libraries, c.name) /\ ds = Append(cs, c)
    BY <1>2 DEF Took
  <2>3. /\ Len(new.libraries) = n + 1 /\ new.libraries[n + 1] = c.name
        /\ \A k \in 1..n : new.libraries[k] = old.libraries[k]
    BY <2>1, <2>2, AppendFacts
  <2>4. Len(ds) = n + 1 /\ ds[n + 1] = c /\ \A k \in 1..n : ds[k] = cs[k]
    BY <2>2, AppendFacts
  <2> HIDE DEF n
  <2>5. n + 1 <= ARRAY_CAPACITY
    BY <2>1, LimitsAssumption
  <2>6. ASSUME NEW k \in 1..(n + 1)
        PROVE  new.libraries[k] = ds[k].name
    BY <2>1, <2>3, <2>4
  <2>7. QED
    BY <2>3, <2>4, <2>5, <2>6 DEF NamesOK
<1>3. QED
  BY <1>1, <1>2

(* The segments after one more load command.                               *)
LEMMA SegmentsStep ==
    ASSUME NEW f, NEW old, NEW new, NEW c, NEW cs, NEW ds, IsSeq(cs), IsSeq(old.segments),
           SegmentsOK(old, cs), Took(f, old, new, c),
           ds = IF c.cmd = "LC_SEGMENT_64" THEN Append(cs, c) ELSE cs
    PROVE  SegmentsOK(new, ds)
<1>1. CASE c.cmd # "LC_SEGMENT_64"
  BY <1>1 DEF SegmentsOK, Took
<1>2. CASE c.cmd = "LC_SEGMENT_64"
  <2>1. /\ Len(cs) \in Nat /\ Len(old.segments) = Len(cs) /\ Len(cs) < ARRAY_CAPACITY
        /\ new.segments = Append(old.segments, c.segment) /\ ds = Append(cs, c)
    BY <1>2 DEF SegmentsOK, Took, IsSeq
  <2>2. Len(new.segments) = Len(cs) + 1
    BY <2>1, AppendFacts
  <2>3. Len(ds) = Len(cs) + 1
    BY <2>1, AppendFacts
  <2>4. QED
    BY <2>1, <2>2, <2>3, LimitsAssumption DEF SegmentsOK
<1>3. QED
  BY <1>1, <1>2

(* The rpath and the fixups after one more load command.                   *)
LEMMA LatestStep ==
    ASSUME NEW f, NEW n \in Nat, NEW c, c = f.commands[n + 1], NEW old, NEW new,
           RpathOK(f, n, old), FixupsOK(f, n, old), Took(f, old, new, c)
    PROVE  RpathOK(f, n + 1, new) /\ FixupsOK(f, n + 1, new)
<1>1. n + 1 # 0 /\ n + 1 \in 0..(n + 1) /\ 0..n \subseteq 0..(n + 1)
  OBVIOUS
<1>2. RpathOK(f, n + 1, new)
  <2>1. PICK k \in 0..n : /\ InForce(f, "LC_RPATH", n, k)
                          /\ old.rpath = IF k = 0 THEN "" ELSE f.commands[k].path
    BY DEF RpathOK
  <2>2. CASE c.cmd = "LC_RPATH"
    <3>1. InForce(f, "LC_RPATH", n + 1, n + 1) /\ new.rpath = f.commands[n + 1].path
      BY <2>1, <2>2, ForceStep DEF Took
    <3>2. QED
      BY <1>1, <3>1 DEF RpathOK
  <2>3. CASE c.cmd # "LC_RPATH"
    <3>1. InForce(f, "LC_RPATH", n + 1, k) /\ new.rpath = old.rpath
      BY <2>1, <2>3, ForceStep DEF Took
    <3>2. QED
      BY <1>1, <2>1, <3>1 DEF RpathOK
  <2>4. QED
    BY <2>2, <2>3
<1>3. FixupsOK(f, n + 1, new)
  <2>1. HasFixups(f, n + 1) <=> HasFixups(f, n) \/ c.cmd = "LC_DYLD_CHAINED_FIXUPS"
    <3>1. \A k \in 1..(n + 1) : k \in 1..n \/ k = n + 1
      OBVIOUS
    <3>2. 1..n \subseteq 1..(n + 1) /\ n + 1 \in 1..(n + 1)
      OBVIOUS
    <3>3. QED
      BY <3>1, <3>2 DEF HasFixups
  <2>2. QED
    BY <2>1 DEF Took, FixupsOK
<1>4. QED
  BY <1>2, <1>3

(* One more load command that the parser accepts.                          *)
LEMMA ParseStep ==
    ASSUME NEW f, f.commands \in Seq(Command), NEW n \in Nat, n < Len(f.commands),
           NEW c, c = f.commands[n + 1], Acceptable(f, c),
           NEW old, NEW new, ParsedOK(f, n, old), IsSeq(old.libraries), IsSeq(old.segments),
           Took(f, old, new, c), SymbolsOK(f, new), new.pc = "parse"
    PROVE  ParsedOK(f, n + 1, new)
<1>1. Collected(f, n, old) /\ \A k \in 1..n : Acceptable(f, f.commands[k])
  BY DEF ParsedOK
<1>2. n + 1 \in 1..Len(f.commands) /\ n + 1 - 1 = n /\ n \in 0..Len(f.commands)
      /\ n + 1 \in 0..Len(f.commands)
  OBVIOUS
<1>3. ASSUME NEW kinds
      PROVE  /\ IsSeq(CommandsUpTo(f, kinds, n))
             /\ CommandsUpTo(f, kinds, n + 1) =
                   IF c.cmd \in kinds THEN Append(CommandsUpTo(f, kinds, n), c)
                   ELSE CommandsUpTo(f, kinds, n)
  <2>1. PICK m \in 1..Len(f.commands) : m = n + 1 /\ m - 1 = n
    BY <1>2
  <2>2. NextRow(f, kinds, m - 1, m)
    BY CommandRows
  <2>3. QED
    BY <1>2, <2>1, <2>2, RowsAreSeqs DEF NextRow
<1>4. NamesOK(new, CommandsUpTo(f, LinkedDylibCommands, n + 1))
  <2>1. PICK cs, ds : /\ cs = CommandsUpTo(f, LinkedDylibCommands, n)
                      /\ ds = CommandsUpTo(f, LinkedDylibCommands, n + 1)
    OBVIOUS
  <2>2. /\ IsSeq(cs) /\ NamesOK(old, cs)
        /\ ds = IF c.cmd \in LinkedDylibCommands THEN Append(cs, c) ELSE cs
    BY <1>1, <1>3, <2>1 DEF Collected
  <2>3. QED
    BY <2>1, <2>2, NamesStep
<1>5. SegmentsOK(new, CommandsUpTo(f, {"LC_SEGMENT_64"}, n + 1))
  <2>0. PICK kinds : kinds = {"LC_SEGMENT_64"}
    OBVIOUS
  <2>1. PICK cs, ds : /\ cs = CommandsUpTo(f, kinds, n)
                      /\ ds = CommandsUpTo(f, kinds, n + 1)
    OBVIOUS
  <2>2. /\ IsSeq(cs) /\ SegmentsOK(old, cs)
        /\ ds = IF c.cmd \in kinds THEN Append(cs, c) ELSE cs
    BY <1>1, <1>3, <2>0, <2>1 DEF Collected
  <2>3. ds = IF c.cmd = "LC_SEGMENT_64" THEN Append(cs, c) ELSE cs
    BY <2>0, <2>2
  <2>4. SegmentsOK(new, ds)
    BY <2>2, <2>3, SegmentsStep
  <2>5. QED
    BY <2>0, <2>1, <2>4
<1>6. RpathOK(f, n + 1, new) /\ FixupsOK(f, n + 1, new)
  BY <1>1, LatestStep DEF Collected
<1>7. ASSUME NEW k \in 1..(n + 1)
      PROVE  Acceptable(f, f.commands[k])
  <2>1. k \in 1..n \/ k = n + 1
    OBVIOUS
  <2>2. QED
    BY <1>1, <2>1
<1>8. QED
  BY <1>2, <1>4, <1>5, <1>6, <1>7 DEF ParsedOK, Collected

(* The symbols that one symbol table adds are in the table of the file.    *)
LEMMA SymbolsStep ==
    ASSUME NEW f, f.commands \in Seq(Command), NEW k \in 1..Len(f.commands),
           NEW c, c = f.commands[k], c.cmd = "LC_SYMTAB", NEW old, SymbolsOK(f, old),
           NEW new, new.symbols = old.symbols \o SymbolsOf(c.entries)
    PROVE  SymbolsOK(f, new)
<1>1. c \in Command /\ c \in ToSet(f.commands)
  BY DEF ToSet
<1>2. PICK entries : entries = c.entries /\ entries \in Seq(NList)
  BY <1>1 DEF Command, DylibCommands, LinkedDylibCommands
<1> DEFINE T == {e \in ToSet(entries) : SymbolVerdict(e) = "push"}
           kept == SelectIn(entries, T)
<1>3. kept \in Seq(NList)
  BY <1>2, SelectFacts
<1>4. SymbolsOf(entries) = [i \in DOMAIN kept |-> MakeSymbol(kept[i])]
  BY DEF SymbolsOf
<1> HIDE DEF kept
<1>5. PICK r : r = SymbolsOf(entries)
  OBVIOUS
<1>6. IsSeq(r)
  <2> DEFINE S == {MakeSymbol(kept[i]) : i \in DOMAIN kept}
  <2>1. [i \in DOMAIN kept |-> MakeSymbol(kept[i])] \in Seq(S)
    BY <1>3
  <2> HIDE DEF S
  <2>2. QED
    BY <1>4, <1>5, <2>1, SeqIsSeq
<1>7. ToSet(r) \subseteq SymbolTable(f)
  BY <1>1, <1>2, <1>5 DEF SymbolTable
<1>8. r \in Seq(SymbolTable(f))
  BY <1>6, <1>7 DEF ToSet, IsSeq
<1>9. new.symbols = old.symbols \o r /\ old.symbols \in Seq(SymbolTable(f))
  BY <1>2, <1>5 DEF SymbolsOK
<1>10. QED
  BY <1>8, <1>9 DEF SymbolsOK

(* A symbol table without a fatal entry has only acceptable ones.          *)
LEMMA NoFatalSymbol ==
    ASSUME NEW entries, IsSeq(entries), FatalSymbol(entries) = 0
    PROVE  \A e \in ToSet(entries) : SymbolVerdict(e) \in {"push", "skip"}
<1> DEFINE I == {i \in 1..Len(entries) : SymbolVerdict(entries[i]) \in {"error", "panic"}}
<1>1. FatalSymbol(entries) = IF I # {} THEN Min(I) ELSE 0
  BY DEF FatalSymbol, SelectInSeq
<1>2. I \subseteq Nat /\ 0 \notin I
  OBVIOUS
<1>3. I = {}
  <2> HIDE DEF I
  <2>1. I # {} => Min(I) \in I
    BY <1>2, MinFacts
  <2>2. QED
    BY <1>1, <1>2, <2>1
<1>4. \A e : SymbolVerdict(e) \in {"push", "skip", "error", "panic"}
  BY DEF SymbolVerdict
<1>5. ASSUME NEW e \in ToSet(entries)
      PROVE  SymbolVerdict(e) \in {"push", "skip"}
  <2>1. PICK i \in 1..Len(entries) : e = entries[i]
    BY IsSeqFacts DEF ToSet
  <2>2. SymbolVerdict(e) \notin {"error", "panic"}
    BY <1>3, <2>1
  <2>3. QED
    BY <1>4, <2>2
<1>6. QED
  BY <1>5

-----------------------------------------------------------------------------
(* The steps of the running activation.                                    *)

(* The activations that wait are not the one that runs.                    *)
LEMMA WaitingFacts ==
    ASSUME IInv, NEW k \in 1..(Len(stack) - 1)
    PROVE  /\ stack[k] \in 1..Len(images) /\ stack[k + 1] \in 1..Len(images)
           /\ stack[k] # Cur /\ stack[k] < stack[k + 1]
<1>1. /\ Len(stack) \in Nat /\ k \in 1..Len(stack) /\ k + 1 \in 1..Len(stack)
      /\ Len(stack) \in 1..Len(stack) /\ k < Len(stack) /\ k < k + 1
  BY CurFacts
<1>2. stack[k] \in 1..Len(images) /\ stack[k] < stack[Len(stack)]
  BY <1>1 DEF IInv, StackOK
<1>3. stack[k + 1] \in 1..Len(images) /\ stack[k] < stack[k + 1]
  BY <1>1 DEF IInv, StackOK
<1>4. QED
  BY <1>2, <1>3 DEF Cur

(* A step that keeps the image of the running activation in order.         *)
LEMMA GoodStep ==
    ASSUME IInv, PInv, NEW img, SetImg(img), world' = world, stack' = stack,
           outcome' # "overflow", img.path = Img.path, Good(world, Cur, img)
    PROVE  PInv'
<1>1. /\ IsSeq(images') /\ Len(images') = Len(images) /\ images'[Cur] = img
      /\ \A i \in 1..Len(images) : i # Cur => images'[i] = images[i]
      /\ Cur \in 1..Len(images) /\ Len(images) \in Nat /\ Img = images[Cur]
  BY SetImgFacts, CurFacts DEF Img
<1>2. images'[1].path = world'.exe
  <2>1. 1 \in 1..Len(images) /\ images[1].path = world.exe
    BY <1>1 DEF PInv
  <2>2. QED
    BY <1>1, <2>1
<1>3. \A i \in 1..Len(images') : Good(world', i, images'[i])
  <2>1. \A i \in 1..Len(images) : Good(world, i, images[i])
    BY DEF PInv
  <2>2. QED
    BY <1>1, <2>1
<1>4. PendingOK'
  <2> SUFFICES ASSUME NEW k \in 1..(Len(stack) - 1)
               PROVE  Locatable(images'[stack[k]])
    BY DEF PendingOK
  <2>1. images'[stack[k]] = images[stack[k]]
    BY <1>1, WaitingFacts
  <2>2. QED
    BY <2>1 DEF PInv, PendingOK
<1>5. QED
  BY <1>2, <1>3, <1>4 DEF PInv, OverflowOK

(* A step that leaves alone what the file has been compared with.          *)
LEMMA QuietIsGood ==
    ASSUME NEW w, NEW i, NEW old, NEW img, Good(w, i, old),
           Read(DiskFile(w, old), old) = Read(DiskFile(w, old), img),
           img.pc # "parse" =>
              /\ DiskFile(w, old).filetype # "unsupported"
              /\ Len(old.libraries) <= MAX_DEPENDENCIES,
           img.path = old.path, img.libraries = old.libraries,
           img.segments = old.segments, img.symbols = old.symbols, img.rpath = old.rpath,
           img.fixups = old.fixups, img.libs = old.libs, img.mem = old.mem,
           img.is_executable = old.is_executable
    PROVE  Good(w, i, img)
<1> DEFINE f == DiskFile(w, old)
<1>1. DiskFile(w, img) = f
  BY DEF DiskFile
<1> HIDE DEF f
<1>2. PICK n : n = Read(f, old) /\ n = Read(f, img)
  BY DEF f
<1>3. ParsedOK(f, n, old) /\ LoadedOK(i, old) /\ BoundOK(w, i, old)
  BY <1>2 DEF Good, f
<1>4. ParsedOK(f, n, img)
  BY <1>3 DEF ParsedOK, Collected, NamesOK, SegmentsOK, SymbolsOK, RpathOK, FixupsOK, f
<1>5. LoadedOK(i, img)
  BY <1>3 DEF LoadedOK
<1>6. BoundOK(w, i, img)
  BY <1>3 DEF BoundOK, PointerOK, Bound, Base
<1>7. QED
  BY <1>1, <1>2, <1>4, <1>5, <1>6 DEF Good

(* The same for an image that has been parsed before and after.            *)
LEMMA ParsedStaysGood ==
    ASSUME NEW w, NEW i, NEW old, NEW img, Good(w, i, old),
           old.pc # "parse", img.pc # "parse",
           img.path = old.path, img.libraries = old.libraries,
           img.segments = old.segments, img.symbols = old.symbols, img.rpath = old.rpath,
           img.fixups = old.fixups, img.libs = old.libs, img.mem = old.mem,
           img.is_executable = old.is_executable
    PROVE  Good(w, i, img)
<1>1. Read(DiskFile(w, old), old) = Read(DiskFile(w, old), img)
  BY DEF Read
<1>2. /\ DiskFile(w, old).filetype # "unsupported"
      /\ Len(old.libraries) <= MAX_DEPENDENCIES
  BY DEF Good, ParsedOK
<1>3. QED
  BY <1>1, <1>2, QuietIsGood

(* The running activation: its image, its file, the commands it has read.  *)
LEMMA CurGood ==
    ASSUME IInv, PInv
    PROVE  /\ Good(world, Cur, Img) /\ FileOf(Cur) = DiskFile(world, Img)
           /\ FileOf(Cur).commands = Commands /\ Commands \in Seq(Command)
  BY CurFacts, FileFacts DEF PInv, Img, FileOf, DiskFile, Commands

(* A load command that is parsed.                                          *)
LEMMA ParsedKeeps ==
    ASSUME IInv, PInv, In("parse"), Img.at < Len(Commands), Acceptable(FileOf(Cur), Cmd),
           NEW img, Parsed(img), DOMAIN img = Fields, img.pc = "parse", img.at = Img.at,
           img.path = Img.path, img.libs = Img.libs, img.mem = Img.mem,
           Took(FileOf(Cur), Img, img, Cmd), SymbolsOK(FileOf(Cur), img)
    PROVE  PInv'
<1> DEFINE new == [img EXCEPT !.at = @ + 1]
           f == FileOf(Cur)
           n == Img.at
<1>1. /\ ImageShape(Img) /\ PhaseOK(Img) /\ Img.pc = "parse" /\ outcome = "loading"
      /\ n \in Nat
  BY CurFacts DEF ImageOK, In, ImageShape
<1>2. Img.libs = << >> /\ Img.mem = << >>
  BY <1>1 DEF PhaseOK
<1>3. /\ new.pc = "parse" /\ new.at = n + 1 /\ new.libs = << >> /\ new.mem = << >>
      /\ new.path = Img.path /\ new.libraries = img.libraries /\ new.segments = img.segments
      /\ new.symbols = img.symbols /\ new.rpath = img.rpath /\ new.fixups = img.fixups
  BY <1>2 DEF Fields
<1>4. SetImg(new) /\ world' = world /\ stack' = stack /\ outcome' = outcome
  BY DEF Parsed
<1> HIDE DEF new
<1>5. /\ f.commands \in Seq(Command) /\ n < Len(f.commands) /\ Cmd = f.commands[n + 1]
      /\ f = DiskFile(world, Img) /\ f = DiskFile(world, new)
  BY <1>3, CurGood DEF Cmd, Commands, DiskFile
<1> HIDE DEF f, n
<1>6. ParsedOK(f, n, Img)
  BY <1>1, <1>5, CurGood DEF Good, Read, n
<1>7. Took(f, Img, new, Cmd) /\ SymbolsOK(f, new)
  BY <1>3 DEF Took, SymbolsOK, f
<1>8. IsSeq(Img.libraries) /\ IsSeq(Img.segments) /\ Acceptable(f, Cmd)
  BY <1>1 DEF ImageShape, f
<1>9. ParsedOK(f, n + 1, new)
  BY <1>1, <1>3, <1>5, <1>6, <1>7, <1>8, ParseStep
<1>10. Read(f, new) = n + 1
  BY <1>3 DEF Read
<1>11. LoadedOK(Cur, new) /\ BoundOK(world, Cur, new)
  BY <1>3, EmptyIsSeq DEF LoadedOK, BoundOK
<1>12. Good(world, Cur, new)
  BY <1>5, <1>9, <1>10, <1>11 DEF Good
<1>13. QED
  BY <1>1, <1>3, <1>4, <1>12, GoodStep

(* A stop that is not for want of stack.                                   *)
LEMMA StopKeeps ==
    ASSUME IInv, PInv, NEW why, Stop(why), why # "overflow"
    PROVE  PInv'
<1>1. world' = world /\ images' = images /\ stack' = stack /\ outcome' # "overflow"
  BY DEF Stop
<1>2. QED
  BY <1>1 DEF PInv, PendingOK, OverflowOK

(* Nothing changes.                                                        *)
LEMMA StutterKeeps ==
    ASSUME PInv, UNCHANGED vars
    PROVE  PInv'
<1>1. world' = world /\ images' = images /\ stack' = stack /\ outcome' = outcome
  BY DEF vars
<1>2. QED
  BY <1>1 DEF PInv, PendingOK, OverflowOK, Img, Cur

(* A load command that adds nothing to what the file is compared with.     *)
PlainCommands == {"LC_MAIN"} \cup (DylibCommands \ LinkedDylibCommands) \cup {"other"}

LEMMA PlainTook ==
    ASSUME NEW f, NEW old, NEW new, NEW c, c.cmd \in PlainCommands,
           new.libraries = old.libraries, new.segments = old.segments,
           new.rpath = old.rpath, new.fixups = old.fixups
    PROVE  Took(f, old, new, c)
  BY DEF Took, PlainCommands, DylibCommands, LinkedDylibCommands

(* macho_parser and dependencies_collect keep image and file together.     *)
LEMMA ParserKeeps ==
    ASSUME IInv, PInv, MachoParser
    PROVE  PInv'
<1>1. /\ ImageShape(Img) /\ PhaseOK(Img) /\ Img.pc = "parse" /\ outcome = "loading"
      /\ In("parse")
  BY CurFacts DEF ImageOK, In, MachoParser, BadHeader, ParseDylib, ParseMain, ParseSymtab,
     ParseSegment, ParseChainedFixups, ParseRpath, SkipCommand, BadCommand,
     CollectDependencies, AtCommand
<1>2. DOMAIN Img = Fields /\ Img.at \in Nat
  BY <1>1 DEF ImageShape
<1>3. SymbolsOK(FileOf(Cur), Img)
  BY CurGood DEF Good, ParsedOK, Collected
<1>4. CASE BadHeader \/ BadCommand
  BY <1>4, StopKeeps DEF BadHeader, BadCommand
<1>5. CASE ParseDylib
  <2> DEFINE img == [Img EXCEPT !.libraries = Append(@, Cmd.name)]
  <2>1. /\ Img.at < Len(Commands) /\ Cmd.cmd \in LinkedDylibCommands
        /\ (Len(Img.libraries) < ARRAY_CAPACITY /\ Parsed(img)) \/ Stop("panic")
    BY <1>5 DEF ParseDylib, AtCommand
  <2>2. /\ DOMAIN img = Fields /\ img.pc = "parse" /\ img.at = Img.at /\ img.path = Img.path
        /\ img.segments = Img.segments /\ img.fixups = Img.fixups
        /\ img.libraries = Append(Img.libraries, Cmd.name) /\ img.libs = Img.libs
        /\ img.mem = Img.mem /\ img.rpath = Img.rpath /\ img.symbols = Img.symbols
        /\ img.is_executable = Img.is_executable
    BY <1>1, <1>2 DEF Fields
  <2> HIDE DEF img
  <2>3. CASE Stop("panic")
    BY <2>3, StopKeeps
  <2>4. CASE Len(Img.libraries) < ARRAY_CAPACITY /\ Parsed(img)
    <3>1. Took(FileOf(Cur), Img, img, Cmd)
      BY <2>1, <2>2, <2>4 DEF Took, LinkedDylibCommands
    <3>2. Acceptable(FileOf(Cur), Cmd)
      BY <2>1 DEF Acceptable, LinkedDylibCommands
    <3>3. SymbolsOK(FileOf(Cur), img)
      BY <1>3, <2>2 DEF SymbolsOK
    <3>4. QED
      BY <1>1, <2>1, <2>2, <2>4, <3>1, <3>2, <3>3, ParsedKeeps
  <2>5. QED
    BY <2>1, <2>3, <2>4
<1>6. CASE ParseMain
  <2> DEFINE img == [Img EXCEPT !.entry_point = Cmd.entryoff]
  <2>1. /\ Img.at < Len(Commands) /\ Cmd.cmd = "LC_MAIN"
        /\ \/ FileOf(Cur).filetype = "MH_EXECUTE" /\ Parsed(img)
           \/ Stop("main_in_dylib")
    BY <1>6 DEF ParseMain, AtCommand
  <2>2. /\ DOMAIN img = Fields /\ img.pc = "parse" /\ img.at = Img.at /\ img.path = Img.path
        /\ img.segments = Img.segments /\ img.fixups = Img.fixups
        /\ img.libraries = Img.libraries /\ img.libs = Img.libs
        /\ img.mem = Img.mem /\ img.rpath = Img.rpath /\ img.symbols = Img.symbols
        /\ img.is_executable = Img.is_executable
    BY <1>1, <1>2 DEF Fields
  <2> HIDE DEF img
  <2>3. CASE Stop("main_in_dylib")
    BY <2>3, StopKeeps
  <2>4. CASE FileOf(Cur).filetype = "MH_EXECUTE" /\ Parsed(img)
    <3>1. Took(FileOf(Cur), Img, img, Cmd)
      BY <2>1, <2>2, PlainTook DEF PlainCommands
    <3>2. Acceptable(FileOf(Cur), Cmd)
      BY <2>1, <2>4 DEF Acceptable
    <3>3. SymbolsOK(FileOf(Cur), img)
      BY <1>3, <2>2 DEF SymbolsOK
    <3>4. QED
      BY <1>1, <2>1, <2>2, <2>4, <3>1, <3>2, <3>3, ParsedKeeps
  <2>5. QED
    BY <2>1, <2>3, <2>4
<1>7. CASE ParseSymtab
  <2> DEFINE img == [Img EXCEPT !.symbols = @ \o SymbolsOf(Cmd.entries)]
  <2>1. /\ Img.at < Len(Commands) /\ Cmd.cmd = "LC_SYMTAB"
        /\ \/ FatalSymbol(Cmd.entries) = 0 /\ Parsed(img)
           \/ Stop("bad_symbol") \/ Stop("panic")
    BY <1>7 DEF ParseSymtab, AtCommand
  <2>2. /\ DOMAIN img = Fields /\ img.pc = "parse" /\ img.at = Img.at /\ img.path = Img.path
        /\ img.segments = Img.segments /\ img.fixups = Img.fixups
        /\ img.libraries = Img.libraries /\ img.libs = Img.libs
        /\ img.mem = Img.mem /\ img.rpath = Img.rpath
        /\ img.symbols = Img.symbols \o SymbolsOf(Cmd.entries)
    BY <1>1, <1>2 DEF Fields
  <2> HIDE DEF img
  <2>3. CASE Stop("bad_symbol") \/ Stop("panic")
    BY <2>3, StopKeeps
  <2>4. CASE FatalSymbol(Cmd.entries) = 0 /\ Parsed(img)
    <3>1. Took(FileOf(Cur), Img, img, Cmd)
      BY <2>1, <2>2 DEF Took, LinkedDylibCommands
    <3>2. PICK f, k : /\ f = FileOf(Cur) /\ f.commands = Commands /\ k = Img.at + 1
                      /\ k \in 1..Len(Commands) /\ Cmd = Commands[k]
      BY <1>2, <2>1, CurGood DEF Cmd
    <3>3. f.commands \in Seq(Command) /\ k \in 1..Len(f.commands) /\ Cmd = f.commands[k]
      BY <3>2, CurGood
    <3>4. SymbolsOK(f, img)
      <4>1. SymbolsOK(f, Img)
        BY <1>3, <3>2
      <4>2. QED
        BY <2>1, <2>2, <3>3, <4>1, SymbolsStep
    <3>5. Cmd \in Command
      BY <3>3
    <3>6. PICK entries : entries = Cmd.entries /\ entries \in Seq(NList)
      BY <2>1, <3>5 DEF Command, DylibCommands, LinkedDylibCommands
    <3>7. \A e \in ToSet(entries) : SymbolVerdict(e) \in {"push", "skip"}
      BY <2>4, <3>6, SeqIsSeq, NoFatalSymbol
    <3>8. Acceptable(f, Cmd)
      BY <2>1, <3>6, <3>7 DEF Acceptable
    <3>9. QED
      BY <1>1, <2>1, <2>2, <2>4, <3>1, <3>2, <3>4, <3>8, ParsedKeeps
  <2>5. QED
    BY <2>1, <2>3, <2>4
<1>8. CASE ParseSegment
  <2> DEFINE img == [Img EXCEPT
                !.segments = Append(@, Cmd.segment),
                !.init_functions = @ \o InitFuncsOf(Cmd),
                !.has_thread_locals = \/ @
                                      \/ SectionsOf(Cmd, "thread_local_variables") # << >>]
  <2>1. /\ Img.at < Len(Commands) /\ Cmd.cmd = "LC_SEGMENT_64"
        /\ (Len(Img.segments) < ARRAY_CAPACITY /\ Parsed(img)) \/ Stop("panic")
    BY <1>8 DEF ParseSegment, AtCommand
  <2>2. /\ DOMAIN img = Fields /\ img.pc = "parse" /\ img.at = Img.at /\ img.path = Img.path
        /\ img.segments = Append(Img.segments, Cmd.segment) /\ img.fixups = Img.fixups
        /\ img.libraries = Img.libraries /\ img.libs = Img.libs
        /\ img.mem = Img.mem /\ img.rpath = Img.rpath /\ img.symbols = Img.symbols
        /\ img.is_executable = Img.is_executable
    BY <1>1, <1>2 DEF Fields
  <2> HIDE DEF img
  <2>3. CASE Stop("panic")
    BY <2>3, StopKeeps
  <2>4. CASE Len(Img.segments) < ARRAY_CAPACITY /\ Parsed(img)
    <3>1. Took(FileOf(Cur), Img, img, Cmd)
      BY <2>1, <2>2, <2>4 DEF Took, LinkedDylibCommands
    <3>2. Acceptable(FileOf(Cur), Cmd)
      BY <2>1 DEF Acceptable
    <3>3. SymbolsOK(FileOf(Cur), img)
      BY <1>3, <2>2 DEF SymbolsOK
    <3>4. QED
      BY <1>1, <2>1, <2>2, <2>4, <3>1, <3>2, <3>3, ParsedKeeps
  <2>5. QED
    BY <2>1, <2>3, <2>4
<1>9. CASE ParseChainedFixups
  <2> DEFINE fixups == chained_fixups_parse_all(FileOf(Cur))
             img == [Img EXCEPT !.fixups = fixups]
  <2>1. /\ Img.at < Len(Commands) /\ Cmd.cmd = "LC_DYLD_CHAINED_FIXUPS" /\ Parsed(img)
    BY <1>9 DEF ParseChainedFixups, AtCommand
  <2>2. /\ DOMAIN img = Fields /\ img.pc = "parse" /\ img.at = Img.at /\ img.path = Img.path
        /\ img.segments = Img.segments /\ img.fixups = fixups
        /\ img.libraries = Img.libraries /\ img.libs = Img.libs
        /\ img.mem = Img.mem /\ img.rpath = Img.rpath /\ img.symbols = Img.symbols
        /\ img.is_executable = Img.is_executable
    BY <1>1, <1>2 DEF Fields
  <2> HIDE DEF img
  <2>3. Took(FileOf(Cur), Img, img, Cmd)
    BY <2>1, <2>2 DEF Took, LinkedDylibCommands
  <2>4. Acceptable(FileOf(Cur), Cmd)
    BY <2>1 DEF Acceptable
  <2>5. SymbolsOK(FileOf(Cur), img)
    BY <1>3, <2>2 DEF SymbolsOK
  <2>6. QED
    BY <1>1, <2>1, <2>2, <2>3, <2>4, <2>5, ParsedKeeps
<1>10. CASE ParseRpath
  <2> DEFINE img == [Img EXCEPT !.rpath = Cmd.path]
  <2>1. /\ Img.at < Len(Commands) /\ Cmd.cmd = "LC_RPATH"
        /\ (Cmd.path # "unknown" /\ Parsed(img)) \/ Stop("bad_rpath")
    BY <1>10 DEF ParseRpath, AtCommand
  <2>2. /\ DOMAIN img = Fields /\ img.pc = "parse" /\ img.at = Img.at /\ img.path = Img.path
        /\ img.segments = Img.segments /\ img.fixups = Img.fixups
        /\ img.libraries = Img.libraries /\ img.libs = Img.libs
        /\ img.mem = Img.mem /\ img.rpath = Cmd.path /\ img.symbols = Img.symbols
        /\ img.is_executable = Img.is_executable
    BY <1>1, <1>2 DEF Fields
  <2> HIDE DEF img
  <2>3. CASE Stop("bad_rpath")
    BY <2>3, StopKeeps
  <2>4. CASE Cmd.path # "unknown" /\ Parsed(img)
    <3>1. Took(FileOf(Cur), Img, img, Cmd)
      BY <2>1, <2>2 DEF Took, LinkedDylibCommands
    <3>2. Acceptable(FileOf(Cur), Cmd)
      BY <2>1, <2>4 DEF Acceptable
    <3>3. SymbolsOK(FileOf(Cur), img)
      BY <1>3, <2>2 DEF SymbolsOK
    <3>4. QED
      BY <1>1, <2>1, <2>2, <2>4, <3>1, <3>2, <3>3, ParsedKeeps
  <2>5. QED
    BY <2>1, <2>3, <2>4
<1>11. CASE SkipCommand
  <2>1. /\ Img.at < Len(Commands) /\ Parsed(Img)
        /\ Cmd.cmd \in (DylibCommands \ LinkedDylibCommands) \cup {"other"}
    BY <1>11 DEF SkipCommand, AtCommand
  <2>2. Took(FileOf(Cur), Img, Img, Cmd)
    BY <2>1, PlainTook DEF PlainCommands
  <2>3. Acceptable(FileOf(Cur), Cmd)
    BY <2>1 DEF Acceptable, DylibCommands, LinkedDylibCommands
  <2>4. QED
    BY <1>1, <1>2, <1>3, <2>1, <2>2, <2>3, ParsedKeeps
<1>12. CASE CollectDependencies
  <2> DEFINE img == [Img EXCEPT !.pc = "load", !.at = 0]
  <2>1. /\ FileOf(Cur).filetype # "unsupported" /\ Img.at = Len(Commands)
        /\ \/ /\ Len(Img.libraries) <= MAX_DEPENDENCIES /\ SetImg(img)
              /\ world' = world /\ stack' = stack /\ outcome' = outcome
           \/ Stop("too_many_dylibs")
    BY <1>12 DEF CollectDependencies
  <2>2. /\ img.pc = "load" /\ img.path = Img.path
        /\ img.segments = Img.segments /\ img.fixups = Img.fixups
        /\ img.libraries = Img.libraries /\ img.libs = Img.libs
        /\ img.mem = Img.mem /\ img.rpath = Img.rpath /\ img.symbols = Img.symbols
        /\ img.is_executable = Img.is_executable
    BY <1>2 DEF Fields
  <2> HIDE DEF img
  <2>3. CASE Stop("too_many_dylibs")
    BY <2>3, StopKeeps
  <2>4. CASE /\ Len(Img.libraries) <= MAX_DEPENDENCIES /\ SetImg(img)
             /\ world' = world /\ stack' = stack /\ outcome' = outcome
    <3>1. Read(DiskFile(world, Img), Img) = Read(DiskFile(world, Img), img)
      BY <1>1, <2>1, <2>2, CurGood DEF Read
    <3>2. DiskFile(world, Img).filetype # "unsupported" /\ Good(world, Cur, Img)
      BY <2>1, CurGood
    <3>3. Good(world, Cur, img)
      BY <2>2, <2>4, <3>1, <3>2, QuietIsGood
    <3>4. QED
      BY <1>1, <2>2, <2>4, <3>3, GoodStep
  <2>5. QED
    BY <2>1, <2>3, <2>4
<1>13. QED
  BY <1>4, <1>5, <1>6, <1>7, <1>8, <1>9, <1>10, <1>11, <1>12 DEF MachoParser

(* A step of a parsed image that touches none of what was parsed.          *)
LEMMA QuietKeeps ==
    ASSUME IInv, PInv, NEW img, SetImg(img), world' = world, stack' = stack,
           outcome' # "overflow", Img.pc # "parse", img.pc # "parse",
           img.path = Img.path, img.libraries = Img.libraries,
           img.segments = Img.segments, img.symbols = Img.symbols, img.rpath = Img.rpath,
           img.fixups = Img.fixups, img.libs = Img.libs, img.mem = Img.mem,
           img.is_executable = Img.is_executable
    PROVE  PInv'
<1>1. Good(world, Cur, img)
  BY CurGood, ParsedStaysGood
<1>2. QED
  BY <1>1, GoodStep

(* A library from the cache, and the ways to fail at a library.            *)
LEMMA LoadKeeps ==
    ASSUME IInv, PInv, LoadSystemDylib \/ LoadUserDylibFails \/ DependenciesLoaded
    PROVE  PInv'
<1>1. ImageShape(Img) /\ PhaseOK(Img) /\ Img.pc = "load" /\ outcome = "loading"
  BY CurFacts DEF ImageOK, In, LoadSystemDylib, LoadUserDylibFails, DependenciesLoaded,
     AtDependency
<1>2. /\ Len(Img.libs) = Img.at /\ Img.at \in Nat /\ IsSeq(Img.libs) /\ Img.mem = << >>
      /\ DOMAIN Img = Fields
  BY <1>1 DEF PhaseOK, ImageShape
<1>3. CASE LoadSystemDylib
  <2> DEFINE lib == [kind |-> "system", name |-> Dep]
             img == [Img EXCEPT !.at = @ + 1, !.libs = Append(@, lib)]
  <2>1. SetImg(img) /\ world' = world /\ stack' = stack /\ outcome' = outcome
    BY <1>3 DEF LoadSystemDylib
  <2>2. /\ img.pc = "load" /\ img.libs = Append(Img.libs, lib) /\ lib.kind = "system"
        /\ img.path = Img.path /\ img.segments = Img.segments /\ img.fixups = Img.fixups
        /\ img.libraries = Img.libraries /\ img.mem = Img.mem
        /\ img.rpath = Img.rpath /\ img.symbols = Img.symbols
        /\ img.is_executable = Img.is_executable
    BY <1>1, <1>2 DEF Fields
  <2> HIDE DEF img, lib
  <2>3. /\ Len(img.libs) = Img.at + 1 /\ img.libs[Img.at + 1] = lib
        /\ \A k \in 1..Img.at : img.libs[k] = Img.libs[k]
    BY <1>2, <2>2, AppendFacts
  <2>4. Good(world, Cur, Img)
    BY CurGood
  <2>5. ASSUME NEW k \in 1..Len(img.libs), img.libs[k].kind = "user"
        PROVE  Cur < img.libs[k].image /\ ~RpathUnimplemented(img.libraries[k], img.rpath)
    <3>1. k \in 1..Len(Img.libs) /\ img.libs[k] = Img.libs[k]
      BY <1>2, <2>2, <2>3, <2>5
    <3>2. QED
      BY <2>2, <2>4, <2>5, <3>1 DEF Good, LoadedOK
  <2>6. LoadedOK(Cur, img)
    BY <2>5 DEF LoadedOK
  <2>7. BoundOK(world, Cur, img)
    BY <1>2, <2>2, EmptyIsSeq DEF BoundOK
  <2>8. Good(world, Cur, img)
    <3> DEFINE f == DiskFile(world, Img)
    <3>1. DiskFile(world, img) = f /\ Read(f, img) = Read(f, Img)
      BY <1>1, <2>2 DEF DiskFile, Read
    <3> HIDE DEF f
    <3>2. PICK n : n = Read(f, Img)
      OBVIOUS
    <3>3. ParsedOK(f, n, Img)
      BY <2>4, <3>2 DEF Good, f
    <3>4. ParsedOK(f, n, img)
      BY <1>1, <2>2, <3>3 DEF ParsedOK, Collected, NamesOK, SegmentsOK, SymbolsOK, RpathOK, FixupsOK
    <3>5. QED
      BY <2>6, <2>7, <3>1, <3>2, <3>4 DEF Good
  <2>9. QED
    BY <1>1, <2>1, <2>2, <2>8, GoodStep
<1>4. CASE LoadUserDylibFails
  <2>1. CASE Stop("panic") \/ Stop("open") \/ Stop("mmap")
    BY <2>1, StopKeeps
  <2>2. CASE /\ AtDependency /\ Dep \notin DOMAIN world.cache
             /\ DepPath \in DOMAIN world.disk /\ Len(stack) >= StackLimit
             /\ Stop("overflow")
    <3>1. world' = world /\ images' = images /\ stack' = stack
      BY <2>2 DEF Stop
    <3>2. OverflowOK'
      BY <2>2, <3>1 DEF OverflowOK, AtDependency, In, Dep, DepPath, Wanted, Img, Cur
    <3>3. QED
      BY <3>1, <3>2 DEF PInv, PendingOK
  <2>3. QED
    BY <1>4, <2>1, <2>2 DEF LoadUserDylibFails
<1>5. CASE DependenciesLoaded
  <2> DEFINE img == [Img EXCEPT !.pc = "map", !.at = 0]
  <2>1. SetImg(img) /\ world' = world /\ stack' = stack /\ outcome' = outcome
    BY <1>5 DEF DependenciesLoaded
  <2>2. /\ img.pc = "map" /\ img.path = Img.path /\ img.segments = Img.segments
        /\ img.fixups = Img.fixups /\ img.libraries = Img.libraries /\ img.libs = Img.libs
        /\ img.mem = Img.mem /\ img.rpath = Img.rpath /\ img.symbols = Img.symbols
        /\ img.is_executable = Img.is_executable
    BY <1>2 DEF Fields
  <2> HIDE DEF img
  <2>3. QED
    BY <1>1, <2>1, <2>2, QuietKeeps
<1>6. QED
  BY <1>3, <1>4, <1>5

(* A fixup that has found what it points to.                               *)
LEMMA WriteKeeps ==
    ASSUME IInv, PInv, In("fixup"), Img.at < Len(Img.fixups), NEW value, Write(value),
           Fix.kind = "rebase" => value = ImageAddress(Cur, Fix.target + FixupBase),
           Fix.kind = "bind" => Bound(world, Cur, Img, Fix, value)
    PROVE  PInv'
<1>1. ImageShape(Img) /\ PhaseOK(Img) /\ Img.pc = "fixup" /\ outcome = "loading"
  BY CurFacts DEF ImageOK, In
<1>2. Len(Img.mem) = Img.at /\ Img.at \in Nat /\ IsSeq(Img.mem) /\ DOMAIN Img = Fields
  BY <1>1 DEF PhaseOK, ImageShape
<1> DEFINE entry == <<Fix.offset + FixupBase, value>>
           img == [Img EXCEPT !.at = @ + 1, !.mem = Append(@, entry)]
<1>3. \/ SetImg(img) /\ world' = world /\ stack' = stack /\ outcome' = outcome
      \/ Stop("fault")
  BY DEF Write
<1>4. /\ img.pc = "fixup" /\ img.mem = Append(Img.mem, entry)
      /\ img.path = Img.path /\ img.segments = Img.segments /\ img.fixups = Img.fixups
      /\ img.libraries = Img.libraries /\ img.libs = Img.libs
      /\ img.rpath = Img.rpath /\ img.symbols = Img.symbols
      /\ img.is_executable = Img.is_executable
  BY <1>1, <1>2 DEF Fields
<1>0. entry[1] = Fix.offset + Base(Img) /\ entry[2] = value /\ FixupBase = Base(Img)
  BY DEF FixupBase, PageZeroOf, Base, Img
<1> HIDE DEF img, entry
<1>5. /\ Len(img.mem) = Img.at + 1 /\ img.mem[Img.at + 1] = entry
      /\ \A k \in 1..Img.at : img.mem[k] = Img.mem[k]
  BY <1>2, <1>4, AppendFacts
<1>6. Good(world, Cur, Img)
  BY CurGood
<1>7. ASSUME NEW k \in 1..Len(img.mem)
      PROVE  PointerOK(world, Cur, img, img.fixups[k], img.mem[k])
  <2>1. PointerOK(world, Cur, Img, Img.fixups[k], img.mem[k])
    <3>1. CASE k = Img.at + 1
      BY <1>0, <1>5, <3>1 DEF Fix, PointerOK
    <3>2. CASE k # Img.at + 1
      <4>1. k \in 1..Len(Img.mem) /\ img.mem[k] = Img.mem[k]
        BY <1>2, <1>5, <3>2
      <4>2. QED
        BY <1>6, <4>1 DEF Good, BoundOK
    <3>3. QED
      BY <3>1, <3>2
  <2>2. QED
    BY <1>4, <2>1 DEF PointerOK, Bound, Base
<1>8. LoadedOK(Cur, img)
  BY <1>4, <1>6 DEF Good, LoadedOK
<1>9. Good(world, Cur, img)
  <2> DEFINE f == DiskFile(world, Img)
  <2>1. DiskFile(world, img) = f /\ Read(f, img) = Read(f, Img)
    BY <1>1, <1>4 DEF DiskFile, Read
  <2> HIDE DEF f
  <2>2. PICK n : n = Read(f, Img)
    OBVIOUS
  <2>3. ParsedOK(f, n, Img)
    BY <1>6, <2>2 DEF Good, f
  <2>4. ParsedOK(f, n, img)
    BY <1>1, <1>4, <2>3 DEF ParsedOK, Collected, NamesOK, SegmentsOK, SymbolsOK, RpathOK, FixupsOK
  <2>5. QED
    BY <1>7, <1>8, <2>1, <2>2, <2>4 DEF Good, BoundOK
<1>10. CASE Stop("fault")
  BY <1>10, StopKeeps
<1>11. QED
  BY <1>1, <1>3, <1>4, <1>9, <1>10, GoodStep

(* image_fixups_apply writes only what it has found.                       *)
LEMMA FixupKeeps ==
    ASSUME IInv, PInv, ImageFixupsApply
    PROVE  PInv'
<1>1. /\ ImageShape(Img) /\ PhaseOK(Img) /\ Img.pc = "fixup" /\ outcome = "loading"
      /\ In("fixup") /\ DOMAIN Img = Fields
  BY CurFacts DEF ImageOK, ImageShape, In, ImageFixupsApply, ApplyRebase,
     ApplyUnsupportedBind, ApplyWeakBind, ApplyBindOutOfBounds, ApplySystemBind,
     ApplyUserBind, FixupsApplied, AtFixup, RegularBind
<1>2. CASE ApplyRebase
  <2>1. Img.at < Len(Img.fixups) /\ Write(ImageAddress(Cur, Fix.target + FixupBase))
        /\ Fix.kind = "rebase"
    BY <1>2 DEF ApplyRebase, AtFixup, Fix
  <2>2. QED
    BY <1>1, <2>1, WriteKeeps
<1>3. CASE ApplyUnsupportedBind \/ ApplyBindOutOfBounds
  BY <1>3, StopKeeps DEF ApplyUnsupportedBind, ApplyBindOutOfBounds
<1>4. CASE ApplyWeakBind
  <2>0. PICK k : k = SelectInSeq(Img.symbols, LAMBDA s : s.name = Fix.symbol)
    OBVIOUS
  <2>1. /\ Img.at < Len(Img.fixups) /\ Fix.ordinal = BIND_SPECIAL_DYLIB_WEAK_LOOKUP
        /\ Fix.kind = "bind"
        /\ \/ k # 0 /\ Write(ImageAddress(Cur, Img.symbols[k].impl_offset))
           \/ Stop("unresolved")
    BY <1>4, <2>0 DEF ApplyWeakBind, AtFixup, Fix
  <2>2. CASE Stop("unresolved")
    BY <2>2, StopKeeps
  <2>3. CASE k # 0 /\ Write(ImageAddress(Cur, Img.symbols[k].impl_offset))
    <3>1. Len(Img.symbols) \in Nat
      BY CurGood DEF Good, ParsedOK, Collected, SymbolsOK
    <3>2. k \in 1..Len(Img.symbols) /\ Img.symbols[k].name = Fix.symbol
      <4> DEFINE I == {i \in 1..Len(Img.symbols) : Img.symbols[i].name = Fix.symbol}
      <4>1. k = IF I # {} THEN Min(I) ELSE 0
        BY <2>0 DEF SelectInSeq
      <4>2. I # {} /\ I \subseteq Nat
        BY <2>3, <3>1, <4>1
      <4>3. k \in I
        <5> HIDE DEF I
        <5>1. QED
          BY <4>1, <4>2, MinFacts
      <4>4. QED
        BY <4>3
    <3>3. PICK value : value = ImageAddress(Cur, Img.symbols[k].impl_offset)
      OBVIOUS
    <3>4. Bound(world, Cur, Img, Fix, value)
      BY <2>1, <3>2, <3>3 DEF Bound
    <3>5. QED
      BY <1>1, <2>1, <2>3, <3>3, <3>4, WriteKeeps
  <2>4. QED
    BY <2>1, <2>2, <2>3
<1>5. ASSUME RegularBind, Fix.ordinal <= Len(Img.libs)
      PROVE  /\ Img.at < Len(Img.fixups) /\ Fix.ordinal \in 1..Len(Img.libs)
             /\ Fix.ordinal # BIND_SPECIAL_DYLIB_WEAK_LOOKUP /\ Lib = Img.libs[Fix.ordinal]
             /\ Fix.kind = "bind"
             /\ LibOK(Img, Lib, Img.libraries[Fix.ordinal])
  <2>1. /\ Img.at < Len(Img.fixups) /\ Fix.kind = "bind" /\ Fix.ordinal # 0
        /\ Fix.ordinal # BIND_SPECIAL_DYLIB_WEAK_LOOKUP
    BY <1>5 DEF RegularBind, AtFixup, Fix, UnsupportedOrdinals, BIND_SPECIAL_DYLIB_SELF
  <2>2. Fix \in Fixup
    BY <1>1, <2>1 DEF Fix, ImageShape
  <2>3. Fix.ordinal \in Nat /\ Len(Img.libs) \in Nat
    BY <1>1, <2>1, <2>2 DEF Fixup, RebaseFixup, BindFixup, ImageShape, IsSeq
  <2>4. Fix.ordinal \in 1..Len(Img.libs)
    BY <1>5, <2>1, <2>3
  <2>5. QED
    BY <2>1, <2>4, CurFacts DEF LibsOK, Lib
<1>6. CASE ApplySystemBind
  <2>0. PICK value : value = [space |-> "cache", library |-> Lib.name, symbol |-> Fix.symbol]
    OBVIOUS
  <2>1. /\ RegularBind /\ Fix.ordinal <= Len(Img.libs) /\ Lib.kind = "system"
        /\ \/ Fix.symbol \in world.cache[Lib.name] /\ Write(value)
           \/ Stop("unresolved")
    BY <1>6, <2>0 DEF ApplySystemBind
  <2>2. CASE Stop("unresolved")
    BY <2>2, StopKeeps
  <2>3. CASE Fix.symbol \in world.cache[Lib.name] /\ Write(value)
    <3>1. Bound(world, Cur, Img, Fix, value)
      BY <1>5, <2>0, <2>1, <2>3 DEF Bound, Defines
    <3>2. QED
      BY <1>1, <1>5, <2>1, <2>3, <3>1, WriteKeeps
  <2>4. QED
    BY <2>1, <2>2, <2>3
<1>7. CASE ApplyUserBind
  <2>0. PICK f, found : /\ f = FileOf(Lib.image)
                        /\ found = dylib_symbol_resolve(f, Fix.symbol)
    OBVIOUS
  <2>1. /\ RegularBind /\ Fix.ordinal <= Len(Img.libs) /\ Lib.kind = "user"
        /\ \/ found.kind = "defined" /\ Write(ImageAddress(Lib.image, found.offset))
           \/ Stop("unresolved") \/ Stop("panic")
    BY <1>7, <2>0 DEF ApplyUserBind
  <2>2. CASE Stop("unresolved") \/ Stop("panic")
    BY <2>2, StopKeeps
  <2>3. CASE found.kind = "defined" /\ Write(ImageAddress(Lib.image, found.offset))
    <3>1. PICK exports : exports = ExportsRead(f)
      OBVIOUS
    <3>2. /\ Fix.symbol \in DOMAIN exports /\ found = exports[Fix.symbol]
          /\ exports[Fix.symbol].kind = "defined"
      BY <2>0, <2>3, <3>1 DEF dylib_symbol_resolve
    <3>3. f = world.disk[DiskPath(Lib.name, Img.rpath, world.exec_dir)]
      BY <1>5, <2>0, <2>1 DEF LibOK, FileOf
    <3>4. PICK value : value = ImageAddress(Lib.image, found.offset)
      OBVIOUS
    <3>5. Defines(world, Lib, Img.rpath, Fix.symbol, value)
      BY <2>1, <3>1, <3>2, <3>3, <3>4 DEF Defines
    <3>6. Bound(world, Cur, Img, Fix, value)
      BY <1>5, <2>1, <3>5 DEF Bound
    <3>7. QED
      BY <1>1, <1>5, <2>1, <2>3, <3>4, <3>6, WriteKeeps
  <2>4. QED
    BY <2>1, <2>2, <2>3
<1>8. CASE FixupsApplied
  <2> DEFINE img == [Img EXCEPT !.pc = "tlv", !.at = 0]
  <2>1. SetImg(img) /\ world' = world /\ stack' = stack /\ outcome' = outcome
    BY <1>8 DEF FixupsApplied
  <2>2. /\ img.pc = "tlv" /\ img.path = Img.path /\ img.segments = Img.segments
        /\ img.fixups = Img.fixups /\ img.libraries = Img.libraries /\ img.libs = Img.libs
        /\ img.mem = Img.mem /\ img.rpath = Img.rpath /\ img.symbols = Img.symbols
        /\ img.is_executable = Img.is_executable
    BY <1>1 DEF Fields
  <2> HIDE DEF img
  <2>3. QED
    BY <1>1, <2>1, <2>2, QuietKeeps
<1>9. QED
  BY <1>2, <1>3, <1>4, <1>6, <1>7, <1>8 DEF ImageFixupsApply

(* macho_segments_map_to_vm, image_finalize and the end of the load.       *)
LEMMA FinalizeKeeps ==
    ASSUME IInv, PInv, MapSegments \/ ImageFinalize \/ EnterProgram
    PROVE  PInv'
<1>1. /\ DOMAIN Img = Fields /\ outcome = "loading"
      /\ Img.pc \in {"map", "tlv", "protect", "init"}
  BY CurFacts DEF ImageOK, ImageShape, In, MapSegments, ImageFinalize, TlvInitialize,
     ProtectSegment, SegmentsProtected, CallInitializer, EnterProgram
<1>2. ASSUME NEW why, Stop(why), why \in {"vm_alloc", "vm_protect", "fault", "panic"}
      PROVE  PInv'
  BY <1>2, StopKeeps
<1>3. CASE MapSegments
  <2> DEFINE img == [Img EXCEPT !.pc = "fixup"]
  <2>1. \/ SetImg(img) /\ world' = world /\ stack' = stack /\ outcome' = outcome
        \/ Stop("vm_alloc") \/ Stop("panic") \/ Stop("fault")
    BY <1>3 DEF MapSegments
  <2>2. /\ img.pc = "fixup" /\ img.path = Img.path /\ img.segments = Img.segments
        /\ img.fixups = Img.fixups /\ img.libraries = Img.libraries /\ img.libs = Img.libs
        /\ img.mem = Img.mem /\ img.rpath = Img.rpath /\ img.symbols = Img.symbols
        /\ img.is_executable = Img.is_executable
    BY <1>1 DEF Fields
  <2> HIDE DEF img
  <2>3. QED
    BY <1>1, <1>2, <2>1, <2>2, QuietKeeps
<1>4. CASE TlvInitialize
  <2> DEFINE img == [Img EXCEPT !.pc = "protect",
                                !.tlv = Img.is_executable /\ Img.has_thread_locals]
  <2>1. SetImg(img) /\ world' = world /\ stack' = stack /\ outcome' = outcome
    BY <1>4 DEF TlvInitialize
  <2>2. /\ img.pc = "protect" /\ img.path = Img.path /\ img.segments = Img.segments
        /\ img.fixups = Img.fixups /\ img.libraries = Img.libraries /\ img.libs = Img.libs
        /\ img.mem = Img.mem /\ img.rpath = Img.rpath /\ img.symbols = Img.symbols
        /\ img.is_executable = Img.is_executable
    BY <1>1 DEF Fields
  <2> HIDE DEF img
  <2>3. QED
    BY <1>1, <2>1, <2>2, QuietKeeps
<1>5. CASE ProtectSegment
  <2> DEFINE img == [Img EXCEPT !.at = @ + 1, !.sealed = @ + 1]
  <2>1. \/ SetImg(img) /\ world' = world /\ stack' = stack /\ outcome' = outcome
        \/ Stop("vm_protect")
    BY <1>5 DEF ProtectSegment
  <2>2. /\ img.pc = Img.pc /\ img.path = Img.path /\ img.segments = Img.segments
        /\ img.fixups = Img.fixups /\ img.libraries = Img.libraries /\ img.libs = Img.libs
        /\ img.mem = Img.mem /\ img.rpath = Img.rpath /\ img.symbols = Img.symbols
        /\ img.is_executable = Img.is_executable
    BY <1>1 DEF Fields
  <2> HIDE DEF img
  <2>3. QED
    BY <1>1, <1>2, <2>1, <2>2, QuietKeeps
<1>6. CASE SegmentsProtected
  <2> DEFINE img == [Img EXCEPT !.pc = "init", !.at = 0]
  <2>1. SetImg(img) /\ world' = world /\ stack' = stack /\ outcome' = outcome
    BY <1>6 DEF SegmentsProtected
  <2>2. /\ img.pc = "init" /\ img.path = Img.path /\ img.segments = Img.segments
        /\ img.fixups = Img.fixups /\ img.libraries = Img.libraries /\ img.libs = Img.libs
        /\ img.mem = Img.mem /\ img.rpath = Img.rpath /\ img.symbols = Img.symbols
        /\ img.is_executable = Img.is_executable
    BY <1>1 DEF Fields
  <2> HIDE DEF img
  <2>3. QED
    BY <1>1, <2>1, <2>2, QuietKeeps
<1>7. CASE CallInitializer
  <2> DEFINE called == InitTarget(Img.init_functions[Img.at + 1])
             img == [Img EXCEPT !.at = @ + 1, !.calls = Append(@, called)]
  <2>1. \/ SetImg(img) /\ world' = world /\ stack' = stack /\ outcome' = outcome
        \/ Stop("fault")
    BY <1>7 DEF CallInitializer
  <2>2. /\ img.pc = Img.pc /\ img.path = Img.path /\ img.segments = Img.segments
        /\ img.fixups = Img.fixups /\ img.libraries = Img.libraries /\ img.libs = Img.libs
        /\ img.mem = Img.mem /\ img.rpath = Img.rpath /\ img.symbols = Img.symbols
        /\ img.is_executable = Img.is_executable
    BY <1>1 DEF Fields
  <2> HIDE DEF img, called
  <2>3. QED
    BY <1>1, <1>2, <2>1, <2>2, QuietKeeps
<1>8. CASE EnterProgram
  <2> DEFINE img == [Img EXCEPT !.pc = "done"]
  <2>1. SetImg(img) /\ world' = world /\ stack' = stack /\ outcome' = "entered"
    BY <1>8 DEF EnterProgram
  <2>2. /\ img.pc = "done" /\ img.path = Img.path /\ img.segments = Img.segments
        /\ img.fixups = Img.fixups /\ img.libraries = Img.libraries /\ img.libs = Img.libs
        /\ img.mem = Img.mem /\ img.rpath = Img.rpath /\ img.symbols = Img.symbols
        /\ img.is_executable = Img.is_executable
    BY <1>1 DEF Fields
  <2> HIDE DEF img
  <2>3. QED
    BY <1>1, <2>1, <2>2, QuietKeeps
<1>9. QED
  BY <1>3, <1>4, <1>5, <1>6, <1>7, <1>8 DEF ImageFinalize

(* Nothing has been read of the file of a new image.                       *)
LEMMA NewIsGood ==
    ASSUME NEW w \in Worlds, NEW i, NEW p \in DOMAIN w.disk, NEW x, NEW img,
           img = NewImage(p, x)
    PROVE  Good(w, i, img) /\ img.path = p
<1>1. /\ img.pc = "parse" /\ img.at = 0 /\ img.path = p
      /\ img.segments = << >> /\ img.fixups = << >> /\ img.libraries = << >>
      /\ img.libs = << >> /\ img.mem = << >> /\ img.symbols = << >> /\ img.rpath = ""
  BY DEF NewImage
<1>2. /\ Len(img.libraries) = 0 /\ Len(img.segments) = 0 /\ Len(img.libs) = 0
      /\ Len(img.mem) = 0
  BY <1>1, EmptyIsSeq
<1>3. PICK f : f = DiskFile(w, img) /\ f = w.disk[p]
  BY <1>1 DEF DiskFile
<1>4. f.commands \in Seq(Command) /\ 0 \in 0..Len(f.commands)
  <2>1. f.commands \in Seq(Command)
    BY <1>3, WorldsAssumption DEF IsWorld, IsFile
  <2>2. Len(f.commands) \in Nat
    BY <2>1
  <2>3. QED
    BY <2>1, <2>2
<1>5. ASSUME NEW kinds
      PROVE  Len(CommandsUpTo(f, kinds, 0)) = 0
  BY <1>4, CommandRows, EmptyIsSeq
<1>6. 0 \in 0..0 /\ \A cmd : InForce(f, cmd, 0, 0)
  BY DEF InForce
<1>7. RpathOK(f, 0, img)
  <2>1. img.rpath = IF 0 = 0 THEN "" ELSE f.commands[0].path
    BY <1>1, Zenon
  <2>2. QED
    BY <1>6, <2>1, Zenon DEF RpathOK
<1>8. FixupsOK(f, 0, img)
  <2>1. ~HasFixups(f, 0)
    BY DEF HasFixups
  <2>2. QED
    BY <1>1, <2>1 DEF FixupsOK
<1>9. NamesOK(img, CommandsUpTo(f, LinkedDylibCommands, 0))
  <2>1. PICK cs : cs = CommandsUpTo(f, LinkedDylibCommands, 0) /\ Len(cs) = 0
    BY <1>5
  <2>2. NamesOK(img, cs)
    BY <1>2, <2>1, LimitsAssumption DEF NamesOK
  <2>3. QED
    BY <2>1, <2>2
<1>10. SegmentsOK(img, CommandsUpTo(f, {"LC_SEGMENT_64"}, 0))
  BY <1>2, <1>5, LimitsAssumption DEF SegmentsOK
<1>11. SymbolsOK(f, img)
  <2>1. << >> \in Seq(SymbolTable(f))
    OBVIOUS
  <2>2. QED
    BY <1>1, <2>1, Zenon DEF SymbolsOK
<1>12. Collected(f, 0, img)
  BY <1>7, <1>8, <1>9, <1>10, <1>11 DEF Collected
<1>13. ParsedOK(f, 0, img)
  <2>1. img.pc = "parse"
    BY <1>1
  <2>2. QED
    BY <1>4, <1>12, <2>1 DEF ParsedOK
<1>14. LoadedOK(i, img) /\ BoundOK(w, i, img)
  BY <1>2 DEF LoadedOK, BoundOK
<1>15. Read(f, img) = 0
  BY <1>1 DEF Read
<1>16. QED
  BY <1>1, <1>3, <1>13, <1>14, <1>15, Zenon DEF Good

(* The recursive call.                                                     *)
LEMMA LoadUserDylibKeeps ==
    ASSUME IInv, PInv, LoadUserDylib
    PROVE  PInv'
<1> DEFINE n == Len(images) + 1
<1>0. PICK new : new = NewImage(DepPath, FALSE)
  OBVIOUS
<1>1. /\ outcome = "loading" /\ ~RpathUnimplemented(Dep, Img.rpath)
      /\ DepPath \in DOMAIN world.disk
      /\ images' = Append(images, new) /\ stack' = Append(stack, n)
      /\ world' = world /\ outcome' = outcome
  BY <1>0 DEF LoadUserDylib, AtDependency, In
<1>2. /\ IsSeq(images) /\ IsSeq(stack) /\ Len(images) \in Nat /\ Len(stack) \in Nat \ {0}
      /\ Cur \in 1..Len(images) /\ world \in Worlds
  BY CurFacts DEF IInv, Typed
<1>3. /\ Len(images') = n /\ images'[n] = new
      /\ \A i \in 1..Len(images) : images'[i] = images[i]
  BY <1>1, <1>2, AppendFacts
<1>4. /\ Len(stack') = Len(stack) + 1
      /\ \A k \in 1..Len(stack) : stack'[k] = stack[k]
  BY <1>1, <1>2, AppendFacts
<1>5. Good(world, n, new)
  BY <1>0, <1>1, <1>2, NewIsGood
<1>6. images'[1].path = world'.exe
  <2>1. 1 \in 1..Len(images)
    BY <1>2
  <2>2. QED
    BY <1>1, <1>3, <2>1 DEF PInv
<1>7. ASSUME NEW i \in 1..Len(images')
      PROVE  Good(world', i, images'[i])
  <2>1. CASE i = n
    BY <1>1, <1>3, <1>5, <2>1
  <2>2. CASE i # n
    <3>1. i \in 1..Len(images)
      BY <1>2, <1>3, <2>2
    <3>2. QED
      BY <1>1, <1>3, <3>1 DEF PInv
  <2>3. QED
    BY <2>1, <2>2
<1>8. PendingOK'
  <2> SUFFICES ASSUME NEW k \in 1..(Len(stack') - 1)
               PROVE  Locatable(images'[stack'[k]])
    BY DEF PendingOK
  <2>1. k \in 1..Len(stack) /\ stack'[k] = stack[k]
    BY <1>2, <1>4
  <2>2. CASE k = Len(stack)
    <3>1. stack'[k] = Cur /\ images'[Cur] = Img
      BY <1>2, <1>3, <2>1, <2>2 DEF Cur, Img
    <3>2. QED
      BY <1>1, <3>1 DEF Locatable, Wanted, Dep
  <2>3. CASE k # Len(stack)
    <3>1. k \in 1..(Len(stack) - 1)
      BY <1>2, <2>1, <2>3
    <3>2. stack[k] \in 1..Len(images) /\ Locatable(images[stack[k]])
      BY <3>1, WaitingFacts DEF PInv, PendingOK
    <3>3. QED
      BY <1>3, <2>1, <3>2
  <2>4. QED
    BY <2>2, <2>3
<1>9. stack'[1] = 1
  <2>1. 1 \in 1..Len(stack)
    BY <1>2
  <2>2. QED
    BY <1>4, <2>1 DEF PInv
<1>10. QED
  BY <1>1, <1>6, <1>7, <1>8, <1>9 DEF PInv, OverflowOK

(* The return: the library is listed after the image that has asked for it.*)
LEMMA ReturnKeeps ==
    ASSUME IInv, PInv, ReturnToCaller
    PROVE  PInv'
<1> DEFINE old == images[Caller]
<1>1. /\ Caller \in 1..Len(images) /\ Cur \in 1..Len(images) /\ Caller # Cur
      /\ Len(stack) > 1 /\ Len(stack) \in Nat /\ Len(images) \in Nat
      /\ Len(images') = Len(images) /\ world' = world /\ outcome' = outcome
      /\ outcome = "loading" /\ Waiting(Caller, Cur) /\ Img.pc = "init" /\ Img = images[Cur]
      /\ \A i \in 1..Len(images) : i # Cur /\ i # Caller => images'[i] = images[i]
      /\ Len(stack') = Len(stack) - 1
      /\ \A k \in 1..(Len(stack) - 1) : stack'[k] = stack[k]
  BY ReturnFacts, CurFacts DEF Img
<1>2. PICK img, top : img = images'[Cur] /\ top = images'[Caller]
  OBVIOUS
<1>3. /\ img.pc = "done" /\ img.path = Img.path /\ img.segments = Img.segments
      /\ img.fixups = Img.fixups /\ img.libraries = Img.libraries /\ img.libs = Img.libs
      /\ img.mem = Img.mem /\ img.rpath = Img.rpath /\ img.symbols = Img.symbols
      /\ img.is_executable = Img.is_executable
  <2>1. img = [Img EXCEPT !.pc = "done"] /\ DOMAIN Img = Fields
    BY <1>2, ReturnFacts, CurFacts DEF ImageOK, ImageShape
  <2>2. QED
    BY <2>1 DEF Fields
<1>4. ImageShape(old) /\ PhaseOK(old) /\ old.pc = "load"
  BY <1>1 DEF IInv, Typed, ImageOK, Waiting
<1>5. /\ top.pc = "load" /\ top.path = old.path /\ top.segments = old.segments
      /\ top.fixups = old.fixups /\ top.libraries = old.libraries
      /\ top.libs = Append(old.libs, Entry)
      /\ top.mem = old.mem /\ top.rpath = old.rpath /\ top.symbols = old.symbols
      /\ top.is_executable = old.is_executable
  <2>1. top = [old EXCEPT !.at = @ + 1, !.libs = Append(@, Entry)] /\ DOMAIN old = Fields
    BY <1>2, <1>4, ReturnFacts DEF ImageShape
  <2> HIDE DEF old
  <2>2. QED
    BY <1>4, <2>1 DEF Fields
<1>6. /\ Len(old.libs) = old.at /\ old.at \in Nat /\ IsSeq(old.libs) /\ old.mem = << >>
  BY <1>4 DEF PhaseOK, ImageShape
<1>7. /\ Len(top.libs) = old.at + 1 /\ top.libs[old.at + 1] = Entry
      /\ \A k \in 1..old.at : top.libs[k] = old.libs[k]
  BY <1>5, <1>6, AppendFacts
<1>8. Good(world, Caller, old) /\ Good(world, Cur, Img)
  BY <1>1 DEF PInv
<1>9. Len(stack) - 1 \in 1..(Len(stack) - 1) /\ Len(stack) - 1 + 1 = Len(stack)
  BY <1>1
<1>10. Caller < Cur /\ Locatable(old)
  <2>1. PICK k \in 1..(Len(stack) - 1) : k = Len(stack) - 1 /\ k + 1 = Len(stack)
    BY <1>9
  <2>2. stack[k] < stack[k + 1] /\ Locatable(images[stack[k]])
    BY WaitingFacts DEF PInv, PendingOK
  <2>3. QED
    BY <2>1, <2>2 DEF Caller, Cur
<1> HIDE DEF old
<1>11. LoadedOK(Caller, top)
  <2> SUFFICES ASSUME NEW k \in 1..Len(top.libs), top.libs[k].kind = "user"
               PROVE  /\ Caller < top.libs[k].image
                      /\ ~RpathUnimplemented(top.libraries[k], top.rpath)
    BY DEF LoadedOK
  <2>1. CASE k = old.at + 1
    <3>1. top.libs[k].image = Cur
      BY <1>7, <2>1 DEF Entry
    <3>2. QED
      BY <1>5, <1>10, <2>1, <3>1 DEF Locatable, Wanted
  <2>2. CASE k # old.at + 1
    <3>1. k \in 1..Len(old.libs) /\ top.libs[k] = old.libs[k]
      BY <1>6, <1>7, <2>2
    <3>2. QED
      BY <1>5, <1>8, <3>1 DEF Good, LoadedOK
  <2>3. QED
    BY <2>1, <2>2
<1>12. Good(world, Caller, top)
  <2> DEFINE f == DiskFile(world, old)
  <2>1. DiskFile(world, top) = f /\ Read(f, top) = Read(f, old)
    BY <1>4, <1>5 DEF DiskFile, Read
  <2> HIDE DEF f
  <2>2. PICK n : n = Read(f, old)
    OBVIOUS
  <2>3. ParsedOK(f, n, old)
    BY <1>8, <2>2 DEF Good, f
  <2>4. ParsedOK(f, n, top)
    BY <1>4, <1>5, <2>3 DEF ParsedOK, Collected, NamesOK, SegmentsOK, SymbolsOK, RpathOK, FixupsOK
  <2>5. BoundOK(world, Caller, top)
    BY <1>5, <1>6, EmptyIsSeq DEF BoundOK
  <2>6. QED
    BY <1>11, <2>1, <2>2, <2>4, <2>5 DEF Good
<1>13. Good(world, Cur, img)
  BY <1>1, <1>3, <1>8, ParsedStaysGood
<1>14. ASSUME NEW i \in 1..Len(images')
       PROVE  Good(world', i, images'[i]) /\ images'[i].path = images[i].path
  <2>1. CASE i = Cur
    BY <1>1, <1>2, <1>3, <1>13, <2>1
  <2>2. CASE i = Caller
    BY <1>1, <1>2, <1>5, <1>12, <2>2 DEF old
  <2>3. CASE i # Cur /\ i # Caller
    BY <1>1, <2>3 DEF PInv
  <2>4. QED
    BY <2>1, <2>2, <2>3
<1>15. images'[1].path = world'.exe
  <2>1. 1 \in 1..Len(images')
    BY <1>1
  <2>2. QED
    BY <1>1, <1>14, <2>1 DEF PInv
<1>16. PendingOK'
  <2> SUFFICES ASSUME NEW k \in 1..(Len(stack') - 1)
               PROVE  Locatable(images'[stack'[k]])
    BY DEF PendingOK
  <2>1. /\ k \in 1..(Len(stack) - 1) /\ stack'[k] = stack[k] /\ k < Len(stack) - 1
        /\ k \in 1..Len(stack) /\ Len(stack) - 1 \in 1..Len(stack)
    BY <1>1
  <2>2. stack[k] \in 1..Len(images) /\ stack[k] # Cur
    BY <2>1, WaitingFacts
  <2>3. stack[k] < Caller
    BY <2>1 DEF IInv, StackOK, Caller
  <2>4. images'[stack[k]] = images[stack[k]]
    BY <1>1, <2>2, <2>3
  <2>5. QED
    BY <2>1, <2>4 DEF PInv, PendingOK
<1>17. stack'[1] = 1
  <2>1. 1 \in 1..(Len(stack) - 1)
    BY <1>1
  <2>2. QED
    BY <1>1, <2>1 DEF PInv
<1>18. QED
  BY <1>1, <1>14, <1>15, <1>16, <1>17 DEF PInv, OverflowOK

(* At the start there is the executable, of which nothing has been read.   *)
LEMMA InitPInv == Init => PInv
<1> SUFFICES ASSUME Init PROVE PInv
  OBVIOUS
<1>1. PICK new : new = NewImage(world.exe, TRUE)
  OBVIOUS
<1>2. /\ world \in Worlds /\ images = <<new>> /\ stack = <<1>> /\ outcome = "loading"
  BY <1>1 DEF Init
<1>3. Len(images) = 1 /\ images[1] = new /\ Len(stack) = 1 /\ stack[1] = 1
  BY <1>2
<1>4. world.exe \in DOMAIN world.disk
  BY <1>2, WorldsAssumption DEF IsWorld
<1>5. Good(world, 1, new) /\ new.path = world.exe
  BY <1>1, <1>2, <1>4, NewIsGood
<1>6. \A i \in 1..Len(images) : i = 1
  BY <1>3
<1>7. \A k \in 1..(Len(stack) - 1) : FALSE
  BY <1>3
<1>8. QED
  BY <1>2, <1>3, <1>5, <1>6, <1>7 DEF PInv, PendingOK, OverflowOK

(* Every step of a load keeps the images and their files together.         *)
LEMMA NextPInv == IInv /\ PInv /\ [Next]_vars => PInv'
<1> SUFFICES ASSUME IInv, PInv, [Next]_vars PROVE PInv'
  OBVIOUS
<1>1. CASE MachoParser
  BY <1>1, ParserKeeps
<1>2. CASE LoadSystemDylib \/ LoadUserDylibFails \/ DependenciesLoaded
  BY <1>2, LoadKeeps
<1>3. CASE LoadUserDylib
  BY <1>3, LoadUserDylibKeeps
<1>4. CASE ImageFixupsApply
  BY <1>4, FixupKeeps
<1>5. CASE MapSegments \/ ImageFinalize \/ EnterProgram
  BY <1>5, FinalizeKeeps
<1>6. CASE ReturnToCaller
  BY <1>6, ReturnKeeps
<1>7. CASE UNCHANGED vars
  BY <1>7, StutterKeeps
<1>8. QED
  BY <1>1, <1>2, <1>3, <1>4, <1>5, <1>6, <1>7
     DEF Next, UserDylibsLoadRecursively, Ended

(* In every reachable state each image agrees with the part of its file    *)
(* that macho_parser has read, its libraries come after it, and the fixups *)
(* it has written had a definition to point to.                            *)
THEOREM ImagesAgreeWithFiles == Spec => []PInv
<1>1. QED
  BY InitPInv, NextPInv, LoaderInvariant, PTL DEF Spec

-----------------------------------------------------------------------------
(* The files that a file leads to.                                         *)

OneMore(w, T) == T \cup LibrariesOf(w, T)

Levels(g, w, N, S) ==
    g = [n \in 0..N |-> IF n = 0 THEN S ELSE OneMore(w, g[n - 1])]

(* Levels spelled out.                                                     *)
LEMMA LevelsFacts ==
    ASSUME NEW w, NEW N \in Nat, NEW S, NEW g
    PROVE  Levels(g, w, N, S) <=>
             /\ g = [n \in 0..N |-> g[n]]
             /\ g[0] = S
             /\ \A n \in 1..N : g[n] = OneMore(w, g[n - 1])
<1> DEFINE row(n) == IF n = 0 THEN S ELSE OneMore(w, g[n - 1])
<1>1. Levels(g, w, N, S) <=> g = [n \in 0..N |-> row(n)]
  BY DEF Levels
<1> HIDE DEF row
<1>2. g = [n \in 0..N |-> row(n)] <=> g = [n \in 0..N |-> g[n]] /\ \A n \in 0..N : g[n] = row(n)
  OBVIOUS
<1>3. (\A n \in 0..N : g[n] = row(n)) <=> row(0) = g[0] /\ \A n \in 1..N : g[n] = row(n)
  OBVIOUS
<1>4. QED
  BY <1>1, <1>2, <1>3 DEF row

(* The recursion of Closure is well defined.                               *)
LEMMA LevelsExist ==
    ASSUME NEW w, NEW N \in Nat, NEW S
    PROVE  \E g : Levels(g, w, N, S)
<1> DEFINE T == {m \in Nat : \E g : Levels(g, w, m, S)}
<1>1. 0 \in T
  <2> DEFINE g == [n \in 0..0 |-> S]
  <2>1. g = [n \in 0..0 |-> g[n]] /\ g[0] = S /\ 0 \in Nat /\ \A n \in 1..0 : FALSE
    OBVIOUS
  <2> HIDE DEF g
  <2>3. Levels(g, w, 0, S)
    BY <2>1, LevelsFacts
  <2>4. QED
    BY <2>3
<1>2. ASSUME NEW m \in Nat, m \in T
      PROVE  m + 1 \in T
  <2>1. PICK g : Levels(g, w, m, S)
    BY <1>2
  <2> DEFINE last == OneMore(w, g[m])
             h == [n \in 0..(m + 1) |-> IF n = m + 1 THEN last ELSE g[n]]
  <2>2. g[0] = S /\ \A n \in 1..m : g[n] = OneMore(w, g[n - 1])
    BY <2>1, LevelsFacts
  <2>3. \A n \in 0..m : h[n] = g[n]
    OBVIOUS
  <2>4. h[m + 1] = last /\ h = [n \in 0..(m + 1) |-> h[n]]
    OBVIOUS
  <2> HIDE DEF h
  <2>5. ASSUME NEW n \in 1..(m + 1)
        PROVE  h[n] = OneMore(w, h[n - 1])
    <3>1. CASE n = m + 1
      <4>1. n - 1 = m /\ h[m] = g[m]
        BY <2>3, <3>1
      <4>2. QED
        BY <2>4, <3>1, <4>1
    <3>2. CASE n # m + 1
      <4>1. n \in 1..m /\ n \in 0..m /\ n - 1 \in 0..m
        BY <3>2
      <4>2. h[n] = g[n] /\ h[n - 1] = g[n - 1]
        BY <2>3, <4>1
      <4>3. QED
        BY <2>2, <4>1, <4>2
    <3>3. QED
      BY <3>1, <3>2
  <2>6. h[0] = S
    BY <2>2, <2>3
  <2> HIDE DEF last
  <2>7. Levels(h, w, m + 1, S)
    <3>1. m + 1 \in Nat
      OBVIOUS
    <3>2. QED
      BY <2>4, <2>5, <2>6, <3>1, LevelsFacts
  <2>8. QED
    BY <2>7
<1>3. N \in T
  <2> HIDE DEF T
  <2>1. QED
    BY <1>1, <1>2, NatInd
<1>4. QED
  BY <1>3


(* Closure level by level.                                                 *)
FilesFrom(w, S) == CHOOSE g : Levels(g, w, Cardinality(DOMAIN w.disk), S)

LEMMA ClosureFacts ==
    ASSUME NEW w \in Worlds, NEW S, NEW N, N = Cardinality(DOMAIN w.disk)
    PROVE  /\ N \in Nat
           /\ FilesFrom(w, S)[0] = S
           /\ \A n \in 1..N : FilesFrom(w, S)[n] = OneMore(w, FilesFrom(w, S)[n - 1])
           /\ Closure(w, S) = FilesFrom(w, S)[N] \cap DOMAIN w.disk
<1> DEFINE r == FilesFrom(w, S)
<1>1. N \in Nat
  BY WorldsAssumption, FS_CardinalityType DEF IsWorld
<1>2. Levels(r, w, N, S)
  BY <1>1, LevelsExist DEF FilesFrom
<1>3. Closure(w, S) = r[N] \cap DOMAIN w.disk
  BY DEF Closure, Levels, FilesFrom, OneMore
<1> HIDE DEF r
<1>4. r[0] = S /\ \A n \in 1..N : r[n] = OneMore(w, r[n - 1])
  BY <1>1, <1>2, LevelsFacts
<1>5. QED
  BY <1>1, <1>3, <1>4 DEF r

(* A set that no library leads out of holds everything its members lead to.*)
LEMMA ClosureWithin ==
    ASSUME NEW w \in Worlds, NEW S, NEW P, S \subseteq P,
           \A p \in P \cap DOMAIN w.disk : LibraryPaths(w, p) \subseteq P
    PROVE  Closure(w, S) \subseteq P
<1>1. PICK N : N = Cardinality(DOMAIN w.disk)
  OBVIOUS
<1>2. PICK r : r = FilesFrom(w, S)
  OBVIOUS
<1>3. /\ N \in Nat /\ r[0] = S
      /\ \A n \in 1..N : r[n] = OneMore(w, r[n - 1])
      /\ Closure(w, S) = r[N] \cap DOMAIN w.disk
  BY <1>1, <1>2, ClosureFacts
<1> DEFINE T == {n \in Nat : n <= N => r[n] \subseteq P}
<1>4. 0 \in T
  BY <1>3
<1>5. ASSUME NEW n \in Nat, n \in T
      PROVE  n + 1 \in T
  <2> SUFFICES ASSUME n + 1 <= N PROVE r[n + 1] \subseteq P
    OBVIOUS
  <2>1. n + 1 \in 1..N /\ n + 1 - 1 = n /\ n <= N
    BY <1>3
  <2>2. r[n] \subseteq P /\ r[n + 1] = r[n] \cup LibrariesOf(w, r[n])
    BY <1>3, <1>5, <2>1 DEF OneMore
  <2>3. LibrariesOf(w, r[n]) \subseteq P
    BY <2>2 DEF LibrariesOf
  <2>4. QED
    BY <2>2, <2>3
<1>6. N \in T
  <2> HIDE DEF T
  <2>1. QED
    BY <1>3, <1>4, <1>5, NatInd
<1>7. QED
  BY <1>3, <1>6

(* Files that lead from one to the next, from place a of s to place b.     *)
Chain(w, s, a, b) ==
    \A k \in a..(b - 1) : s[k] \in DOMAIN w.disk /\ s[k + 1] \in LibraryPaths(w, s[k])

(* The end of a chain is reached, if the chain is no longer than the disk. *)
LEMMA ChainReaches ==
    ASSUME NEW w \in Worlds, NEW S, NEW s, NEW a \in Nat, NEW b \in Nat, a <= b,
           b - a <= Cardinality(DOMAIN w.disk), Chain(w, s, a, b),
           s[a] \in S, s[b] \in DOMAIN w.disk
    PROVE  s[b] \in Closure(w, S)
<1>1. PICK N : N = Cardinality(DOMAIN w.disk)
  OBVIOUS
<1>2. PICK r : r = FilesFrom(w, S)
  OBVIOUS
<1>3. /\ N \in Nat /\ r[0] = S
      /\ \A n \in 1..N : r[n] = OneMore(w, r[n - 1])
      /\ Closure(w, S) = r[N] \cap DOMAIN w.disk
  BY <1>1, <1>2, ClosureFacts
<1>4. PICK d \in Nat : d = b - a /\ d <= N /\ a + d = b
  BY <1>1, <1>3
<1> DEFINE T == {n \in Nat : n <= d => s[a + n] \in r[n]}
<1>5. 0 \in T
  BY <1>3
<1>6. ASSUME NEW n \in Nat, n \in T
      PROVE  n + 1 \in T
  <2> SUFFICES ASSUME n + 1 <= d PROVE s[a + (n + 1)] \in r[n + 1]
    OBVIOUS
  <2>1. /\ n + 1 \in 1..N /\ n + 1 - 1 = n /\ n <= d
        /\ a + n \in a..(b - 1) /\ (a + n) + 1 = a + (n + 1)
    BY <1>3, <1>4
  <2>2. s[a + n] \in r[n]
    BY <1>6, <2>1
  <2>3. s[a + n] \in DOMAIN w.disk /\ s[a + (n + 1)] \in LibraryPaths(w, s[a + n])
    BY <2>1 DEF Chain
  <2>4. s[a + (n + 1)] \in LibrariesOf(w, r[n])
    BY <2>2, <2>3 DEF LibrariesOf
  <2>5. r[n + 1] = OneMore(w, r[n])
    BY <1>3, <2>1
  <2>6. QED
    BY <2>4, <2>5 DEF OneMore
<1>7. d \in T
  <2> HIDE DEF T
  <2>1. QED
    BY <1>5, <1>6, NatInd
<1>8. s[b] \in r[d]
  BY <1>4, <1>7
<1> DEFINE U == {n \in Nat : d + n <= N => s[b] \in r[d + n]}
<1>9. 0 \in U
  BY <1>8
<1>10. ASSUME NEW n \in Nat, n \in U
       PROVE  n + 1 \in U
  <2> SUFFICES ASSUME d + (n + 1) <= N PROVE s[b] \in r[d + (n + 1)]
    OBVIOUS
  <2>1. d + (n + 1) \in 1..N /\ d + (n + 1) - 1 = d + n /\ d + n <= N
    BY <1>3, <1>4
  <2>2. s[b] \in r[d + n]
    BY <1>10, <2>1
  <2>3. r[d + (n + 1)] = OneMore(w, r[d + n])
    BY <1>3, <2>1
  <2>4. QED
    BY <2>2, <2>3 DEF OneMore
<1>11. N - d \in Nat /\ d + (N - d) = N
  BY <1>3, <1>4
<1>12. N - d \in U
  <2> HIDE DEF U
  <2>1. QED
    BY <1>9, <1>10, <1>11, NatInd
<1>13. s[b] \in r[N]
  <2>1. d + (N - d) <= N
    BY <1>3, <1>11
  <2>2. QED
    BY <1>11, <1>12, <2>1
<1>14. QED
  BY <1>3, <1>13

-----------------------------------------------------------------------------
(* An image that has been parsed, compared with its file.                  *)

LEMMA LinkedNamesFacts ==
    ASSUME NEW f, f.commands \in Seq(Command)
    PROVE  /\ IsSeq(CommandsOf(f, LinkedDylibCommands)) /\ IsSeq(LinkedNames(f))
           /\ Len(LinkedNames(f)) = Len(CommandsOf(f, LinkedDylibCommands))
           /\ \A k \in 1..Len(LinkedNames(f)) :
                 LinkedNames(f)[k] = CommandsOf(f, LinkedDylibCommands)[k].name
<1>1. PICK N : N = Len(f.commands) /\ N \in 0..Len(f.commands)
  OBVIOUS
<1>2. PICK cs : cs = CommandsOf(f, LinkedDylibCommands) /\ IsSeq(cs)
  BY <1>1, CommandRows, RowsAreSeqs
<1>3. LinkedNames(f) = [k \in DOMAIN cs |-> cs[k].name]
  BY <1>2 DEF LinkedNames
<1> DEFINE S == {cs[k].name : k \in DOMAIN cs}
           names == [k \in DOMAIN cs |-> cs[k].name]
<1>4. DOMAIN cs = 1..Len(cs) /\ Len(cs) \in Nat
  BY <1>2, IsSeqFacts
<1>5. names \in Seq(S) /\ Len(names) = Len(cs) /\ \A k \in 1..Len(cs) : names[k] = cs[k].name
  BY <1>4
<1> HIDE DEF S, names
<1>6. IsSeq(names)
  BY <1>5, SeqIsSeq
<1>7. QED
  BY <1>2, <1>3, <1>5, <1>6 DEF names

(* What the loader goes by is what the file says.                          *)
LEMMA ParsedFacts ==
    ASSUME NEW w \in Worlds, NEW i, NEW img, Good(w, i, img), img.pc # "parse",
           img.path \in DOMAIN w.disk, NEW f, f = w.disk[img.path]
    PROVE  /\ f.commands \in Seq(Command) /\ Parseable(f)
           /\ IsSeq(LinkedNames(f)) /\ Len(LinkedNames(f)) = Len(img.libraries)
           /\ \A k \in 1..Len(img.libraries) : LinkedNames(f)[k] = img.libraries[k]
           /\ RpathOf(f) = img.rpath /\ Fixups(f) = img.fixups
           /\ \A k \in 1..Len(img.symbols) : img.symbols[k] \in SymbolTable(f)
<1>1. f = DiskFile(w, img) /\ f.commands \in Seq(Command)
  <2>1. IsFile(f)
    BY WorldsAssumption DEF IsWorld
  <2>2. QED
    BY <2>1 DEF DiskFile, IsFile
<1>2. PICK N : N = Len(f.commands) /\ N \in Nat
  BY <1>1
<1>3. ParsedOK(f, N, img)
  BY <1>1, <1>2 DEF Good, Read
<1>4. /\ CommandsUpTo(f, LinkedDylibCommands, N) = CommandsOf(f, LinkedDylibCommands)
      /\ CommandsUpTo(f, {"LC_SEGMENT_64"}, N) = CommandsOf(f, {"LC_SEGMENT_64"})
  BY <1>1, <1>2, CommandRows
<1>5. /\ NamesOK(img, CommandsOf(f, LinkedDylibCommands))
      /\ SegmentsOK(img, CommandsOf(f, {"LC_SEGMENT_64"}))
      /\ SymbolsOK(f, img) /\ RpathOK(f, N, img) /\ FixupsOK(f, N, img)
  BY <1>3, <1>4 DEF ParsedOK, Collected
<1>6. /\ IsSeq(LinkedNames(f)) /\ Len(LinkedNames(f)) = Len(img.libraries)
      /\ \A k \in 1..Len(img.libraries) : LinkedNames(f)[k] = img.libraries[k]
  BY <1>1, <1>5, LinkedNamesFacts DEF NamesOK
<1>7. RpathOf(f) = img.rpath
  <2>1. PICK k \in 0..N : /\ InForce(f, "LC_RPATH", N, k)
                          /\ img.rpath = IF k = 0 THEN "" ELSE f.commands[k].path
    BY <1>5 DEF RpathOK
  <2>2. LastCommand(f, "LC_RPATH") = k
    BY <1>1, <1>2, <2>1, ForceEnds
  <2>3. QED
    BY <2>1, <2>2, Zenon DEF RpathOf
<1>8. Fixups(f) = img.fixups
  <2>1. CASE HasFixups(f, N)
    BY <1>5, <2>1 DEF FixupsOK, Fixups
  <2>2. CASE ~HasFixups(f, N)
    <3> DEFINE I == {k \in 1..Len(f.commands) : f.commands[k].cmd = "LC_DYLD_CHAINED_FIXUPS"}
    <3>1. I = {}
      BY <1>2, <2>2 DEF HasFixups
    <3>2. SelectInSeq(f.commands, LAMBDA c : c.cmd = "LC_DYLD_CHAINED_FIXUPS") =
            IF I # {} THEN Min(I) ELSE 0
      BY DEF SelectInSeq
    <3>3. chained_fixups_parse_all(f) = << >>
      BY <3>1, <3>2 DEF chained_fixups_parse_all
    <3>4. QED
      BY <1>5, <2>2, <3>3 DEF FixupsOK, Fixups
  <2>3. QED
    BY <2>1, <2>2
<1>9. Parseable(f)
  <2>1. f.filetype # "unsupported" /\ Len(img.libraries) <= MAX_DEPENDENCIES
    BY <1>3 DEF ParsedOK
  <2>2. ASSUME NEW c \in ToSet(f.commands) PROVE Acceptable(f, c)
    <3>1. PICK k \in 1..N : c = f.commands[k]
      BY <1>1, <1>2 DEF ToSet
    <3>2. QED
      BY <1>3, <3>1 DEF ParsedOK
  <2>3. /\ Len(img.libraries) <= ARRAY_CAPACITY
        /\ Len(CommandsOf(f, {"LC_SEGMENT_64"})) <= ARRAY_CAPACITY
    BY <1>5 DEF NamesOK, SegmentsOK
  <2>4. QED
    BY <1>6, <2>1, <2>2, <2>3 DEF Parseable
<1>10. \A k \in 1..Len(img.symbols) : img.symbols[k] \in SymbolTable(f)
  BY <1>5 DEF SymbolsOK
<1>11. QED
  BY <1>1, <1>6, <1>7, <1>8, <1>9, <1>10

(* A library of a finished image has been loaded after it, from the place  *)
(* that the reference names.                                               *)
LEMMA LibrariesAreLoaded ==
    ASSUME IInv, PInv, NEW i \in 1..Len(images), images[i].pc = "done",
           NEW n \in UserNames(world, world.disk[images[i].path])
    PROVE  /\ ~RpathUnimplemented(n, RpathOf(world.disk[images[i].path]))
           /\ \E j \in 1..Len(images) :
                 /\ i < j
                 /\ images[j].path =
                       DiskPath(n, RpathOf(world.disk[images[i].path]), world.exec_dir)
<1>1. PICK img, f : img = images[i] /\ f = world.disk[img.path]
  OBVIOUS
<1>2. /\ world \in Worlds /\ Good(world, i, img) /\ img.pc # "parse"
      /\ img.path \in DOMAIN world.disk /\ ImageOK(img) /\ LibsOK(img)
  BY <1>1 DEF IInv, Typed, LinksOK, PInv
<1>3. /\ IsSeq(LinkedNames(f)) /\ Len(LinkedNames(f)) = Len(img.libraries)
      /\ \A k \in 1..Len(img.libraries) : LinkedNames(f)[k] = img.libraries[k]
      /\ RpathOf(f) = img.rpath
  BY <1>1, <1>2, ParsedFacts
<1>4. Len(img.libs) = Len(img.libraries)
  BY <1>1, <1>2 DEF ImageOK, PhaseOK
<1>5. n \in ToSet(LinkedNames(f)) /\ n \notin DOMAIN world.cache
  BY <1>1 DEF UserNames
<1>6. PICK k \in 1..Len(img.libraries) : n = img.libraries[k]
  <2>1. DOMAIN LinkedNames(f) = 1..Len(img.libraries)
    BY <1>3, IsSeqFacts
  <2>2. QED
    BY <1>3, <1>5, <2>1 DEF ToSet
<1>7. LibOK(img, img.libs[k], n)
  BY <1>2, <1>4, <1>6 DEF LibsOK
<1>8. /\ img.libs[k].kind = "user" /\ Finished(img.libs[k].image)
      /\ images[img.libs[k].image].path = DiskPath(n, img.rpath, world.exec_dir)
  BY <1>5, <1>7 DEF LibOK
<1>9. i < img.libs[k].image /\ ~RpathUnimplemented(n, img.rpath)
  BY <1>2, <1>4, <1>6, <1>8 DEF Good, LoadedOK
<1>10. QED
  BY <1>1, <1>3, <1>8, <1>9 DEF Finished

(* A bind of a finished image has a definition to go to.                   *)
LEMMA BindsAreBound ==
    ASSUME IInv, PInv, NEW i \in 1..Len(images), images[i].pc = "done",
           NEW f, f = world.disk[images[i].path], NEW fix \in ToSet(Fixups(f)),
           fix.kind = "bind"
    PROVE  Binds(world, f, fix)
<1>1. PICK img : img = images[i] /\ f = world.disk[img.path]
  OBVIOUS
<1>2. /\ world \in Worlds /\ Good(world, i, img) /\ img.pc # "parse"
      /\ img.path \in DOMAIN world.disk /\ ImageShape(img) /\ PhaseOK(img) /\ LibsOK(img)
      /\ img.pc = "done"
  BY <1>1 DEF IInv, Typed, ImageOK, LinksOK, PInv
<1>3. /\ IsSeq(LinkedNames(f)) /\ Len(LinkedNames(f)) = Len(img.libraries)
      /\ \A k \in 1..Len(img.libraries) : LinkedNames(f)[k] = img.libraries[k]
      /\ RpathOf(f) = img.rpath /\ Fixups(f) = img.fixups
      /\ \A k \in 1..Len(img.symbols) : img.symbols[k] \in SymbolTable(f)
  BY <1>1, <1>2, ParsedFacts
<1>4. /\ Len(img.libs) = Len(img.libraries) /\ Len(img.mem) = Len(img.fixups)
      /\ img.fixups \in Seq(Fixup)
  BY <1>2 DEF PhaseOK, Wired, ImageShape
<1>5. PICK k \in 1..Len(img.mem) : fix = img.fixups[k]
  BY <1>3, <1>4 DEF ToSet
<1>6. PICK target : Bound(world, i, img, fix, target)
  BY <1>2, <1>5 DEF Good, BoundOK, PointerOK
<1>7. CASE /\ fix.ordinal = BIND_SPECIAL_DYLIB_WEAK_LOOKUP
           /\ \E l \in 1..Len(img.symbols) : img.symbols[l].name = fix.symbol
  BY <1>3, <1>7 DEF Binds
<1>8. CASE /\ fix.ordinal \in 1..Len(img.libs)
           /\ fix.ordinal # BIND_SPECIAL_DYLIB_WEAK_LOOKUP
           /\ Defines(world, img.libs[fix.ordinal], img.rpath, fix.symbol, target)
  <2>1. PICK o : o = fix.ordinal
    OBVIOUS
  <2>2. PICK lib, n : lib = img.libs[o] /\ n = img.libraries[o]
    OBVIOUS
  <2>3. /\ o \in 1..Len(img.libraries) /\ n = LinkedNames(f)[o]
        /\ o \in DOMAIN LinkedNames(f)
    BY <1>3, <1>4, <1>8, <2>1, <2>2, IsSeqFacts
  <2>4. LibOK(img, lib, n)
    BY <1>2, <1>4, <2>2, <2>3 DEF LibsOK
  <2>5. Defines(world, lib, img.rpath, fix.symbol, target)
    BY <1>8, <2>1, <2>2
  <2>6. lib.name = n /\ (lib.kind = "system" <=> n \in DOMAIN world.cache)
    BY <2>4 DEF LibOK
  <2>7. IF n \in DOMAIN world.cache
        THEN fix.symbol \in world.cache[n]
        ELSE LET e == world.disk[DiskPath(n, RpathOf(f), world.exec_dir)]
             IN  /\ fix.symbol \in DOMAIN ExportsRead(e)
                 /\ ExportsRead(e)[fix.symbol].kind = "defined"
    BY <1>3, <2>5, <2>6 DEF Defines
  <2>8. QED
    BY <1>8, <2>1, <2>3, <2>7 DEF Binds
<1>9. QED
  BY <1>6, <1>7, <1>8 DEF Bound

(* A pointer that has been written is the one its fixup asks for.          *)
LEMMA PointersAreRight == IInv /\ PInv => PointersDenote
<1> SUFFICES ASSUME IInv, PInv, NEW i \in Images, NEW k \in DOMAIN images[i].mem
             PROVE  /\ images[i].mem[k][1] = Fixups(FileOf(i))[k].offset + PageZeroOf(i)
                    /\ Denotes(i, Fixups(FileOf(i))[k], images[i].mem[k][2])
  BY DEF PointersDenote
<1>1. i \in 1..Len(images) /\ Images = 1..Len(images)
  BY IsSeqFacts DEF IInv, Typed, Images
<1>2. PICK img, f : img = images[i] /\ f = world.disk[img.path]
  OBVIOUS
<1>3. /\ world \in Worlds /\ Good(world, i, img) /\ img.path \in DOMAIN world.disk
      /\ ImageShape(img) /\ PhaseOK(img) /\ LibsOK(img)
  BY <1>1, <1>2 DEF IInv, Typed, ImageOK, LinksOK, PInv
<1>4. k \in 1..Len(img.mem) /\ Len(img.mem) \in Nat /\ f = FileOf(i)
  BY <1>2, <1>3, IsSeqFacts DEF ImageShape, IsSeq, FileOf
<1>5. img.pc \notin {"parse", "load", "map"}
  BY <1>3, <1>4, EmptyIsSeq DEF PhaseOK
<1>6. /\ IsSeq(LinkedNames(f)) /\ Len(LinkedNames(f)) = Len(img.libraries)
      /\ \A l \in 1..Len(img.libraries) : LinkedNames(f)[l] = img.libraries[l]
      /\ RpathOf(f) = img.rpath /\ Fixups(f) = img.fixups
      /\ \A l \in 1..Len(img.symbols) : img.symbols[l] \in SymbolTable(f)
  BY <1>2, <1>3, <1>5, ParsedFacts
<1>7. PICK fix, target : fix = img.fixups[k] /\ target = img.mem[k][2]
  OBVIOUS
<1>8. /\ img.mem[k][1] = fix.offset + PageZeroOf(i)
      /\ fix.kind = "rebase" => target = ImageAddress(i, fix.target + PageZeroOf(i))
      /\ fix.kind = "bind" => Bound(world, i, img, fix, target)
  BY <1>2, <1>3, <1>4, <1>7 DEF Good, BoundOK, PointerOK, Base, PageZeroOf
<1>9. k \in 1..Len(img.fixups) /\ fix \in Fixup
  BY <1>3, <1>4, <1>5, <1>7 DEF PhaseOK, Wired, ImageShape, Phase, Phases
<1>10. fix.kind \in {"rebase", "bind"}
  BY <1>9 DEF Fixup, RebaseFixup, BindFixup
<1>11. ASSUME fix.kind = "rebase" PROVE Denotes(i, fix, target)
  BY <1>8, <1>11, Zenon DEF Denotes
<1>12. ASSUME fix.kind = "bind", fix.ordinal = BIND_SPECIAL_DYLIB_WEAK_LOOKUP
       PROVE  Denotes(i, fix, target)
  <2>1. PICK l \in 1..Len(img.symbols) :
            img.symbols[l].name = fix.symbol /\ target = ImageAddress(i, img.symbols[l].impl_offset)
    BY <1>8, <1>12 DEF Bound
  <2>2. QED
    BY <1>4, <1>6, <1>12, <2>1 DEF Denotes
<1>13. ASSUME fix.kind = "bind", fix.ordinal # BIND_SPECIAL_DYLIB_WEAK_LOOKUP
       PROVE  Denotes(i, fix, target)
  <2>1. PICK o, lib, n : o = fix.ordinal /\ lib = img.libs[o] /\ n = img.libraries[o]
    OBVIOUS
  <2>2. o \in 1..Len(img.libs) /\ Defines(world, lib, img.rpath, fix.symbol, target)
    BY <1>8, <1>13, <2>1 DEF Bound
  <2>3. o \in DOMAIN LinkedNames(f) /\ n = LinkedNames(f)[o] /\ LibOK(img, lib, n)
    BY <1>3, <1>5, <1>6, <2>1, <2>2, IsSeqFacts DEF PhaseOK, LibsOK
  <2>4. PICK path, e : path = DiskPath(n, img.rpath, world.exec_dir) /\ e = world.disk[path]
    OBVIOUS
  <2>5. CASE n \in DOMAIN world.cache
    <3>1. target = [space |-> "cache", library |-> n, symbol |-> fix.symbol]
      BY <2>2, <2>3, <2>5 DEF LibOK, Defines
    <3>2. QED
      BY <1>4, <1>13, <2>1, <2>3, <2>5, <3>1 DEF Denotes
  <2>6. CASE n \notin DOMAIN world.cache
    <3>1. lib.kind = "user" /\ lib.name = n /\ Finished(lib.image) /\ images[lib.image].path = path
      BY <2>3, <2>4, <2>6 DEF LibOK
    <3>2. PICK exports : exports = ExportsRead(e)
      OBVIOUS
    <3>3. /\ fix.symbol \in DOMAIN exports /\ exports[fix.symbol].kind = "defined"
          /\ target = ImageAddress(lib.image, exports[fix.symbol].offset)
      BY <2>2, <2>4, <3>1, <3>2 DEF Defines
    <3>4. /\ target.space = "image" /\ target.image \in Images /\ images[target.image].path = path
          /\ target.offset = exports[fix.symbol].offset
      BY <1>1, <3>1, <3>3 DEF ImageAddress, Finished
    <3>5. ReadInPlace(e) => exports = e.exports
      BY <3>2 DEF ExportsRead
    <3>6. QED
      BY <1>4, <1>6, <1>13, <2>1, <2>3, <2>4, <2>6, <3>3, <3>4, <3>5 DEF Denotes
  <2>7. QED
    BY <2>5, <2>6
<1>14. QED
  BY <1>2, <1>4, <1>6, <1>7, <1>8, <1>10, <1>11, <1>12, <1>13

(* PointersDenote: every pointer that fixup_all_chained_fixups has written *)
(* is at its fixup's place and leads where the files say, for all files:   *)
(* through ordinals, rpaths, copies of libraries and both kinds of bases.  *)
THEOREM PointsWhereFilesSay == Spec => []PointersDenote
<1>1. QED
  BY LoaderInvariant, ImagesAgreeWithFiles, PointersAreRight, PTL

-----------------------------------------------------------------------------
(* A program that is entered is linkable.                                  *)

(* Where the images were loaded from, from number i on.                    *)
PathsFrom(i) == {images[j].path : j \in {k \in 1..Len(images) : i <= k}}

(* The libraries of what has been loaded have been loaded, later.          *)
LEMMA LoadedIsClosed ==
    ASSUME IInv, PInv, outcome = "entered", NEW i \in 1..Len(images)
    PROVE  /\ LibraryPaths(world, images[i].path) \subseteq PathsFrom(i + 1)
           /\ LibraryPaths(world, images[i].path) \subseteq DOMAIN world.disk
           /\ LibrariesPresent(world, images[i].path)
<1>1. images[i].pc = "done" /\ Len(images) \in Nat
  BY CurFacts DEF IInv, StackOK
<1>2. PICK f : f = world.disk[images[i].path]
  OBVIOUS
<1>3. ASSUME NEW q \in LibraryPaths(world, images[i].path)
      PROVE  q \in PathsFrom(i + 1) /\ q \in DOMAIN world.disk
  <2>1. PICK n \in UserNames(world, f) : q = DiskPath(n, RpathOf(f), world.exec_dir)
    BY <1>2 DEF LibraryPaths
  <2>2. PICK j \in 1..Len(images) : i < j /\ images[j].path = q
    BY <1>1, <1>2, <2>1, LibrariesAreLoaded
  <2>3. i + 1 <= j
    BY <1>1, <2>2
  <2>4. QED
    BY <2>2, <2>3 DEF PathsFrom, IInv, Typed
<1>4. ASSUME NEW n \in UserNames(world, f)
      PROVE  ~RpathUnimplemented(n, RpathOf(f))
  BY <1>1, <1>2, LibrariesAreLoaded
<1>5. QED
  BY <1>2, <1>3, <1>4 DEF LibrariesPresent

(* Every file that is reached has been loaded.                             *)
LEMMA ReachableIsLoaded ==
    ASSUME IInv, PInv, outcome = "entered", NEW p \in Reachable(world)
    PROVE  \E i \in 1..Len(images) : images[i].path = p
<1>1. PICK P : P = PathsFrom(1)
  OBVIOUS
<1>2. 1 \in 1..Len(images) /\ Len(images) \in Nat /\ world \in Worlds
  BY CurFacts DEF IInv, Typed
<1>3. {world.exe} \subseteq P
  BY <1>1, <1>2 DEF PathsFrom, PInv
<1>4. ASSUME NEW q \in P \cap DOMAIN world.disk
      PROVE  LibraryPaths(world, q) \subseteq P
  <2>1. PICK i \in 1..Len(images) : images[i].path = q
    BY <1>1 DEF PathsFrom
  <2>2. PathsFrom(i + 1) \subseteq P
    BY <1>1, <1>2 DEF PathsFrom
  <2>3. QED
    BY <2>1, <2>2, LoadedIsClosed
<1>5. Reachable(world) \subseteq P
  BY <1>2, <1>3, <1>4, ClosureWithin DEF Reachable
<1>6. QED
  BY <1>1, <1>5 DEF PathsFrom

(* A library needs no file that leads to it: the last copy of a file was   *)
(* loaded before everything that it leads to.                              *)
LEMMA EnteredIsAcyclic ==
    ASSUME IInv, PInv, outcome = "entered"
    PROVE  ~Cyclic(world)
<1> SUFFICES ASSUME NEW p \in Reachable(world),
                    p \in Closure(world, LibraryPaths(world, p))
             PROVE  FALSE
  BY DEF Cyclic
<1>1. Len(images) \in Nat /\ world \in Worlds
  BY CurFacts DEF IInv, Typed
<1> DEFINE I == {i \in 1..Len(images) : images[i].path = p}
<1>2. I # {} /\ I \subseteq Nat /\ \A i \in I : i <= Len(images)
  BY <1>1, ReachableIsLoaded
<1>3. PICK i : i \in I /\ \A j \in I : j <= i
  <2> HIDE DEF I
  <2>1. PICK m : m = Max(I)
    OBVIOUS
  <2>2. m \in I /\ \A j \in I : j <= m
    BY <1>1, <1>2, <2>1, MaxFacts
  <2>3. QED
    BY <2>2
<1>4. i \in 1..Len(images) /\ images[i].path = p
  BY <1>3
<1>5. PICK P : P = PathsFrom(i + 1)
  OBVIOUS
<1>6. LibraryPaths(world, p) \subseteq P
  BY <1>4, <1>5, LoadedIsClosed
<1>7. ASSUME NEW q \in P \cap DOMAIN world.disk
      PROVE  LibraryPaths(world, q) \subseteq P
  <2>1. PICK j \in 1..Len(images) : i + 1 <= j /\ images[j].path = q
    BY <1>5 DEF PathsFrom
  <2>2. PathsFrom(j + 1) \subseteq P
    BY <1>1, <1>4, <1>5, <2>1 DEF PathsFrom
  <2>3. QED
    BY <2>1, <2>2, LoadedIsClosed
<1>8. PICK S : S = LibraryPaths(world, p)
  OBVIOUS
<1>9. Closure(world, S) \subseteq P
  BY <1>1, <1>6, <1>7, <1>8, ClosureWithin
<1>10. p \in P
  BY <1>8, <1>9
<1>11. PICK j \in 1..Len(images) : i + 1 <= j /\ images[j].path = p
  BY <1>5, <1>10 DEF PathsFrom
<1>12. j <= i
  BY <1>3, <1>11
<1>13. QED
  BY <1>1, <1>4, <1>11, <1>12

(* What has been loaded, parsed, bound and finished is linkable.           *)
LEMMA EnteredIsLinkable ==
    ASSUME IInv, PInv, outcome = "entered"
    PROVE  LinkableProgram(world)
<1>1. ASSUME NEW p \in Reachable(world)
      PROVE  /\ Parseable(world.disk[p]) /\ LibrariesPresent(world, p)
             /\ \A fix \in ToSet(Fixups(world.disk[p])) :
                   fix.kind = "bind" => Binds(world, world.disk[p], fix)
  <2>1. PICK i \in 1..Len(images) : images[i].path = p
    BY ReachableIsLoaded
  <2>2. /\ images[i].pc = "done" /\ world \in Worlds /\ Good(world, i, images[i])
        /\ p \in DOMAIN world.disk
    BY <2>1 DEF IInv, StackOK, Typed, PInv
  <2>3. PICK f : f = world.disk[p]
    OBVIOUS
  <2>4. PICK img : img = images[i] /\ img.path = p /\ img.pc # "parse"
    BY <2>1, <2>2
  <2>5. Parseable(f)
    BY <2>2, <2>3, <2>4, ParsedFacts
  <2>6. LibrariesPresent(world, p)
    BY <2>1, LoadedIsClosed
  <2>7. \A fix \in ToSet(Fixups(f)) : fix.kind = "bind" => Binds(world, f, fix)
    BY <2>1, <2>2, <2>3, BindsAreBound
  <2>8. QED
    BY <2>3, <2>5, <2>6, <2>7
<1>2. QED
  BY <1>1, EnteredIsAcyclic DEF LinkableProgram

(* EntersOnlyLinkable: for every file system, a program that dynld enters  *)
(* satisfies the reference definition, which is stated on the files alone: *)
(* macho_parser accepts every file it leads to, every library is where its *)
(* install name says, none needs itself, and every bind has a definition.  *)
THEOREM EntersLinkableOnly == Spec => []EntersOnlyLinkable
<1>1. IInv /\ PInv => EntersOnlyLinkable
  BY EnteredIsLinkable DEF EntersOnlyLinkable
<1>2. QED
  BY <1>1, LoaderInvariant, ImagesAgreeWithFiles, PTL

-----------------------------------------------------------------------------
(* The stack overflows on a cycle only.                                    *)

(* The library an image asks for is one of its file's libraries.           *)
LEMMA WantedIsLibrary ==
    ASSUME IInv, PInv, NEW i \in 1..Len(images), NEW img, img = images[i],
           img.pc = "load", img.at < Len(img.libraries), Wanted(img) \notin DOMAIN world.cache
    PROVE  /\ img.path \in DOMAIN world.disk
           /\ DiskPath(Wanted(img), img.rpath, world.exec_dir) \in LibraryPaths(world, img.path)
<1>1. PICK f : f = world.disk[img.path]
  OBVIOUS
<1>2. /\ world \in Worlds /\ Good(world, i, img) /\ img.path \in DOMAIN world.disk
      /\ img.pc # "parse" /\ img.at \in Nat /\ Len(img.libraries) \in Nat
  BY DEF IInv, Typed, PInv, ImageOK, ImageShape
<1>3. /\ IsSeq(LinkedNames(f)) /\ Len(LinkedNames(f)) = Len(img.libraries)
      /\ \A k \in 1..Len(img.libraries) : LinkedNames(f)[k] = img.libraries[k]
      /\ RpathOf(f) = img.rpath
  BY <1>1, <1>2, ParsedFacts
<1>4. PICK k \in 1..Len(img.libraries) : k = img.at + 1
  BY <1>2
<1>5. LinkedNames(f)[k] = Wanted(img) /\ k \in DOMAIN LinkedNames(f)
  BY <1>3, <1>4, IsSeqFacts DEF Wanted
<1>6. Wanted(img) \in UserNames(world, f)
  BY <1>5 DEF UserNames, ToSet
<1>7. QED
  BY <1>1, <1>2, <1>3, <1>6 DEF LibraryPaths

(* The files of the activations on the stack, and last the one that there  *)
(* is no room for.                                                         *)
Nested(k) ==
    IF k <= Len(stack) THEN images[stack[k]].path
    ELSE DiskPath(Wanted(Img), Img.rpath, world.exec_dir)

LEMMA NestedIsChain ==
    ASSUME IInv, PInv, outcome = "overflow", NEW k \in 1..Len(stack)
    PROVE  /\ Nested(k) \in DOMAIN world.disk /\ Nested(k + 1) \in DOMAIN world.disk
           /\ Nested(k + 1) \in LibraryPaths(world, Nested(k))
<1>1. /\ Len(stack) \in Nat /\ k <= Len(stack) /\ k + 1 \in Nat
      /\ stack[k] \in 1..Len(images)
  BY CurFacts DEF IInv, StackOK
<1>2. PICK i, img : i = stack[k] /\ img = images[i] /\ i \in 1..Len(images)
  BY <1>1
<1>3. Nested(k) = img.path /\ img.path \in DOMAIN world.disk
  BY <1>1, <1>2 DEF Nested, IInv, Typed
<1>4. CASE k < Len(stack)
  <2>1. k \in 1..(Len(stack) - 1) /\ k + 1 <= Len(stack)
    BY <1>1, <1>4
  <2>2. Waiting(stack[k], stack[k + 1]) /\ stack[k + 1] \in 1..Len(images)
    BY <2>1, WaitingFacts DEF IInv, ChainOK
  <2>3. Nested(k + 1) = images[stack[k + 1]].path
    BY <2>1 DEF Nested
  <2>4. Nested(k + 1) \in DOMAIN world.disk
    BY <2>2, <2>3 DEF IInv, Typed
  <2>5. /\ img.pc = "load" /\ img.at < Len(img.libraries)
        /\ Wanted(img) \notin DOMAIN world.cache
        /\ Nested(k + 1) = DiskPath(Wanted(img), img.rpath, world.exec_dir)
    BY <1>2, <2>2, <2>3 DEF Waiting, Wanted
  <2>6. QED
    BY <1>2, <1>3, <2>4, <2>5, WantedIsLibrary
<1>5. CASE k = Len(stack)
  <2>1. img = Img /\ ~(k + 1 <= Len(stack))
    BY <1>1, <1>2, <1>5 DEF Img, Cur
  <2>2. Nested(k + 1) = DiskPath(Wanted(img), img.rpath, world.exec_dir)
    BY <2>1 DEF Nested
  <2>3. /\ img.pc = "load" /\ img.at < Len(img.libraries)
        /\ Wanted(img) \notin DOMAIN world.cache
        /\ Nested(k + 1) \in DOMAIN world.disk
    BY <2>1, <2>2 DEF PInv, OverflowOK
  <2>4. QED
    BY <1>2, <1>3, <2>2, <2>3, WantedIsLibrary
<1>6. QED
  BY <1>1, <1>4, <1>5

(* More activations than files: one file is on the stack twice, and leads  *)
(* to itself.                                                              *)
LEMMA OverflowIsCyclic ==
    ASSUME StackHoldsAll, IInv, PInv, outcome = "overflow"
    PROVE  Cyclic(world)
<1>1. PICK N, R : N = Cardinality(DOMAIN world.disk) /\ R = Cardinality(Reachable(world))
  OBVIOUS
<1>2. world \in Worlds /\ IsFiniteSet(DOMAIN world.disk)
  BY WorldsAssumption DEF IInv, Typed, IsWorld
<1>3. /\ Reachable(world) \subseteq DOMAIN world.disk /\ IsFiniteSet(Reachable(world))
      /\ N \in Nat /\ R \in Nat /\ R <= N
  <2>1. Reachable(world) \subseteq DOMAIN world.disk
    BY DEF Reachable, Closure
  <2>2. QED
    BY <1>1, <1>2, <2>1, FS_Subset, FS_CardinalityType
<1>4. Len(stack) \in Nat /\ R <= Len(stack)
  <2>1. R <= StackLimit /\ StackLimit \in Nat /\ StackLimit <= Len(stack) /\ Len(stack) \in Nat
    BY <1>1, <1>2, CurFacts, LimitsAssumption DEF StackHoldsAll, PInv, OverflowOK
  <2>2. QED
    BY <1>3, <2>1
<1>5. PICK s : s = [k \in 1..(R + 1) |-> Nested(k)]
  OBVIOUS
<1>6. ASSUME NEW k \in 1..(R + 1)
      PROVE  s[k] \in DOMAIN world.disk
  <2>1. CASE k = R + 1 /\ R > 0
    <3>1. R \in 1..Len(stack)
      BY <1>3, <1>4, <2>1
    <3>2. QED
      BY <1>5, <2>1, <3>1, NestedIsChain
  <2>2. CASE k <= R \/ R = 0
    <3>1. k \in 1..Len(stack)
      BY <1>3, <1>4, <2>2, CurFacts
    <3>2. QED
      BY <1>5, <3>1, NestedIsChain
  <2>3. QED
    BY <1>3, <2>1, <2>2
<1>7. ASSUME NEW k \in 1..R
      PROVE  s[k + 1] \in LibraryPaths(world, s[k])
  <2>1. k \in 1..Len(stack) /\ k \in 1..(R + 1) /\ k + 1 \in 1..(R + 1)
    BY <1>3, <1>4
  <2>2. QED
    BY <1>5, <2>1, NestedIsChain
<1>8. ASSUME NEW a \in 1..(R + 1), NEW b \in 1..(R + 1)
      PROVE  Chain(world, s, a, b)
  <2> SUFFICES ASSUME NEW k \in a..(b - 1)
               PROVE  s[k] \in DOMAIN world.disk /\ s[k + 1] \in LibraryPaths(world, s[k])
    BY DEF Chain
  <2>1. k \in 1..R /\ k \in 1..(R + 1)
    BY <1>3
  <2>2. QED
    BY <1>6, <1>7, <2>1
<1>9. s[1] = world.exe
  <2>1. 1 \in 1..(R + 1) /\ 1 <= Len(stack)
    BY <1>3, CurFacts
  <2>2. QED
    BY <1>5, <2>1 DEF Nested, PInv
<1>10. ASSUME NEW k \in 1..(R + 1)
       PROVE  s[k] \in Reachable(world)
  <2>1. /\ k \in Nat /\ 1 \in Nat /\ 1 <= k /\ k - 1 <= N /\ 1 \in 1..(R + 1)
    BY <1>3
  <2>2. PICK S : S = {world.exe}
    OBVIOUS
  <2>3. s[k] \in Closure(world, S)
    BY <1>1, <1>2, <1>6, <1>8, <1>9, <2>1, <2>2, ChainReaches
  <2>4. QED
    BY <2>2, <2>3 DEF Reachable
<1>11. PICK x, y \in 1..(R + 1) : x # y /\ s[x] = s[y]
  <2>1. s \in [1..(R + 1) -> Reachable(world)]
    BY <1>5, <1>10
  <2>2. IsFiniteSet(1..(R + 1)) /\ Cardinality(1..(R + 1)) = R + 1
    BY <1>3, FS_Interval
  <2>3. Cardinality(Reachable(world)) < Cardinality(1..(R + 1))
    BY <1>1, <1>3, <2>2
  <2>4. QED
    BY <1>3, <2>1, <2>2, <2>3, FS_PigeonHole
<1>12. PICK a, b \in 1..(R + 1) : a < b /\ s[a] = s[b]
  <2>1. x < y \/ y < x
    BY <1>3, <1>11
  <2>2. QED
    BY <1>11, <2>1
<1>13. /\ a + 1 \in Nat /\ b \in Nat /\ a + 1 <= b /\ b - (a + 1) <= N
       /\ a + 1 \in 1..(R + 1) /\ a \in 1..R
  BY <1>3, <1>12
<1>14. PICK S : S = LibraryPaths(world, s[a])
  OBVIOUS
<1>15. s[a + 1] \in S /\ s[b] \in DOMAIN world.disk /\ Chain(world, s, a + 1, b)
  BY <1>6, <1>7, <1>8, <1>12, <1>13, <1>14
<1>16. s[b] \in Closure(world, S)
  BY <1>1, <1>2, <1>13, <1>15, ChainReaches
<1>17. s[a] \in Reachable(world) /\ s[a] \in Closure(world, LibraryPaths(world, s[a]))
  BY <1>10, <1>12, <1>14, <1>16
<1>18. QED
  BY <1>17 DEF Cyclic

(* OverflowsOnlyOnCycles: if the process stack has room for as many nested *)
(* calls of macho_loader as the program has files, the recursion runs out  *)
(* of it only when libraries need each other in a cycle, however many      *)
(* copies of a library it loads.                                           *)
THEOREM OverflowNeedsCycle == StackHoldsAll => (Spec => []OverflowsOnlyOnCycles)
<1> SUFFICES ASSUME StackHoldsAll PROVE Spec => []OverflowsOnlyOnCycles
  OBVIOUS
<1>1. IInv /\ PInv => OverflowsOnlyOnCycles
  BY OverflowIsCyclic DEF OverflowsOnlyOnCycles
<1>2. QED
  BY <1>1, LoaderInvariant, ImagesAgreeWithFiles, PTL

-----------------------------------------------------------------------------
(* The types of the loader's data.                                         *)

(* FlattenSeq joins sequences one after another.                           *)
Joins(g, s, N) ==
    g = [i \in 1..N |-> IF i = 1 THEN s[i] ELSE g[i - 1] \o s[i]]

LEMMA JoinsFacts ==
    ASSUME NEW s, NEW N \in Nat, NEW g
    PROVE  Joins(g, s, N) <=>
             /\ g = [i \in 1..N |-> g[i]]
             /\ \A i \in 1..N : g[i] = IF i = 1 THEN s[i] ELSE g[i - 1] \o s[i]
<1> DEFINE row(i) == IF i = 1 THEN s[i] ELSE g[i - 1] \o s[i]
<1>1. Joins(g, s, N) <=> g = [i \in 1..N |-> row(i)]
  BY DEF Joins
<1> HIDE DEF row
<1>2. g = [i \in 1..N |-> row(i)] <=> g = [i \in 1..N |-> g[i]] /\ \A i \in 1..N : g[i] = row(i)
  OBVIOUS
<1>3. QED
  BY <1>1, <1>2 DEF row

LEMMA JoinsExist ==
    ASSUME NEW s, NEW N \in Nat
    PROVE  \E g : Joins(g, s, N)
<1> DEFINE T == {m \in Nat : \E g : Joins(g, s, m)}
<1>1. 0 \in T
  <2> DEFINE g == [i \in 1..0 |-> s]
  <2>1. 0 \in Nat /\ g = [i \in 1..0 |-> g[i]] /\ \A i \in 1..0 : FALSE
    OBVIOUS
  <2> HIDE DEF g
  <2>2. Joins(g, s, 0)
    BY <2>1, JoinsFacts
  <2>3. QED
    BY <2>2
<1>2. ASSUME NEW m \in Nat, m \in T
      PROVE  m + 1 \in T
  <2>1. PICK g : Joins(g, s, m)
    BY <1>2
  <2> DEFINE last == IF m + 1 = 1 THEN s[m + 1] ELSE g[m] \o s[m + 1]
             h == [i \in 1..(m + 1) |-> IF i = m + 1 THEN last ELSE g[i]]
  <2>2. \A i \in 1..m : g[i] = IF i = 1 THEN s[i] ELSE g[i - 1] \o s[i]
    BY <2>1, JoinsFacts
  <2>3. \A i \in 1..m : h[i] = g[i]
    OBVIOUS
  <2>4. h[m + 1] = last /\ h = [i \in 1..(m + 1) |-> h[i]]
    OBVIOUS
  <2> HIDE DEF h
  <2>5. ASSUME NEW i \in 1..(m + 1)
        PROVE  h[i] = IF i = 1 THEN s[i] ELSE h[i - 1] \o s[i]
    <3>1. CASE i = m + 1
      <4>1. i - 1 = m /\ (i # 1 => h[m] = g[m])
        BY <2>3, <3>1
      <4>2. QED
        BY <2>4, <3>1, <4>1
    <3>2. CASE i # m + 1
      <4>1. i \in 1..m /\ (i # 1 => i - 1 \in 1..m)
        BY <3>2
      <4>2. h[i] = g[i] /\ (i # 1 => h[i - 1] = g[i - 1])
        BY <2>3, <4>1
      <4>3. QED
        BY <2>2, <4>1, <4>2
    <3>3. QED
      BY <3>1, <3>2
  <2> HIDE DEF last
  <2>6. Joins(h, s, m + 1)
    <3>1. m + 1 \in Nat
      OBVIOUS
    <3>2. QED
      BY <2>4, <2>5, <3>1, JoinsFacts
  <2>7. QED
    BY <2>6
<1>3. N \in T
  <2> HIDE DEF T
  <2>1. QED
    BY <1>1, <1>2, NatInd
<1>4. QED
  BY <1>3

LEMMA FlattenTyped ==
    ASSUME NEW A, NEW s, IsSeq(s), \A i \in 1..Len(s) : s[i] \in Seq(A)
    PROVE  FlattenSeq(s) \in Seq(A)
<1>1. PICK N \in Nat : N = Len(s)
  BY IsSeqFacts
<1>2. PICK g : g = (CHOOSE h : Joins(h, s, N))
  OBVIOUS
<1>3. CASE N = 0
  <2>1. FlattenSeq(s) = s
    BY <1>1, <1>3 DEF FlattenSeq
  <2>2. s \in Seq(A)
    BY <1>1, <1>3 DEF IsSeq
  <2>3. QED
    BY <2>1, <2>2
<1>4. CASE N # 0
  <2>1. FlattenSeq(s) = g[N]
    BY <1>1, <1>2, <1>4 DEF FlattenSeq, Joins
  <2>2. Joins(g, s, N)
    BY <1>2, JoinsExist
  <2>3. \A i \in 1..N : g[i] = IF i = 1 THEN s[i] ELSE g[i - 1] \o s[i]
    BY <2>2, JoinsFacts
  <2> DEFINE T == {n \in Nat : n + 1 <= N => g[n + 1] \in Seq(A)}
  <2>4. 0 \in T
    <3>1. 1 \in 1..N /\ 0 + 1 = 1
      BY <1>4
    <3>2. QED
      BY <1>1, <2>3, <3>1
  <2>5. ASSUME NEW n \in Nat, n \in T
        PROVE  n + 1 \in T
    <3> SUFFICES ASSUME n + 1 + 1 <= N PROVE g[n + 1 + 1] \in Seq(A)
      OBVIOUS
    <3>0. /\ n + 1 + 1 \in 1..N /\ n + 1 \in 1..N /\ n + 1 + 1 # 1
          /\ (n + 1 + 1) - 1 = n + 1 /\ n + 1 <= N
      OBVIOUS
    <3>1. PICK i, j : i = n + 1 /\ j = n + 1 + 1 /\ j \in 1..N /\ i \in 1..N /\ j # 1
                      /\ j - 1 = i /\ i <= N
      BY <3>0, Zenon
    <3>2. g[i] \in Seq(A) /\ s[j] \in Seq(A) /\ g[j] = g[i] \o s[j]
      BY <1>1, <2>3, <2>5, <3>1
    <3>3. QED
      BY <3>1, <3>2
  <2>6. N - 1 \in Nat /\ (N - 1) + 1 = N
    BY <1>4
  <2>7. N - 1 \in T
    <3> HIDE DEF T
    <3>1. QED
      BY <2>4, <2>5, <2>6, NatInd
  <2>8. QED
    BY <2>1, <2>6, <2>7
<1>5. QED
  BY <1>3, <1>4

(* What parse_symtab and parse_segment take from a command.                *)
LEMMA SymbolsTyped ==
    ASSUME NEW entries \in Seq(NList)
    PROVE  SymbolsOf(entries) \in Seq(Symbol)
<1> DEFINE T == {e \in ToSet(entries) : SymbolVerdict(e) = "push"}
           kept == SelectIn(entries, T)
<1>1. kept \in Seq(NList)
  BY SelectFacts
<1>2. SymbolsOf(entries) = [i \in DOMAIN kept |-> MakeSymbol(kept[i])]
  BY DEF SymbolsOf
<1> HIDE DEF kept
<1>3. \A e \in NList : MakeSymbol(e) \in Symbol
  BY DEF MakeSymbol, NList, Symbol
<1>4. DOMAIN kept = 1..Len(kept) /\ Len(kept) \in Nat
  BY <1>1
<1>5. \A i \in 1..Len(kept) : MakeSymbol(kept[i]) \in Symbol
  BY <1>1, <1>3
<1>6. QED
  BY <1>2, <1>4, <1>5

LEMMA InitFuncsTyped ==
    ASSUME NEW c, c.sections \in Seq(Section)
    PROVE  InitFuncsOf(c) \in Seq(Nat)
<1>1. PICK secs : secs = SectionsOf(c, "init_func_offsets")
  OBVIOUS
<1>2. secs \in Seq(Section)
  <2> DEFINE T == {s \in ToSet(c.sections) : s.type = "init_func_offsets"}
  <2>1. SelectIn(c.sections, T) \in Seq(Section)
    BY SelectFacts
  <2>2. QED
    BY <1>1, <2>1 DEF SectionsOf
<1> DEFINE funcs == [i \in DOMAIN secs |-> secs[i].funcs]
<1>3. InitFuncsOf(c) = FlattenSeq(funcs)
  BY <1>1 DEF InitFuncsOf
<1>4. Len(secs) \in Nat /\ DOMAIN secs = 1..Len(secs)
  BY <1>2
<1>5. ASSUME NEW i \in 1..Len(secs)
      PROVE  secs[i].funcs \in Seq(Nat)
  <2>1. PICK x : x = secs[i] /\ x \in Section
    BY <1>2
  <2>2. x.funcs \in Seq(Nat)
    BY <2>1 DEF Section
  <2>3. QED
    BY <2>1, <2>2
<1>6. funcs \in Seq(Seq(Nat)) /\ Len(funcs) = Len(secs)
  BY <1>4, <1>5
<1>7. \A i \in 1..Len(secs) : funcs[i] \in Seq(Nat)
  BY <1>4, <1>5
<1> HIDE DEF funcs
<1>8. IsSeq(funcs)
  BY <1>6, SeqIsSeq
<1>9. QED
  BY <1>3, <1>6, <1>7, <1>8, FlattenTyped

(* The running activation and its image.                                   *)
LEMMA ImgTyped ==
    ASSUME IInv, TypeOK
    PROVE  Img \in ImageType /\ Cur \in Nat
<1>1. Cur \in 1..Len(images) /\ images \in Seq(ImageType)
  BY CurFacts DEF TypeOK
<1>2. QED
  BY <1>1 DEF Img

(* A step on the image of the running activation keeps the types if its    *)
(* new value has the type of an image.                                     *)
LEMMA SetTyped ==
    ASSUME IInv, TypeOK, NEW img \in ImageType, SetImg(img),
           world' = world, stack' = stack, outcome' \in Outcomes
    PROVE  TypeOK'
<1>1. Cur \in 1..Len(images) /\ images \in Seq(ImageType)
  BY CurFacts DEF TypeOK
<1>2. images' \in Seq(ImageType)
  BY <1>1 DEF SetImg
<1>3. QED
  BY <1>2 DEF TypeOK

(* The end of a load changes the outcome only.                             *)
LEMMA StopTyped ==
    ASSUME TypeOK, NEW why \in Outcomes, Stop(why)
    PROVE  TypeOK'
  BY DEF TypeOK, Stop

(* The fields of an image.                                                 *)
LEMMA FieldsTyped ==
    ASSUME NEW img \in ImageType
    PROVE  /\ img.path \in Path /\ img.is_executable \in BOOLEAN /\ img.pc \in Phase
           /\ img.at \in Nat /\ img.segments \in Seq(Segment) /\ img.fixups \in Seq(Fixup)
           /\ img.symbols \in Seq(Symbol) /\ img.init_functions \in Seq(Nat)
           /\ img.libraries \in Seq(InstallName) /\ img.entry_point \in Nat
           /\ img.has_thread_locals \in BOOLEAN /\ img.libs \in Seq(Library)
           /\ img.mem \in Seq(Nat \X Address) /\ img.sealed \in Nat /\ img.calls \in Seq(Nat)
  BY DEF ImageType

(* One more item has been dealt with, or the next phase begins.            *)
LEMMA AtTyped ==
    ASSUME NEW img \in ImageType
    PROVE  [img EXCEPT !.at = @ + 1] \in ImageType
<1>1. PICK n \in Nat : n = img.at + 1
  BY FieldsTyped
<1>2. [img EXCEPT !.at = n] \in ImageType
  BY DEF ImageType
<1>3. QED
  BY <1>1, <1>2

LEMMA PhaseNames ==
    Phase = {"parse", "load", "map", "fixup", "tlv", "protect", "init", "done"}
  BY DEF Phase, Phases

LEMMA PhaseTyped ==
    ASSUME NEW img \in ImageType, NEW p \in Phase
    PROVE  [img EXCEPT !.pc = p, !.at = 0] \in ImageType
<1>1. PICK new : new = [img EXCEPT !.pc = p]
  OBVIOUS
<1>2. new \in ImageType
  BY <1>1 DEF ImageType
<1>3. [new EXCEPT !.at = 0] \in ImageType
  BY <1>2 DEF ImageType
<1>4. QED
  BY <1>1, <1>3

LEMMA ParsedTyped ==
    ASSUME IInv, TypeOK, NEW img \in ImageType, Parsed(img)
    PROVE  TypeOK'
<1>1. PICK new : new = [img EXCEPT !.at = @ + 1]
  OBVIOUS
<1>2. new \in ImageType /\ SetImg(new) /\ world' = world /\ stack' = stack
      /\ outcome' = outcome
  BY <1>1, AtTyped DEF Parsed
<1>3. QED
  BY <1>2, SetTyped DEF TypeOK

(* The command that is being parsed.                                       *)
LEMMA CmdTyped ==
    ASSUME IInv, TypeOK, NEW kinds, AtCommand(kinds)
    PROVE  Cmd \in Command /\ Cmd.cmd \in kinds
<1>1. /\ Img.at \in Nat /\ Img.path \in DOMAIN world.disk /\ world \in Worlds
      /\ Img.at < Len(Commands)
  BY CurFacts DEF TypeOK, ImageOK, ImageShape, AtCommand
<1>2. Commands \in Seq(Command)
  BY <1>1, WorldsAssumption DEF IsWorld, IsFile, Commands, FileOf, Img
<1>3. QED
  BY <1>1, <1>2 DEF Cmd, AtCommand

LEMMA ParserTyped ==
    ASSUME IInv, TypeOK, MachoParser
    PROVE  TypeOK'
<1>1. Img \in ImageType
  BY ImgTyped
<1>2. ASSUME NEW why, why \in Errors \cup {"panic"}, Stop(why)
      PROVE  TypeOK'
  BY <1>2, StopTyped DEF Outcomes
<1>3. CASE BadHeader
  BY <1>2, <1>3 DEF BadHeader, Errors
<1>4. CASE ParseDylib
  <2>1. PICK n : n = Cmd.name
    OBVIOUS
  <2>2. n \in InstallName
    <3>1. Cmd \in Command /\ Cmd.cmd \in LinkedDylibCommands
      BY <1>4, CmdTyped DEF ParseDylib
    <3>2. QED
      BY <2>1, <3>1 DEF Command, DylibCommands, LinkedDylibCommands
  <2>3. PICK img : img = [Img EXCEPT !.libraries = Append(@, n)]
    OBVIOUS
  <2>4. img \in ImageType
    <3>1. PICK s : s = Append(Img.libraries, n)
      OBVIOUS
    <3>2. s \in Seq(InstallName)
      <4>1. Img.libraries \in Seq(InstallName)
        BY <1>1, FieldsTyped
      <4>2. QED
        BY <2>2, <3>1, <4>1
    <3>3. [Img EXCEPT !.libraries = s] \in ImageType
      BY <1>1, <3>2 DEF ImageType
    <3>4. QED
      BY <2>3, <3>1, <3>3
  <2>5. Parsed(img) \/ Stop("panic")
    BY <1>4, <2>1, <2>3 DEF ParseDylib
  <2>6. QED
    BY <1>2, <2>4, <2>5, ParsedTyped
<1>5. CASE ParseMain
  <2>1. PICK n : n = Cmd.entryoff
    OBVIOUS
  <2>2. n \in Nat
    <3>1. Cmd \in Command /\ Cmd.cmd = "LC_MAIN"
      BY <1>5, CmdTyped DEF ParseMain
    <3>2. QED
      BY <2>1, <3>1 DEF Command, DylibCommands, LinkedDylibCommands
  <2>3. PICK img : img = [Img EXCEPT !.entry_point = n]
    OBVIOUS
  <2>4. img \in ImageType
    BY <1>1, <2>2, <2>3 DEF ImageType
  <2>5. Parsed(img) \/ Stop("main_in_dylib")
    BY <1>5, <2>1, <2>3 DEF ParseMain
  <2>6. QED
    BY <1>2, <2>4, <2>5, ParsedTyped DEF Errors
<1>6. CASE ParseSymtab
  <2>1. PICK s : s = SymbolsOf(Cmd.entries)
    OBVIOUS
  <2>2. s \in Seq(Symbol)
    <3>1. Cmd \in Command /\ Cmd.cmd = "LC_SYMTAB"
      BY <1>6, CmdTyped DEF ParseSymtab
    <3>2. Cmd.entries \in Seq(NList)
      BY <3>1 DEF Command, DylibCommands, LinkedDylibCommands
    <3>3. QED
      BY <2>1, <3>2, SymbolsTyped
  <2>3. PICK img : img = [Img EXCEPT !.symbols = @ \o s]
    OBVIOUS
  <2>4. img \in ImageType
    <3>1. PICK r : r = Img.symbols \o s
      OBVIOUS
    <3>2. r \in Seq(Symbol)
      <4>1. Img.symbols \in Seq(Symbol)
        BY <1>1, FieldsTyped
      <4>2. QED
        BY <2>2, <3>1, <4>1
    <3>3. [Img EXCEPT !.symbols = r] \in ImageType
      BY <1>1, <3>2 DEF ImageType
    <3>4. QED
      BY <2>3, <3>1, <3>3
  <2>5. Parsed(img) \/ Stop("bad_symbol") \/ Stop("panic")
    BY <1>6, <2>1, <2>3 DEF ParseSymtab
  <2>6. QED
    BY <1>2, <2>4, <2>5, ParsedTyped DEF Errors
<1>7. CASE ParseSegment
  <2>1. PICK s, f, b : /\ s = Cmd.segment /\ f = InitFuncsOf(Cmd)
                       /\ b = (SectionsOf(Cmd, "thread_local_variables") # << >>)
    OBVIOUS
  <2>2. s \in Segment /\ f \in Seq(Nat) /\ b \in BOOLEAN
    <3>1. Cmd \in Command /\ Cmd.cmd = "LC_SEGMENT_64"
      BY <1>7, CmdTyped DEF ParseSegment
    <3>2. Cmd.segment \in Segment /\ Cmd.sections \in Seq(Section)
      BY <3>1 DEF Command, DylibCommands, LinkedDylibCommands
    <3>3. b \in BOOLEAN
      BY <2>1, Zenon
    <3>4. QED
      BY <2>1, <3>2, <3>3, InitFuncsTyped
  <2>3. PICK img : img = [Img EXCEPT !.segments = Append(@, s), !.init_functions = @ \o f,
                                     !.has_thread_locals = @ \/ b]
    OBVIOUS
  <2>4. img \in ImageType
    <3>1. PICK p, q : p = Append(Img.segments, s) /\ q = Img.init_functions \o f
      OBVIOUS
    <3>2. p \in Seq(Segment) /\ q \in Seq(Nat)
      <4>1. Img.segments \in Seq(Segment) /\ Img.init_functions \in Seq(Nat)
        BY <1>1, FieldsTyped
      <4>2. QED
        BY <2>2, <3>1, <4>1
    <3>3. PICK r : r = (Img.has_thread_locals \/ b)
      OBVIOUS
    <3>4. r \in BOOLEAN
      BY <3>3, Zenon
    <3>5. PICK x : x = [Img EXCEPT !.segments = p]
      OBVIOUS
    <3>6. x \in ImageType
      BY <1>1, <3>2, <3>5 DEF ImageType
    <3>7. PICK y : y = [x EXCEPT !.init_functions = q]
      OBVIOUS
    <3>8. y \in ImageType
      BY <3>2, <3>7, <3>6 DEF ImageType
    <3>9. [y EXCEPT !.has_thread_locals = r] \in ImageType
      BY <3>4, <3>8 DEF ImageType
    <3>10. img = [y EXCEPT !.has_thread_locals = r]
      BY <2>3, <3>1, <3>3, <3>5, <3>7
    <3>11. QED
      BY <3>9, <3>10
  <2>5. Parsed(img) \/ Stop("panic")
    BY <1>7, <2>1, <2>3, Zenon DEF ParseSegment
  <2>6. QED
    BY <1>2, <2>4, <2>5, ParsedTyped
<1>8. CASE ParseChainedFixups
  <2>1. PICK s : s = chained_fixups_parse_all(FileOf(Cur))
    OBVIOUS
  <2>2. s \in Seq(Fixup)
    BY <2>1, FileFacts, FixupsTyped DEF Commands
  <2>3. PICK img : img = [Img EXCEPT !.fixups = s]
    OBVIOUS
  <2>4. img \in ImageType
    BY <1>1, <2>2, <2>3 DEF ImageType
  <2>5. Parsed(img)
    BY <1>8, <2>1, <2>3 DEF ParseChainedFixups
  <2>6. QED
    BY <2>4, <2>5, ParsedTyped
<1>9. CASE ParseRpath
  <2>1. PICK p : p = Cmd.path
    OBVIOUS
  <2>2. p \in Rpath \cup {"unknown"}
    <3>1. Cmd \in Command /\ Cmd.cmd = "LC_RPATH"
      BY <1>9, CmdTyped DEF ParseRpath
    <3>2. QED
      BY <2>1, <3>1 DEF Command, DylibCommands, LinkedDylibCommands
  <2>3. PICK img : img = [Img EXCEPT !.rpath = p]
    OBVIOUS
  <2>4. p # "unknown" => img \in ImageType
    BY <1>1, <2>2, <2>3 DEF ImageType
  <2>5. (p # "unknown" /\ Parsed(img)) \/ Stop("bad_rpath")
    BY <1>9, <2>1, <2>3 DEF ParseRpath
  <2>6. QED
    BY <1>2, <2>4, <2>5, ParsedTyped DEF Errors
<1>10. CASE SkipCommand
  BY <1>1, <1>10, ParsedTyped DEF SkipCommand
<1>11. CASE BadCommand
  BY <1>2, <1>11 DEF BadCommand, Errors
<1>12. CASE CollectDependencies
  <2>1. PICK img : img = [Img EXCEPT !.pc = "load", !.at = 0]
    OBVIOUS
  <2>2. img \in ImageType
    BY <1>1, <2>1, PhaseNames, PhaseTyped
  <2>3. \/ SetImg(img) /\ world' = world /\ stack' = stack /\ outcome' = outcome
        \/ Stop("too_many_dylibs")
    BY <1>12, <2>1 DEF CollectDependencies
  <2>4. QED
    BY <1>2, <2>2, <2>3, SetTyped DEF Errors, TypeOK
<1>13. QED
  BY <1>3, <1>4, <1>5, <1>6, <1>7, <1>8, <1>9, <1>10, <1>11, <1>12 DEF MachoParser

(* The place of a library that is looked for.                              *)
LEMMA DiskPathTyped ==
    ASSUME NEW n \in InstallName, NEW rpath, NEW dir \in Path
    PROVE  DiskPath(n, rpath, dir) \in Path
<1>1. n.rest \in Seq(STRING)
  BY DEF InstallName, Path
<1>2. n.rest \in Path /\ dir \o n.rest \in Path
  BY <1>1 DEF Path
<1>3. QED
  BY <1>2 DEF DiskPath

(* An image that has been parsed asks for install names.                   *)
LEMMA WantedTyped ==
    ASSUME NEW img \in ImageType, img.at < Len(img.libraries)
    PROVE  img.libraries[img.at + 1] \in InstallName
<1>1. img.libraries \in Seq(InstallName) /\ img.at \in Nat
  BY FieldsTyped
<1>2. QED
  BY <1>1

(* A library has been listed.                                              *)
LEMMA ListedTyped ==
    ASSUME NEW img \in ImageType, NEW lib \in Library
    PROVE  [img EXCEPT !.at = @ + 1, !.libs = Append(@, lib)] \in ImageType
<1>1. PICK n, s : n = img.at + 1 /\ s = Append(img.libs, lib)
  OBVIOUS
<1>2. n \in Nat /\ s \in Seq(Library)
  <2>1. img.at \in Nat /\ img.libs \in Seq(Library)
    BY FieldsTyped
  <2>2. QED
    BY <1>1, <2>1
<1>3. PICK new : new = [img EXCEPT !.at = n]
  OBVIOUS
<1>4. new \in ImageType
  BY <1>2, <1>3 DEF ImageType
<1>5. [new EXCEPT !.libs = s] \in ImageType
  BY <1>2, <1>4 DEF ImageType
<1>6. QED
  BY <1>1, <1>3, <1>5

LEMMA NewImageTyped ==
    ASSUME NEW p \in Path, NEW b \in BOOLEAN
    PROVE  NewImage(p, b) \in ImageType
<1>1. << >> \in Seq(Segment) /\ << >> \in Seq(Fixup) /\ << >> \in Seq(Symbol)
      /\ << >> \in Seq(Nat) /\ << >> \in Seq(InstallName) /\ << >> \in Seq(Library)
      /\ << >> \in Seq(Nat \X Address)
  OBVIOUS
<1>2. "parse" \in Phase
  BY PhaseNames
<1>3. QED
  BY <1>1, <1>2 DEF NewImage, ImageType

LEMMA LoadTyped ==
    ASSUME IInv, TypeOK, UserDylibsLoadRecursively
    PROVE  TypeOK'
<1>1. Img \in ImageType /\ world \in Worlds
  BY ImgTyped DEF TypeOK
<1>2. CASE LoadSystemDylib
  <2>1. /\ Img.at < Len(Img.libraries)
        /\ SetImg([Img EXCEPT !.at = @ + 1,
                              !.libs = Append(@, [kind |-> "system", name |-> Dep])])
        /\ world' = world /\ stack' = stack /\ outcome' = outcome
    BY <1>2 DEF LoadSystemDylib, AtDependency
  <2>2. PICK lib : lib = [kind |-> "system", name |-> Dep]
    OBVIOUS
  <2>3. lib \in Library
    BY <1>1, <2>1, <2>2, WantedTyped DEF Dep, Library
  <2>4. PICK img : img = [Img EXCEPT !.at = @ + 1, !.libs = Append(@, lib)]
    OBVIOUS
  <2>5. img \in ImageType /\ SetImg(img)
    BY <1>1, <2>1, <2>2, <2>3, <2>4, ListedTyped
  <2>6. QED
    BY <2>1, <2>5, SetTyped DEF TypeOK
<1>3. CASE LoadUserDylib
  <2>1. /\ Img.at < Len(Img.libraries)
        /\ images' = Append(images, NewImage(DepPath, FALSE))
        /\ stack' = Append(stack, Len(images) + 1)
        /\ world' = world /\ outcome' = outcome
    BY <1>3 DEF LoadUserDylib, AtDependency
  <2>2. world.exec_dir \in Path
    BY <1>1, WorldsAssumption DEF IsWorld
  <2>3. DepPath \in Path
    BY <1>1, <2>1, <2>2, WantedTyped, DiskPathTyped DEF Dep, DepPath
  <2>4. NewImage(DepPath, FALSE) \in ImageType
    BY <2>3, NewImageTyped
  <2>5. images \in Seq(ImageType) /\ stack \in Seq(Nat) /\ Len(images) + 1 \in Nat
    BY DEF TypeOK
  <2>6. images' \in Seq(ImageType)
    <3>1. PICK T, new : T = ImageType /\ new = NewImage(DepPath, FALSE)
      OBVIOUS
    <3>2. new \in T /\ images \in Seq(T) /\ images' = Append(images, new)
      BY <2>1, <2>4, <2>5, <3>1
    <3>3. images' \in Seq(T)
      BY <3>2
    <3>4. QED
      BY <3>1, <3>3
  <2>7. stack' \in Seq(Nat)
    BY <2>1, <2>5
  <2>8. QED
    BY <2>1, <2>6, <2>7 DEF TypeOK
<1>4. CASE LoadUserDylibFails
  <2>1. \E why \in {"panic", "open", "mmap", "overflow"} : Stop(why)
    BY <1>4 DEF LoadUserDylibFails
  <2>2. {"panic", "open", "mmap", "overflow"} \subseteq Outcomes
    BY DEF Outcomes, Errors
  <2>3. QED
    BY <2>1, <2>2, StopTyped
<1>5. CASE DependenciesLoaded
  <2>1. PICK img : img = [Img EXCEPT !.pc = "map", !.at = 0]
    OBVIOUS
  <2>2. img \in ImageType
    BY <1>1, <2>1, PhaseNames, PhaseTyped
  <2>3. SetImg(img) /\ world' = world /\ stack' = stack /\ outcome' = outcome
    BY <1>5, <2>1 DEF DependenciesLoaded
  <2>4. QED
    BY <2>2, <2>3, SetTyped DEF TypeOK
<1>6. QED
  BY <1>2, <1>3, <1>4, <1>5 DEF UserDylibsLoadRecursively

LEMMA MapTyped ==
    ASSUME IInv, TypeOK, MapSegments
    PROVE  TypeOK'
<1>1. PICK img : img = [Img EXCEPT !.pc = "fixup"]
  OBVIOUS
<1>2. img \in ImageType
  BY <1>1, ImgTyped, PhaseNames DEF ImageType
<1>3. \/ SetImg(img) /\ world' = world /\ stack' = stack /\ outcome' = outcome
      \/ Stop("vm_alloc") \/ Stop("panic") \/ Stop("fault")
  BY <1>1 DEF MapSegments
<1>4. QED
  BY <1>2, <1>3, SetTyped, StopTyped DEF TypeOK, Outcomes, Errors

(* A pointer that has been written.                                        *)
LEMMA WriteTyped ==
    ASSUME IInv, TypeOK, Img.at < Len(Img.fixups), NEW value \in Address, Write(value)
    PROVE  TypeOK'
<1>1. Img \in ImageType
  BY ImgTyped
<1>2. PICK o, n : o = Fix.offset + FixupBase /\ n = Img.at + 1
  OBVIOUS
<1>3. o \in Nat /\ n \in Nat
  <2>1. Img.fixups \in Seq(Fixup) /\ Img.at \in Nat
    BY <1>1, FieldsTyped
  <2>2. Fix \in Fixup
    BY <2>1 DEF Fix
  <2>3. Fix.offset \in Nat
    BY <2>2 DEF Fixup, RebaseFixup, BindFixup
  <2>4. FixupBase \in Nat
    BY PageZeroAssumption DEF FixupBase, PageZeroOf
  <2>5. QED
    BY <1>2, <2>1, <2>3, <2>4
<1>4. PICK w : w = <<o, value>>
  OBVIOUS
<1>5. w \in Nat \X Address
  BY <1>3, <1>4
<1>6. PICK s : s = Append(Img.mem, w)
  OBVIOUS
<1>7. s \in Seq(Nat \X Address)
  <2>1. PICK M : M = Nat \X Address
    OBVIOUS
  <2>2. Img.mem \in Seq(M) /\ w \in M
    BY <1>1, <1>5, <2>1, FieldsTyped
  <2>3. QED
    BY <1>6, <2>1, <2>2
<1>8. PICK x : x = [Img EXCEPT !.at = n]
  OBVIOUS
<1>9. x \in ImageType
  BY <1>1, <1>3, <1>8 DEF ImageType
<1>10. [x EXCEPT !.mem = s] \in ImageType
  BY <1>7, <1>9 DEF ImageType
<1>11. PICK img : img = [Img EXCEPT !.at = @ + 1, !.mem = Append(@, w)]
  OBVIOUS
<1>12. img = [x EXCEPT !.mem = s]
  BY <1>2, <1>6, <1>8, <1>11
<1>13. \/ SetImg(img) /\ world' = world /\ stack' = stack /\ outcome' = outcome
       \/ Stop("fault")
  BY <1>2, <1>4, <1>11 DEF Write
<1>14. QED
  BY <1>10, <1>12, <1>13, SetTyped, StopTyped DEF TypeOK, Outcomes

LEMMA FixupTyped ==
    ASSUME IInv, TypeOK, ImageFixupsApply
    PROVE  TypeOK'
<1>1. Img \in ImageType /\ world \in Worlds /\ Cur \in Nat
  BY ImgTyped DEF TypeOK
<1>2. ASSUME NEW why, why \in {"unsupported_bind", "unresolved", "panic"}, Stop(why)
      PROVE  TypeOK'
  BY <1>2, StopTyped DEF Outcomes, Errors
<1>3. ASSUME NEW i \in Nat, NEW o \in Nat
      PROVE  ImageAddress(i, o) \in Address
  BY DEF ImageAddress, Address
<1>4. Img.at < Len(Img.fixups) => Fix \in Fixup
  <2>1. Img.fixups \in Seq(Fixup) /\ Img.at \in Nat
    BY <1>1, FieldsTyped
  <2>2. QED
    BY <2>1 DEF Fix
<1>5. CASE ApplyRebase
  <2>1. /\ Img.at < Len(Img.fixups) /\ Fix.kind = "rebase"
        /\ Write(ImageAddress(Cur, Fix.target + FixupBase))
    BY <1>5 DEF ApplyRebase, AtFixup, Fix
  <2>2. Fix.target \in Nat /\ FixupBase \in Nat
    BY <1>4, <2>1, PageZeroAssumption DEF Fixup, RebaseFixup, BindFixup, FixupBase, PageZeroOf
  <2>3. PICK a : a = ImageAddress(Cur, Fix.target + FixupBase) /\ a \in Address
    BY <1>1, <1>3, <2>2
  <2>4. QED
    BY <2>1, <2>3, WriteTyped
<1>6. CASE ApplyUnsupportedBind \/ ApplyBindOutOfBounds
  BY <1>2, <1>6 DEF ApplyUnsupportedBind, ApplyBindOutOfBounds
<1>7. CASE ApplyWeakBind
  <2>1. PICK k : k = SelectInSeq(Img.symbols, LAMBDA s : s.name = Fix.symbol)
    OBVIOUS
  <2>2. /\ Img.at < Len(Img.fixups)
        /\ \/ k # 0 /\ Write(ImageAddress(Cur, Img.symbols[k].impl_offset))
           \/ Stop("unresolved")
    BY <1>7, <2>1 DEF ApplyWeakBind, AtFixup
  <2>3. ASSUME k # 0
        PROVE  Img.symbols[k].impl_offset \in Nat
    <3>1. k \in 1..Len(Img.symbols)
      <4> DEFINE I == {i \in 1..Len(Img.symbols) : Img.symbols[i].name = Fix.symbol}
      <4>1. k = IF I # {} THEN Min(I) ELSE 0
        BY <2>1 DEF SelectInSeq
      <4>2. I \subseteq Nat /\ I \subseteq 1..Len(Img.symbols)
        OBVIOUS
      <4> HIDE DEF I
      <4>3. QED
        BY <2>3, <4>1, <4>2, MinFacts
    <3>2. Img.symbols \in Seq(Symbol)
      BY <1>1, FieldsTyped
    <3>3. PICK s : s = Img.symbols[k] /\ s \in Symbol
      BY <3>1, <3>2
    <3>4. QED
      BY <3>3 DEF Symbol
  <2>4. CASE k # 0 /\ Write(ImageAddress(Cur, Img.symbols[k].impl_offset))
    <3>1. PICK a : a = ImageAddress(Cur, Img.symbols[k].impl_offset) /\ a \in Address
      BY <1>1, <1>3, <2>3, <2>4
    <3>2. QED
      BY <2>2, <2>4, <3>1, WriteTyped
  <2>5. QED
    BY <1>2, <2>2, <2>4
<1>8. ASSUME RegularBind, Fix.ordinal <= Len(Img.libs)
      PROVE  /\ Img.at < Len(Img.fixups) /\ Fix.symbol \in STRING /\ Lib \in Library
             /\ Lib.kind = "user" => Lib.image \in 1..Len(images)
  <2>1. Img.at < Len(Img.fixups) /\ Fix.kind = "bind" /\ Fix.ordinal # 0
    BY <1>8 DEF RegularBind, AtFixup, Fix, UnsupportedOrdinals, BIND_SPECIAL_DYLIB_SELF
  <2>2. Fix.ordinal \in Nat /\ Fix.symbol \in STRING
    BY <1>4, <2>1 DEF Fixup, RebaseFixup, BindFixup
  <2>3. Img.libs \in Seq(Library) /\ Len(Img.libs) \in Nat
    BY <1>1, FieldsTyped
  <2>4. Fix.ordinal \in 1..Len(Img.libs)
    BY <1>8, <2>1, <2>2, <2>3
  <2>5. LibOK(Img, Lib, Img.libraries[Fix.ordinal])
    BY <2>4, CurFacts DEF LibsOK, Lib
  <2>6. QED
    BY <2>1, <2>2, <2>3, <2>4, <2>5 DEF Lib, LibOK, Finished
<1>9. CASE ApplySystemBind
  <2>1. /\ RegularBind /\ Fix.ordinal <= Len(Img.libs) /\ Lib.kind = "system"
        /\ \/ Write([space |-> "cache", library |-> Lib.name, symbol |-> Fix.symbol])
           \/ Stop("unresolved")
    BY <1>9 DEF ApplySystemBind
  <2>2. Lib.name \in InstallName
    BY <1>8, <2>1 DEF Library
  <2>3. PICK a : a = [space |-> "cache", library |-> Lib.name, symbol |-> Fix.symbol]
    OBVIOUS
  <2>4. a \in Address
    BY <1>8, <2>1, <2>2, <2>3 DEF Address
  <2>5. QED
    BY <1>2, <1>8, <2>1, <2>3, <2>4, WriteTyped
<1>10. CASE ApplyUserBind
  <2>1. PICK f, found : /\ f = FileOf(Lib.image)
                        /\ found = dylib_symbol_resolve(f, Fix.symbol)
    OBVIOUS
  <2>2. /\ RegularBind /\ Fix.ordinal <= Len(Img.libs) /\ Lib.kind = "user"
        /\ \/ found.kind = "defined" /\ Write(ImageAddress(Lib.image, found.offset))
           \/ Stop("unresolved") \/ Stop("panic")
    BY <1>10, <2>1 DEF ApplyUserBind
  <2>3. Lib.image \in 1..Len(images) /\ Lib.image \in Nat
    BY <1>8, <2>2
  <2>4. IsFile(f)
    BY <1>1, <2>1, <2>3, WorldsAssumption DEF IsWorld, FileOf, IInv, Typed
  <2>5. ASSUME found.kind = "defined"
        PROVE  found.offset \in Nat
    <3>1. PICK exports : exports = ExportsRead(f)
      OBVIOUS
    <3>2. found \in Export
      <4>1. Fix.symbol \in DOMAIN exports /\ found = exports[Fix.symbol]
        BY <2>1, <2>5, <3>1 DEF dylib_symbol_resolve
      <4>2. QED
        BY <2>4, <3>1, <4>1 DEF IsFile, ExportsRead
    <3>3. QED
      BY <2>5, <3>2 DEF Export
  <2>6. CASE found.kind = "defined" /\ Write(ImageAddress(Lib.image, found.offset))
    <3>1. PICK a : a = ImageAddress(Lib.image, found.offset) /\ a \in Address
      BY <1>3, <2>3, <2>5, <2>6
    <3>2. QED
      BY <1>8, <2>2, <2>6, <3>1, WriteTyped
  <2>7. QED
    BY <1>2, <2>2, <2>6
<1>11. CASE FixupsApplied
  <2>1. PICK img : img = [Img EXCEPT !.pc = "tlv", !.at = 0]
    OBVIOUS
  <2>2. img \in ImageType
    BY <1>1, <2>1, PhaseNames, PhaseTyped
  <2>3. SetImg(img) /\ world' = world /\ stack' = stack /\ outcome' = outcome
    BY <1>11, <2>1 DEF FixupsApplied
  <2>4. QED
    BY <2>2, <2>3, SetTyped DEF TypeOK
<1>12. QED
  BY <1>5, <1>6, <1>7, <1>9, <1>10, <1>11 DEF ImageFixupsApply

LEMMA FinalizeTyped ==
    ASSUME IInv, TypeOK, ImageFinalize
    PROVE  TypeOK'
<1>1. Img \in ImageType
  BY ImgTyped
<1>2. CASE TlvInitialize
  <2>1. PICK b : b = (Img.is_executable /\ Img.has_thread_locals)
    OBVIOUS
  <2>2. b \in BOOLEAN
    BY <2>1, Zenon
  <2>3. PICK x : x = [Img EXCEPT !.pc = "protect"]
    OBVIOUS
  <2>4. x \in ImageType
    BY <1>1, <2>3, PhaseNames DEF ImageType
  <2>5. PICK img : img = [x EXCEPT !.tlv = b]
    OBVIOUS
  <2>6. img \in ImageType
    BY <2>2, <2>4, <2>5 DEF ImageType
  <2>7. img = [Img EXCEPT !.pc = "protect", !.tlv = b]
    BY <2>3, <2>5
  <2>8. SetImg(img) /\ world' = world /\ stack' = stack /\ outcome' = outcome
    BY <1>2, <2>1, <2>7 DEF TlvInitialize
  <2>9. QED
    BY <2>6, <2>8, SetTyped DEF TypeOK
<1>3. CASE ProtectSegment
  <2>1. PICK n, m : n = Img.at + 1 /\ m = Img.sealed + 1
    OBVIOUS
  <2>2. n \in Nat /\ m \in Nat
    BY <1>1, <2>1, FieldsTyped
  <2>3. PICK x : x = [Img EXCEPT !.at = n]
    OBVIOUS
  <2>4. x \in ImageType
    BY <1>1, <2>2, <2>3 DEF ImageType
  <2>5. PICK img : img = [x EXCEPT !.sealed = m]
    OBVIOUS
  <2>6. img \in ImageType
    BY <2>2, <2>4, <2>5 DEF ImageType
  <2>7. img = [Img EXCEPT !.at = @ + 1, !.sealed = @ + 1]
    BY <2>1, <2>3, <2>5
  <2>8. \/ SetImg(img) /\ world' = world /\ stack' = stack /\ outcome' = outcome
        \/ Stop("vm_protect")
    BY <1>3, <2>7 DEF ProtectSegment
  <2>9. QED
    BY <2>6, <2>8, SetTyped, StopTyped DEF TypeOK, Outcomes, Errors
<1>4. CASE SegmentsProtected
  <2>1. PICK img : img = [Img EXCEPT !.pc = "init", !.at = 0]
    OBVIOUS
  <2>2. img \in ImageType
    BY <1>1, <2>1, PhaseNames, PhaseTyped
  <2>3. SetImg(img) /\ world' = world /\ stack' = stack /\ outcome' = outcome
    BY <1>4, <2>1 DEF SegmentsProtected
  <2>4. QED
    BY <2>2, <2>3, SetTyped DEF TypeOK
<1>5. CASE CallInitializer
  <2>1. PICK c, n, s : /\ c = InitTarget(Img.init_functions[Img.at + 1])
                       /\ n = Img.at + 1 /\ s = Append(Img.calls, c)
    OBVIOUS
  <2>2. /\ Img.at \in Nat /\ Img.at < Len(Img.init_functions)
        /\ Img.init_functions \in Seq(Nat) /\ Img.calls \in Seq(Nat)
    BY <1>1, <1>5, FieldsTyped DEF CallInitializer
  <2>3. c \in Nat /\ n \in Nat
    BY <2>1, <2>2, PageZeroAssumption DEF InitTarget
  <2>4. s \in Seq(Nat)
    BY <2>1, <2>2, <2>3
  <2>5. PICK x : x = [Img EXCEPT !.at = n]
    OBVIOUS
  <2>6. x \in ImageType
    BY <1>1, <2>3, <2>5 DEF ImageType
  <2>7. PICK img : img = [x EXCEPT !.calls = s]
    OBVIOUS
  <2>8. img \in ImageType
    BY <2>4, <2>6, <2>7 DEF ImageType
  <2>9. img = [Img EXCEPT !.at = @ + 1, !.calls = Append(@, c)]
    BY <2>1, <2>5, <2>7
  <2>10. \/ SetImg(img) /\ world' = world /\ stack' = stack /\ outcome' = outcome
         \/ Stop("fault")
    BY <1>5, <2>1, <2>9 DEF CallInitializer
  <2>11. QED
    BY <2>8, <2>10, SetTyped, StopTyped DEF TypeOK, Outcomes
<1>6. QED
  BY <1>2, <1>3, <1>4, <1>5 DEF ImageFinalize

LEMMA EnterTyped ==
    ASSUME IInv, TypeOK, EnterProgram
    PROVE  TypeOK'
<1>1. PICK img : img = [Img EXCEPT !.pc = "done"]
  OBVIOUS
<1>2. img \in ImageType
  BY <1>1, ImgTyped, PhaseNames DEF ImageType
<1>3. SetImg(img) /\ world' = world /\ stack' = stack /\ outcome' = "entered"
  BY <1>1 DEF EnterProgram
<1>4. QED
  BY <1>2, <1>3, SetTyped DEF Outcomes

LEMMA ReturnTyped ==
    ASSUME IInv, TypeOK, ReturnToCaller
    PROVE  TypeOK'
<1>1. PICK T : T = ImageType
  OBVIOUS
<1>2. /\ images \in Seq(T) /\ stack \in Seq(Nat) /\ Caller \in 1..Len(images) /\ Cur \in Nat
      /\ Waiting(Caller, Cur)
  BY <1>1, ReturnFacts, ImgTyped DEF TypeOK
<1>3. PICK done : done = [Img EXCEPT !.pc = "done"]
  OBVIOUS
<1>4. done \in T
  BY <1>1, <1>3, ImgTyped, PhaseNames DEF ImageType
<1>5. PICK img : img = images[Caller]
  OBVIOUS
<1>6. img \in T /\ img.at < Len(img.libraries)
  BY <1>2, <1>5 DEF Waiting
<1>7. PICK lib : lib = Entry
  OBVIOUS
<1>8. lib \in Library
  <2>1. img.libraries[img.at + 1] \in InstallName
    BY <1>1, <1>6, WantedTyped
  <2>2. QED
    BY <1>2, <1>5, <1>7, <2>1 DEF Entry, Library
<1>9. PICK top : top = [img EXCEPT !.at = @ + 1, !.libs = Append(@, lib)]
  OBVIOUS
<1>10. top \in T
  BY <1>1, <1>6, <1>8, <1>9, ListedTyped
<1>11. /\ IsSeq(images') /\ Len(images') = Len(images) /\ Len(images) \in Nat
       /\ images'[Cur] = done /\ images'[Caller] = top
       /\ \A i \in 1..Len(images) : i # Cur /\ i # Caller => images'[i] = images[i]
       /\ IsSeq(stack') /\ Len(stack') = Len(stack) - 1
       /\ \A k \in 1..(Len(stack) - 1) : stack'[k] = stack[k]
       /\ world' = world /\ outcome' = outcome
  BY <1>2, <1>3, <1>5, <1>7, <1>9, ReturnFacts
<1>12. \A i \in 1..Len(images) : images[i] \in T
  BY <1>2
<1>13. \A i \in 1..Len(images') : images'[i] \in T
  BY <1>4, <1>10, <1>11, <1>12
<1>14. images' \in Seq(T)
  BY <1>11, <1>13 DEF IsSeq
<1>15. \A k \in 1..Len(stack') : stack'[k] \in Nat
  BY <1>2, <1>11
<1>16. stack' \in Seq(Nat)
  BY <1>11, <1>15 DEF IsSeq
<1>17. QED
  BY <1>1, <1>11, <1>14, <1>16 DEF TypeOK

LEMMA InitTyped == Init => TypeOK
<1> SUFFICES ASSUME Init PROVE TypeOK
  OBVIOUS
<1>1. PICK T, new : T = ImageType /\ new = NewImage(world.exe, TRUE)
  OBVIOUS
<1>2. world \in Worlds /\ images = <<new>> /\ stack = <<1>> /\ outcome = "loading"
  BY <1>1 DEF Init
<1>3. world.exe \in Path
  BY <1>2, WorldsAssumption DEF IsWorld
<1>4. new \in T
  BY <1>1, <1>3, NewImageTyped
<1>5. images \in Seq(T) /\ stack \in Seq(Nat)
  BY <1>2, <1>4
<1>6. QED
  BY <1>1, <1>2, <1>5 DEF TypeOK, Outcomes

LEMMA NextTyped == IInv /\ TypeOK /\ [Next]_vars => TypeOK'
<1> SUFFICES ASSUME IInv, TypeOK, [Next]_vars PROVE TypeOK'
  OBVIOUS
<1>1. CASE UNCHANGED vars
  BY <1>1 DEF TypeOK, vars
<1>2. CASE Ended
  BY <1>1, <1>2 DEF Ended
<1>3. QED
  BY <1>1, <1>2, ParserTyped, LoadTyped, MapTyped, FixupTyped, FinalizeTyped, ReturnTyped,
     EnterTyped DEF Next

(* TypeOK: whatever the files contain, macho_loader and what it calls keep *)
(* every image, the stack and the outcome within their types: what the     *)
(* symbol tables and initializer sections of a file yield included.        *)
THEOREM LoaderTypes == Spec => []TypeOK
<1>1. IInv /\ TypeOK /\ [Next]_vars => TypeOK'
  BY NextTyped
<1>2. QED
  BY <1>1, InitTyped, LoaderInvariant, PTL DEF Spec

=============================================================================
