--------------------------- MODULE StartupProofs ---------------------------
(***************************************************************************)
(* For every executable, every image dynld itself may have, and whatever   *)
(* the kernel does: the state keeps its types, the image that is loaded is *)
(* arm64 and the first of its file, the error handling only dies when the  *)
(* kernel fails it, and, when the parser decodes dynld's own fixups as     *)
(* they were meant, no message is formatted before the rebase and no image *)
(* loaded before the self bind.  The parser does decode them so when the   *)
(* image is laid out as bindings_macho.rs documents.                       *)
(***************************************************************************)
EXTENDS Startup, FixupFormat, SequenceLemmas, TLAPS

-----------------------------------------------------------------------------
(* The ways a step can leave the start.                                    *)

Outputs == {"printing", "exit_error", "panic_exit"}
SliceChosen == {"cache", "bind", "exec_dir", "loader", "program"}
Starting == SliceChosen \cup {"parse", "rebase", "container"}

SliceOK ==
    \/ slice = 0 /\ IsArm64(world.exe.image)
    \/ /\ slice \in Arm64Slices(world.exe)
       /\ \A i \in 1..(slice - 1) : i \notin Arm64Slices(world.exe)

(* A panic nests only when printing the message of another one failed, so  *)
(* every message that leads to exit_error is printed outside of panics.    *)
IInv ==
    /\ world \in StartWorlds /\ pc \in Pcs /\ then \in {"exit_error", "panic_exit"}
    /\ depth \in 0..StackLimit
    /\ pc \in Starting \cup {"exit_error"} => depth = 0
    /\ pc = "printing" /\ then = "exit_error" => depth = 0
    /\ pc \in SliceChosen => SliceOK
    /\ DiesOnlyWithoutKernel

(* A panic outside of panics leaves the stack room.                        *)
LEMMA PanicPreserves ==
    ASSUME IInv, Panic, depth = 0 \/ ~world.stderr
    PROVE  IInv'
<1>1. /\ world' = world /\ world \in StartWorlds /\ then \in {"exit_error", "panic_exit"}
      /\ depth \in 0..StackLimit /\ StackLimit \in Nat /\ StackLimit > 0
  BY StackLimitAssumption DEF IInv, Panic
<1>2. CASE depth = StackLimit /\ pc' = "overflow" /\ UNCHANGED <<depth, pending, then>>
  <2>1. ~world.stderr
    BY <1>1, <1>2
  <2>2. QED
    BY <1>1, <1>2, <2>1
    DEF IInv, Starting, SliceChosen, DiesOnlyWithoutKernel, Pcs, Final
<1>3. CASE /\ depth < StackLimit /\ depth' = depth + 1
           /\ pc' = "printing" /\ then' = "panic_exit"
  BY <1>1, <1>3
  DEF IInv, Starting, SliceChosen, DiesOnlyWithoutKernel, Pcs, Final
<1>4. CASE /\ depth < StackLimit /\ depth' = depth + 1
           /\ pc' = "panic_exit" /\ UNCHANGED <<pending, then>>
  BY <1>1, <1>4
  DEF IInv, Starting, SliceChosen, DiesOnlyWithoutKernel, Pcs, Final
<1>5. QED
  BY <1>2, <1>3, <1>4 DEF Panic

(* An error outside of panics is printed and ends in exit_error.           *)
LEMMA FailPreserves ==
    ASSUME IInv, Fail, depth = 0
    PROVE  IInv'
  BY DEF IInv, Fail, Starting, SliceChosen, DiesOnlyWithoutKernel, Pcs, Final

(* Going on, outside of panics.                                            *)
LEMMA GoOnPreserves ==
    ASSUME IInv, UNCHANGED <<world, slice, then, depth>>, depth = 0,
           pc' \in Starting \cup {"exit_error", "fault", "program_exited"},
           pc' \in SliceChosen => pc \in SliceChosen,
           pc' = "fault" => world.loader = "crash"
    PROVE  IInv'
<1>1. SliceOK => SliceOK'
  BY DEF SliceOK
<1>2. QED
  BY <1>1 DEF IInv, Starting, SliceChosen, DiesOnlyWithoutKernel, Pcs, Final

(* The end, and printing.                                                  *)
LEMMA ExitPreserves ==
    ASSUME IInv, Exit
    PROVE  IInv'
  BY DEF IInv, Exit, Starting, SliceChosen, DiesOnlyWithoutKernel, Pcs, Final

(* Slices are counted from 1.                                              *)
LEMMA SlicesFacts ==
    ASSUME IInv
    PROVE  Arm64Slices(world.exe) \subseteq Nat \ {0}
<1>1. world.exe.slices \in Seq(Slice)
  BY StartWorldsAssumption DEF IInv, IsWorld
<1>2. DOMAIN world.exe.slices = 1..Len(world.exe.slices) /\ Len(world.exe.slices) \in Nat
  BY <1>1
<1>3. QED
  BY <1>2 DEF Arm64Slices

(* The slice used is the file itself or the first arm64 one.               *)
LEMMA UseSlicePreserves ==
    ASSUME IInv, depth = 0, NEW i, UseSlice(i),
           \/ i = 0 /\ IsArm64(world.exe.image)
           \/ Arm64Slices(world.exe) # {} /\ i = Min(Arm64Slices(world.exe))
    PROVE  IInv'
<1> DEFINE S == Arm64Slices(world.exe)
<1>1. world' = world /\ slice' = i /\ pc' = "cache" /\ depth' = depth /\ then' = then
  BY DEF UseSlice
<1>2. SliceOK'
  <2>1. CASE i = 0 /\ IsArm64(world.exe.image)
    BY <1>1, <2>1 DEF SliceOK
  <2>2. CASE S # {} /\ i = Min(S)
    <3>1. S \subseteq Nat
      BY SlicesFacts
    <3>2. i \in S /\ i \in Nat /\ \A x \in S : i <= x
      BY <2>2, <3>1, MinFacts
    <3>3. \A x \in 1..(i - 1) : x \notin S
      BY <3>2
    <3>4. QED
      BY <1>1, <3>2, <3>3 DEF SliceOK
  <2>3. QED
    BY <2>1, <2>2
<1>3. QED
  BY <1>1, <1>2 DEF IInv, Starting, SliceChosen, DiesOnlyWithoutKernel, Pcs, Final

(* A start is outside of panics, with no slice chosen.                     *)
LEMMA InitIInv == Init => IInv
  BY StackLimitAssumption
  DEF Init, IInv, Starting, SliceChosen, DiesOnlyWithoutKernel, Pcs, Final

(* Every step of a start keeps the invariant.                              *)
LEMMA NextIInv == IInv /\ [Next]_vars => IInv'
<1> SUFFICES ASSUME IInv, [Next]_vars PROVE IInv'
  OBVIOUS
<1>0. pc \in Starting \cup {"exit_error"} => depth = 0
  BY DEF IInv
<1>1. CASE ParseSelf
  <2>1. pc = "parse" /\ UNCHANGED own_vars
    BY <1>1 DEF ParseSelf
  <2>2. QED
    BY <1>0, <2>1, GoOnPreserves DEF own_vars, Starting, SliceChosen
<1>2. CASE ParseEnds
  <2>1. pc = "parse" /\ depth = 0
    BY <1>0, <1>2 DEF ParseEnds, Starting
  <2>2. CASE Continue("rebase") \/ Continue("exit_error")
    BY <2>1, <2>2, GoOnPreserves DEF Continue, Starting, SliceChosen
  <2>3. QED
    BY <1>2, <2>1, <2>2, PanicPreserves DEF ParseEnds
<1>3. CASE RebaseOne
  BY <1>0, <1>3, GoOnPreserves DEF RebaseOne, Starting, SliceChosen
<1>4. CASE Rebased
  BY <1>0, <1>4, GoOnPreserves DEF Rebased, Starting, SliceChosen
<1>5. CASE ContainerCreate
  <2>1. pc = "container" /\ depth = 0
    BY <1>0, <1>5 DEF ContainerCreate, Starting
  <2>2. \/ Panic \/ Fail
        \/ IsArm64(world.exe.image) /\ UseSlice(0)
        \/ Arm64Slices(world.exe) # {} /\ UseSlice(Min(Arm64Slices(world.exe)))
    BY <1>5 DEF ContainerCreate
  <2>3. QED
    BY <2>1, <2>2, PanicPreserves, FailPreserves, UseSlicePreserves
<1>6. CASE AttachCache
  <2>1. pc = "cache" /\ depth = 0
    BY <1>0, <1>6 DEF AttachCache, Starting, SliceChosen
  <2>2. CASE pc' = "bind" /\ UNCHANGED <<world, slice, then, depth>>
    BY <2>1, <2>2, GoOnPreserves DEF Starting, SliceChosen
  <2>3. QED
    BY <1>6, <2>1, <2>2, FailPreserves, PanicPreserves DEF AttachCache
<1>7. CASE BindOne
  <2>1. pc = "bind" /\ depth = 0
    BY <1>0, <1>7 DEF BindOne, Starting, SliceChosen
  <2>2. CASE UNCHANGED <<world, pc, slice, then, depth>>
    BY <2>1, <2>2, GoOnPreserves DEF Starting, SliceChosen
  <2>3. QED
    BY <1>7, <2>1, <2>2, FailPreserves DEF BindOne
<1>8. CASE SelfBound
  BY <1>0, <1>8, GoOnPreserves DEF SelfBound, Continue, Starting, SliceChosen
<1>9. CASE FindExecDir
  <2>1. pc = "exec_dir" /\ depth = 0
    BY <1>0, <1>9 DEF FindExecDir, Starting, SliceChosen
  <2>2. CASE Continue("loader")
    BY <2>1, <2>2, GoOnPreserves DEF Continue, Starting, SliceChosen
  <2>3. QED
    BY <1>9, <2>1, <2>2, FailPreserves DEF FindExecDir
<1>10. CASE RunLoader
  <2>1. pc = "loader" /\ depth = 0
    BY <1>0, <1>10 DEF RunLoader, Starting, SliceChosen
  <2>2. CASE Continue("program") \/ (world.loader = "crash" /\ Continue("fault"))
    BY <2>1, <2>2, GoOnPreserves DEF Continue, Starting, SliceChosen
  <2>3. QED
    <3>1. \/ Continue("program") \/ (world.loader = "crash" /\ Continue("fault"))
          \/ Fail \/ Panic
      BY <1>10 DEF RunLoader
    <3>2. QED
      BY <2>1, <2>2, <3>1, PanicPreserves, FailPreserves
<1>11. CASE RunProgram
  <2>1. pc = "program" /\ depth = 0
    BY <1>0, <1>11 DEF RunProgram, Starting, SliceChosen
  <2>2. QED
    BY <1>11, <2>1, GoOnPreserves DEF RunProgram, Continue, Starting, SliceChosen
<1>12. CASE WriteAll
  BY <1>12 DEF WriteAll, IInv, Starting, SliceChosen, DiesOnlyWithoutKernel, Pcs, Final
<1>13. CASE WriteFails
  BY <1>13, PanicPreserves DEF WriteFails
<1>14. CASE Printed
  BY <1>14 DEF Printed, IInv, Starting, SliceChosen, DiesOnlyWithoutKernel, Pcs, Final
<1>15. CASE ExitError
  BY <1>0, <1>15, PanicPreserves, ExitPreserves DEF ExitError
<1>16. CASE PanicExit
  <2>1. CASE world.exits /\ Exit
    BY <2>1, ExitPreserves
  <2>2. CASE ~world.exits /\ pc' = "fault" /\ UNCHANGED <<world, depth, then>>
    BY <2>2 DEF IInv, Starting, SliceChosen, DiesOnlyWithoutKernel, Pcs, Final
  <2>3. QED
    BY <1>16, <2>1, <2>2 DEF PanicExit
<1>17. CASE Ended \/ UNCHANGED vars
  <2>1. UNCHANGED <<world, pc, slice, then, depth>>
    BY <1>17 DEF Ended, vars, own_vars
  <2>2. SliceOK => SliceOK'
    BY <2>1 DEF SliceOK
  <2>3. QED
    BY <2>1, <2>2 DEF IInv, DiesOnlyWithoutKernel
<1>18. QED
  BY <1>1, <1>2, <1>3, <1>4, <1>5, <1>6, <1>7, <1>8, <1>9, <1>10, <1>11, <1>12, <1>13,
     <1>14, <1>15, <1>16, <1>17 DEF Next

(* The control of a start, whatever it finds.                              *)
THEOREM StartInvariant == Spec => []IInv
  BY InitIInv, NextIInv, PTL DEF Spec

(* arm64_container_create: only an arm64 image reaches macho_loader, and   *)
(* of a fat file the first slice that is one.                              *)
THEOREM LoadsTheArm64Slice == Spec => []LoadsArm64
<1>1. IInv => LoadsArm64
  BY DEF IInv, LoadsArm64, SliceChosen, SliceOK
<1>2. QED
  BY <1>1, StartInvariant, PTL

(* The panic handler, exit_error and the printing they do: the stack is    *)
(* exhausted only when stderr takes no output, the null dereference        *)
(* reached only when exit does not exit.                                   *)
THEOREM ErrorHandlingEnds == Spec => []DiesOnlyWithoutKernel
<1>1. IInv => DiesOnlyWithoutKernel
  BY DEF IInv
<1>2. QED
  BY <1>1, StartInvariant, PTL

-----------------------------------------------------------------------------
(* dynld's own pointers.                                                   *)

Count == Len(world.meant)

(* The k-th meant pointer is in place.                                     *)
Right(k) ==
    /\ world.meant[k].offset \in DOMAIN mem
    /\ mem[world.meant[k].offset] = PointerFor(world.meant[k], 0)

RebasesRight(n) == \A k \in 1..n : world.meant[k].kind = "rebase" => Right(k)

OnlyMeant == \A o \in DOMAIN mem : \E k \in 1..Count : world.meant[k].offset = o

(* The i-th fixup kept for the second pass stands for the k-th meant one.  *)
StandsFor(i, k) ==
    /\ world.meant[k].kind = "bind"
    /\ fixups[i].offset = world.meant[k].offset
    /\ fixups[i].symbol = world.meant[k].symbol

BindFixup == [kind : {"bind"}, offset : Nat, symbol : STRING, ordinal : 0..255,
              addend : Int, is_auth : BOOLEAN]

BindsKept ==
    /\ Len(fixups) \in Nat /\ DOMAIN fixups = 1..Len(fixups)
    /\ \A i \in DOMAIN fixups : fixups[i] \in BindFixup
    /\ \A i \in DOMAIN fixups : \E k \in 1..Count : StandsFor(i, k)
    /\ \A k \in 1..Count : world.meant[k].kind = "bind" =>
          \E i \in DOMAIN fixups : StandsFor(i, k)

Bound(i) ==
    /\ fixups[i].offset \in DOMAIN mem
    /\ mem[fixups[i].offset] =
          [space |-> "libSystem", symbol |-> fixups[i].symbol, addend |-> 0]

(* HAS_REBASED_SELF says what it is read for; the rebases of the first     *)
(* pass survive the second, which covers every bind of the image.          *)
FInv ==
    /\ world \in StartWorlds
    /\ pc = "parse" => DOMAIN mem = {} /\ ~HAS_REBASED_SELF
    /\ pc = "rebase" => /\ fixups = world.meant /\ ~HAS_REBASED_SELF
                        /\ at \in 0..Count /\ RebasesRight(at)
    /\ HAS_REBASED_SELF => RebasesRight(Count)
    /\ pc \in (Starting \ {"parse", "rebase"}) \cup {"printing"} => HAS_REBASED_SELF
    /\ OnlyMeant
    /\ pc \in {"container", "cache", "bind"} => BindsKept
    /\ pc = "bind" => at \in 0..Len(fixups) /\ \A i \in 1..at : Bound(i)
    /\ pc \in {"exec_dir", "loader", "program"} => \A k \in 1..Count : Right(k)

(* The fixups dynld is meant to have: each at an offset of its own.        *)
LEMMA WorldFacts ==
    ASSUME FInv
    PROVE  /\ Count \in Nat /\ world.meant \in Seq(Fixup) /\ DOMAIN world.meant = 1..Count
           /\ \A i, j \in 1..Count : world.meant[i].offset = world.meant[j].offset => i = j
           /\ \A k \in 1..Count : world.meant[k].kind \in {"rebase", "bind"}
<1>1. IsWorld(world)
  BY StartWorldsAssumption DEF FInv
<1>2. /\ world.meant \in Seq(Fixup) /\ Count \in Nat /\ DOMAIN world.meant = 1..Count
  BY <1>1 DEF IsWorld, Count
<1>3. \A k \in 1..Count : world.meant[k] \in Fixup
  BY <1>2 DEF Count
<1>4. \A k \in 1..Count : world.meant[k].kind \in {"rebase", "bind"}
  BY <1>3 DEF Fixup
<1>5. QED
  BY <1>1, <1>2, <1>4 DEF IsWorld

(* A write changes one pointer.                                            *)
LEMMA WriteFacts ==
    ASSUME NEW o, NEW p, Write(o, p)
    PROVE  /\ DOMAIN mem' = DOMAIN mem \cup {o}
           /\ mem'[o] = p
           /\ \A x \in DOMAIN mem : x # o => mem'[x] = mem[x]
  BY DEF Write

(* Writing one meant pointer leaves the others alone.                      *)
LEMMA WriteKeeps ==
    ASSUME FInv, world' = world, NEW k \in 1..Count, NEW p,
           Write(world.meant[k].offset, p), NEW j \in 1..Count, j # k, Right(j)
    PROVE  Right(j)'
<1>1. world.meant[j].offset # world.meant[k].offset
  BY WorldFacts
<1>2. QED
  BY <1>1, WriteFacts DEF Right

(* A write for a fixup that was meant is at an offset that was meant.      *)
LEMMA WriteOnlyMeant ==
    ASSUME FInv, world' = world, NEW k \in 1..Count, NEW p,
           Write(world.meant[k].offset, p)
    PROVE  OnlyMeant'
<1>1. \A o \in DOMAIN mem : \E j \in 1..Count : world.meant[j].offset = o
  BY DEF FInv, OnlyMeant
<1>2. DOMAIN mem' = DOMAIN mem \cup {world.meant[k].offset} /\ Count' = Count
  BY WriteFacts DEF Count
<1>3. \A o \in DOMAIN mem' : \E j \in 1..Count : world.meant[j].offset = o
  BY <1>1, <1>2
<1>4. QED
  BY <1>2, <1>3 DEF OnlyMeant

(* What a step that writes nothing keeps.                                  *)
LEMMA SamePointers ==
    ASSUME UNCHANGED <<world, mem>>
    PROVE  /\ Count' = Count /\ OnlyMeant' = OnlyMeant
           /\ \A k : Right(k)' = Right(k)
           /\ \A n : RebasesRight(n)' = RebasesRight(n)
  BY DEF Count, OnlyMeant, Right, RebasesRight

(* Leaving the start writes no pointer.                                    *)
LEMMA LeavesPreserves ==
    ASSUME FInv, UNCHANGED <<world, mem, HAS_REBASED_SELF>>,
           pc' \in Outputs \cup Final, pc' = "printing" => HAS_REBASED_SELF
    PROVE  FInv'
<1>1. pc' \notin Starting
  BY DEF Outputs, Final, Starting, SliceChosen
<1>2. /\ pc' # "parse" /\ pc' # "rebase" /\ pc' # "bind"
      /\ pc' \notin {"container", "cache", "bind"} /\ pc' \notin {"exec_dir", "loader", "program"}
  BY <1>1 DEF Starting, SliceChosen
<1>3. pc' \in (Starting \ {"parse", "rebase"}) \cup {"printing"} => HAS_REBASED_SELF'
  BY <1>1
<1>4. (HAS_REBASED_SELF => RebasesRight(Count)) /\ OnlyMeant /\ world \in StartWorlds
  BY DEF FInv
<1>5. (HAS_REBASED_SELF => RebasesRight(Count))' /\ OnlyMeant' /\ world' \in StartWorlds
  BY <1>4, SamePointers DEF RebasesRight, Right, Count
<1>6. QED
  BY <1>2, <1>3, <1>5 DEF FInv

(* A panic formats its message only after the rebase.                      *)
LEMMA PanicKeepsPointers ==
    ASSUME FInv, Panic
    PROVE  FInv'
  BY LeavesPreserves DEF Panic, Outputs, Final

(* An error is printed after the rebase only.                              *)
LEMMA FailKeepsPointers ==
    ASSUME FInv, Fail, HAS_REBASED_SELF
    PROVE  FInv'
  BY LeavesPreserves DEF Fail, Outputs, Final

(* The first pass puts one more rebase in place.                           *)
LEMMA RebaseOnePreserves ==
    ASSUME FInv, RebaseOne
    PROVE  FInv'
<1>0. PICK k : k = at + 1
  OBVIOUS
<1> DEFINE f == world.meant[k]
<1>1. /\ pc = "rebase" /\ pc' = "rebase" /\ world' = world /\ at' = k
      /\ fixups' = fixups /\ fixups = world.meant /\ ~HAS_REBASED_SELF
      /\ HAS_REBASED_SELF' = HAS_REBASED_SELF
      /\ at \in 0..Count /\ RebasesRight(at) /\ at < Len(fixups)
  BY <1>0 DEF RebaseOne, FInv, parser_vars
<1>2. Count \in Nat /\ k \in 1..Count /\ at' \in 0..Count /\ Count' = Count
  BY <1>0, <1>1, WorldFacts DEF Count
<1>3. \A j \in 1..k : j \in 1..at \/ j = k
  BY <1>0, <1>1, <1>2
<1>4. \/ f.kind = "rebase" /\ Write(f.offset, PointerFor(f, 0))
      \/ f.kind = "bind" /\ mem' = mem
  BY <1>0, <1>1 DEF RebaseOne, PointerFor
<1>5. RebasesRight(k)' /\ OnlyMeant'
  <2>1. CASE f.kind = "rebase" /\ Write(f.offset, PointerFor(f, 0))
    <3>1. OnlyMeant'
      BY <1>1, <1>2, <2>1, WriteOnlyMeant
    <3>2. Right(k)'
      <4>0. Write(f.offset, PointerFor(f, 0))
        BY <2>1
      <4>1. f.offset \in DOMAIN mem' /\ mem'[f.offset] = PointerFor(f, 0)
        BY <4>0 DEF Write
      <4>2. QED
        BY <1>1, <4>1 DEF Right
    <3>3. ASSUME NEW j \in 1..k, world.meant[j].kind = "rebase", j # k
          PROVE  Right(j)'
      <4>1. j \in 1..at /\ j \in 1..Count
        BY <1>1, <1>2, <1>3, <3>3
      <4>2. Right(j)
        BY <1>1, <3>3, <4>1 DEF RebasesRight
      <4>3. QED
        BY <1>1, <1>2, <2>1, <3>3, <4>1, <4>2, WriteKeeps
    <3>4. QED
      BY <1>1, <3>1, <3>2, <3>3 DEF RebasesRight
  <2>2. CASE f.kind = "bind" /\ mem' = mem
    <3>1. RebasesRight(k)
      BY <1>1, <1>3, <2>2 DEF RebasesRight
    <3>2. OnlyMeant
      BY DEF FInv
    <3>3. QED
      BY <1>1, <2>2, <3>1, <3>2 DEF RebasesRight, Right, OnlyMeant, Count
  <2>3. QED
    BY <1>4, <2>1, <2>2
<1>6. RebasesRight(at)'
  BY <1>1, <1>5 DEF RebasesRight
<1>7. QED
  BY <1>1, <1>2, <1>5, <1>6 DEF FInv, Starting, SliceChosen

(* The binds that rebase_self_and_extract_bind_fixups returns.             *)
BindsOf(list) == SelectIn(list, {f \in Range(list) : f.kind = "bind"})

(* The fixups kept for the second pass are all the binds.                  *)
LEMMA BindsOfFacts ==
    ASSUME NEW m \in Seq(Fixup), NEW kept, kept = BindsOf(m)
    PROVE  /\ Len(kept) \in Nat /\ DOMAIN kept = 1..Len(kept)
           /\ \A i \in DOMAIN kept : kept[i] \in BindFixup /\ \E k \in 1..Len(m) : kept[i] = m[k]
           /\ \A k \in 1..Len(m) : m[k].kind = "bind" => \E i \in DOMAIN kept : kept[i] = m[k]
<1>1. PICK T : T = {f \in Range(m) : f.kind = "bind"}
  OBVIOUS
<1>2. \A k \in 1..Len(m) : m[k].kind = "bind" => m[k] \in T
  BY <1>1 DEF Range
<1>3. kept = SelectIn(m, T)
  BY <1>1 DEF BindsOf
<1>4. /\ kept \in Seq(Fixup)
      /\ \A i \in 1..Len(kept) : kept[i] \in T /\ \E k \in 1..Len(m) : kept[i] = m[k]
      /\ \A k \in 1..Len(m) : m[k] \in T => \E i \in 1..Len(kept) : kept[i] = m[k]
  <2>1. PICK A : A = Fixup
    OBVIOUS
  <2>2. m \in Seq(A)
    BY <2>1
  <2>3. /\ SelectIn(m, T) \in Seq(A)
        /\ \A i \in 1..Len(SelectIn(m, T)) :
              SelectIn(m, T)[i] \in T /\ \E k \in 1..Len(m) : SelectIn(m, T)[i] = m[k]
        /\ \A k \in 1..Len(m) : m[k] \in T =>
              \E i \in 1..Len(SelectIn(m, T)) : SelectIn(m, T)[i] = m[k]
    BY <2>2, SelectFacts
  <2>4. QED
    BY <1>3, <2>1, <2>3
<1>5. /\ Len(kept) \in Nat /\ DOMAIN kept = 1..Len(kept)
      /\ \A i \in DOMAIN kept : kept[i] \in Fixup
  BY <1>4
<1>6. \A i \in DOMAIN kept : kept[i].kind = "bind"
  BY <1>1, <1>4, <1>5
<1>7. \A i \in DOMAIN kept : kept[i] \in BindFixup
  BY <1>5, <1>6 DEF Fixup, BindFixup
<1>8. QED
  BY <1>2, <1>4, <1>5, <1>7

(* HAS_REBASED_SELF is set when every rebase is in place.                  *)
LEMMA RebasedPreserves ==
    ASSUME FInv, Rebased
    PROVE  FInv'
<1>1. /\ pc = "rebase" /\ pc' = "container" /\ UNCHANGED <<world, mem>>
      /\ fixups = world.meant /\ fixups' = BindsOf(fixups)
      /\ RebasesRight(at) /\ at = Len(fixups) /\ HAS_REBASED_SELF' /\ OnlyMeant
      /\ world \in StartWorlds
  BY DEF Rebased, FInv, BindsOf
<1>2. Count \in Nat /\ world.meant \in Seq(Fixup) /\ Count = Len(world.meant)
  BY WorldFacts DEF Count
<1>3. PICK m : m = world.meant
  OBVIOUS
<1>4. PICK kept : kept = BindsOf(m)
  OBVIOUS
<1>5. /\ Len(kept) \in Nat /\ DOMAIN kept = 1..Len(kept)
      /\ \A i \in DOMAIN kept : kept[i] \in BindFixup /\ \E k \in 1..Count : kept[i] = m[k]
      /\ \A k \in 1..Count : m[k].kind = "bind" => \E i \in DOMAIN kept : kept[i] = m[k]
  BY <1>2, <1>3, <1>4, BindsOfFacts
<1>6. fixups' = kept /\ world'.meant = m /\ Count' = Count
  BY <1>1, <1>3, <1>4 DEF Count
<1>7. ASSUME NEW i \in DOMAIN kept, NEW k \in 1..Count, kept[i] = m[k]
      PROVE  StandsFor(i, k)'
  <2>1. kept[i].kind = "bind"
    BY <1>5 DEF BindFixup
  <2>2. QED
    BY <1>6, <1>7, <2>1 DEF StandsFor
<1>8. BindsKept'
  BY <1>5, <1>6, <1>7 DEF BindsKept
<1>9. RebasesRight(Count)' /\ OnlyMeant'
  BY <1>1, <1>2 DEF RebasesRight, Right, OnlyMeant, Count
<1>10. QED
  BY <1>1, <1>8, <1>9 DEF FInv, Starting, SliceChosen

(* tls_functions_self_bind_hack redirects the kept binds to libSystem.     *)
LEMMA AttachPreserves ==
    ASSUME FInv, AttachCache
    PROVE  FInv'
<1>1. HAS_REBASED_SELF /\ BindsKept /\ pc = "cache" /\ world \in StartWorlds /\ OnlyMeant
      /\ RebasesRight(Count)
  BY DEF FInv, AttachCache, Starting, SliceChosen
<1>2. CASE Fail \/ Panic
  BY <1>1, <1>2, FailKeepsPointers, PanicKeepsPointers
<1>3. CASE /\ pc' = "bind" /\ at' = 0 /\ UNCHANGED <<world, mem, HAS_REBASED_SELF>>
           /\ fixups' = [i \in DOMAIN fixups |-> [fixups[i] EXCEPT !.ordinal = 1]]
  <2>1. /\ DOMAIN fixups' = DOMAIN fixups /\ Len(fixups') = Len(fixups)
        /\ Len(fixups) \in Nat
    BY <1>1, <1>3 DEF BindsKept
  <2>2. \A i \in DOMAIN fixups : /\ fixups'[i].offset = fixups[i].offset
                                 /\ fixups'[i].symbol = fixups[i].symbol
                                 /\ fixups'[i] \in BindFixup
    BY <1>1, <1>3 DEF BindsKept, BindFixup
  <2>3. Count' = Count
    BY <1>3 DEF Count
  <2>4. \A i \in DOMAIN fixups : \A k : StandsFor(i, k)' <=> StandsFor(i, k)
    BY <1>3, <2>2 DEF StandsFor
  <2>5. BindsKept'
    <3>1. DOMAIN fixups' = 1..Len(fixups') /\ Len(fixups') \in Nat
      BY <1>1, <2>1 DEF BindsKept
    <3>2. \A i \in DOMAIN fixups' : \E k \in 1..Count : StandsFor(i, k)'
      BY <1>1, <2>1, <2>4 DEF BindsKept
    <3>3. ASSUME NEW k \in 1..Count, world.meant[k].kind = "bind"
          PROVE  \E i \in DOMAIN fixups' : StandsFor(i, k)'
      BY <1>1, <2>1, <2>4, <3>3 DEF BindsKept
    <3>4. QED
      BY <1>3, <2>1, <2>2, <2>3, <3>1, <3>2, <3>3 DEF BindsKept
  <2>6. RebasesRight(Count)' /\ OnlyMeant'
    BY <1>1, <1>3 DEF RebasesRight, Right, OnlyMeant, Count
  <2>7. at' \in 0..Len(fixups') /\ \A i \in 1..at' : Bound(i)'
    BY <1>3, <2>1
  <2>8. QED
    BY <1>1, <1>3, <2>5, <2>6, <2>7 DEF FInv, Starting, SliceChosen
<1>4. QED
  BY <1>2, <1>3 DEF AttachCache

(* The second pass puts one more bind in place.                            *)
LEMMA BindOnePreserves ==
    ASSUME FInv, BindOne
    PROVE  FInv'
<1>1. /\ HAS_REBASED_SELF /\ BindsKept /\ pc = "bind" /\ world \in StartWorlds /\ OnlyMeant
      /\ RebasesRight(Count) /\ at \in 0..Len(fixups) /\ at < Len(fixups)
      /\ \A i \in 1..at : Bound(i)
  BY DEF FInv, BindOne, Starting, SliceChosen
<1>2. CASE Fail
  BY <1>1, <1>2, FailKeepsPointers
<1>3. CASE /\ UNCHANGED <<parser_vars, world, pc, HAS_REBASED_SELF>>
           /\ at' = at + 1
           /\ Write(fixups[at + 1].offset,
                    [space |-> "libSystem", symbol |-> fixups[at + 1].symbol, addend |-> 0])
  <2>0. PICK n : n = at + 1
    OBVIOUS
  <2>1. n \in DOMAIN fixups /\ Len(fixups) \in Nat /\ DOMAIN fixups = 1..Len(fixups)
        /\ fixups' = fixups /\ n \in Nat
    BY <1>1, <1>3, <2>0 DEF BindsKept, parser_vars
  <2>2. PICK k \in 1..Count : StandsFor(n, k)
    BY <1>1, <2>1 DEF BindsKept
  <2> DEFINE p == [space |-> "libSystem", symbol |-> fixups[n].symbol, addend |-> 0]
             o == world.meant[k].offset
  <2>3. fixups[n].offset = o /\ world.meant[k].kind = "bind" /\ Write(o, p)
    BY <1>3, <2>0, <2>2 DEF StandsFor
  <2>4. o \in DOMAIN mem' /\ mem'[o] = p /\ DOMAIN mem' = DOMAIN mem \cup {o}
        /\ \A x \in DOMAIN mem : x # o => mem'[x] = mem[x]
    <3>1. PICK pp, oo : pp = p /\ oo = o
      OBVIOUS
    <3>2. Write(oo, pp)
      BY <2>3, <3>1
    <3>3. oo \in DOMAIN mem' /\ mem'[oo] = pp /\ DOMAIN mem' = DOMAIN mem \cup {oo}
          /\ \A x \in DOMAIN mem : x # oo => mem'[x] = mem[x]
      BY <3>2, WriteFacts
    <3>4. QED
      BY <3>1, <3>3
  <2>5. OnlyMeant'
    BY <1>3, <2>3, WriteOnlyMeant
  <2>6. Count' = Count /\ Count \in Nat
    BY <1>3, WorldFacts DEF Count
  <2>7. RebasesRight(Count)'
    <3>1. ASSUME NEW j \in 1..Count, world.meant[j].kind = "rebase"
          PROVE  Right(j)'
      <4>1. Right(j) /\ j # k
        BY <1>1, <2>3, <3>1 DEF RebasesRight
      <4>2. QED
        BY <1>3, <2>3, <4>1, WriteKeeps
    <3>2. QED
      BY <1>3, <2>6, <3>1 DEF RebasesRight
  <2>8. ASSUME NEW i \in 1..n
        PROVE  Bound(i)'
    <3>1. CASE fixups[i].offset # o
      <4>1. i \in 1..at
        BY <1>1, <2>0, <2>3, <3>1
      <4>2. Bound(i)
        BY <1>1, <4>1
      <4>3. QED
        BY <2>1, <2>4, <3>1, <4>2 DEF Bound
    <3>2. CASE fixups[i].offset = o
      <4>1. i \in DOMAIN fixups
        BY <2>1
      <4>2. PICK j \in 1..Count : StandsFor(i, j)
        BY <1>1, <4>1 DEF BindsKept
      <4>3. j = k
        BY <3>2, <4>2, WorldFacts DEF StandsFor
      <4>4. fixups[i].symbol = fixups[n].symbol
        BY <2>2, <4>2, <4>3 DEF StandsFor
      <4>5. QED
        BY <2>1, <2>4, <3>2, <4>4 DEF Bound
    <3>3. QED
      BY <3>1, <3>2
  <2>9. BindsKept'
    BY <1>1, <1>3, <2>1, <2>6 DEF BindsKept, StandsFor
  <2>10. at' \in 0..Len(fixups') /\ \A i \in 1..at' : Bound(i)'
    BY <1>1, <1>3, <2>0, <2>1, <2>8
  <2>11. QED
    BY <1>1, <1>3, <2>5, <2>7, <2>9, <2>10 DEF FInv, Starting, SliceChosen
<1>4. QED
  BY <1>2, <1>3 DEF BindOne

(* After the second pass every fixup is in place.                          *)
LEMMA SelfBoundPreserves ==
    ASSUME FInv, SelfBound
    PROVE  FInv'
<1>1. /\ pc = "bind" /\ at = Len(fixups) /\ pc' = "exec_dir"
      /\ UNCHANGED <<world, mem, HAS_REBASED_SELF>>
      /\ HAS_REBASED_SELF /\ BindsKept /\ OnlyMeant /\ RebasesRight(Count)
      /\ world \in StartWorlds /\ \A i \in 1..at : Bound(i)
  BY DEF FInv, SelfBound, Continue, Starting, SliceChosen
<1>2. ASSUME NEW k \in 1..Count
      PROVE  Right(k)
  <2>1. CASE world.meant[k].kind = "rebase"
    BY <1>1, <2>1 DEF RebasesRight
  <2>2. CASE world.meant[k].kind = "bind"
    <3>1. PICK i \in DOMAIN fixups : StandsFor(i, k)
      BY <1>1, <2>2 DEF BindsKept
    <3>2. Bound(i)
      BY <1>1 DEF BindsKept
    <3>3. QED
      BY <2>2, <3>1, <3>2 DEF Bound, StandsFor, Right, PointerFor
  <2>3. QED
    BY <2>1, <2>2, WorldFacts
<1>3. /\ Count' = Count /\ OnlyMeant' /\ \A k \in 1..Count : Right(k)'
      /\ RebasesRight(Count)'
  BY <1>1, <1>2 DEF Count, OnlyMeant, Right, RebasesRight
<1>4. QED
  BY <1>1, <1>3 DEF FInv, Starting, SliceChosen

(* Steps between the phases that neither parse nor write.                  *)
LEMMA LoadingPreserves ==
    ASSUME FInv, UNCHANGED <<world, mem, HAS_REBASED_SELF>>,
           pc \in {"exec_dir", "loader", "program"}, pc' \in {"exec_dir", "loader", "program"}
    PROVE  FInv'
<1>1. /\ HAS_REBASED_SELF /\ OnlyMeant /\ RebasesRight(Count) /\ world \in StartWorlds
      /\ \A k \in 1..Count : Right(k)
  BY DEF FInv, Starting, SliceChosen
<1>2. /\ Count' = Count /\ OnlyMeant' /\ \A k \in 1..Count : Right(k)'
      /\ RebasesRight(Count)'
  BY <1>1 DEF Count, OnlyMeant, Right, RebasesRight
<1>3. QED
  BY <1>1, <1>2 DEF FInv, Starting, SliceChosen

(* arm64_container_create writes no pointer.                               *)
LEMMA ContainerPreserves ==
    ASSUME FInv, UNCHANGED <<world, mem, HAS_REBASED_SELF, fixups>>,
           pc = "container", pc' = "cache"
    PROVE  FInv'
<1>1. /\ HAS_REBASED_SELF /\ OnlyMeant /\ RebasesRight(Count) /\ world \in StartWorlds
      /\ BindsKept
  BY DEF FInv, Starting, SliceChosen
<1>2. /\ Count' = Count /\ OnlyMeant' /\ RebasesRight(Count)' /\ BindsKept'
  BY <1>1 DEF Count, OnlyMeant, Right, RebasesRight, BindsKept, StandsFor
<1>3. QED
  BY <1>1, <1>2 DEF FInv, Starting, SliceChosen

(* The parse ends with the fixups that were meant, and nothing written.    *)
LEMMA ParsePreserves ==
    ASSUME FInv, DecodesExactly, ParseSelf \/ ParseEnds
    PROVE  FInv'
<1>1. /\ pc = "parse" /\ DOMAIN mem = {} /\ ~HAS_REBASED_SELF /\ world \in StartWorlds
  BY DEF FInv, ParseSelf, ParseEnds
<1>2. Count \in Nat
  BY WorldFacts
<1>3. ASSUME UNCHANGED <<world, mem, HAS_REBASED_SELF>>
      PROVE  /\ world' \in StartWorlds /\ DOMAIN mem' = {} /\ ~HAS_REBASED_SELF' /\ OnlyMeant'
             /\ Count' = Count
  BY <1>1, <1>3 DEF OnlyMeant, Count
<1>4. CASE ParseSelf
  BY <1>1, <1>3, <1>4 DEF ParseSelf, own_vars, FInv, Starting, SliceChosen
<1>5. CASE cursor.pc = "parsed" /\ Continue("rebase")
  <2>1. /\ fixups' = world'.meant /\ pc' = "rebase" /\ at' = 0
        /\ UNCHANGED <<world, mem, HAS_REBASED_SELF>>
    BY <1>1, <1>5 DEF Continue, DecodesExactly, parser_vars
  <2>2. at' \in 0..Count' /\ RebasesRight(at)'
    BY <1>2, <1>3, <2>1 DEF RebasesRight
  <2>3. QED
    BY <1>3, <2>1, <2>2 DEF FInv, Starting, SliceChosen
<1>6. CASE Continue("exit_error")
  BY <1>6, LeavesPreserves DEF Continue, Outputs, Final
<1>7. CASE Panic
  BY <1>7, PanicKeepsPointers
<1>8. QED
  BY <1>4, <1>5, <1>6, <1>7 DEF ParseEnds

(* A start has written no pointer.                                         *)
LEMMA InitFInv == Init => FInv
<1> SUFFICES ASSUME Init PROVE FInv
  OBVIOUS
<1>1. /\ world \in StartWorlds /\ pc = "parse" /\ mem = << >> /\ HAS_REBASED_SELF = FALSE
  BY DEF Init
<1>2. DOMAIN mem = {}
  BY <1>1
<1>3. QED
  BY <1>1, <1>2 DEF FInv, OnlyMeant, Starting, SliceChosen

(* Every step keeps the pointers as meant, while the parse is exact.       *)
LEMMA NextFInv == IInv /\ FInv /\ DecodesExactly /\ [Next]_vars => FInv'
<1> SUFFICES ASSUME IInv, FInv, DecodesExactly, [Next]_vars PROVE FInv'
  OBVIOUS
<1>0. pc \in (Starting \ {"parse", "rebase"}) \cup {"printing"} => HAS_REBASED_SELF
  BY DEF FInv
<1>1. CASE ParseSelf \/ ParseEnds
  BY <1>1, ParsePreserves
<1>2. CASE RebaseOne
  BY <1>2, RebaseOnePreserves
<1>3. CASE Rebased
  BY <1>3, RebasedPreserves
<1>4. CASE ContainerCreate
  <2>1. pc = "container" /\ HAS_REBASED_SELF
    BY <1>0, <1>4 DEF ContainerCreate, Starting
  <2>2. Panic \/ Fail \/ \E i : UseSlice(i)
    BY <1>4 DEF ContainerCreate
  <2>3. ASSUME NEW i, UseSlice(i)
        PROVE  FInv'
    BY <2>1, <2>3, ContainerPreserves DEF UseSlice, parser_vars
  <2>4. QED
    BY <2>1, <2>2, <2>3, PanicKeepsPointers, FailKeepsPointers
<1>5. CASE AttachCache
  BY <1>5, AttachPreserves
<1>6. CASE BindOne
  BY <1>6, BindOnePreserves
<1>7. CASE SelfBound
  BY <1>7, SelfBoundPreserves
<1>8. CASE FindExecDir \/ RunLoader \/ RunProgram
  <2>1. pc \in {"exec_dir", "loader", "program"} /\ HAS_REBASED_SELF
    BY <1>0, <1>8 DEF FindExecDir, RunLoader, RunProgram, Starting, SliceChosen
  <2>2. \/ Panic \/ Fail \/ Continue("loader") \/ Continue("program")
        \/ Continue("fault") \/ Continue("program_exited") \/ Continue("exit_error")
    BY <1>8 DEF FindExecDir, RunLoader, RunProgram
  <2>3. CASE Continue("loader") \/ Continue("program")
    BY <2>1, <2>3, LoadingPreserves DEF Continue
  <2>4. CASE Continue("fault") \/ Continue("program_exited") \/ Continue("exit_error")
    BY <2>4, LeavesPreserves DEF Continue, Outputs, Final
  <2>5. QED
    BY <2>1, <2>2, <2>3, <2>4, PanicKeepsPointers, FailKeepsPointers
<1>9. CASE WriteAll
  BY <1>0, <1>9, LeavesPreserves DEF WriteAll, Outputs
<1>10. CASE WriteFails
  BY <1>10, PanicKeepsPointers DEF WriteFails
<1>11. ASSUME Exit
       PROVE  FInv'
  BY <1>11, LeavesPreserves DEF Exit, Final
<1>12. CASE ExitError
  BY <1>11, <1>12, PanicKeepsPointers DEF ExitError
<1>13. CASE PanicExit
  <2>1. CASE pc' = "fault" /\ UNCHANGED <<world, mem, HAS_REBASED_SELF>>
    BY <2>1, LeavesPreserves DEF Final
  <2>2. QED
    BY <1>11, <1>13, <2>1 DEF PanicExit
<1>14. CASE Ended \/ UNCHANGED vars
  <2>1. UNCHANGED <<world, pc, mem, HAS_REBASED_SELF, fixups, at>>
    BY <1>14 DEF Ended, vars, own_vars, parser_vars
  <2>2. QED
    BY <2>1 DEF FInv, Count, OnlyMeant, Right, RebasesRight, BindsKept, StandsFor, Bound
<1>15. CASE Printed
  BY <1>15, LeavesPreserves DEF Printed, IInv, Outputs
<1>16. QED
  BY <1>1, <1>2, <1>3, <1>4, <1>5, <1>6, <1>7, <1>8, <1>9, <1>10, <1>12, <1>13, <1>14, <1>15
  DEF Next

(* Where the parse finds the fixups that were meant, the two passes put    *)
(* them in place.                                                          *)
THEOREM PointersInvariant == Spec => ([]DecodesExactly => []FInv)
  BY StartInvariant, InitFInv, NextFInv, PTL DEF Spec

(* HAS_REBASED_SELF and the panic handler: when the parser decodes dynld's *)
(* own fixups as they were meant, a message is only formatted once every   *)
(* rebase of the image has been applied.                                   *)
THEOREM FormatsAfterRebase == Spec => ([]DecodesExactly => []FormatsOnlyRebased)
<1>1. FInv => FormatsOnlyRebased
  <2> SUFFICES ASSUME FInv, pc = "printing", NEW f \in Meant, f.kind = "rebase"
               PROVE  f.offset \in DOMAIN mem /\ mem[f.offset] = PointerFor(f, 0)
    BY DEF FormatsOnlyRebased
  <2>1. PICK k \in 1..Count : f = world.meant[k]
    BY WorldFacts DEF Meant
  <2>2. RebasesRight(Count)
    BY DEF FInv
  <2>3. QED
    BY <2>1, <2>2 DEF RebasesRight, Right
<1>2. QED
  BY <1>1, PointersInvariant, PTL

(* rebase_self_and_extract_bind_fixups and tls_functions_self_bind_hack:   *)
(* when the parser decodes dynld's own fixups as they were meant,          *)
(* macho_loader runs with every one of them in place, and with nothing     *)
(* else written.                                                           *)
THEOREM LoadsAfterSelfBind == Spec => ([]DecodesExactly => []LoadsOnlyFixedUp)
<1>1. FInv => LoadsOnlyFixedUp
  <2> SUFFICES ASSUME FInv, pc \in {"loader", "program"}
               PROVE  /\ DOMAIN mem = {f.offset : f \in Meant}
                      /\ \A f \in Meant : mem[f.offset] = PointerFor(f, 0)
    BY DEF LoadsOnlyFixedUp
  <2>1. /\ \A k \in 1..Count : Right(k)
        /\ OnlyMeant
    BY DEF FInv
  <2>2. \A f \in Meant : \E k \in 1..Count : f = world.meant[k]
    BY WorldFacts DEF Meant
  <2>3. \A k \in 1..Count : world.meant[k] \in Meant
    BY WorldFacts DEF Meant
  <2>4. \A f \in Meant : f.offset \in DOMAIN mem /\ mem[f.offset] = PointerFor(f, 0)
    BY <2>1, <2>2 DEF Right
  <2>5. \A o \in DOMAIN mem : \E f \in Meant : f.offset = o
    BY <2>1, <2>3 DEF OnlyMeant
  <2>6. QED
    BY <2>4, <2>5
<1>2. QED
  BY <1>1, PointersInvariant, PTL

-----------------------------------------------------------------------------
(* Numbers and their bits.                                                 *)

BitOf(w, b) == IF b \in w THEN 1 ELSE 0

(* The number of a field, bit by bit.                                      *)
LEMMA NumberSteps ==
    ASSUME NEW w
    PROVE  \E g \in [0..24 -> Nat] :
              /\ g[0] = 0 /\ \A n \in 1..24 : g[n] = 2 * g[n - 1] + BitOf(w, 24 - n)
              /\ Number(w) = g[24]
<1> DEFINE Row(g) == g = [n \in 0..24 |->
                          IF n = 0 THEN 0 ELSE 2 * g[n - 1] + (IF 24 - n \in w THEN 1 ELSE 0)]
           F == [n \in 1..24 |-> [x \in Nat |-> 2 * x + BitOf(w, 24 - n)]]
<1>1. F \in [1..24 -> [Nat -> Nat]]
  BY DEF BitOf
<1>2. \A n \in 1..24 : \A x \in Nat : F[n][x] = 2 * x + BitOf(w, 24 - n)
  OBVIOUS
<1> HIDE DEF F
<1>3. PICK f \in [0..24 -> Nat] : f[0] = 0 /\ \A n \in 1..24 : f[n] = F[n][f[n - 1]]
  <2>0. PICK N \in Nat : N = 24
    OBVIOUS
  <2>1. PICK S, z : S = Nat /\ z = 0
    OBVIOUS
  <2>2. z \in S /\ F \in [1..N -> [S -> S]]
    BY <1>1, <2>0, <2>1
  <2>3. \E g : Unfolds(g, N, S, z, F)
    BY <2>2, RecursionExists
  <2>4. QED
    BY <2>0, <2>1, <2>3 DEF Unfolds
<1>4. \A n \in 1..24 : n - 1 \in 0..24 /\ f[n] = 2 * f[n - 1] + BitOf(w, 24 - n)
  BY <1>2, <1>3
<1>5. Row(f)
  <2>1. ASSUME NEW n \in 0..24
        PROVE  f[n] = IF n = 0 THEN 0 ELSE 2 * f[n - 1] + (IF 24 - n \in w THEN 1 ELSE 0)
    BY <1>3, <1>4 DEF BitOf
  <2>2. QED
    BY <1>3, <2>1
<1>6. PICK g : g = (CHOOSE h : Row(h))
  OBVIOUS
<1>7. Number(w) = g[24]
  BY <1>6 DEF Number
<1>8. Row(g)
  <2> HIDE DEF Row
  <2>1. QED
    BY <1>5, <1>6
<1>9. /\ DOMAIN g = 0..24 /\ g = [n \in 0..24 |-> g[n]] /\ g[0] = 0
      /\ \A n \in 1..24 : g[n] = 2 * g[n - 1] + BitOf(w, 24 - n)
  BY <1>8 DEF BitOf
<1> DEFINE T == {n \in Nat : n <= 24 => g[n] = f[n]}
<1>10. 0 \in T
  BY <1>3, <1>9
<1>11. ASSUME NEW n \in Nat, n \in T
       PROVE  n + 1 \in T
  <2>1. n + 1 <= 24 => n + 1 \in 1..24 /\ (n + 1) - 1 = n /\ g[n] = f[n]
    BY <1>11
  <2>2. n + 1 <= 24 => g[n + 1] = f[n + 1]
    BY <1>4, <1>9, <2>1
  <2>3. QED
    BY <2>2
<1>12. \A n \in 0..24 : g[n] = f[n]
  <2> HIDE DEF T
  <2>1. Nat \subseteq T
    BY <1>10, <1>11, NatInd
  <2>2. QED
    BY <2>1 DEF T
<1>13. g \in [0..24 -> Nat]
  BY <1>9, <1>12
<1>14. QED
  BY <1>7, <1>9, <1>13

LEMMA NumberTyped ==
    ASSUME NEW w
    PROVE  Number(w) \in Nat
<1>1. PICK g \in [0..24 -> Nat] : Number(w) = g[24]
  BY NumberSteps
<1>2. QED
  BY <1>1

Builds(g, w) ==
    /\ g \in [0..24 -> Nat] /\ g[0] = 0
    /\ \A n \in 1..24 : g[n] = 2 * g[n - 1] + BitOf(w, 24 - n)

(* The first k bits are zeros.                                             *)
LEMMA LeadingZeros ==
    ASSUME NEW g, NEW w, Builds(g, w), NEW k \in 0..24, \A b \in (24 - k)..23 : b \notin w
    PROVE  g[k] = 0
<1>1. ASSUME NEW n \in 1..k, g[n - 1] = 0
      PROVE  g[n] = 0
  <2>1. 24 - n \in (24 - k)..23 /\ n \in 1..24
    OBVIOUS
  <2>2. g[n] = 2 * g[n - 1] + BitOf(w, 24 - n) /\ BitOf(w, 24 - n) = 0
    BY <2>1 DEF Builds, BitOf
  <2>3. QED
    BY <1>1, <2>2
<1> DEFINE T == {n \in Nat : n <= k => g[n] = 0}
<1>2. 0 \in T
  BY DEF Builds
<1>3. ASSUME NEW n \in Nat, n \in T
      PROVE  n + 1 \in T
  <2>1. n + 1 <= k => n + 1 \in 1..k /\ (n + 1) - 1 = n /\ g[n] = 0
    BY <1>3
  <2>2. n + 1 <= k => g[n + 1] = 0
    BY <1>1, <2>1
  <2>3. QED
    BY <2>2
<1>4. k \in T
  <2> HIDE DEF T
  <2>1. QED
    BY <1>2, <1>3, NatInd
<1>5. QED
  BY <1>4

(* lib_ordinal has eight bits.                                             *)
LEMMA ByteBound ==
    ASSUME NEW w, w \subseteq 0..7
    PROVE  Number(w) \in 0..255
<1>1. PICK g \in [0..24 -> Nat] :
          /\ g[0] = 0 /\ \A n \in 1..24 : g[n] = 2 * g[n - 1] + BitOf(w, 24 - n)
          /\ Number(w) = g[24]
  BY NumberSteps
<1>2. \A b \in 0..7 : BitOf(w, b) \in 0..1
  BY DEF BitOf
<1>3. g[16] = 0
  <2>1. Builds(g, w)
    BY <1>1 DEF Builds
  <2>2. 16 \in 0..24 /\ \A b \in (24 - 16)..23 : b \notin w
    OBVIOUS
  <2>3. QED
    BY <2>1, <2>2, LeadingZeros
<1>4. ASSUME NEW n \in 17..24
      PROVE  g[n] = 2 * g[n - 1] \/ g[n] = 2 * g[n - 1] + 1
  <2>1. 24 - n \in 0..7 /\ n \in 1..24
    OBVIOUS
  <2>2. QED
    BY <1>1, <1>2, <2>1
<1>5. \A n \in 17..24 : \A c \in Nat : g[n - 1] <= c => g[n] <= 2 * c + 1
  <2> SUFFICES ASSUME NEW n \in 17..24, NEW c \in Nat, g[n - 1] <= c
               PROVE  g[n] <= 2 * c + 1
    OBVIOUS
  <2>1. g[n - 1] \in Nat /\ g[n] \in Nat
    OBVIOUS
  <2>2. QED
    BY <1>4, <2>1
<1>6. g[24] \in 0..255
  <2>1. g[17] <= 1
    BY <1>5, <1>3
  <2>2. g[18] <= 3
    BY <1>5, <2>1
  <2>3. g[19] <= 7
    BY <1>5, <2>2
  <2>4. g[20] <= 15
    BY <1>5, <2>3
  <2>5. g[21] <= 31
    BY <1>5, <2>4
  <2>6. g[22] <= 63
    BY <1>5, <2>5
  <2>7. g[23] <= 127
    BY <1>5, <2>6
  <2>8. g[24] <= 255
    BY <1>5, <2>7
  <2>9. QED
    BY <2>8
<1>7. QED
  BY <1>1, <1>6

(* The members of a field and of a shifted word.                           *)
LEMMA BitsFacts ==
    ASSUME NEW w \in SUBSET Int, NEW low \in Nat, NEW width \in Nat
    PROVE  /\ Bits(w, low, width) \subseteq 0..(width - 1)
           /\ \A x \in Int : x \in Bits(w, low, width) <=> x \in 0..(width - 1) /\ x + low \in w
<1>1. ASSUME NEW x \in Bits(w, low, width)
      PROVE  x \in 0..(width - 1) /\ x + low \in w
  <2>1. PICK b \in w \cap (low..(low + width - 1)) : x = b - low
    BY DEF Bits
  <2>2. b \in Int /\ x + low = b
    BY <2>1
  <2>3. QED
    BY <2>1, <2>2
<1>2. ASSUME NEW x \in Int, x \in 0..(width - 1), x + low \in w
      PROVE  x \in Bits(w, low, width)
  <2>1. x + low \in w \cap (low..(low + width - 1)) /\ x = (x + low) - low
    BY <1>2
  <2>2. QED
    BY <2>1 DEF Bits
<1>3. QED
  BY <1>1, <1>2

LEMMA ShiftFacts ==
    ASSUME NEW w \in SUBSET Int, NEW by \in Nat
    PROVE  /\ ShiftLeft(w, by) \subseteq Int
           /\ \A x \in Int : x \in ShiftLeft(w, by) <=> x - by \in w
<1>1. ASSUME NEW x \in ShiftLeft(w, by)
      PROVE  x \in Int /\ x - by \in w
  <2>1. PICK b \in w : x = b + by
    BY DEF ShiftLeft
  <2>2. b \in Int /\ x - by = b
    BY <2>1
  <2>3. QED
    BY <2>1, <2>2
<1>2. ASSUME NEW x \in Int, x - by \in w
      PROVE  x \in ShiftLeft(w, by)
  <2>1. x = (x - by) + by
    OBVIOUS
  <2>2. QED
    BY <1>2, <2>1 DEF ShiftLeft
<1>3. QED
  BY <1>1, <1>2

(* The fields of a word, and a word put together from two.                 *)
LEMMA FieldsTyped ==
    ASSUME NEW w \in Word
    PROVE  /\ w \in SUBSET Int
           /\ \A low, width \in 0..64 : Bits(w, low, width) \in Word
           /\ ShiftLeft(Bits(w, 36, 8), 56) \in Word /\ ShiftLeft(Bits(w, 43, 8), 56) \in Word
<1>1. w \in SUBSET Int
  BY DEF Word
<1>2. \A low, width \in 0..64 : Bits(w, low, width) \in Word
  <2> SUFFICES ASSUME NEW low \in 0..64, NEW width \in 0..64
               PROVE  Bits(w, low, width) \in Word
    OBVIOUS
  <2>1. low \in Nat /\ width \in Nat /\ 0..(width - 1) \subseteq 0..63
    OBVIOUS
  <2>2. Bits(w, low, width) \subseteq 0..(width - 1)
    BY <1>1, <2>1, BitsFacts
  <2>3. QED
    BY <2>1, <2>2 DEF Word
<1>3. ASSUME NEW low \in {36, 43}
      PROVE  ShiftLeft(Bits(w, low, 8), 56) \in Word
  <2>0. low \in Nat /\ 8 \in Nat
    OBVIOUS
  <2>1. Bits(w, low, 8) \subseteq 0..(8 - 1) /\ Bits(w, low, 8) \in SUBSET Int
    BY <1>1, <2>0, BitsFacts
  <2>2. ASSUME NEW x \in ShiftLeft(Bits(w, low, 8), 56)
        PROVE  x \in 0..63
    <3>1. x \in Int /\ x - 56 \in Bits(w, low, 8)
      BY <2>1, ShiftFacts
    <3>2. QED
      BY <2>1, <3>1
  <2>3. QED
    BY <2>2 DEF Word
<1>4. QED
  BY <1>1, <1>2, <1>3

Decoded ==
    [kind : {"rebase"}, target : Word, next : Nat]
      \cup [kind : {"bind"}, import : Word, next : Nat, addend : Nat, is_auth : BOOLEAN]

LEMMA RebaseTyped ==
    ASSUME NEW target \in Word, NEW next \in Nat
    PROVE  Rebase(target, next) \in Decoded
  BY DEF Rebase, Decoded

LEMMA BindTyped ==
    ASSUME NEW import \in Word, NEW next \in Nat, NEW addend \in Nat, NEW auth \in BOOLEAN
    PROVE  Bind(import, next, addend, auth) \in Decoded
  BY DEF Bind, Decoded

LEMMA UnionTyped ==
    ASSUME NEW v \in Word, NEW w \in Word
    PROVE  v \cup w \in Word
  BY DEF Word

(* What each of the three decoders returns.                                *)
LEMMA Decodes64 ==
    ASSUME NEW v \in Word
    PROVE  fixup_64_parse_one(v) \in Decoded
<1>1. CASE 63 \in v
  <2>1. fixup_64_parse_one(v) =
           Bind(Bits(v, 0, 24), Number(Bits(v, 51, 12)) * 4, Number(Bits(v, 24, 8)), FALSE)
    BY <1>1 DEF fixup_64_parse_one, dyld_chained_ptr_64_bind
  <2>2. Bits(v, 0, 24) \in Word
    BY FieldsTyped, 0 \in 0..64, 24 \in 0..64
  <2>3. Number(Bits(v, 51, 12)) * 4 \in Nat /\ Number(Bits(v, 24, 8)) \in Nat
    BY NumberTyped
  <2>4. QED
    BY <2>1, <2>2, <2>3, BindTyped, FALSE \in BOOLEAN, Zenon
<1>2. CASE 63 \notin v
  <2>1. fixup_64_parse_one(v) =
           Rebase(Bits(v, 0, 36) \cup ShiftLeft(Bits(v, 36, 8), 56), Number(Bits(v, 51, 12)) * 4)
    BY <1>2 DEF fixup_64_parse_one, dyld_chained_ptr_64_rebase
  <2>2. Bits(v, 0, 36) \cup ShiftLeft(Bits(v, 36, 8), 56) \in Word
    <3>1. Bits(v, 0, 36) \in Word /\ ShiftLeft(Bits(v, 36, 8), 56) \in Word
      BY FieldsTyped, 0 \in 0..64, 36 \in 0..64
    <3>2. QED
      BY <3>1, UnionTyped
  <2>3. Number(Bits(v, 51, 12)) * 4 \in Nat
    BY NumberTyped
  <2>4. QED
    BY <2>1, <2>2, <2>3, RebaseTyped
<1>3. QED
  BY <1>1, <1>2

LEMMA DecodesArm64e ==
    ASSUME NEW v \in Word
    PROVE  fixup_arm64e_parse_one(v) \in Decoded
<1>0. Number(Bits(v, 51, 11)) * 8 \in Nat /\ Number(Bits(v, 32, 19)) \in Nat /\ 0 \in Nat
  BY NumberTyped
<1>1. CASE 62 \in v /\ 63 \in v
  <2>1. fixup_arm64e_parse_one(v) = Bind(Bits(v, 0, 16), Number(Bits(v, 51, 11)) * 8, 0, TRUE)
    BY <1>1 DEF fixup_arm64e_parse_one, dyld_chained_ptr_arm64e_auth_bind
  <2>2. Bits(v, 0, 16) \in Word
    BY FieldsTyped, 0 \in 0..64, 16 \in 0..64
  <2>3. QED
    BY <1>0, <2>1, <2>2, BindTyped
<1>2. CASE 62 \in v /\ 63 \notin v
  <2>1. fixup_arm64e_parse_one(v) =
           Bind(Bits(v, 0, 16), Number(Bits(v, 51, 11)) * 8, Number(Bits(v, 32, 19)), FALSE)
    BY <1>2 DEF fixup_arm64e_parse_one, dyld_chained_ptr_arm64e_bind
  <2>2. Bits(v, 0, 16) \in Word
    BY FieldsTyped, 0 \in 0..64, 16 \in 0..64
  <2>3. QED
    BY <1>0, <2>1, <2>2, BindTyped
<1>3. CASE 62 \notin v /\ 63 \in v
  <2>1. fixup_arm64e_parse_one(v) = Rebase(Bits(v, 0, 32), Number(Bits(v, 51, 11)) * 8)
    BY <1>3 DEF fixup_arm64e_parse_one, dyld_chained_ptr_arm64e_auth_rebase
  <2>2. Bits(v, 0, 32) \in Word
    BY FieldsTyped, 0 \in 0..64, 32 \in 0..64
  <2>3. QED
    BY <1>0, <2>1, <2>2, RebaseTyped
<1>4. CASE 62 \notin v /\ 63 \notin v
  <2>1. fixup_arm64e_parse_one(v) =
           Rebase(Bits(v, 0, 43) \cup ShiftLeft(Bits(v, 43, 8), 56), Number(Bits(v, 51, 11)) * 8)
    BY <1>4 DEF fixup_arm64e_parse_one, dyld_chained_ptr_arm64e_rebase
  <2>2. Bits(v, 0, 43) \cup ShiftLeft(Bits(v, 43, 8), 56) \in Word
    <3>1. Bits(v, 0, 43) \in Word /\ ShiftLeft(Bits(v, 43, 8), 56) \in Word
      BY FieldsTyped, 0 \in 0..64, 43 \in 0..64
    <3>2. QED
      BY <3>1, UnionTyped
  <2>3. QED
    BY <1>0, <2>1, <2>2, RebaseTyped
<1>5. QED
  BY <1>1, <1>2, <1>3, <1>4

LEMMA DecodesUserland24 ==
    ASSUME NEW v \in Word
    PROVE  fixup_arm64e_userland24_parse_one(v) \in Decoded
<1>0. Number(Bits(v, 51, 11)) * 8 \in Nat /\ Number(Bits(v, 32, 19)) \in Nat /\ 0 \in Nat
  BY NumberTyped
<1>1. Bits(v, 0, 24) \in Word
  BY FieldsTyped, 0 \in 0..64, 24 \in 0..64
<1>2. CASE 62 \in v /\ 63 \in v
  <2>1. fixup_arm64e_userland24_parse_one(v) =
           Bind(Bits(v, 0, 24), Number(Bits(v, 51, 11)) * 8, 0, TRUE)
    BY <1>2 DEF fixup_arm64e_userland24_parse_one, dyld_chained_ptr_arm64e_auth_bind_24
  <2>2. QED
    BY <1>0, <1>1, <2>1, BindTyped
<1>3. CASE 62 \in v /\ 63 \notin v
  <2>1. fixup_arm64e_userland24_parse_one(v) =
           Bind(Bits(v, 0, 24), Number(Bits(v, 51, 11)) * 8, Number(Bits(v, 32, 19)), FALSE)
    BY <1>3 DEF fixup_arm64e_userland24_parse_one, dyld_chained_ptr_arm64e_bind_24
  <2>2. QED
    BY <1>0, <1>1, <2>1, BindTyped
<1>4. CASE 62 \notin v
  <2>1. fixup_arm64e_userland24_parse_one(v) = fixup_arm64e_parse_one(v)
    BY <1>4 DEF fixup_arm64e_userland24_parse_one
  <2>2. QED
    BY <2>1, DecodesArm64e
<1>5. QED
  BY <1>2, <1>3, <1>4

-----------------------------------------------------------------------------
(* Types.                                                                  *)

(* The parser is in a segment that it can read.                            *)
InSegment ==
    cursor.pc \in {"pages", "chain"} =>
        cursor.seg < Len(image.segs) /\ Starts.state = "present"

TInv == TypeOK /\ world \in StartWorlds /\ image = world.self /\ InSegment

LEMMA ImageFacts ==
    ASSUME TInv
    PROVE  /\ IsImage(image) /\ IsWorld(world)
           /\ Len(image.segs) \in Nat /\ DOMAIN image.segs = 1..Len(image.segs)
           /\ cursor \in Cursor /\ cursor.seg \in Nat /\ cursor.page \in Nat
           /\ cursor.offset \in Nat /\ cursor.at \in Nat /\ fixups \in Seq(Fixup)
<1>1. IsWorld(world) /\ image = world.self
  BY StartWorldsAssumption DEF TInv
<1>2. IsImage(image)
  BY <1>1 DEF IsWorld
<1>3. cursor \in Cursor /\ fixups \in Seq(Fixup)
  BY DEF TInv, TypeOK, ParserTypeOK
<1>4. Len(image.segs) \in Nat /\ DOMAIN image.segs = 1..Len(image.segs)
  BY <1>2 DEF IsImage
<1>5. /\ cursor.seg \in Nat /\ cursor.page \in Nat
      /\ cursor.offset \in Nat /\ cursor.at \in Nat
  BY <1>3 DEF Cursor
<1>6. QED
  BY <1>1, <1>2, <1>3, <1>4, <1>5

LEMMA StartsFacts ==
    ASSUME TInv, cursor.pc \in {"pages", "chain"}
    PROVE  /\ cursor.seg + 1 \in 1..Len(image.segs)
           /\ Starts.segment_offset \in Nat /\ Starts.page_size \in Nat
           /\ Starts.page_count \in Nat /\ Starts.page_starts \in Seq(U16)
           /\ Starts.pointer_format \in PointerFormats
<1>1. cursor.seg < Len(image.segs) /\ Starts.state = "present"
  BY DEF TInv, InSegment
<1>2. cursor.seg + 1 \in 1..Len(image.segs)
  BY <1>1, ImageFacts
<1>3. \A i \in DOMAIN image.segs : IsStarts(image.segs[i])
  BY ImageFacts DEF IsImage
<1>4. IsStarts(Starts)
  BY <1>2, <1>3, ImageFacts DEF Starts
<1>5. QED
  BY <1>1, <1>2, <1>4 DEF IsStarts

LEMMA PageStartTyped ==
    ASSUME TInv, cursor.pc = "pages", cursor.page < Len(Starts.page_starts)
    PROVE  /\ Len(Starts.page_starts) \in Nat
           /\ Starts.page_starts[cursor.page + 1] \in Nat
           /\ Starts.segment_offset + cursor.page * Starts.page_size
                + Starts.page_starts[cursor.page + 1] \in Nat
<1>0. cursor.pc \in {"pages", "chain"}
  OBVIOUS
<1>1. U16 \subseteq Nat
  BY DEF U16
<1>2. PICK ps : ps = Starts.page_starts
  OBVIOUS
<1>3. ps \in Seq(U16)
  BY <1>0, <1>2, StartsFacts
<1>4. Len(ps) \in Nat /\ \A k \in 1..Len(ps) : ps[k] \in U16
  BY <1>3
<1>5. cursor.page \in Nat /\ cursor.page + 1 \in 1..Len(ps)
  BY <1>2, <1>4, ImageFacts
<1>6. ps[cursor.page + 1] \in Nat
  BY <1>1, <1>4, <1>5
<1>7. PICK so, sz : so = Starts.segment_offset /\ sz = Starts.page_size
  OBVIOUS
<1>8. so \in Nat /\ sz \in Nat
  BY <1>0, <1>7, StartsFacts
<1>9. cursor.page * sz \in Nat
  BY <1>5, <1>8
<1>10. so + cursor.page * sz + ps[cursor.page + 1] \in Nat
  BY <1>6, <1>8, <1>9
<1>11. QED
  BY <1>2, <1>4, <1>6, <1>7, <1>10

(* The word under the cursor decodes to a pointer.                         *)
LEMMA PointerTyped ==
    ASSUME TInv, AtPointer
    PROVE  Pointer \in Decoded
<1>1. cursor.pc = "chain" /\ Starts.pointer_format \in PointerFormats \ {"unimplemented"}
  <2>1. cursor.pc = "chain" /\ Starts.pointer_format # "unimplemented"
    BY DEF AtPointer
  <2>2. cursor.pc \in {"pages", "chain"}
    BY <2>1
  <2>3. Starts.pointer_format \in PointerFormats
    BY <2>2, StartsFacts
  <2>4. QED
    BY <2>1, <2>3
<1>2. Value \in Word
  BY ImageFacts DEF Value, IsImage
<1>3. PICK v \in Word : v = Value
  BY <1>2
<1>4. CASE Starts.pointer_format \in {"PTR_64", "PTR_64_OFFSET"}
  <2>1. Pointer = fixup_64_parse_one(v)
    BY <1>3, <1>4 DEF Pointer, ParseOne
  <2>2. QED
    BY <2>1, Decodes64
<1>5. CASE Starts.pointer_format \in {"ARM64E", "ARM64E_USERLAND"}
  <2>1. Pointer = fixup_arm64e_parse_one(v)
    BY <1>3, <1>5 DEF Pointer, ParseOne
  <2>2. QED
    BY <2>1, DecodesArm64e
<1>6. CASE Starts.pointer_format = "ARM64E_USERLAND24"
  <2>1. Pointer = fixup_arm64e_userland24_parse_one(v)
    BY <1>3, <1>6 DEF Pointer, ParseOne
  <2>2. QED
    BY <2>1, DecodesUserland24
<1>7. QED
  BY <1>1, <1>4, <1>5, <1>6 DEF PointerFormats

(* A cursor with some of its fields changed.                               *)
LEMMA CursorTyped ==
    ASSUME NEW c \in Cursor,
           NEW p \in Running \cup {"parsed", "error", "panic"}, NEW n \in Nat
    PROVE  /\ [c EXCEPT !.pc = p] \in Cursor /\ [c EXCEPT !.pc = p].pc = p
           /\ [c EXCEPT !.pc = p, !.page = n] \in Cursor
           /\ [c EXCEPT !.pc = p, !.seg = n] \in Cursor
           /\ [c EXCEPT !.pc = p, !.offset = n] \in Cursor
           /\ [c EXCEPT !.at = n] \in Cursor /\ [c EXCEPT !.seg = n] \in Cursor
           /\ [c EXCEPT !.offset = n] \in Cursor
  BY DEF Cursor

LEMMA GotoTyped ==
    ASSUME TInv, NEW p \in {"segments", "parsed", "error", "panic"}, Goto(p)
    PROVE  ParserTypeOK' /\ InSegment' /\ image' = image
<1>1. cursor' = [cursor EXCEPT !.pc = p] /\ UNCHANGED <<image, fixups>>
  BY DEF Goto
<1>2. p \in Running \cup {"parsed", "error", "panic"} /\ p \notin {"pages", "chain"}
  BY DEF Running
<1>3. cursor' \in Cursor /\ cursor'.pc = p
  BY <1>1, <1>2, ImageFacts, CursorTyped
<1>4. QED
  BY <1>1, <1>2, <1>3, ImageFacts DEF ParserTypeOK, InSegment

(* Push, with a fixup and a distance of their types.                       *)
LEMMA PushTyped ==
    ASSUME TInv, cursor.pc = "chain", NEW f \in Fixup, NEW n \in Nat, Push(f, n)
    PROVE  ParserTypeOK' /\ InSegment' /\ image' = image
<1>1. image' = image /\ fixups' = Append(fixups, f) /\ cursor \in Cursor
  BY ImageFacts DEF Push
<1>2. fixups' \in Seq(Fixup)
  BY <1>1, ImageFacts
<1>3. cursor.seg < Len(image.segs) /\ Starts.state = "present"
  BY DEF TInv, InSegment
<1>4. PICK g \in Nat, o \in Nat : g = cursor.page + 1 /\ o = cursor.offset + n
  BY ImageFacts
<1>5. CASE n = 0
  <2>1. cursor' = [cursor EXCEPT !.pc = "pages", !.page = g]
    BY <1>4, <1>5 DEF Push
  <2>2. cursor' \in Cursor
    BY <1>1, <2>1, CursorTyped DEF Running
  <2>3. cursor'.seg = cursor.seg
    BY <1>1, <2>1 DEF Cursor
  <2>4. QED
    BY <1>1, <1>2, <1>3, <2>2, <2>3 DEF ParserTypeOK, InSegment, Starts
<1>6. CASE n # 0
  <2>1. cursor' = [cursor EXCEPT !.offset = o]
    BY <1>4, <1>6 DEF Push
  <2>2. cursor' \in Cursor
    BY <1>1, <2>1, CursorTyped DEF Running
  <2>3. cursor'.seg = cursor.seg
    BY <1>1, <2>1 DEF Cursor
  <2>4. QED
    BY <1>1, <1>2, <1>3, <2>2, <2>3 DEF ParserTypeOK, InSegment, Starts
<1>7. QED
  BY <1>5, <1>6

LEMMA PushRebaseTyped ==
    ASSUME TInv, PushRebase
    PROVE  ParserTypeOK' /\ InSegment' /\ image' = image
<1>1. PICK p : /\ p = Pointer /\ p.kind = "rebase"
               /\ Push([kind |-> "rebase", offset |-> cursor.offset, target |-> p.target], p.next)
  BY DEF PushRebase
<1>2. p \in Decoded /\ cursor.pc = "chain"
  BY <1>1, PointerTyped DEF PushRebase, AtPointer
<1>3. p.target \in Word /\ p.next \in Nat
  BY <1>1, <1>2 DEF Decoded
<1>4. PICK f : f = [kind |-> "rebase", offset |-> cursor.offset, target |-> p.target]
  OBVIOUS
<1>5. f \in Fixup
  BY <1>3, <1>4, ImageFacts DEF Fixup
<1>6. QED
  BY <1>1, <1>2, <1>3, <1>4, <1>5, PushTyped

LEMMA PushBindTyped ==
    ASSUME TInv, PushBind
    PROVE  ParserTypeOK' /\ InSegment' /\ image' = image
<1>1. PICK p : /\ p = Pointer /\ p.kind = "bind" /\ p.import \in DOMAIN image.imports
               /\ ImportOf(p.import).name_offset \in DOMAIN image.symbols
               /\ Push([kind |-> "bind", offset |-> cursor.offset,
                        symbol |-> image.symbols[ImportOf(p.import).name_offset].text,
                        ordinal |-> ImportOf(p.import).lib_ordinal,
                        addend |-> p.addend, is_auth |-> p.is_auth], p.next)
  BY DEF PushBind
<1>2. p \in Decoded /\ cursor.pc = "chain"
  BY <1>1, PointerTyped DEF PushBind, AtPointer
<1>3. p.addend \in Int /\ p.is_auth \in BOOLEAN /\ p.next \in Nat
  BY <1>1, <1>2 DEF Decoded
<1>4. image.symbols[ImportOf(p.import).name_offset].text \in STRING
  BY <1>1, ImageFacts DEF IsImage
<1>5. ImportOf(p.import).lib_ordinal \in 0..255
  <2>1. image.imports[p.import].header \in Word
    BY <1>1, ImageFacts DEF IsImage
  <2>2. PICK w \in Word : w = image.imports[p.import].header
    BY <2>1
  <2>3. ImportOf(p.import).lib_ordinal = Number(Bits(w, 0, 8))
    BY <2>2 DEF ImportOf, dyld_chained_import
  <2>4. w \in SUBSET Int /\ 0 \in Nat /\ 8 \in Nat
    BY DEF Word
  <2>5. Bits(w, 0, 8) \subseteq 0..(8 - 1) /\ 8 - 1 = 7
    BY <2>4, BitsFacts
  <2>6. QED
    BY <2>3, <2>5, ByteBound
<1>6. PICK f : f = [kind |-> "bind", offset |-> cursor.offset,
                    symbol |-> image.symbols[ImportOf(p.import).name_offset].text,
                    ordinal |-> ImportOf(p.import).lib_ordinal,
                    addend |-> p.addend, is_auth |-> p.is_auth]
  OBVIOUS
<1>7. f \in Fixup
  BY <1>3, <1>4, <1>5, <1>6, ImageFacts DEF Fixup
<1>8. QED
  BY <1>1, <1>2, <1>3, <1>6, <1>7, PushTyped

(* Every step of chained_fixups_parse_all.                                 *)
LEMMA ParseTyped ==
    ASSUME TInv, Parse
    PROVE  ParserTypeOK' /\ InSegment' /\ image' = image
<1>0. cursor \in Cursor /\ fixups \in Seq(Fixup)
  BY ImageFacts
<1>1. CASE SkipCommand
  <2>1. PICK n \in Nat : n = cursor.at + 1
    BY ImageFacts
  <2>2. cursor' = [cursor EXCEPT !.at = n] /\ UNCHANGED <<image, fixups>> /\ cursor.pc = "commands"
    BY <1>1, <2>1 DEF SkipCommand
  <2>3. cursor' \in Cursor
    BY <1>0, <2>2 DEF Cursor
  <2>4. cursor'.pc = "commands"
    BY <1>0, <2>2 DEF Cursor
  <2>5. QED
    BY <1>0, <2>2, <2>3, <2>4 DEF ParserTypeOK, InSegment
<1>2. CASE SkipSegment
  <2>1. PICK n \in Nat : n = cursor.seg + 1
    BY ImageFacts
  <2>2. cursor' = [cursor EXCEPT !.seg = n] /\ UNCHANGED <<image, fixups>> /\ cursor.pc = "segments"
    BY <1>2, <2>1 DEF SkipSegment
  <2>3. cursor' \in Cursor
    BY <1>0, <2>2 DEF Cursor
  <2>4. cursor'.pc = "segments"
    BY <1>0, <2>2 DEF Cursor
  <2>5. QED
    BY <1>0, <2>2, <2>3, <2>4 DEF ParserTypeOK, InSegment
<1>3. CASE EnterSegment
  <2>1. /\ cursor' = [cursor EXCEPT !.pc = "pages", !.page = 0] /\ UNCHANGED <<image, fixups>>
        /\ cursor.seg < Len(image.segs) /\ Starts.state = "present"
    BY <1>3 DEF EnterSegment
  <2>2. cursor' \in Cursor
    BY <1>0, <2>1 DEF Cursor, Running
  <2>3. cursor'.seg = cursor.seg
    BY <1>0, <2>1 DEF Cursor
  <2>4. QED
    BY <1>0, <2>1, <2>2, <2>3 DEF ParserTypeOK, InSegment, Starts
<1>4. CASE EnterPage
  <2>1. /\ cursor.pc = "pages" /\ cursor.page < Len(Starts.page_starts)
        /\ cursor.seg < Len(image.segs) /\ Starts.state = "present"
    BY <1>4 DEF EnterPage, TInv, InSegment
  <2>8. PICK o \in Nat : o = Starts.segment_offset + cursor.page * Starts.page_size
                                + Starts.page_starts[cursor.page + 1]
    BY <2>1, PageStartTyped
  <2>9. cursor' = [cursor EXCEPT !.pc = "chain", !.offset = o] /\ UNCHANGED <<image, fixups>>
    BY <1>4, <2>8 DEF EnterPage
  <2>10. cursor' \in Cursor
    BY <1>0, <2>9 DEF Cursor, Running
  <2>11. cursor'.seg = cursor.seg
    BY <1>0, <2>9 DEF Cursor
  <2>12. QED
    BY <1>0, <2>1, <2>9, <2>10, <2>11 DEF ParserTypeOK, InSegment, Starts
<1>5. CASE PagesDone
  <2>1. PICK n \in Nat : n = cursor.seg + 1
    BY ImageFacts
  <2>2. cursor' = [cursor EXCEPT !.pc = "segments", !.seg = n] /\ UNCHANGED <<image, fixups>>
    BY <1>5, <2>1 DEF PagesDone
  <2>3. cursor' \in Cursor
    BY <1>0, <2>2 DEF Cursor, Running
  <2>4. cursor'.pc = "segments"
    BY <1>0, <2>2 DEF Cursor
  <2>5. QED
    BY <1>0, <2>2, <2>3, <2>4 DEF ParserTypeOK, InSegment
<1>6. CASE \/ CommandFails \/ NoFixups \/ ReadHeader \/ SegmentFails \/ SegmentsDone
           \/ PageFails \/ ImportFails \/ NamePanics \/ ValueFails \/ FormatPanics
  <2>1. \E p \in {"segments", "parsed", "error", "panic"} : Goto(p)
    BY <1>6 DEF CommandFails, NoFixups, ReadHeader, SegmentFails, SegmentsDone, PageFails,
                ImportFails, NamePanics, ValueFails, FormatPanics
  <2>2. QED
    BY <2>1, GotoTyped
<1>7. QED
  BY <1>1, <1>2, <1>3, <1>4, <1>5, <1>6, PushRebaseTyped, PushBindTyped DEF Parse

(* The variables of Startup whose types the control does not fix.          *)
OwnTyped ==
    /\ at \in Nat
    /\ DOMAIN mem \subseteq Nat /\ \A o \in DOMAIN mem : mem[o] \in Pointers
    /\ HAS_REBASED_SELF \in BOOLEAN /\ slice \in Nat
    /\ pending \in Seq(Nat \ {0}) /\ status \in Nat

LEMMA MessageTyped == Message \in Seq(Nat \ {0})
  BY DEF Message

LEMMA PanicTyped ==
    ASSUME OwnTyped, Panic
    PROVE  OwnTyped' /\ UNCHANGED parser_vars
  BY MessageTyped DEF OwnTyped, Panic

LEMMA FailTyped ==
    ASSUME OwnTyped, Fail
    PROVE  OwnTyped' /\ UNCHANGED parser_vars
  BY MessageTyped DEF OwnTyped, Fail

LEMMA ContinueTyped ==
    ASSUME OwnTyped, NEW p, Continue(p)
    PROVE  OwnTyped' /\ UNCHANGED parser_vars
  BY DEF OwnTyped, Continue

LEMMA ExitTyped ==
    ASSUME OwnTyped, Exit
    PROVE  OwnTyped' /\ UNCHANGED parser_vars
  BY DEF OwnTyped, Exit, EXIT_FAILURE

(* One pointer more is written.                                            *)
LEMMA WriteTyped ==
    ASSUME OwnTyped, NEW o \in Nat, NEW p \in Pointers, Write(o, p), at' \in Nat,
           UNCHANGED <<HAS_REBASED_SELF, slice, pending, status>>
    PROVE  OwnTyped'
<1>1. /\ DOMAIN mem' = DOMAIN mem \cup {o} /\ mem'[o] = p
      /\ \A x \in DOMAIN mem : x # o => mem'[x] = mem[x]
  BY WriteFacts
<1>2. DOMAIN mem \subseteq Nat /\ \A x \in DOMAIN mem : mem[x] \in Pointers
  BY DEF OwnTyped
<1>3. DOMAIN mem' \subseteq Nat /\ \A x \in DOMAIN mem' : mem'[x] \in Pointers
  BY <1>1, <1>2
<1>4. QED
  BY <1>3 DEF OwnTyped

LEMMA RebaseOneTyped ==
    ASSUME TInv, OwnTyped, RebaseOne
    PROVE  OwnTyped' /\ UNCHANGED parser_vars
<1>1. at \in Nat /\ at < Len(fixups) /\ fixups \in Seq(Fixup)
  BY ImageFacts DEF RebaseOne, OwnTyped
<1>2. at + 1 \in 1..Len(fixups) /\ at + 1 \in Nat
  BY <1>1
<1>3. PICK f \in Fixup : f = fixups[at + 1]
  BY <1>1, <1>2
<1>4. /\ at' = at + 1 /\ UNCHANGED parser_vars
      /\ UNCHANGED <<HAS_REBASED_SELF, slice, pending, status>>
  BY DEF RebaseOne
<1>5. CASE f.kind = "rebase" /\ Write(f.offset, [space |-> "self", target |-> f.target])
  <2>1. f.offset \in Nat /\ f.target \in Word
    BY <1>3, <1>5 DEF Fixup
  <2>2. PICK p : p = [space |-> "self", target |-> f.target]
    OBVIOUS
  <2>3. p \in Pointers
    BY <2>1, <2>2 DEF Pointers
  <2>4. QED
    BY <1>2, <1>4, <1>5, <2>1, <2>2, <2>3, WriteTyped
<1>6. CASE UNCHANGED mem
  BY <1>2, <1>4, <1>6 DEF OwnTyped
<1>7. QED
  BY <1>3, <1>5, <1>6 DEF RebaseOne

LEMMA BindOneTyped ==
    ASSUME TInv, OwnTyped, BindOne
    PROVE  OwnTyped' /\ UNCHANGED parser_vars
<1>1. at \in Nat /\ at < Len(fixups) /\ fixups \in Seq(Fixup)
  BY ImageFacts DEF BindOne, OwnTyped
<1>2. at + 1 \in 1..Len(fixups) /\ at + 1 \in Nat
  BY <1>1
<1>3. PICK f \in Fixup : f = fixups[at + 1]
  BY <1>1, <1>2
<1>4. CASE /\ f.symbol \in world.libsystem
           /\ Write(f.offset, [space |-> "libSystem", symbol |-> f.symbol, addend |-> 0])
           /\ at' = at + 1 /\ UNCHANGED parser_vars
           /\ UNCHANGED <<HAS_REBASED_SELF, slice, pending, status>>
  <2>1. world.libsystem \subseteq STRING
    BY ImageFacts DEF IsWorld
  <2>2. f.offset \in Nat /\ f.symbol \in STRING
    BY <1>3, <1>4, <2>1 DEF Fixup
  <2>3. PICK p : p = [space |-> "libSystem", symbol |-> f.symbol, addend |-> 0]
    OBVIOUS
  <2>4. p \in Pointers
    BY <2>2, <2>3 DEF Pointers
  <2>5. QED
    BY <1>2, <1>4, <2>2, <2>3, <2>4, WriteTyped
<1>5. QED
  BY <1>3, <1>4, FailTyped DEF BindOne

(* What the two passes keep of the fixups.                                 *)
LEMMA RebasedTyped ==
    ASSUME TInv, OwnTyped, Rebased
    PROVE  OwnTyped' /\ UNCHANGED <<image, cursor>> /\ fixups' \in Seq(Fixup)
<1>1. fixups' \in Seq(Fixup)
  BY ImageFacts, SelectFacts DEF Rebased
<1>2. QED
  BY <1>1 DEF Rebased, OwnTyped

LEMMA AttachTyped ==
    ASSUME TInv, OwnTyped, AttachCache
    PROVE  OwnTyped' /\ UNCHANGED <<image, cursor>> /\ fixups' \in Seq(Fixup)
<1>1. fixups \in Seq(Fixup)
  BY ImageFacts
<1>2. CASE Fail \/ Panic
  BY <1>1, <1>2, FailTyped, PanicTyped DEF parser_vars
<1>3. CASE /\ fixups' = [i \in DOMAIN fixups |-> [fixups[i] EXCEPT !.ordinal = 1]]
           /\ at' = 0 /\ UNCHANGED <<image, cursor, mem, HAS_REBASED_SELF, slice, pending, status>>
  <2>1. ASSUME NEW f \in Fixup
        PROVE  [f EXCEPT !.ordinal = 1] \in Fixup
    <3>1. CASE f \in [kind : {"rebase"}, offset : Nat, target : Word]
      <4>1. PICK h : h = [f EXCEPT !.ordinal = 1]
        OBVIOUS
      <4>2. DOMAIN f = {"kind", "offset", "target"} /\ f = [x \in DOMAIN f |-> f[x]]
        BY <3>1
      <4>3. DOMAIN h = DOMAIN f /\ h = [x \in DOMAIN f |-> h[x]]
        BY <4>1, <4>2
      <4>4. \A x \in DOMAIN f : h[x] = f[x]
        BY <4>1, <4>2
      <4>5. h = f
        BY <4>2, <4>3, <4>4
      <4>6. QED
        BY <4>1, <4>5
    <3>2. CASE f \in BindFixup
      <4>1. [f EXCEPT !.ordinal = 1] \in BindFixup
        BY <3>2 DEF BindFixup
      <4>2. QED
        BY <4>1 DEF BindFixup, Fixup
    <3>3. QED
      BY <3>1, <3>2 DEF Fixup, BindFixup
  <2>2. \A i \in 1..Len(fixups) : [fixups[i] EXCEPT !.ordinal = 1] \in Fixup
    BY <1>1, <2>1
  <2>3. fixups' \in Seq(Fixup)
    <3>1. PICK F : F = Fixup
      OBVIOUS
    <3>2. PICK h : h = [i \in 1..Len(fixups) |-> [fixups[i] EXCEPT !.ordinal = 1]]
      OBVIOUS
    <3>3. DOMAIN fixups = 1..Len(fixups) /\ Len(fixups) \in Nat
      BY <1>1
    <3>4. h \in [1..Len(fixups) -> F]
      BY <2>2, <3>1, <3>2
    <3>5. h \in Seq(F)
      BY <3>3, <3>4
    <3>6. QED
      BY <1>3, <3>1, <3>2, <3>3, <3>5
  <2>4. QED
    BY <1>3, <2>3 DEF OwnTyped
<1>4. QED
  BY <1>2, <1>3 DEF AttachCache

LEMMA ContainerTyped ==
    ASSUME IInv, OwnTyped, ContainerCreate
    PROVE  OwnTyped' /\ UNCHANGED parser_vars
<1>1. CASE Panic \/ Fail
  BY <1>1, PanicTyped, FailTyped
<1>2. CASE UseSlice(0)
  BY <1>2 DEF UseSlice, OwnTyped
<1>3. CASE Arm64Slices(world.exe) # {} /\ UseSlice(Min(Arm64Slices(world.exe)))
  <2>1. Arm64Slices(world.exe) \subseteq Nat
    BY SlicesFacts
  <2>2. Min(Arm64Slices(world.exe)) \in Nat
    BY <1>3, <2>1, MinFacts
  <2>3. QED
    BY <1>3, <2>2 DEF UseSlice, OwnTyped
<1>4. QED
  BY <1>1, <1>2, <1>3 DEF ContainerCreate

(* A write takes bytes off the front of the message.                       *)
LEMMA WriteAllTyped ==
    ASSUME OwnTyped, WriteAll
    PROVE  OwnTyped' /\ UNCHANGED parser_vars
<1>1. PICK N : N = Nat \ {0}
  OBVIOUS
<1>2. pending \in Seq(N) /\ pending # << >>
  BY <1>1 DEF OwnTyped, WriteAll
<1>3. Head(pending) \in N /\ Tail(pending) \in Seq(N)
  BY <1>2
<1>4. PICK n \in 1..Head(pending) :
          pending' = IF n = Head(pending) THEN Tail(pending)
                     ELSE <<Head(pending) - n>> \o Tail(pending)
  BY DEF WriteAll
<1>5. pending' \in Seq(N)
  <2>1. CASE n = Head(pending)
    BY <1>3, <1>4, <2>1
  <2>2. CASE n # Head(pending)
    <3>1. Head(pending) - n \in N
      BY <1>1, <1>3, <2>2
    <3>2. PICK m \in N : m = Head(pending) - n
      BY <3>1
    <3>3. <<m>> \in Seq(N)
      OBVIOUS
    <3>4. QED
      BY <1>3, <1>4, <2>2, <3>2, <3>3
  <2>3. QED
    BY <2>1, <2>2
<1>6. QED
  BY <1>1, <1>5 DEF WriteAll, OwnTyped

(* Every step keeps the types.                                             *)
LEMMA NextTyped == IInv /\ TInv /\ [Next]_vars => TInv'
<1> SUFFICES ASSUME IInv, TInv, [Next]_vars PROVE TInv'
  OBVIOUS
<1>0. OwnTyped /\ image = world.self /\ InSegment /\ ParserTypeOK
  BY DEF TInv, TypeOK, OwnTyped
<1>1. OwnTyped' /\ ParserTypeOK' /\ InSegment' /\ image' = image
  <2>1. CASE ParseSelf
    <3>1. UNCHANGED own_vars /\ Parse
      BY <2>1 DEF ParseSelf
    <3>2. OwnTyped'
      BY <1>0, <3>1 DEF own_vars, OwnTyped
    <3>3. QED
      BY <3>1, <3>2, ParseTyped
  <2>2. ASSUME OwnTyped', UNCHANGED <<image, cursor>>, fixups' \in Seq(Fixup)
        PROVE  OwnTyped' /\ ParserTypeOK' /\ InSegment' /\ image' = image
    BY <1>0, <2>2 DEF ParserTypeOK, InSegment, Starts
  <2>3. ASSUME OwnTyped', UNCHANGED parser_vars
        PROVE  OwnTyped' /\ ParserTypeOK' /\ InSegment' /\ image' = image
    BY <1>0, <2>2, <2>3 DEF parser_vars, ParserTypeOK
  <2>4. CASE Rebased \/ AttachCache
    BY <1>0, <2>2, <2>4, RebasedTyped, AttachTyped
  <2>5. CASE RebaseOne \/ BindOne \/ ContainerCreate \/ WriteAll
    BY <1>0, <2>3, <2>5, RebaseOneTyped, BindOneTyped, ContainerTyped, WriteAllTyped
  <2>6. CASE ParseEnds \/ SelfBound \/ FindExecDir \/ RunLoader \/ RunProgram \/ WriteFails
    <3>1. Panic \/ Fail \/ \E p : Continue(p)
      BY <2>6 DEF ParseEnds, SelfBound, FindExecDir, RunLoader, RunProgram, WriteFails
    <3>2. QED
      BY <1>0, <2>3, <3>1, PanicTyped, FailTyped, ContinueTyped
  <2>7. CASE ExitError \/ PanicExit
    <3>1. CASE Exit \/ Panic
      BY <1>0, <2>3, <3>1, PanicTyped, ExitTyped
    <3>2. CASE UNCHANGED <<parser_vars, at, mem, HAS_REBASED_SELF, slice, pending, status>>
      BY <1>0, <2>3, <3>2 DEF OwnTyped
    <3>3. QED
      BY <2>7, <3>1, <3>2 DEF ExitError, PanicExit
  <2>8. CASE Printed
    BY <1>0, <2>3, <2>8 DEF Printed, OwnTyped
  <2>9. CASE Ended \/ UNCHANGED vars
    BY <1>0, <2>3, <2>9 DEF Ended, vars, own_vars, OwnTyped
  <2>10. QED
    BY <2>1, <2>4, <2>5, <2>6, <2>7, <2>8, <2>9 DEF Next
<1>2. IInv'
  BY NextIInv
<1>3. world' = world
  BY DEF Next, vars, own_vars, ParseSelf, ParseEnds, RebaseOne, Rebased, ContainerCreate,
         AttachCache, BindOne, SelfBound, FindExecDir, RunLoader, RunProgram, WriteAll, WriteFails,
         Printed, ExitError, PanicExit, Ended, Panic, Fail, Continue, Exit, UseSlice
<1>4. world' \in StartWorlds /\ image' = world'.self
  BY <1>0, <1>1, <1>3 DEF TInv
<1>5. pc' \in Pcs /\ depth' \in 0..StackLimit /\ then' \in {"exit_error", "panic_exit"}
  BY <1>2 DEF IInv
<1>6. TypeOK'
  BY <1>1, <1>5 DEF TypeOK, OwnTyped
<1>7. QED
  BY <1>1, <1>4, <1>6 DEF TInv

LEMMA InitTyped == Init => TInv
<1> SUFFICES ASSUME Init PROVE TInv
  OBVIOUS
<1>1. ParserTypeOK /\ cursor.pc = "commands"
  BY DEF Init, ParserInit, ParserTypeOK, Cursor, Running
<1>2. OwnTyped
  <2>1. mem = << >> /\ pending = << >>
    BY DEF Init
  <2>2. DOMAIN mem = {}
    BY <2>1
  <2>3. pending \in Seq(Nat \ {0})
    BY <2>1
  <2>4. at \in Nat /\ HAS_REBASED_SELF \in BOOLEAN /\ slice \in Nat /\ status \in Nat
    BY DEF Init
  <2>5. QED
    BY <2>2, <2>3, <2>4 DEF OwnTyped
<1>3. IInv
  BY InitIInv
<1>4. QED
  BY <1>1, <1>2, <1>3 DEF TInv, TypeOK, OwnTyped, IInv, InSegment, Init

THEOREM StartTypesInvariant == Spec => []TInv
  BY InitTyped, NextTyped, StartInvariant, PTL DEF Spec

(* TypeOK: whatever bits dynld's own image has, the parser keeps its       *)
(* cursor and fixups within their types, an ordinal in its eight bits, and *)
(* no write of a message leaves an empty part behind.                      *)
THEOREM StartTypes == Spec => []TypeOK
<1>1. TInv => TypeOK
  BY DEF TInv
<1>2. QED
  BY <1>1, StartTypesInvariant, PTL

-----------------------------------------------------------------------------
(* An image laid out as documented decodes to what it was laid out from.   *)
(* First, numbers to words and back.                                       *)

Halves(h, n) ==
    h \in [0..15 -> Nat] /\ h[0] = n /\ \A b \in 1..15 : h[b] = h[b - 1] \div 2

LEMMA WordSteps ==
    ASSUME NEW n \in Nat
    PROVE  \E h : Halves(h, n) /\ WordOf(n) = {b \in 0..15 : h[b] % 2 = 1}
<1> DEFINE Row(h) == h = [b \in 0..15 |-> IF b = 0 THEN n ELSE h[b - 1] \div 2]
           F == [b \in 1..15 |-> [x \in Nat |-> x \div 2]]
<1>1. F \in [1..15 -> [Nat -> Nat]]
  OBVIOUS
<1>2. \A b \in 1..15 : \A x \in Nat : F[b][x] = x \div 2
  OBVIOUS
<1> HIDE DEF F
<1>3. PICK f \in [0..15 -> Nat] : f[0] = n /\ \A b \in 1..15 : f[b] = F[b][f[b - 1]]
  <2>0. PICK N \in Nat : N = 15
    OBVIOUS
  <2>1. PICK S : S = Nat
    OBVIOUS
  <2>2. n \in S /\ F \in [1..N -> [S -> S]]
    BY <1>1, <2>0, <2>1
  <2>3. \E g : Unfolds(g, N, S, n, F)
    BY <2>2, RecursionExists
  <2>4. QED
    BY <2>0, <2>1, <2>3 DEF Unfolds
<1>4. \A b \in 1..15 : b - 1 \in 0..15 /\ f[b] = f[b - 1] \div 2
  BY <1>2, <1>3
<1>5. Row(f)
  <2>1. ASSUME NEW b \in 0..15
        PROVE  f[b] = IF b = 0 THEN n ELSE f[b - 1] \div 2
    BY <1>3, <1>4
  <2>2. QED
    BY <1>3, <2>1
<1>6. PICK h : h = (CHOOSE g : Row(g))
  OBVIOUS
<1>7. WordOf(n) = {b \in 0..15 : h[b] % 2 = 1}
  BY <1>6 DEF WordOf
<1>8. Row(h)
  <2> HIDE DEF Row
  <2>1. QED
    BY <1>5, <1>6
<1>9. /\ DOMAIN h = 0..15 /\ h = [b \in 0..15 |-> h[b]] /\ h[0] = n
      /\ \A b \in 1..15 : h[b] = h[b - 1] \div 2
  BY <1>8
<1> DEFINE T == {b \in Nat : b <= 15 => h[b] = f[b]}
<1>10. 0 \in T
  BY <1>3, <1>9
<1>11. ASSUME NEW b \in Nat, b \in T
       PROVE  b + 1 \in T
  <2>1. b + 1 <= 15 => b + 1 \in 1..15 /\ (b + 1) - 1 = b /\ h[b] = f[b]
    BY <1>11
  <2>2. b + 1 <= 15 => h[b + 1] = f[b + 1]
    BY <1>4, <1>9, <2>1
  <2>3. QED
    BY <2>2
<1>12. \A b \in 0..15 : h[b] = f[b]
  <2> HIDE DEF T
  <2>1. Nat \subseteq T
    BY <1>10, <1>11, NatInd
  <2>2. QED
    BY <2>1 DEF T
<1>13. h \in [0..15 -> Nat]
  BY <1>9, <1>12
<1>14. QED
  BY <1>7, <1>9, <1>13 DEF Halves

(* The largest numbers of 12 bits, 11 bits and so on.                      *)
Limits == <<4095, 2047, 1023, 511, 255, 127, 63, 31, 15, 7, 3, 1, 0>>

LEMMA LimitsFacts ==
    /\ \A i \in 1..13 : Limits[i] \in Nat
    /\ \A i \in 1..12 : Limits[i] = 2 * Limits[i + 1] + 1
    /\ Limits[1] = 4095 /\ Limits[2] = 2047 /\ Limits[5] = 255 /\ Limits[13] = 0
  BY DEF Limits

(* A number of width bits has no bit above them.                           *)
LEMMA HalvesVanish ==
    ASSUME NEW n \in Nat, NEW h, Halves(h, n), NEW i \in 1..13, n <= Limits[i]
    PROVE  \A b \in (13 - i)..15 : h[b] = 0
<1>1. \A b \in 0..15 : h[b] \in Nat
  BY DEF Halves
<1>2. ASSUME NEW b \in 1..15, NEW c \in Nat, h[b - 1] <= 2 * c + 1
      PROVE  h[b] <= c
  <2>1. PICK x \in Nat : x = h[b - 1]
    BY <1>1
  <2>2. h[b] = x \div 2 /\ x <= 2 * c + 1
    BY <1>2, <2>1 DEF Halves
  <2>3. x \div 2 <= c
    BY <2>2
  <2>4. QED
    BY <2>2, <2>3
<1> DEFINE T == {b \in Nat : i + b <= 13 => h[b] <= Limits[i + b]}
<1>3. 0 \in T
  BY DEF Halves
<1>4. ASSUME NEW b \in Nat, b \in T
      PROVE  b + 1 \in T
  <2> SUFFICES ASSUME i + (b + 1) <= 13 PROVE h[b + 1] <= Limits[i + (b + 1)]
    OBVIOUS
  <2>1. PICK k \in 1..12 : k = i + b
    OBVIOUS
  <2>2. i + (b + 1) = k + 1 /\ b + 1 \in 1..15 /\ (b + 1) - 1 = b /\ k + 1 \in 1..13
    BY <2>1
  <2>3. h[b] <= 2 * Limits[k + 1] + 1 /\ Limits[k + 1] \in Nat
    <3>1. h[b] <= Limits[k]
      BY <1>4, <2>1
    <3>2. Limits[k] = 2 * Limits[k + 1] + 1 /\ Limits[k + 1] \in Nat
      BY <2>2, LimitsFacts
    <3>3. QED
      BY <3>1, <3>2
  <2>4. QED
    BY <1>2, <2>2, <2>3
<1>5. h[13 - i] = 0
  <2>1. 13 - i \in T
    <3> HIDE DEF T
    <3>1. 13 - i \in Nat
      OBVIOUS
    <3>2. QED
      BY <1>3, <1>4, <3>1, NatInd
  <2>2. i + (13 - i) = 13 /\ 13 - i \in 0..15
    OBVIOUS
  <2>3. h[13 - i] <= 0 /\ h[13 - i] \in Nat
    BY <1>1, <2>1, <2>2, LimitsFacts
  <2>4. QED
    BY <2>3
<1> DEFINE Z == {m \in Nat : (13 - i) + m <= 15 => h[(13 - i) + m] = 0}
<1>6. 0 \in Z
  BY <1>5
<1>7. ASSUME NEW m \in Nat, m \in Z
      PROVE  m + 1 \in Z
  <2> SUFFICES ASSUME (13 - i) + (m + 1) <= 15 PROVE h[(13 - i) + (m + 1)] = 0
    OBVIOUS
  <2>1. PICK b \in 1..15 : b = (13 - i) + (m + 1)
    OBVIOUS
  <2>2. b - 1 = (13 - i) + m /\ b - 1 <= 15
    BY <2>1
  <2>3. h[b - 1] = 0
    BY <1>7, <2>2
  <2>4. h[b] <= 0
    BY <1>2, <2>3, 0 \in Nat
  <2>5. h[b] = 0
    BY <1>1, <2>4
  <2>6. QED
    BY <2>1, <2>5
<1>8. ASSUME NEW b \in (13 - i)..15
      PROVE  h[b] = 0
  <2>1. b - (13 - i) \in Nat /\ (13 - i) + (b - (13 - i)) = b /\ b <= 15
    OBVIOUS
  <2>2. b - (13 - i) \in Z
    <3> HIDE DEF Z
    <3>1. QED
      BY <1>6, <1>7, <2>1, NatInd
  <2>3. QED
    BY <2>1, <2>2
<1>9. QED
  BY <1>8

(* The word of a number: its width, and the number again.                  *)
LEMMA WordFacts ==
    ASSUME NEW n \in Nat, NEW i \in 1..13, n <= Limits[i]
    PROVE  WordOf(n) \subseteq 0..(12 - i) /\ Number(WordOf(n)) = n
<1>1. PICK h : Halves(h, n) /\ WordOf(n) = {b \in 0..15 : h[b] % 2 = 1}
  BY WordSteps
<1>2. \A b \in (13 - i)..15 : h[b] = 0
  BY <1>1, HalvesVanish
<1>3. PICK w : w = WordOf(n)
  OBVIOUS
<1>4. ASSUME NEW b \in w
      PROVE  b \in 0..(12 - i)
  <2>1. b \in 0..15 /\ h[b] % 2 = 1
    BY <1>1, <1>3
  <2>2. b \notin (13 - i)..15
    BY <1>2, <2>1
  <2>3. QED
    BY <2>1, <2>2
<1>5. \A b \in 0..15 : h[b] \in Nat /\ (b \in w <=> h[b] % 2 = 1)
  BY <1>1, <1>3 DEF Halves
<1>6. PICK g \in [0..24 -> Nat] :
          /\ g[0] = 0 /\ \A k \in 1..24 : g[k] = 2 * g[k - 1] + BitOf(w, 24 - k)
          /\ Number(w) = g[24]
  BY NumberSteps
<1>7. g[12] = 0
  <2>1. Builds(g, w)
    BY <1>6 DEF Builds
  <2>2. 12 \in 0..24 /\ \A b \in (24 - 12)..23 : b \notin w
    BY <1>4
  <2>3. QED
    BY <2>1, <2>2, LeadingZeros
<1> DEFINE T == {j \in Nat : j <= 12 => g[12 + j] = h[12 - j]}
<1>8. 0 \in T
  <2>1. h[12] = 0
    BY <1>2
  <2>2. QED
    BY <1>7, <2>1
<1>9. ASSUME NEW j \in Nat, j \in T
      PROVE  j + 1 \in T
  <2> SUFFICES ASSUME j + 1 <= 12 PROVE g[12 + (j + 1)] = h[12 - (j + 1)]
    OBVIOUS
  <2>1. PICK k \in 1..24, b \in 0..15 : k = 12 + (j + 1) /\ b = 12 - (j + 1)
    OBVIOUS
  <2>2. k - 1 = 12 + j /\ 24 - k = b /\ b + 1 = 12 - j /\ b + 1 \in 1..15 /\ (b + 1) - 1 = b
    BY <2>1
  <2>3. g[k - 1] = h[b + 1]
    BY <1>9, <2>2
  <2>4. g[k] = 2 * h[b + 1] + BitOf(w, b)
    BY <1>6, <2>2, <2>3
  <2>5. h[b + 1] = h[b] \div 2
    BY <1>1, <2>2 DEF Halves
  <2>6. PICK x \in Nat : x = h[b]
    BY <1>5
  <2>7. BitOf(w, b) = x % 2
    <3>1. x % 2 = 0 \/ x % 2 = 1
      OBVIOUS
    <3>2. b \in w <=> x % 2 = 1
      BY <1>5, <2>6
    <3>3. QED
      BY <3>1, <3>2 DEF BitOf
  <2>8. 2 * (x \div 2) + (x % 2) = x
    OBVIOUS
  <2>9. QED
    BY <2>1, <2>4, <2>5, <2>6, <2>7, <2>8
<1>10. g[24] = n
  <2>1. 12 \in T
    <3> HIDE DEF T
    <3>1. QED
      BY <1>8, <1>9, NatInd
  <2>2. g[24] = h[0]
    BY <2>1
  <2>3. QED
    BY <1>1, <2>2 DEF Halves
<1>11. QED
  BY <1>3, <1>4, <1>6, <1>10

(* The next field and the ordinal of an import.                            *)
LEMMA NextFieldFacts ==
    ASSUME NEW format, NEW n \in Nat, n <= MaxNext(format)
    PROVE  /\ WordOf(n) \subseteq 0..(IF format \in Ptr64 THEN 11 ELSE 10)
           /\ Number(WordOf(n)) = n
<1>1. CASE format \in Ptr64
  <2>1. n <= Limits[1] /\ 1 \in 1..13 /\ 12 - 1 = 11
    BY <1>1, LimitsFacts DEF MaxNext
  <2>2. QED
    BY <1>1, <2>1, WordFacts
<1>2. CASE format \notin Ptr64
  <2>1. n <= Limits[2] /\ 2 \in 1..13 /\ 12 - 2 = 10
    BY <1>2, LimitsFacts DEF MaxNext
  <2>2. QED
    BY <1>2, <2>1, WordFacts
<1>3. QED
  BY <1>1, <1>2

LEMMA OrdinalFieldFacts ==
    ASSUME NEW n \in 0..255
    PROVE  WordOf(n) \subseteq 0..7 /\ Number(WordOf(n)) = n
<1>1. n \in Nat /\ n <= Limits[5] /\ 5 \in 1..13 /\ 12 - 5 = 7
  BY LimitsFacts
<1>2. QED
  BY <1>1, WordFacts

-----------------------------------------------------------------------------
(* A pointer's word, read back field by field.                             *)

HasField(v, low, width, f) ==
    /\ f \subseteq 0..(width - 1)
    /\ \A x \in 0..(width - 1) : x + low \in v <=> x \in f

LEMMA FieldBack ==
    ASSUME NEW v \in SUBSET Int, NEW low \in Nat, NEW width \in Nat,
           NEW f, HasField(v, low, width, f)
    PROVE  Bits(v, low, width) = f
<1>0. f \subseteq 0..(width - 1) /\ \A x \in 0..(width - 1) : x + low \in v <=> x \in f
  BY DEF HasField
<1>1. Bits(v, low, width) \subseteq 0..(width - 1)
  BY BitsFacts
<1>2. \A x \in 0..(width - 1) : x \in Bits(v, low, width) <=> x \in f
  BY <1>0, BitsFacts
<1>3. QED
  BY <1>0, <1>1, <1>2

(* A word of a value, a field behind it, the next field and flags.         *)
Packs(v, value, low, field, next, flags) ==
    /\ v \subseteq Int
    /\ \A x \in Int : x \in v <=> \/ x \in value \/ x - low \in field
                                  \/ x - 51 \in next \/ x \in flags

HasLayout(v, n, value, low, m, field, k, next, flags) ==
    /\ n \in Nat /\ low \in Nat /\ m \in Nat /\ k \in Nat
    /\ value \in Field(n) /\ field \in Field(m) /\ next \in Field(k)
    /\ n <= low /\ low + m <= 51 /\ k <= 12
    /\ flags \in SUBSET {62, 63} /\ (62 \in flags => k <= 11)
    /\ Packs(v, value, low, field, next, flags)

LEMMA Unpacks ==
    ASSUME NEW v, NEW n, NEW value, NEW low, NEW m, NEW field, NEW k, NEW next, NEW flags,
           HasLayout(v, n, value, low, m, field, k, next, flags)
    PROVE  /\ v \in Word
           /\ Bits(v, 0, n) = value /\ Bits(v, low, m) = field /\ Bits(v, 51, k) = next
           /\ 63 \in v <=> 63 \in flags
           /\ k <= 11 => (62 \in v <=> 62 \in flags)
<1> n \in Nat /\ low \in Nat /\ m \in Nat /\ k \in Nat
  BY DEF HasLayout
<1> n <= low /\ low + m <= 51 /\ k <= 12
  BY DEF HasLayout
<1>0. /\ value \subseteq 0..(n - 1) /\ field \subseteq 0..(m - 1) /\ next \subseteq 0..(k - 1)
      /\ flags \subseteq (51 + k)..63
  BY DEF Field, HasLayout
<1>1. v \in SUBSET Int /\ \A x \in Int : x \in v <=> \/ x \in value \/ x - low \in field
                                                     \/ x - 51 \in next \/ x \in flags
  BY DEF Packs, HasLayout
<1>2. v \in Word
  <2> SUFFICES ASSUME NEW x \in v PROVE x \in 0..63
    BY DEF Word
  <2>1. x \in Int /\ (\/ x \in value \/ x - low \in field \/ x - 51 \in next \/ x \in flags)
    BY <1>1
  <2>2. x \in 0..(n - 1) \/ x - low \in 0..(m - 1) \/ x - 51 \in 0..(k - 1) \/ x \in (51 + k)..63
    BY <1>0, <2>1
  <2>3. QED
    BY <2>1, <2>2
<1>3. Bits(v, 0, n) = value
  <2>1. ASSUME NEW x \in 0..(n - 1)
        PROVE  x + 0 \in v <=> x \in value
    <3>1. x \in Int /\ x + 0 = x
      OBVIOUS
    <3>2. x - low \notin 0..(m - 1) /\ x - 51 \notin 0..(k - 1) /\ x \notin (51 + k)..63
      OBVIOUS
    <3>3. QED
      BY <1>0, <1>1, <3>1, <3>2
  <2>2. HasField(v, 0, n, value)
    BY <1>0, <2>1 DEF HasField
  <2>3. QED
    BY <1>1, <2>2, FieldBack, 0 \in Nat
<1>4. Bits(v, low, m) = field
  <2>1. ASSUME NEW x \in 0..(m - 1)
        PROVE  x + low \in v <=> x \in field
    <3>1. PICK y \in Int : y = x + low
      OBVIOUS
    <3>2. /\ y - low = x /\ y \notin 0..(n - 1) /\ y - 51 \notin 0..(k - 1)
          /\ y \notin (51 + k)..63
      BY <3>1
    <3>3. QED
      BY <1>0, <1>1, <3>1, <3>2
  <2>2. HasField(v, low, m, field)
    BY <1>0, <2>1 DEF HasField
  <2>3. QED
    BY <1>1, <2>2, FieldBack
<1>5. Bits(v, 51, k) = next
  <2>1. ASSUME NEW x \in 0..(k - 1)
        PROVE  x + 51 \in v <=> x \in next
    <3>1. PICK y \in Int : y = x + 51
      OBVIOUS
    <3>2. /\ y - 51 = x /\ y \notin 0..(n - 1) /\ y - low \notin 0..(m - 1)
          /\ y \notin (51 + k)..63
      BY <3>1
    <3>3. QED
      BY <1>0, <1>1, <3>1, <3>2
  <2>2. HasField(v, 51, k, next)
    BY <1>0, <2>1 DEF HasField
  <2>3. QED
    BY <1>1, <2>2, FieldBack, 51 \in Nat
<1>6. ASSUME NEW x \in {62, 63}, x = 62 => k <= 11
      PROVE  x \in v <=> x \in flags
  <2>1. x \in Int /\ x \notin 0..(n - 1) /\ x - low \notin 0..(m - 1) /\ x - 51 \notin 0..(k - 1)
    BY <1>6
  <2>2. QED
    BY <1>0, <1>1, <2>1
<1>7. QED
  BY <1>2, <1>3, <1>4, <1>5, <1>6

(* The word that Encode puts together.                                     *)
Encodes(v, format, p, next, w, flags) ==
    /\ v = Encode(format, p, next) /\ flags = Layout(format, p).flags
    /\ w = WordOf(next \div StrideOf(format)) /\ w \in SUBSET Int
    /\ p.value \in SUBSET Int /\ p.high8 \in SUBSET Int /\ p.addend \in SUBSET Int
    /\ p.extra \in SUBSET Int

LEMMA EncodePacks ==
    ASSUME NEW v, NEW format, NEW p, NEW next, NEW w, NEW flags,
           Encodes(v, format, p, next, w, flags)
    PROVE  /\ format \in Ptr64 /\ p.addend = {} /\ p.extra = {} =>
                  Packs(v, p.value, 36, p.high8, w, flags)
           /\ format \in Ptr64 /\ p.high8 = {} /\ p.extra = {} =>
                  Packs(v, p.value, 24, p.addend, w, flags)
           /\ format \notin Ptr64 /\ p.addend = {} /\ p.extra = {} =>
                  Packs(v, p.value, 43, p.high8, w, flags)
           /\ format \notin Ptr64 /\ p.high8 = {} /\ p.addend = {} =>
                  Packs(v, p.value, 32, p.extra, w, flags)
           /\ format \notin Ptr64 /\ p.high8 = {} /\ p.extra = {} =>
                  Packs(v, p.value, 32, p.addend, w, flags)
<1> DEFINE at64 == IF p.kind = "rebase" THEN {} ELSE {63}
           atArm == (IF p.kind = "rebase" THEN {} ELSE {62}) \cup (IF p.auth THEN {63} ELSE {})
<1>1. /\ v = Encode(format, p, next) /\ flags = Layout(format, p).flags
      /\ w = WordOf(next \div StrideOf(format)) /\ w \in SUBSET Int
      /\ p.value \in SUBSET Int /\ p.high8 \in SUBSET Int /\ p.addend \in SUBSET Int
      /\ p.extra \in SUBSET Int
  BY DEF Encodes
<1>2. CASE format \in Ptr64
  <2>1. v = ShiftLeft(p.value, 0) \cup ShiftLeft(p.high8, 36) \cup ShiftLeft(p.addend, 24)
              \cup ShiftLeft(p.extra, 44) \cup ShiftLeft(w, 51) \cup at64
    BY <1>1, <1>2 DEF Encode, Layout
  <2>2. at64 \subseteq Int
    OBVIOUS
  <2>3. flags = at64 /\ flags \in SUBSET Int
    BY <1>1, <1>2, <2>2 DEF Layout
  <2>4. /\ v \subseteq Int
        /\ \A x \in Int : x \in v <=> \/ x - 0 \in p.value \/ x - 36 \in p.high8
                                      \/ x - 24 \in p.addend \/ x - 44 \in p.extra
                                      \/ x - 51 \in w \/ x \in flags
    <3> HIDE DEF at64
    <3>1. PICK s1, s2, s3, s4, s5 :
              /\ s1 = ShiftLeft(p.value, 0) /\ s2 = ShiftLeft(p.high8, 36)
              /\ s3 = ShiftLeft(p.addend, 24) /\ s4 = ShiftLeft(p.extra, 44)
              /\ s5 = ShiftLeft(w, 51)
      OBVIOUS
    <3>2. s1 \subseteq Int /\ \A x \in Int : x \in s1 <=> x - 0 \in p.value
      BY <1>1, <3>1, ShiftFacts, 0 \in Nat
    <3>3. s2 \subseteq Int /\ \A x \in Int : x \in s2 <=> x - 36 \in p.high8
      BY <1>1, <3>1, ShiftFacts, 36 \in Nat
    <3>4. s3 \subseteq Int /\ \A x \in Int : x \in s3 <=> x - 24 \in p.addend
      BY <1>1, <3>1, ShiftFacts, 24 \in Nat
    <3>5. s4 \subseteq Int /\ \A x \in Int : x \in s4 <=> x - 44 \in p.extra
      BY <1>1, <3>1, ShiftFacts, 44 \in Nat
    <3>6. s5 \subseteq Int /\ \A x \in Int : x \in s5 <=> x - 51 \in w
      BY <1>1, <3>1, ShiftFacts, 51 \in Nat
    <3>7. v = s1 \cup s2 \cup s3 \cup s4 \cup s5 \cup flags
      BY <2>1, <2>3, <3>1
    <3>8. PICK f : f = flags /\ f \subseteq Int
      BY <2>3
    <3>9. v = s1 \cup s2 \cup s3 \cup s4 \cup s5 \cup f
      BY <3>7, <3>8
    <3>10. \A x : x \in v <=> x \in s1 \/ x \in s2 \/ x \in s3 \/ x \in s4 \/ x \in s5 \/ x \in f
      BY <3>9
    <3>11. v \subseteq Int
      BY <3>2, <3>3, <3>4, <3>5, <3>6, <3>8, <3>10
    <3>12. QED
      BY <3>2, <3>3, <3>4, <3>5, <3>6, <3>8, <3>10, <3>11
  <2>5. /\ p.addend = {} /\ p.extra = {} => Packs(v, p.value, 36, p.high8, w, flags)
        /\ p.high8 = {} /\ p.extra = {} => Packs(v, p.value, 24, p.addend, w, flags)
    BY <2>4 DEF Packs
  <2>6. QED
    BY <1>1, <1>2, <2>3, <2>5
<1>3. CASE format \notin Ptr64
  <2>1. v = ShiftLeft(p.value, 0) \cup ShiftLeft(p.high8, 43) \cup ShiftLeft(p.addend, 32)
              \cup ShiftLeft(p.extra, 32) \cup ShiftLeft(w, 51) \cup atArm
    BY <1>1, <1>3 DEF Encode, Layout
  <2>2. atArm \subseteq Int
    OBVIOUS
  <2>3. flags = atArm /\ flags \in SUBSET Int
    BY <1>1, <1>3, <2>2 DEF Layout
  <2>4. /\ v \subseteq Int
        /\ \A x \in Int : x \in v <=> \/ x - 0 \in p.value \/ x - 43 \in p.high8
                                      \/ x - 32 \in p.addend \/ x - 32 \in p.extra
                                      \/ x - 51 \in w \/ x \in flags
    <3> HIDE DEF atArm
    <3>1. PICK s1, s2, s3, s4, s5 :
              /\ s1 = ShiftLeft(p.value, 0) /\ s2 = ShiftLeft(p.high8, 43)
              /\ s3 = ShiftLeft(p.addend, 32) /\ s4 = ShiftLeft(p.extra, 32)
              /\ s5 = ShiftLeft(w, 51)
      OBVIOUS
    <3>2. s1 \subseteq Int /\ \A x \in Int : x \in s1 <=> x - 0 \in p.value
      BY <1>1, <3>1, ShiftFacts, 0 \in Nat
    <3>3. s2 \subseteq Int /\ \A x \in Int : x \in s2 <=> x - 43 \in p.high8
      BY <1>1, <3>1, ShiftFacts, 43 \in Nat
    <3>4. s3 \subseteq Int /\ \A x \in Int : x \in s3 <=> x - 32 \in p.addend
      BY <1>1, <3>1, ShiftFacts, 32 \in Nat
    <3>5. s4 \subseteq Int /\ \A x \in Int : x \in s4 <=> x - 32 \in p.extra
      BY <1>1, <3>1, ShiftFacts, 32 \in Nat
    <3>6. s5 \subseteq Int /\ \A x \in Int : x \in s5 <=> x - 51 \in w
      BY <1>1, <3>1, ShiftFacts, 51 \in Nat
    <3>7. v = s1 \cup s2 \cup s3 \cup s4 \cup s5 \cup flags
      BY <2>1, <2>3, <3>1
    <3>8. PICK f : f = flags /\ f \subseteq Int
      BY <2>3
    <3>9. v = s1 \cup s2 \cup s3 \cup s4 \cup s5 \cup f
      BY <3>7, <3>8
    <3>10. \A x : x \in v <=> x \in s1 \/ x \in s2 \/ x \in s3 \/ x \in s4 \/ x \in s5 \/ x \in f
      BY <3>9
    <3>11. v \subseteq Int
      BY <3>2, <3>3, <3>4, <3>5, <3>6, <3>8, <3>10
    <3>12. QED
      BY <3>2, <3>3, <3>4, <3>5, <3>6, <3>8, <3>10, <3>11
  <2>5. /\ p.addend = {} /\ p.extra = {} => Packs(v, p.value, 43, p.high8, w, flags)
        /\ p.high8 = {} /\ p.addend = {} => Packs(v, p.value, 32, p.extra, w, flags)
        /\ p.high8 = {} /\ p.extra = {} => Packs(v, p.value, 32, p.addend, w, flags)
    BY <2>4 DEF Packs
  <2>6. QED
    BY <1>1, <1>3, <2>3, <2>5
<1>4. QED
  BY <1>2, <1>3

(* The pointer that a word planned as p with this next field decodes to.   *)
DecodedAs(p, next) ==
    IF p.kind = "rebase" THEN Rebase(p.value \cup ShiftLeft(p.high8, 56), next)
    ELSE Bind(p.value, next, IF p.auth THEN 0 ELSE Number(p.addend), p.auth)

LEMMA FieldInts ==
    ASSUME NEW k, NEW f \in Field(k)
    PROVE  f \in SUBSET Int
  BY DEF Field

LEMMA EmptyField == Field(0) = {{}}
<1>1. 0..(0 - 1) = {}
  OBVIOUS
<1>2. QED
  BY <1>1 DEF Field

(* The next field of a word, as the number of bytes it stands for.         *)
LEMMA NextBack ==
    ASSUME NEW format, NEW n \in Nat, n <= MaxNext(format), NEW next,
           next = n * StrideOf(format)
    PROVE  LET w == WordOf(next \div StrideOf(format))
               k == IF format \in Ptr64 THEN 12 ELSE 11
           IN  /\ next \in Nat /\ w \in SUBSET Int /\ w \in Field(k)
               /\ Number(w) * StrideOf(format) = next
<1>1. next \div StrideOf(format) = n /\ next \in Nat
  BY DEF StrideOf
<1>2. Number(WordOf(n)) = n
  BY NextFieldFacts
<1>3. CASE format \in Ptr64
  <2>1. WordOf(n) \subseteq 0..11 /\ 12 - 1 = 11
    BY <1>3, NextFieldFacts
  <2>2. QED
    BY <1>1, <1>2, <1>3, <2>1 DEF Field
<1>4. CASE format \notin Ptr64
  <2>1. WordOf(n) \subseteq 0..10 /\ 11 - 1 = 10
    BY <1>4, NextFieldFacts
  <2>2. QED
    BY <1>1, <1>2, <1>4, <2>1 DEF Field
<1>5. QED
  BY <1>3, <1>4

LEMMA RoundTrip64 ==
    ASSUME NEW format \in Ptr64, NEW p \in PointerForms(format), NEW n \in Nat,
           n <= MaxNext(format), NEW next, next = n * StrideOf(format)
    PROVE  fixup_64_parse_one(Encode(format, p, next)) = DecodedAs(p, next)
<1>1. PICK w : w = WordOf(next \div StrideOf(format))
  OBVIOUS
<1>2. w \in SUBSET Int /\ w \in Field(12) /\ Number(w) * 4 = next
  BY <1>1, NextBack DEF StrideOf
<1>3. PICK v : v = Encode(format, p, next)
  OBVIOUS
<1>4. CASE p \in PointerForm("rebase", FALSE, 36, 8, 0, 0)
  <2>0. /\ p.kind = "rebase" /\ p.auth = FALSE
        /\ p.value \in Field(36) /\ p.high8 \in Field(8)
        /\ p.addend \in Field(0) /\ p.extra \in Field(0)
    BY <1>4 DEF PointerForm
  <2>1. /\ p.value \in SUBSET Int /\ p.high8 \in SUBSET Int /\ p.addend \in SUBSET Int
        /\ p.extra \in SUBSET Int /\ p.addend = {} /\ p.extra = {}
    BY <2>0, FieldInts, EmptyField
  <2>2. Packs(v, p.value, 36, p.high8, w, {})
    <3>1. PICK f : f = Layout(format, p).flags
      OBVIOUS
    <3>2. Encodes(v, format, p, next, w, f)
      BY <1>1, <1>2, <1>3, <2>0, <2>1, <3>1 DEF Encodes
    <3>3. f = {}
      BY <2>0, <3>1 DEF Layout
    <3>4. QED
      BY <3>2, <3>3, <2>1, EncodePacks
  <2>3. PICK n1 \in Nat, m1 \in Nat, k1 \in Nat, flags \in SUBSET {62, 63} :
            n1 = 36 /\ m1 = 8 /\ k1 = 12 /\ flags = {}
    OBVIOUS
  <2>4. Bits(v, 0, n1) = p.value /\ Bits(v, n1, m1) = p.high8 /\ Bits(v, 51, k1) = w /\ 63 \notin v
    <3>1. HasLayout(v, n1, p.value, n1, m1, p.high8, k1, w, flags)
      BY <1>2, <2>0, <2>2, <2>3 DEF HasLayout
    <3>2. QED
      BY <2>3, <3>1, Unpacks
  <2>5. fixup_64_parse_one(v) =
           Rebase(Bits(v, 0, 36) \cup ShiftLeft(Bits(v, 36, 8), 56), Number(Bits(v, 51, 12)) * 4)
    BY <2>3, <2>4 DEF fixup_64_parse_one, dyld_chained_ptr_64_rebase
  <2>6. QED
    BY <1>2, <1>3, <2>0, <2>3, <2>4, <2>5 DEF DecodedAs
<1>5. CASE p \in PointerForm("bind", FALSE, 24, 0, 8, 0)
  <2>0. /\ p.kind = "bind" /\ p.auth = FALSE
        /\ p.value \in Field(24) /\ p.high8 \in Field(0)
        /\ p.addend \in Field(8) /\ p.extra \in Field(0)
    BY <1>5 DEF PointerForm
  <2>1. /\ p.value \in SUBSET Int /\ p.high8 \in SUBSET Int /\ p.addend \in SUBSET Int
        /\ p.extra \in SUBSET Int /\ p.high8 = {} /\ p.extra = {}
    BY <2>0, FieldInts, EmptyField
  <2>2. Packs(v, p.value, 24, p.addend, w, {63})
    <3>1. PICK f : f = Layout(format, p).flags
      OBVIOUS
    <3>2. Encodes(v, format, p, next, w, f)
      BY <1>1, <1>2, <1>3, <2>0, <2>1, <3>1 DEF Encodes
    <3>3. f = {63}
      BY <2>0, <3>1 DEF Layout
    <3>4. QED
      BY <3>2, <3>3, <2>1, EncodePacks
  <2>3. PICK n1 \in Nat, m1 \in Nat, k1 \in Nat, flags \in SUBSET {62, 63} :
            n1 = 24 /\ m1 = 8 /\ k1 = 12 /\ flags = {63}
    OBVIOUS
  <2>4. Bits(v, 0, n1) = p.value /\ Bits(v, n1, m1) = p.addend /\ Bits(v, 51, k1) = w /\ 63 \in v
    <3>1. HasLayout(v, n1, p.value, n1, m1, p.addend, k1, w, flags)
      BY <1>2, <2>0, <2>2, <2>3 DEF HasLayout
    <3>2. QED
      BY <2>3, <3>1, Unpacks
  <2>5. fixup_64_parse_one(v) =
           Bind(Bits(v, 0, 24), Number(Bits(v, 51, 12)) * 4, Number(Bits(v, 24, 8)), FALSE)
    BY <2>3, <2>4 DEF fixup_64_parse_one, dyld_chained_ptr_64_bind
  <2>6. QED
    BY <1>2, <1>3, <2>0, <2>3, <2>4, <2>5 DEF DecodedAs
<1>6. QED
  BY <1>4, <1>5 DEF PointerForms

LEMMA ArmRebase ==
    ASSUME NEW format, format \notin Ptr64, NEW n \in Nat, n <= MaxNext(format), NEW next,
           next = n * StrideOf(format),
           NEW p \in PointerForm("rebase", FALSE, 43, 8, 0, 0)
                       \cup PointerForm("rebase", TRUE, 32, 0, 0, 19)
    PROVE  LET v == Encode(format, p, next)
           IN  62 \notin v /\ fixup_arm64e_parse_one(v) = DecodedAs(p, next)
<1>1. PICK w : w = WordOf(next \div StrideOf(format))
  OBVIOUS
<1>2. w \in SUBSET Int /\ w \in Field(11) /\ Number(w) * 8 = next
  BY <1>1, NextBack DEF StrideOf
<1>3. PICK v : v = Encode(format, p, next)
  OBVIOUS
<1>4. CASE p \in PointerForm("rebase", FALSE, 43, 8, 0, 0)
  <2>1. /\ p.kind = "rebase" /\ p.auth = FALSE
        /\ p.value \in Field(43) /\ p.high8 \in Field(8)
        /\ p.addend \in Field(0) /\ p.extra \in Field(0)
    BY <1>4 DEF PointerForm
  <2>2. /\ p.value \in SUBSET Int /\ p.high8 \in SUBSET Int /\ p.addend \in SUBSET Int
        /\ p.extra \in SUBSET Int /\ p.addend = {} /\ p.extra = {}
    BY <2>1, FieldInts, EmptyField
  <2>3. Packs(v, p.value, 43, p.high8, w, {})
    <3>1. PICK f : f = Layout(format, p).flags
      OBVIOUS
    <3>2. Encodes(v, format, p, next, w, f)
      BY <1>1, <1>2, <1>3, <2>1, <2>2, <3>1 DEF Encodes
    <3>3. f = {}
      BY <2>1, <3>1 DEF Layout
    <3>4. QED
      BY <3>2, <3>3, <2>2, EncodePacks
  <2>4. PICK n1 \in Nat, low \in Nat, m1 \in Nat, k1 \in Nat, flags \in SUBSET {62, 63} :
            n1 = 43 /\ low = 43 /\ m1 = 8 /\ k1 = 11 /\ flags = {}
    OBVIOUS
  <2>5. /\ Bits(v, 0, 43) = p.value /\ Bits(v, 43, 8) = p.high8 /\ Bits(v, 51, 11) = w
        /\ 62 \notin v /\ 63 \notin v
    <3>1. HasLayout(v, n1, p.value, low, m1, p.high8, k1, w, flags)
      BY <1>2, <2>1, <2>3, <2>4 DEF HasLayout
    <3>2. QED
      BY <2>4, <3>1, Unpacks
  <2>6. fixup_arm64e_parse_one(v) =
           Rebase(Bits(v, 0, 43) \cup ShiftLeft(Bits(v, 43, 8), 56), Number(Bits(v, 51, 11)) * 8)
    BY <2>5 DEF fixup_arm64e_parse_one, dyld_chained_ptr_arm64e_rebase
  <2>7. QED
    BY <1>2, <1>3, <2>1, <2>5, <2>6 DEF DecodedAs
<1>5. CASE p \in PointerForm("rebase", TRUE, 32, 0, 0, 19)
  <2>1. /\ p.kind = "rebase" /\ p.auth = TRUE
        /\ p.value \in Field(32) /\ p.high8 \in Field(0)
        /\ p.addend \in Field(0) /\ p.extra \in Field(19)
    BY <1>5 DEF PointerForm
  <2>2. /\ p.value \in SUBSET Int /\ p.high8 \in SUBSET Int /\ p.addend \in SUBSET Int
        /\ p.extra \in SUBSET Int /\ p.high8 = {} /\ p.addend = {}
    BY <2>1, FieldInts, EmptyField
  <2>3. Packs(v, p.value, 32, p.extra, w, {63})
    <3>1. PICK f : f = Layout(format, p).flags
      OBVIOUS
    <3>2. Encodes(v, format, p, next, w, f)
      BY <1>1, <1>2, <1>3, <2>1, <2>2, <3>1 DEF Encodes
    <3>3. f = {63}
      BY <2>1, <3>1 DEF Layout
    <3>4. QED
      BY <3>2, <3>3, <2>2, EncodePacks
  <2>4. PICK n1 \in Nat, low \in Nat, m1 \in Nat, k1 \in Nat, flags \in SUBSET {62, 63} :
            n1 = 32 /\ low = 32 /\ m1 = 19 /\ k1 = 11 /\ flags = {63}
    OBVIOUS
  <2>5. /\ Bits(v, 0, 32) = p.value /\ Bits(v, 32, 19) = p.extra /\ Bits(v, 51, 11) = w
        /\ 62 \notin v /\ 63 \in v
    <3>1. HasLayout(v, n1, p.value, low, m1, p.extra, k1, w, flags)
      BY <1>2, <2>1, <2>3, <2>4 DEF HasLayout
    <3>2. QED
      BY <2>4, <3>1, Unpacks
  <2>6. fixup_arm64e_parse_one(v) = Rebase(Bits(v, 0, 32), Number(Bits(v, 51, 11)) * 8)
    BY <2>5 DEF fixup_arm64e_parse_one, dyld_chained_ptr_arm64e_auth_rebase
  <2>7. p.value \cup ShiftLeft(p.high8, 56) = p.value
    BY <2>2 DEF ShiftLeft
  <2>8. fixup_arm64e_parse_one(v) = Rebase(p.value, next)
    BY <1>2, <2>5, <2>6
  <2>9. DecodedAs(p, next) = Rebase(p.value \cup ShiftLeft(p.high8, 56), next)
    BY <2>1 DEF DecodedAs
  <2>10. QED
    BY <1>3, <2>5, <2>7, <2>8, <2>9
<1>6. QED
  BY <1>3, <1>4, <1>5

ArmBinds(width) ==
    PointerForm("bind", FALSE, width, 0, 19, 0) \cup PointerForm("bind", TRUE, width, 0, 0, 19)

LEMMA ArmBind ==
    ASSUME NEW format, format \notin Ptr64, NEW n \in Nat, n <= MaxNext(format), NEW next,
           next = n * StrideOf(format), NEW width \in {16, 24},
           NEW p \in ArmBinds(width)
    PROVE  LET v == Encode(format, p, next)
           IN  /\ p.kind = "bind" /\ p.auth \in BOOLEAN
               /\ 62 \in v /\ (63 \in v <=> p.auth)
               /\ Bits(v, 0, width) = p.value /\ Number(Bits(v, 51, 11)) * 8 = next
               /\ ~p.auth => Bits(v, 32, 19) = p.addend
<1>1. PICK w : w = WordOf(next \div StrideOf(format))
  OBVIOUS
<1>2. w \in SUBSET Int /\ w \in Field(11) /\ Number(w) * 8 = next
  BY <1>1, NextBack DEF StrideOf
<1>3. PICK v : v = Encode(format, p, next)
  OBVIOUS
<1>4. CASE p \in PointerForm("bind", FALSE, width, 0, 19, 0)
  <2>1. /\ p.kind = "bind" /\ p.auth = FALSE
        /\ p.value \in Field(width) /\ p.high8 \in Field(0)
        /\ p.addend \in Field(19) /\ p.extra \in Field(0)
    BY <1>4 DEF PointerForm
  <2>2. /\ p.value \in SUBSET Int /\ p.high8 \in SUBSET Int /\ p.addend \in SUBSET Int
        /\ p.extra \in SUBSET Int /\ p.high8 = {} /\ p.extra = {}
    BY <2>1, FieldInts, EmptyField
  <2>3. Packs(v, p.value, 32, p.addend, w, {62})
    <3>1. PICK f : f = Layout(format, p).flags
      OBVIOUS
    <3>2. Encodes(v, format, p, next, w, f)
      BY <1>1, <1>2, <1>3, <2>1, <2>2, <3>1 DEF Encodes
    <3>3. f = {62}
      BY <2>1, <3>1 DEF Layout
    <3>4. QED
      BY <3>2, <3>3, <2>2, EncodePacks
  <2>4. PICK low \in Nat, m1 \in Nat, k1 \in Nat, flags \in SUBSET {62, 63} :
            low = 32 /\ m1 = 19 /\ k1 = 11 /\ flags = {62}
    OBVIOUS
  <2>5. /\ Bits(v, 0, width) = p.value /\ Bits(v, 32, 19) = p.addend /\ Bits(v, 51, 11) = w
        /\ 62 \in v /\ 63 \notin v
    <3>1. HasLayout(v, width, p.value, low, m1, p.addend, k1, w, flags)
      BY <1>2, <2>1, <2>3, <2>4 DEF HasLayout
    <3>2. QED
      BY <2>4, <3>1, Unpacks
  <2>6. QED
    BY <1>2, <1>3, <2>1, <2>5
<1>5. CASE p \in PointerForm("bind", TRUE, width, 0, 0, 19)
  <2>1. /\ p.kind = "bind" /\ p.auth = TRUE
        /\ p.value \in Field(width) /\ p.high8 \in Field(0)
        /\ p.addend \in Field(0) /\ p.extra \in Field(19)
    BY <1>5 DEF PointerForm
  <2>2. /\ p.value \in SUBSET Int /\ p.high8 \in SUBSET Int /\ p.addend \in SUBSET Int
        /\ p.extra \in SUBSET Int /\ p.high8 = {} /\ p.addend = {}
    BY <2>1, FieldInts, EmptyField
  <2>3. Packs(v, p.value, 32, p.extra, w, {62, 63})
    <3>1. PICK f : f = Layout(format, p).flags
      OBVIOUS
    <3>2. Encodes(v, format, p, next, w, f)
      BY <1>1, <1>2, <1>3, <2>1, <2>2, <3>1 DEF Encodes
    <3>3. f = {62, 63}
      BY <2>1, <3>1 DEF Layout
    <3>4. QED
      BY <3>2, <3>3, <2>2, EncodePacks
  <2>4. PICK low \in Nat, m1 \in Nat, k1 \in Nat, flags \in SUBSET {62, 63} :
            low = 32 /\ m1 = 19 /\ k1 = 11 /\ flags = {62, 63}
    OBVIOUS
  <2>5. /\ Bits(v, 0, width) = p.value /\ Bits(v, 32, 19) = p.extra /\ Bits(v, 51, 11) = w
        /\ 62 \in v /\ 63 \in v
    <3>1. HasLayout(v, width, p.value, low, m1, p.extra, k1, w, flags)
      BY <1>2, <2>1, <2>3, <2>4 DEF HasLayout
    <3>2. QED
      BY <2>4, <3>1, Unpacks
  <2>6. QED
    BY <1>2, <1>3, <2>1, <2>5
<1>6. QED
  BY <1>3, <1>4, <1>5 DEF ArmBinds

(* The decoders give back the pointer that a word was planned as.          *)
LEMMA RoundTripArm ==
    ASSUME NEW format \in {"ARM64E", "ARM64E_USERLAND"}, NEW p \in PointerForms(format),
           NEW n \in Nat, n <= MaxNext(format), NEW next, next = n * StrideOf(format)
    PROVE  fixup_arm64e_parse_one(Encode(format, p, next)) = DecodedAs(p, next)
<1>1. format \notin Ptr64
  BY DEF Ptr64
<1>2. CASE p \in PointerForm("rebase", FALSE, 43, 8, 0, 0)
                   \cup PointerForm("rebase", TRUE, 32, 0, 0, 19)
  BY <1>1, <1>2, ArmRebase
<1>3. CASE p \in PointerForm("bind", FALSE, 16, 0, 19, 0) \cup PointerForm("bind", TRUE, 16, 0, 0, 19)
  <2>1. PICK v : v = Encode(format, p, next)
    OBVIOUS
  <2>2. PICK width \in {16, 24} : width = 16
    OBVIOUS
  <2>3. p \in ArmBinds(width)
    BY <1>3, <2>2 DEF ArmBinds
  <2>4. /\ p.kind = "bind" /\ p.auth \in BOOLEAN /\ 62 \in v /\ (63 \in v <=> p.auth)
        /\ Bits(v, 0, width) = p.value /\ Number(Bits(v, 51, 11)) * 8 = next
        /\ ~p.auth => Bits(v, 32, 19) = p.addend
    BY <1>1, <2>1, <2>3, ArmBind
  <2>5. Bits(v, 0, 16) = p.value
    BY <2>2, <2>4
  <2>6. CASE p.auth
    <3>1. fixup_arm64e_parse_one(v) = Bind(Bits(v, 0, 16), Number(Bits(v, 51, 11)) * 8, 0, TRUE)
      BY <2>4, <2>6 DEF fixup_arm64e_parse_one, dyld_chained_ptr_arm64e_auth_bind
    <3>2. DecodedAs(p, next) = Bind(p.value, next, 0, TRUE)
      BY <2>4, <2>6 DEF DecodedAs
    <3>3. QED
      BY <2>1, <2>4, <2>5, <3>1, <3>2
  <2>7. CASE ~p.auth
    <3>1. fixup_arm64e_parse_one(v) =
           Bind(Bits(v, 0, 16), Number(Bits(v, 51, 11)) * 8, Number(Bits(v, 32, 19)), FALSE)
      BY <2>4, <2>7 DEF fixup_arm64e_parse_one, dyld_chained_ptr_arm64e_bind
    <3>2. DecodedAs(p, next) = Bind(p.value, next, Number(p.addend), FALSE)
      BY <2>4, <2>7 DEF DecodedAs
    <3>3. QED
      BY <2>1, <2>4, <2>5, <2>7, <3>1, <3>2
  <2>8. QED
    BY <2>6, <2>7
<1>4. QED
  BY <1>1, <1>2, <1>3 DEF PointerForms

LEMMA RoundTrip24 ==
    ASSUME NEW format, format = "ARM64E_USERLAND24", NEW p \in PointerForms(format),
           NEW n \in Nat, n <= MaxNext(format), NEW next, next = n * StrideOf(format)
    PROVE  fixup_arm64e_userland24_parse_one(Encode(format, p, next)) = DecodedAs(p, next)
<1>1. format \notin Ptr64
  BY DEF Ptr64
<1>2. CASE p \in PointerForm("rebase", FALSE, 43, 8, 0, 0)
                   \cup PointerForm("rebase", TRUE, 32, 0, 0, 19)
  <2>1. PICK v : v = Encode(format, p, next)
    OBVIOUS
  <2>2. 62 \notin v /\ fixup_arm64e_parse_one(v) = DecodedAs(p, next)
    BY <1>1, <1>2, <2>1, ArmRebase
  <2>3. fixup_arm64e_userland24_parse_one(v) = fixup_arm64e_parse_one(v)
    BY <2>2 DEF fixup_arm64e_userland24_parse_one
  <2>4. QED
    BY <2>1, <2>2, <2>3
<1>3. CASE p \in PointerForm("bind", FALSE, 24, 0, 19, 0) \cup PointerForm("bind", TRUE, 24, 0, 0, 19)
  <2>1. PICK v : v = Encode(format, p, next)
    OBVIOUS
  <2>2. PICK width \in {16, 24} : width = 24
    OBVIOUS
  <2>3. p \in ArmBinds(width)
    BY <1>3, <2>2 DEF ArmBinds
  <2>4. /\ p.kind = "bind" /\ p.auth \in BOOLEAN /\ 62 \in v /\ (63 \in v <=> p.auth)
        /\ Bits(v, 0, width) = p.value /\ Number(Bits(v, 51, 11)) * 8 = next
        /\ ~p.auth => Bits(v, 32, 19) = p.addend
    BY <1>1, <2>1, <2>3, ArmBind
  <2>5. Bits(v, 0, 24) = p.value
    BY <2>2, <2>4
  <2>6. CASE p.auth
    <3>1. fixup_arm64e_userland24_parse_one(v) =
             Bind(Bits(v, 0, 24), Number(Bits(v, 51, 11)) * 8, 0, TRUE)
      BY <2>4, <2>6 DEF fixup_arm64e_userland24_parse_one, dyld_chained_ptr_arm64e_auth_bind_24
    <3>2. DecodedAs(p, next) = Bind(p.value, next, 0, TRUE)
      BY <2>4, <2>6 DEF DecodedAs
    <3>3. QED
      BY <2>1, <2>4, <2>5, <3>1, <3>2
  <2>7. CASE ~p.auth
    <3>1. fixup_arm64e_userland24_parse_one(v) =
             Bind(Bits(v, 0, 24), Number(Bits(v, 51, 11)) * 8, Number(Bits(v, 32, 19)), FALSE)
      BY <2>4, <2>7 DEF fixup_arm64e_userland24_parse_one, dyld_chained_ptr_arm64e_bind_24
    <3>2. DecodedAs(p, next) = Bind(p.value, next, Number(p.addend), FALSE)
      BY <2>4, <2>7 DEF DecodedAs
    <3>3. QED
      BY <2>1, <2>4, <2>5, <2>7, <3>1, <3>2
  <2>8. QED
    BY <2>6, <2>7
<1>4. QED
  BY <1>1, <1>2, <1>3 DEF PointerForms

LEMMA RoundTrip ==
    ASSUME NEW format \in PointerFormats \ {"unimplemented"}, Starts.pointer_format = format,
           NEW p \in PointerForms(format), NEW n \in Nat, n <= MaxNext(format), NEW next,
           next = n * StrideOf(format)
    PROVE  ParseOne(Encode(format, p, next)) = DecodedAs(p, next)
<1>1. PICK v : v = Encode(format, p, next)
  OBVIOUS
<1>2. CASE format \in {"PTR_64", "PTR_64_OFFSET"}
  <2>1. format \in Ptr64
    BY <1>2 DEF Ptr64
  <2>2. ParseOne(v) = fixup_64_parse_one(v)
    BY <1>2 DEF ParseOne
  <2>3. QED
    BY <1>1, <2>1, <2>2, RoundTrip64
<1>3. CASE format \in {"ARM64E", "ARM64E_USERLAND"}
  <2>1. ParseOne(v) = fixup_arm64e_parse_one(v)
    BY <1>3 DEF ParseOne
  <2>2. QED
    BY <1>1, <1>3, <2>1, RoundTripArm
<1>4. CASE format = "ARM64E_USERLAND24"
  <2>1. ParseOne(v) = fixup_arm64e_userland24_parse_one(v)
    BY <1>4 DEF ParseOne
  <2>2. QED
    BY <1>1, <1>4, <2>1, RoundTrip24
<1>5. QED
  BY <1>2, <1>3, <1>4 DEF PointerFormats

-----------------------------------------------------------------------------
(* An import's word, read back.                                            *)
LEMMA ImportBack ==
    ASSUME NEW import, import.library \in 0..255, import.name \in Field(23)
    PROVE  /\ Number(Bits(ImportWord(import), 0, 8)) = import.library
           /\ Bits(ImportWord(import), 9, 23) = import.name
<1>1. PICK lib, w, v, name :
          /\ lib \in 0..255
          /\ lib = import.library /\ w = WordOf(lib) /\ v = ImportWord(import)
          /\ name = import.name
  OBVIOUS
<1>2. w \subseteq 0..7 /\ Number(w) = lib
  BY <1>1, OrdinalFieldFacts
<1>3. name \subseteq 0..22
  BY <1>1 DEF Field
<1>4. PICK s, weak : s = ShiftLeft(name, 9) /\ weak = (IF import.weak THEN {8} ELSE {})
  OBVIOUS
<1>5. weak \subseteq {8}
  BY <1>4
<1>6. s \subseteq Int /\ \A x \in Int : x \in s <=> x - 9 \in name
  BY <1>3, <1>4, ShiftFacts, 9 \in Nat
<1>7. v = w \cup weak \cup s
  BY <1>1, <1>4 DEF ImportWord
<1>8. v \in SUBSET Int
  BY <1>2, <1>5, <1>6, <1>7
<1>9. Bits(v, 0, 8) = w
  <2>1. HasField(v, 0, 8, w)
    <3>1. ASSUME NEW x \in 0..7 PROVE x + 0 \in v <=> x \in w
      <4>1. x \in Int /\ x + 0 = x /\ x - 9 \notin 0..22 /\ x # 8
        OBVIOUS
      <4>2. QED
        BY <1>3, <1>5, <1>6, <1>7, <4>1
    <3>2. 8 - 1 = 7
      OBVIOUS
    <3>3. QED
      BY <1>2, <3>1, <3>2 DEF HasField
  <2>2. PICK low \in Nat, width \in Nat : low = 0 /\ width = 8
    OBVIOUS
  <2>3. QED
    BY <1>8, <2>1, <2>2, FieldBack
<1>10. Bits(v, 9, 23) = name
  <2>1. HasField(v, 9, 23, name)
    <3>1. ASSUME NEW x \in 0..22 PROVE x + 9 \in v <=> x \in name
      <4>1. PICK y \in Int : y = x + 9
        OBVIOUS
      <4>2. y - 9 = x /\ y \notin 0..7 /\ y # 8
        BY <4>1
      <4>3. QED
        BY <1>2, <1>5, <1>6, <1>7, <4>1, <4>2
    <3>2. 23 - 1 = 22
      OBVIOUS
    <3>3. QED
      BY <1>3, <3>1, <3>2 DEF HasField
  <2>2. PICK low \in Nat, width \in Nat : low = 9 /\ width = 23
    OBVIOUS
  <2>3. QED
    BY <1>8, <2>1, <2>2, FieldBack
<1>11. QED
  BY <1>1, <1>2, <1>9, <1>10

(* The distances along a page.                                             *)
LEMMA DistanceFacts ==
    ASSUME NEW page, Len(page) \in Nat, \A k \in 1..Len(page) : page[k].distance \in Nat
    PROVE  /\ Distance(page, 0) = 0
           /\ \A k \in 0..Len(page) : Distance(page, k) \in Nat
           /\ \A k \in 1..Len(page) :
                 Distance(page, k) = Distance(page, k - 1) + page[k].distance
<1> DEFINE Row(g) == g = [k \in 0..Len(page) |->
                          IF k = 0 THEN 0 ELSE g[k - 1] + page[k].distance]
           F == [k \in 1..Len(page) |-> [x \in Nat |-> x + page[k].distance]]
<1>1. F \in [1..Len(page) -> [Nat -> Nat]]
  OBVIOUS
<1>2. \A k \in 1..Len(page) : \A x \in Nat : F[k][x] = x + page[k].distance
  OBVIOUS
<1> HIDE DEF F
<1>3. PICK f \in [0..Len(page) -> Nat] :
          f[0] = 0 /\ \A k \in 1..Len(page) : f[k] = F[k][f[k - 1]]
  <2>0. PICK N \in Nat : N = Len(page)
    OBVIOUS
  <2>1. PICK S, z : S = Nat /\ z = 0
    OBVIOUS
  <2>2. z \in S /\ F \in [1..N -> [S -> S]]
    BY <1>1, <2>0, <2>1
  <2>3. \E g : Unfolds(g, N, S, z, F)
    BY <2>2, RecursionExists
  <2>4. QED
    BY <2>0, <2>1, <2>3 DEF Unfolds
<1>4. \A k \in 1..Len(page) : k - 1 \in 0..Len(page) /\ f[k] = f[k - 1] + page[k].distance
  <2> SUFFICES ASSUME NEW k \in 1..Len(page)
               PROVE  k - 1 \in 0..Len(page) /\ f[k] = f[k - 1] + page[k].distance
    OBVIOUS
  <2>1. PICK j \in 0..Len(page) : j = k - 1
    OBVIOUS
  <2>2. f[j] \in Nat /\ f[k] = F[k][f[j]]
    BY <1>3, <2>1
  <2>3. F[k][f[j]] = f[j] + page[k].distance
    BY <1>2, <2>2
  <2>4. QED
    BY <2>1, <2>2, <2>3
<1>5. Row(f)
  <2>1. ASSUME NEW k \in 0..Len(page)
        PROVE  f[k] = IF k = 0 THEN 0 ELSE f[k - 1] + page[k].distance
    BY <1>3, <1>4
  <2>2. QED
    BY <1>3, <2>1
<1>6. PICK g : g = (CHOOSE h : Row(h))
  OBVIOUS
<1>7. \A k : Distance(page, k) = g[k]
  BY <1>6 DEF Distance
<1>8. Row(g)
  <2> HIDE DEF Row
  <2>1. QED
    BY <1>5, <1>6
<1>9. g[0] = 0 /\ \A k \in 1..Len(page) : g[k] = g[k - 1] + page[k].distance
  BY <1>8
<1> DEFINE T == {k \in Nat : k <= Len(page) => g[k] \in Nat}
<1>10. 0 \in T
  BY <1>9
<1>11. ASSUME NEW k \in Nat, k \in T
       PROVE  k + 1 \in T
  <2>1. k + 1 <= Len(page) => k + 1 \in 1..Len(page) /\ (k + 1) - 1 = k /\ g[k] \in Nat
    BY <1>11
  <2>2. k + 1 <= Len(page) => g[k + 1] \in Nat
    BY <1>9, <2>1
  <2>3. QED
    BY <2>2
<1>12. \A k \in 0..Len(page) : g[k] \in Nat
  <2> HIDE DEF T
  <2>1. Nat \subseteq T
    BY <1>10, <1>11, NatInd
  <2>2. QED
    BY <2>1 DEF T
<1>13. QED
  BY <1>7, <1>9, <1>12

-----------------------------------------------------------------------------
(* Plans.                                                                  *)

(* A page of a segment: its pointers and their distances.                  *)
LEMMA PageFacts ==
    ASSUME NEW plan, IsPlan(plan), NEW s \in DOMAIN plan.segments,
           NEW g \in DOMAIN plan.segments[s].pages
    PROVE  LET page == plan.segments[s].pages[g]
               format == plan.segments[s].pointer_format
           IN  /\ Len(page) \in Nat /\ DOMAIN page = 1..Len(page)
               /\ \A k \in 1..Len(page) :
                     page[k].distance \in Nat /\ page[k].pointer \in PointerForms(format)
               /\ \A k \in 2..Len(page) : \E n \in 1..MaxNext(format) :
                     page[k].distance = n * StrideOf(format)
<1>1. PICK seg : seg = plan.segments[s] /\ IsSegment(seg)
  BY DEF IsPlan
<1>2. PICK R : R = [distance : Nat, pointer : PointerForms(seg.pointer_format)]
  OBVIOUS
<1>3. seg.pages \in Seq(Seq(R)) /\ g \in DOMAIN seg.pages
  BY <1>1, <1>2 DEF IsSegment
<1>4. PICK page : page = seg.pages[g]
  OBVIOUS
<1>5. page \in Seq(R)
  BY <1>3, <1>4
<1>6. Len(page) \in Nat /\ DOMAIN page = 1..Len(page) /\ \A k \in 1..Len(page) : page[k] \in R
  BY <1>5
<1>7. \A k \in 1..Len(page) :
         page[k].distance \in Nat /\ page[k].pointer \in PointerForms(seg.pointer_format)
  BY <1>2, <1>6
<1>8. ASSUME NEW k \in 2..Len(page)
      PROVE  \E n \in 1..MaxNext(seg.pointer_format) :
                page[k].distance = n * StrideOf(seg.pointer_format)
  <2>1. k \in DOMAIN page /\ k # 1
    BY <1>6
  <2>2. \A h \in DOMAIN seg.pages : \A j \in DOMAIN seg.pages[h] : j # 1 =>
           \E n \in 1..MaxNext(seg.pointer_format) :
              seg.pages[h][j].distance = n * StrideOf(seg.pointer_format)
    BY <1>1, Zenon DEF IsSegment
  <2>3. k \in DOMAIN seg.pages[g] /\ seg.pages[g][k] = page[k]
    BY <1>4, <2>1
  <2>4. \E n \in 1..MaxNext(seg.pointer_format) :
           seg.pages[g][k].distance = n * StrideOf(seg.pointer_format)
    BY <1>3, <2>1, <2>2, <2>3, Zenon
  <2>5. QED
    BY <2>3, <2>4
<1>9. QED
  BY <1>1, <1>4, <1>6, <1>7, <1>8

LEMMA SegmentFacts ==
    ASSUME NEW plan, IsPlan(plan), NEW s \in DOMAIN plan.segments
    PROVE  LET seg == plan.segments[s]
           IN  /\ seg.segment_offset \in Nat /\ seg.page_size \in Nat
               /\ seg.pointer_format \in PointerFormats \ {"unimplemented"}
               /\ Len(seg.pages) \in Nat /\ DOMAIN seg.pages = 1..Len(seg.pages)
               /\ seg.pages = << >> <=> Len(seg.pages) = 0
<1>1. PICK seg : seg = plan.segments[s] /\ IsSegment(seg)
  BY DEF IsPlan
<1>2. PICK R : R = Seq([distance : Nat, pointer : PointerForms(seg.pointer_format)])
  OBVIOUS
<1>3. seg.pages \in Seq(R)
  BY <1>1, <1>2 DEF IsSegment
<1>4. Len(seg.pages) \in Nat /\ DOMAIN seg.pages = 1..Len(seg.pages)
  BY <1>3
<1>5. seg.pages = << >> <=> Len(seg.pages) = 0
  BY <1>3
<1>6. QED
  BY <1>1, <1>4, <1>5 DEF IsSegment

(* The places are the positions of the pointers, in order.                 *)
LEMMA PlaceFacts ==
    ASSUME NEW plan, IsPlan(plan)
    PROVE  /\ Len(plan.places) \in Nat /\ DOMAIN plan.places = 1..Len(plan.places)
           /\ Len(plan.segments) \in Nat /\ DOMAIN plan.segments = 1..Len(plan.segments)
           /\ \A i \in DOMAIN plan.places :
                 plan.places[i] \in [seg : Nat, page : Nat, nth : Nat] /\ IsPlace(plan, plan.places[i])
           /\ \A i, j \in DOMAIN plan.places : i < j => Before(plan.places[i], plan.places[j])
           /\ \A q \in [seg : Nat, page : Nat, nth : Nat] :
                 IsPlace(plan, q) => \E i \in DOMAIN plan.places : plan.places[i] = q
<1>1. ListsPlaces(plan) /\ Len(plan.segments) \in Nat /\ DOMAIN plan.segments = 1..Len(plan.segments)
  BY DEF IsPlan
<1>2. PICK R : R = [seg : Nat, page : Nat, nth : Nat]
  OBVIOUS
<1>3. plan.places \in Seq(R)
  BY <1>1, <1>2 DEF ListsPlaces
<1>4. /\ Len(plan.places) \in Nat /\ DOMAIN plan.places = 1..Len(plan.places)
      /\ \A i \in DOMAIN plan.places : plan.places[i] \in R
  BY <1>3
<1>5. ASSUME NEW q \in [seg : Nat, page : Nat, nth : Nat], IsPlace(plan, q)
      PROVE  \E i \in DOMAIN plan.places : plan.places[i] = q
  <2>1. /\ q.seg \in DOMAIN plan.segments /\ q.page \in DOMAIN plan.segments[q.seg].pages
        /\ q.nth \in DOMAIN plan.segments[q.seg].pages[q.page]
    BY <1>5 DEF IsPlace
  <2>2. PICK i \in DOMAIN plan.places : plan.places[i] = Place(q.seg, q.page, q.nth)
    BY <1>1, <2>1 DEF ListsPlaces
  <2>3. q = Place(q.seg, q.page, q.nth)
    BY DEF Place
  <2>4. QED
    BY <2>2, <2>3
<1>6. QED
  BY <1>1, <1>2, <1>4, <1>5 DEF ListsPlaces

PlaceType == [seg : Nat, page : Nat, nth : Nat]

(* What the chain says at a place: where the pointer is, and how far the   *)
(* next one is.                                                            *)
LEMMA OffsetFacts ==
    ASSUME NEW plan, IsPlan(plan), NEW q \in PlaceType, IsPlace(plan, q)
    PROVE  LET seg == plan.segments[q.seg]
           IN  /\ OffsetAt(plan, q) \in Nat
               /\ q.nth = 1 => OffsetAt(plan, q) = seg.segment_offset
                     + (q.page - 1) * seg.page_size + seg.pages[q.page][1].distance
               /\ q.nth \in 1..Len(seg.pages[q.page])
               /\ \E n \in Nat : n <= MaxNext(seg.pointer_format)
                                 /\ NextAt(plan, q) = n * StrideOf(seg.pointer_format)
               /\ q.nth = Len(seg.pages[q.page]) => NextAt(plan, q) = 0
               /\ q.nth # Len(seg.pages[q.page]) =>
                     /\ NextAt(plan, q) \in Nat \ {0}
                     /\ OffsetAt(plan, Place(q.seg, q.page, q.nth + 1))
                           = OffsetAt(plan, q) + NextAt(plan, q)
<1>1. PICK seg, page, format :
          /\ seg = plan.segments[q.seg] /\ page = seg.pages[q.page]
          /\ format = seg.pointer_format
  OBVIOUS
<1>2. /\ q.seg \in DOMAIN plan.segments /\ q.page \in DOMAIN seg.pages /\ q.nth \in DOMAIN page
      /\ q.page \in Nat /\ q.nth \in Nat
  BY <1>1 DEF IsPlace, PlaceType
<1>3. /\ Len(page) \in Nat /\ DOMAIN page = 1..Len(page)
      /\ \A k \in 1..Len(page) : page[k].distance \in Nat
      /\ \A k \in 2..Len(page) : \E n \in 1..MaxNext(format) :
            page[k].distance = n * StrideOf(format)
  <2>1. q.page \in DOMAIN plan.segments[q.seg].pages
    BY <1>1, <1>2
  <2>2. page = plan.segments[q.seg].pages[q.page] /\ format = plan.segments[q.seg].pointer_format
    BY <1>1
  <2>3. PICK s, g : s = q.seg /\ g = q.page
    OBVIOUS
  <2>4. /\ s \in DOMAIN plan.segments /\ g \in DOMAIN plan.segments[s].pages
        /\ page = plan.segments[s].pages[g] /\ format = plan.segments[s].pointer_format
    BY <1>2, <2>1, <2>2, <2>3
  <2>5. QED
    BY <2>4, PageFacts
<1>4. PICK so, ps, gs : /\ so = seg.segment_offset /\ ps = seg.page_size
                        /\ gs = (q.page - 1) * ps
  OBVIOUS
<1>5. so \in Nat /\ ps \in Nat /\ DOMAIN seg.pages = 1..Len(seg.pages) /\ Len(seg.pages) \in Nat
  BY <1>1, <1>2, <1>4, SegmentFacts
<1>6. gs \in Nat
  <2>1. q.page - 1 \in Nat
    BY <1>2, <1>5
  <2>2. QED
    BY <1>4, <1>5, <2>1
<1>7. PICK k \in 1..Len(page) : k = q.nth
  BY <1>2, <1>3
<1>8. /\ Distance(page, 0) = 0
      /\ \A j \in 0..Len(page) : Distance(page, j) \in Nat
      /\ \A j \in 1..Len(page) : Distance(page, j) = Distance(page, j - 1) + page[j].distance
  BY <1>3, DistanceFacts
<1>9. OffsetAt(plan, q) = so + gs + Distance(page, k)
  BY <1>1, <1>4, <1>7 DEF OffsetAt, PageAt
<1>10. OffsetAt(plan, q) \in Nat
  <2>1. Distance(page, k) \in Nat
    BY <1>8
  <2>2. QED
    BY <1>5, <1>6, <1>9, <2>1
<1>11. k = 1 => Distance(page, k) = page[1].distance
  <2>1. k = 1 => 1 \in 1..Len(page) /\ 1 - 1 = 0
    OBVIOUS
  <2>2. k = 1 => Distance(page, 1) = Distance(page, 0) + page[1].distance
    BY <1>8, <2>1
  <2>3. k = 1 => page[1].distance \in Nat
    BY <1>3, <2>1
  <2>4. QED
    BY <1>8, <2>2, <2>3
<1>12. CASE k = Len(page)
  <2>1. NextAt(plan, q) = 0
    BY <1>1, <1>7, <1>12 DEF NextAt, PageAt
  <2>2. 0 \in Nat /\ 0 <= MaxNext(format) /\ 0 = 0 * StrideOf(format)
    BY DEF MaxNext, StrideOf
  <2>3. QED
    BY <1>1, <1>4, <1>7, <1>9, <1>10, <1>11, <1>12, <2>1, <2>2
<1>13. CASE k # Len(page)
  <2>1. k + 1 \in 2..Len(page) /\ k + 1 \in 1..Len(page) /\ (k + 1) - 1 = k
    <3>1. PICK L \in Nat : L = Len(page)
      BY <1>3
    <3>2. k \in 1..L /\ k # L
      BY <1>13, <3>1
    <3>3. k + 1 \in 2..L /\ k + 1 \in 1..L /\ (k + 1) - 1 = k
      BY <3>2
    <3>4. QED
      BY <3>1, <3>3
  <2>2. NextAt(plan, q) = page[k + 1].distance
    BY <1>1, <1>7, <1>13 DEF NextAt, PageAt
  <2>3. PICK n \in 1..MaxNext(format) : page[k + 1].distance = n * StrideOf(format)
    BY <1>3, <2>1
  <2>4. n \in Nat /\ n <= MaxNext(format)
    BY <2>3 DEF MaxNext
  <2>5. n * StrideOf(format) \in Nat \ {0}
    BY <2>3, <2>4 DEF StrideOf
  <2>6. Distance(page, k + 1) = Distance(page, k) + page[k + 1].distance
    BY <1>8, <2>1
  <2>7. OffsetAt(plan, Place(q.seg, q.page, q.nth + 1)) = so + gs + Distance(page, k + 1)
    BY <1>1, <1>4, <1>7 DEF OffsetAt, PageAt, Place
  <2>8. Distance(page, k) \in Nat /\ page[k + 1].distance \in Nat
    BY <1>3, <1>8, <2>1
  <2>9. OffsetAt(plan, Place(q.seg, q.page, q.nth + 1)) = OffsetAt(plan, q) + NextAt(plan, q)
    BY <1>5, <1>6, <1>9, <2>2, <2>6, <2>7, <2>8
  <2>10. QED
    BY <1>1, <1>4, <1>7, <1>9, <1>10, <1>11, <1>13, <2>2, <2>3, <2>4, <2>5, <2>9
<1>14. QED
  BY <1>12, <1>13

(* The image of a plan.                                                    *)
LEMMA ImageFields ==
    ASSUME NEW plan, NEW img, img = ImageOf(plan)
    PROVE  /\ img.commands = plan.commands /\ img.has_header = TRUE
           /\ img.imports_format = plan.imports_format /\ img.symbols = plan.symbols
           /\ DOMAIN img.imports = DOMAIN plan.imports
           /\ \A i \in DOMAIN plan.imports : img.imports[i].header = ImportWord(plan.imports[i])
           /\ DOMAIN img.segs = DOMAIN plan.segments
           /\ \A s \in DOMAIN plan.segments : img.segs[s] = StartsOf(plan.segments[s])
           /\ img.size = plan.size
  BY DEF ImageOf

LEMMA WordAtPlace ==
    ASSUME NEW plan, IsPlan(plan), NEW img, img = ImageOf(plan), NEW j \in DOMAIN plan.places
    PROVE  LET q == plan.places[j]
           IN  /\ OffsetAt(plan, q) \in DOMAIN img.words
               /\ img.words[OffsetAt(plan, q)]
                     = Encode(FormatAt(plan, q), PlannedAt(plan, q), NextAt(plan, q))
<1> DEFINE offset(i) == OffsetAt(plan, plan.places[i])
           index(o) == CHOOSE i \in DOMAIN plan.places : offset(i) = o
           word(q) == Encode(FormatAt(plan, q), PlannedAt(plan, q), NextAt(plan, q))
<1>1. img.words = [o \in {offset(i) : i \in DOMAIN plan.places} |-> word(plan.places[index(o)])]
  BY DEF ImageOf
<1>2. \A i \in DOMAIN plan.places : offset(i) = offset(j) => i = j
  BY DEF IsPlan
<1>3. PICK o : o = offset(j)
  OBVIOUS
<1>4. index(o) = j
  <2>1. \E i \in DOMAIN plan.places : offset(i) = o
    BY <1>3
  <2>2. index(o) \in DOMAIN plan.places /\ offset(index(o)) = o
    BY <2>1
  <2>3. QED
    BY <1>2, <1>3, <2>2
<1>5. o \in {offset(i) : i \in DOMAIN plan.places}
  BY <1>3
<1>6. o \in DOMAIN img.words /\ img.words[o] = word(plan.places[j])
  <2> HIDE DEF offset, index, word
  <2>1. QED
    BY <1>1, <1>4, <1>5
<1>7. QED
  BY <1>3, <1>6

-----------------------------------------------------------------------------
(* The parser at a place of the plan.                                      *)

IsPlanOf(plan) == IsPlan(plan) /\ IsPlain(plan) /\ image = ImageOf(plan)

AtPlace(plan, q) ==
    /\ q \in PlaceType /\ IsPlace(plan, q)
    /\ q.seg = cursor.seg + 1 /\ q.page = cursor.page + 1
    /\ cursor.offset = OffsetAt(plan, q)

LEMMA StartsOfPlan ==
    ASSUME NEW plan, IsPlanOf(plan), TInv, cursor.seg + 1 \in DOMAIN plan.segments
    PROVE  LET seg == plan.segments[cursor.seg + 1]
           IN  /\ Starts = StartsOf(seg)
               /\ Starts.state = IF Len(seg.pages) = 0 THEN "absent" ELSE "present"
               /\ Len(seg.pages) # 0 =>
                     /\ Starts.segment_offset = seg.segment_offset
                     /\ Starts.page_size = seg.page_size
                     /\ Starts.page_count = Len(seg.pages)
                     /\ Starts.pointer_format = seg.pointer_format
                     /\ Len(Starts.page_starts) = Len(seg.pages)
                     /\ \A g \in 1..Len(seg.pages) : Starts.page_starts[g] = seg.pages[g][1].distance
<1>1. PICK s, seg : s = cursor.seg + 1 /\ seg = plan.segments[s]
  OBVIOUS
<1>2. IsPlan(plan) /\ IsPlain(plan) /\ image = ImageOf(plan) /\ s \in DOMAIN plan.segments
  BY <1>1 DEF IsPlanOf
<1>3. Starts = StartsOf(seg)
  <2>1. image.segs[s] = StartsOf(seg)
    BY <1>1, <1>2, ImageFields
  <2>2. QED
    BY <1>1, <2>1 DEF Starts
<1>4. /\ Len(seg.pages) \in Nat /\ DOMAIN seg.pages = 1..Len(seg.pages)
      /\ seg.pages = << >> <=> Len(seg.pages) = 0
  BY <1>1, <1>2, SegmentFacts
<1>5. \A g \in 1..Len(seg.pages) : seg.pages[g] # << >>
  BY <1>1, <1>2, <1>4 DEF IsPlain
<1>6. CASE Len(seg.pages) = 0
  BY <1>1, <1>3, <1>4, <1>6 DEF StartsOf
<1>7. CASE Len(seg.pages) # 0
  <2>1. PICK ps : ps = [g \in DOMAIN seg.pages |->
                IF seg.pages[g] = << >> THEN DYLD_CHAINED_PTR_START_NONE
                ELSE seg.pages[g][1].distance]
    OBVIOUS
  <2>2. Starts = [state |-> "present", segment_offset |-> seg.segment_offset,
                  page_size |-> seg.page_size, page_count |-> Len(seg.pages),
                  pointer_format |-> seg.pointer_format, page_starts |-> ps]
    BY <1>3, <1>4, <1>7, <2>1 DEF StartsOf
  <2>3. /\ Starts.state = "present" /\ Starts.segment_offset = seg.segment_offset
        /\ Starts.page_size = seg.page_size /\ Starts.page_count = Len(seg.pages)
        /\ Starts.pointer_format = seg.pointer_format /\ Starts.page_starts = ps
    BY <2>2
  <2>4. \A g \in 1..Len(seg.pages) : ps[g] = seg.pages[g][1].distance
    BY <1>4, <1>5, <2>1
  <2>5. Len(ps) = Len(seg.pages)
    <3>1. DOMAIN ps = 1..Len(seg.pages)
      BY <1>4, <2>1
    <3>2. QED
      BY <1>4, <2>1, <3>1
  <2>6. QED
    BY <1>1, <1>3, <1>7, <2>3, <2>4, <2>5
<1>8. QED
  BY <1>6, <1>7

LEMMA PlannedKinds ==
    ASSUME NEW plan, IsPlan(plan), NEW j \in DOMAIN plan.places, NEW q, q = plan.places[j]
    PROVE  /\ PlannedAt(plan, q) \in PointerForms(FormatAt(plan, q))
           /\ PlannedAt(plan, q).kind \in {"rebase", "bind"}
<1>1. IsPlace(plan, q)
  BY PlaceFacts
<1>2. PICK s, g, page, format :
          /\ s = q.seg /\ g = q.page /\ page = plan.segments[s].pages[g]
          /\ format = plan.segments[s].pointer_format
  OBVIOUS
<1>3. s \in DOMAIN plan.segments /\ g \in DOMAIN plan.segments[s].pages /\ q.nth \in DOMAIN page
  BY <1>1, <1>2 DEF IsPlace
<1>4. DOMAIN page = 1..Len(page) /\ \A k \in 1..Len(page) : page[k].pointer \in PointerForms(format)
  <2>1. /\ DOMAIN plan.segments[s].pages[g] = 1..Len(plan.segments[s].pages[g])
        /\ \A k \in 1..Len(plan.segments[s].pages[g]) :
              plan.segments[s].pages[g][k].pointer \in PointerForms(plan.segments[s].pointer_format)
    BY <1>3, PageFacts
  <2>2. QED
    BY <1>2, <2>1
<1>5. PICK p : p = PlannedAt(plan, q)
  OBVIOUS
<1>6. p \in PointerForms(format) /\ format = FormatAt(plan, q)
  BY <1>2, <1>3, <1>4, <1>5 DEF PlannedAt, PageAt, FormatAt
<1>7. p.kind \in {"rebase", "bind"}
  BY <1>6 DEF PointerForms, PointerForm
<1>8. QED
  BY <1>5, <1>6, <1>7

(* The word under the cursor is that of the place.                         *)
LEMMA ReadsPlace ==
    ASSUME NEW plan, IsPlanOf(plan), TInv, cursor.pc = "chain", NEW q, AtPlace(plan, q)
    PROVE  /\ Readable /\ Starts.pointer_format = FormatAt(plan, q)
           /\ FormatAt(plan, q) # "unimplemented"
           /\ Pointer = DecodedAs(PlannedAt(plan, q), NextAt(plan, q))
           /\ \E j \in DOMAIN plan.places : plan.places[j] = q
<1>1. IsPlan(plan) /\ IsPlain(plan) /\ image = ImageOf(plan)
  BY DEF IsPlanOf
<1>2. /\ q \in PlaceType /\ IsPlace(plan, q) /\ q.seg = cursor.seg + 1
      /\ cursor.offset = OffsetAt(plan, q)
  BY DEF AtPlace
<1>3. PICK j \in DOMAIN plan.places : plan.places[j] = q
  BY <1>1, <1>2, PlaceFacts DEF PlaceType
<1>4. Readable
  <2>1. OffsetAt(plan, q) + 8 <= plan.size
    BY <1>1, <1>3 DEF IsPlan
  <2>2. image.size = plan.size
    BY <1>1, ImageFields
  <2>3. QED
    BY <1>2, <2>1, <2>2 DEF Readable
<1>5. PICK seg : seg = plan.segments[q.seg]
  OBVIOUS
<1>6. q.seg \in DOMAIN plan.segments /\ q.page \in DOMAIN seg.pages
  BY <1>2, <1>5 DEF IsPlace
<1>7. /\ seg.pointer_format \in PointerFormats \ {"unimplemented"}
      /\ Len(seg.pages) \in Nat /\ DOMAIN seg.pages = 1..Len(seg.pages)
  BY <1>1, <1>5, <1>6, SegmentFacts
<1>8. Len(seg.pages) # 0
  BY <1>6, <1>7
<1>9. Starts.pointer_format = seg.pointer_format
  <2>1. cursor.seg + 1 \in DOMAIN plan.segments /\ seg = plan.segments[cursor.seg + 1]
    BY <1>2, <1>5, <1>6
  <2>2. QED
    BY <1>8, <2>1, StartsOfPlan
<1>10. PICK format : format = FormatAt(plan, q) /\ format = seg.pointer_format
  BY <1>5 DEF FormatAt
<1>11. PICK p, next : p = PlannedAt(plan, q) /\ next = NextAt(plan, q)
  OBVIOUS
<1>12. p \in PointerForms(format)
  BY <1>1, <1>3, <1>10, <1>11, PlannedKinds
<1>13. PICK n \in Nat : n <= MaxNext(format) /\ next = n * StrideOf(format)
  BY <1>1, <1>2, <1>5, <1>10, <1>11, OffsetFacts
<1>14. Value = Encode(format, p, next)
  <2>1. /\ OffsetAt(plan, q) \in DOMAIN image.words
        /\ image.words[OffsetAt(plan, q)] = Encode(format, p, next)
    BY <1>1, <1>3, <1>10, <1>11, WordAtPlace
  <2>2. QED
    BY <1>2, <2>1 DEF Value
<1>15. Pointer = DecodedAs(p, next)
  <2>1. ParseOne(Encode(format, p, next)) = DecodedAs(p, next)
    BY <1>7, <1>9, <1>10, <1>12, <1>13, RoundTrip
  <2>2. QED
    BY <1>14, <2>1 DEF Pointer
<1>16. QED
  BY <1>3, <1>4, <1>7, <1>9, <1>10, <1>11, <1>15

(* A rebase at a place, as the parser reads it and as it is meant.         *)
LEMMA RebaseAtPlace ==
    ASSUME NEW plan, IsPlan(plan), IsPlain(plan), NEW j \in DOMAIN plan.places, NEW q,
           q = plan.places[j], PlannedAt(plan, q).kind = "rebase"
    PROVE  LET p == PlannedAt(plan, q)
           IN  FixupAt(plan, q) = [kind |-> "rebase", offset |-> OffsetAt(plan, q),
                                   target |-> p.value \cup ShiftLeft(p.high8, 56)]
<1>1. PICK p, format : p = PlannedAt(plan, q) /\ format = FormatAt(plan, q)
  OBVIOUS
<1>2. format \in {"PTR_64", "ARM64E"} => p.value \cap plan.vm_base = {}
  BY <1>1 DEF IsPlain
<1>3. format \in {"PTR_64", "ARM64E"} => p.value \ plan.vm_base = p.value
  BY <1>2
<1>4. TargetOf(plan, format, p) = p.value \cup ShiftLeft(p.high8, 56)
  BY <1>3 DEF TargetOf
<1>5. FixupAt(plan, q) = [kind |-> "rebase", offset |-> OffsetAt(plan, q),
                          target |-> TargetOf(plan, format, p)]
  BY <1>1 DEF FixupAt
<1>6. QED
  BY <1>1, <1>4, <1>5

(* A bind at a place, with the entry of the imports it names.              *)
LEMMA BindAtPlace ==
    ASSUME NEW plan, IsPlanOf(plan), NEW j \in DOMAIN plan.places, NEW q,
           q = plan.places[j], PlannedAt(plan, q).kind = "bind"
    PROVE  LET p == PlannedAt(plan, q)
               import == ImportOf(p.value)
           IN  /\ p.value \in DOMAIN image.imports
               /\ import.name_offset \in DOMAIN image.symbols
               /\ ~image.symbols[import.name_offset].long
               /\ FixupAt(plan, q) =
                     [kind |-> "bind", offset |-> OffsetAt(plan, q),
                      symbol |-> image.symbols[import.name_offset].text,
                      ordinal |-> import.lib_ordinal,
                      addend |-> IF p.auth THEN 0 ELSE Number(p.addend), is_auth |-> p.auth]
<1>1. IsPlan(plan) /\ IsPlain(plan) /\ image = ImageOf(plan)
  BY DEF IsPlanOf
<1>2. PICK p, format : p = PlannedAt(plan, q) /\ format = FormatAt(plan, q)
  OBVIOUS
<1>3. PICK import : import = plan.imports[p.value]
  OBVIOUS
<1>4. /\ p.value \in DOMAIN plan.imports /\ import.library \in 0..255
      /\ import.name \in Field(23) /\ import.name \in DOMAIN plan.symbols
      /\ ~plan.symbols[import.name].long
  BY <1>1, <1>2, <1>3 DEF IsPlan
<1>5. /\ DOMAIN image.imports = DOMAIN plan.imports /\ image.symbols = plan.symbols
      /\ image.imports[p.value].header = ImportWord(import)
      /\ image.imports_format = "IMPORT"
  <2>1. image.imports_format = plan.imports_format /\ plan.imports_format = "IMPORT"
    BY <1>1, ImageFields DEF IsPlain
  <2>2. DOMAIN image.imports = DOMAIN plan.imports /\ image.symbols = plan.symbols
    BY <1>1, ImageFields
  <2>3. \A i \in DOMAIN plan.imports : image.imports[i].header = ImportWord(plan.imports[i])
    BY <1>1, ImageFields
  <2>4. QED
    BY <1>3, <1>4, <2>1, <2>2, <2>3
<1>6. ImportOf(p.value).lib_ordinal = import.library /\ ImportOf(p.value).name_offset = import.name
  <2>1. /\ Number(Bits(ImportWord(import), 0, 8)) = import.library
        /\ Bits(ImportWord(import), 9, 23) = import.name
    BY <1>4, ImportBack
  <2>2. QED
    BY <1>5, <2>1 DEF ImportOf, dyld_chained_import
<1>7. ~p.auth => AddendOf(format, p) = Number(p.addend)
  <2>1. format \notin Ptr64 => 18 \notin p.addend
    BY <1>1, <1>2 DEF IsPlain
  <2>2. QED
    BY <2>1 DEF AddendOf
<1>8. PICK addend : addend = (IF p.auth THEN 0 ELSE AddendOf(format, p))
  OBVIOUS
<1>9. addend = IF p.auth THEN 0 ELSE Number(p.addend)
  BY <1>7, <1>8
<1>10. FixupAt(plan, q) =
          [kind |-> "bind", offset |-> OffsetAt(plan, q),
           symbol |-> plan.symbols[import.name].text, ordinal |-> import.library,
           addend |-> addend, is_auth |-> p.auth]
  BY <1>2, <1>3, <1>8 DEF FixupAt
<1>11. QED
  BY <1>2, <1>4, <1>5, <1>6, <1>9, <1>10

(* The parser pushes the fixup that is meant there.                        *)
LEMMA PushesPlace ==
    ASSUME NEW plan, IsPlanOf(plan), TInv, cursor.pc = "chain", NEW q, AtPlace(plan, q),
           PushRebase \/ PushBind
    PROVE  Push(FixupAt(plan, q), NextAt(plan, q))
<1>1. PICK p, next : p = PlannedAt(plan, q) /\ next = NextAt(plan, q)
  OBVIOUS
<1>2. Pointer = DecodedAs(p, next) /\ \E j \in DOMAIN plan.places : plan.places[j] = q
  BY <1>1, ReadsPlace
<1>3. PICK j \in DOMAIN plan.places : q = plan.places[j]
  BY <1>2
<1>4. IsPlan(plan) /\ IsPlain(plan) /\ cursor.offset = OffsetAt(plan, q)
  BY DEF IsPlanOf, AtPlace
<1>5. CASE p.kind = "rebase"
  <2>1. Pointer = Rebase(p.value \cup ShiftLeft(p.high8, 56), next)
    BY <1>2, <1>5 DEF DecodedAs
  <2>2. /\ Pointer.kind = "rebase" /\ Pointer.next = next
        /\ Pointer.target = p.value \cup ShiftLeft(p.high8, 56)
    BY <2>1 DEF Rebase
  <2>3. PushRebase
    BY <2>2 DEF PushBind
  <2>4. Push([kind |-> "rebase", offset |-> cursor.offset, target |-> Pointer.target], Pointer.next)
    BY <2>3 DEF PushRebase
  <2>5. FixupAt(plan, q) = [kind |-> "rebase", offset |-> cursor.offset, target |-> Pointer.target]
    <3>1. PlannedAt(plan, q).kind = "rebase"
      BY <1>1, <1>5
    <3>2. FixupAt(plan, q) = [kind |-> "rebase", offset |-> OffsetAt(plan, q),
                              target |-> p.value \cup ShiftLeft(p.high8, 56)]
      BY <1>1, <1>3, <1>4, <3>1, RebaseAtPlace
    <3>3. QED
      BY <1>4, <2>2, <3>2
  <2>6. QED
    BY <1>1, <2>2, <2>4, <2>5
<1>6. CASE p.kind # "rebase"
  <2>1. Pointer = Bind(p.value, next, IF p.auth THEN 0 ELSE Number(p.addend), p.auth)
    BY <1>2, <1>6 DEF DecodedAs
  <2>2. /\ Pointer.kind = "bind" /\ Pointer.next = next /\ Pointer.import = p.value
        /\ Pointer.addend = (IF p.auth THEN 0 ELSE Number(p.addend)) /\ Pointer.is_auth = p.auth
    BY <2>1 DEF Bind
  <2>3. PushBind
    BY <2>2 DEF PushRebase
  <2>4. PICK import, f :
           /\ import = ImportOf(Pointer.import)
           /\ f = [kind |-> "bind", offset |-> cursor.offset,
                   symbol |-> image.symbols[import.name_offset].text,
                   ordinal |-> import.lib_ordinal,
                   addend |-> Pointer.addend, is_auth |-> Pointer.is_auth]
    OBVIOUS
  <2>5. Push(f, Pointer.next)
    BY <2>3, <2>4 DEF PushBind
  <2>6. p.kind = "bind"
    BY <1>1, <1>3, <1>4, <1>6, PlannedKinds
  <2>7. FixupAt(plan, q) = f
    BY <1>1, <1>3, <1>4, <2>2, <2>4, <2>6, BindAtPlace
  <2>8. QED
    BY <1>1, <2>2, <2>5, <2>7
<1>7. QED
  BY <1>5, <1>6

-----------------------------------------------------------------------------
(* The fixups found so far are those of the places before q.               *)
ReadTo(plan, q) ==
    /\ \A i \in 1..Len(plan.places) : Before(plan.places[i], q) <=> i <= Len(fixups)
    /\ Len(fixups) <= Len(plan.places)
    /\ \A i \in 1..Len(fixups) : fixups[i] = FixupAt(plan, plan.places[i])

(* Positions with the same places before them.                             *)
SamePlaces(plan, q, r) ==
    \A x \in PlaceType : IsPlace(plan, x) => (Before(x, r) <=> Before(x, q))

LEMMA ReadToMoves ==
    ASSUME NEW plan, IsPlan(plan), NEW q, NEW r, ReadTo(plan, q), SamePlaces(plan, q, r),
           UNCHANGED fixups
    PROVE  ReadTo(plan, r)'
<1>1. \A i \in 1..Len(plan.places) : plan.places[i] \in PlaceType /\ IsPlace(plan, plan.places[i])
  BY PlaceFacts DEF PlaceType
<1>2. \A i \in 1..Len(plan.places) : Before(plan.places[i], r) <=> Before(plan.places[i], q)
  BY <1>1 DEF SamePlaces
<1>3. QED
  BY <1>2 DEF ReadTo

(* A place comes before r that did not come before q: q itself.            *)
NextPlace(plan, q, r) ==
    \A x \in PlaceType : IsPlace(plan, x) => (Before(x, r) <=> Before(x, q) \/ x = q)

LEMMA BeforeFacts ==
    ASSUME NEW x \in PlaceType, NEW y \in PlaceType, Before(x, y)
    PROVE  x # y /\ ~Before(y, x)
<1>1. /\ x.seg \in Nat /\ x.page \in Nat /\ x.nth \in Nat
      /\ y.seg \in Nat /\ y.page \in Nat /\ y.nth \in Nat
  BY DEF PlaceType
<1>2. QED
  BY <1>1 DEF Before

LEMMA ReadToPushes ==
    ASSUME NEW plan, IsPlan(plan), NEW q \in PlaceType, IsPlace(plan, q), NEW r,
           ReadTo(plan, q), NextPlace(plan, q, r), fixups \in Seq(Fixup),
           fixups' = Append(fixups, FixupAt(plan, q))
    PROVE  ReadTo(plan, r)'
<1>1. /\ Len(plan.places) \in Nat
      /\ \A i \in 1..Len(plan.places) : plan.places[i] \in PlaceType /\ IsPlace(plan, plan.places[i])
      /\ \A i, j \in 1..Len(plan.places) : i < j => Before(plan.places[i], plan.places[j])
  BY PlaceFacts DEF PlaceType
<1>2. PICK j \in 1..Len(plan.places) : plan.places[j] = q
  BY PlaceFacts DEF PlaceType
<1>3. PICK n \in Nat : n = Len(fixups)
  OBVIOUS
<1>4. /\ \A i \in 1..Len(plan.places) : Before(plan.places[i], q) <=> i <= n
      /\ n <= Len(plan.places) /\ \A i \in 1..n : fixups[i] = FixupAt(plan, plan.places[i])
  BY <1>3 DEF ReadTo
<1>5. ~Before(q, q)
  BY BeforeFacts
<1>6. ~(j <= n)
  BY <1>2, <1>4, <1>5
<1>7. j = n + 1
  <2>1. ASSUME n + 1 < j PROVE FALSE
    <3>1. n + 1 \in 1..Len(plan.places)
      BY <1>1, <2>1
    <3>2. Before(plan.places[n + 1], q)
      BY <1>1, <1>2, <2>1, <3>1
    <3>3. n + 1 <= n
      BY <1>4, <3>1, <3>2
    <3>4. QED
      BY <3>3
  <2>2. QED
    BY <1>1, <1>6, <2>1
<1>8. /\ Len(fixups') = n + 1 /\ fixups'[n + 1] = FixupAt(plan, q)
      /\ \A i \in 1..n : fixups'[i] = fixups[i]
  <2>1. PICK f : f = FixupAt(plan, q)
    OBVIOUS
  <2>2. fixups' = Append(fixups, f)
    BY <2>1
  <2>3. Len(fixups') = n + 1 /\ fixups'[n + 1] = f /\ \A i \in 1..n : fixups'[i] = fixups[i]
    BY <1>3, <2>2
  <2>4. QED
    BY <2>1, <2>3
<1>9. \A i \in 1..(n + 1) : fixups'[i] = FixupAt(plan, plan.places[i])
  <2> SUFFICES ASSUME NEW i \in 1..(n + 1) PROVE fixups'[i] = FixupAt(plan, plan.places[i])
    OBVIOUS
  <2>1. CASE i = n + 1
    BY <1>2, <1>7, <1>8, <2>1
  <2>2. CASE i # n + 1
    <3>1. i \in 1..n
      BY <2>2
    <3>2. QED
      BY <1>4, <1>8, <3>1
  <2>3. QED
    BY <2>1, <2>2
<1>10. ASSUME NEW i \in 1..Len(plan.places)
       PROVE  Before(plan.places[i], r) <=> i <= n + 1
  <2>1. Before(plan.places[i], r) <=> Before(plan.places[i], q) \/ plan.places[i] = q
    BY <1>1 DEF NextPlace
  <2>2. plan.places[i] = q <=> i = j
    <3>1. plan.places[i] = q => ~(i < j) /\ ~(j < i)
      BY <1>1, <1>2, <1>5
    <3>2. QED
      BY <1>2, <3>1
  <2>3. i <= n + 1 <=> i <= n \/ i = n + 1
    OBVIOUS
  <2>4. QED
    BY <1>4, <1>7, <2>1, <2>2, <2>3
<1>11. n + 1 <= Len(plan.places)
  BY <1>7
<1>12. QED
  BY <1>8, <1>9, <1>10, <1>11 DEF ReadTo

(* From one position to the next, along a page, a segment and the image.   *)
LEMMA PlaceBounds ==
    ASSUME NEW plan, IsPlan(plan), NEW x \in PlaceType, IsPlace(plan, x)
    PROVE  /\ x.seg \in 1..Len(plan.segments) /\ x.seg \in Nat
           /\ x.page \in 1..Len(plan.segments[x.seg].pages) /\ x.page \in Nat
           /\ x.nth \in 1..Len(plan.segments[x.seg].pages[x.page]) /\ x.nth \in Nat
<1>1. /\ x.seg \in DOMAIN plan.segments /\ x.page \in DOMAIN plan.segments[x.seg].pages
      /\ x.nth \in DOMAIN plan.segments[x.seg].pages[x.page]
  BY DEF IsPlace
<1>2. x.seg \in Nat /\ x.page \in Nat /\ x.nth \in Nat
  BY DEF PlaceType
<1>3. PICK s, g : s = x.seg /\ g = x.page
  OBVIOUS
<1>4. s \in DOMAIN plan.segments /\ g \in DOMAIN plan.segments[s].pages
  BY <1>1, <1>3
<1>5. DOMAIN plan.segments[s].pages[g] = 1..Len(plan.segments[s].pages[g])
  BY <1>4, PageFacts
<1>6. DOMAIN plan.segments[s].pages = 1..Len(plan.segments[s].pages)
  BY <1>4, SegmentFacts
<1>7. DOMAIN plan.segments = 1..Len(plan.segments)
  BY PlaceFacts
<1>8. QED
  BY <1>1, <1>2, <1>3, <1>5, <1>6, <1>7

LEMMA LeavesSegment ==
    ASSUME NEW plan, IsPlan(plan), NEW s \in DOMAIN plan.segments, NEW g \in Nat,
           g = Len(plan.segments[s].pages)
    PROVE  SamePlaces(plan, Place(s, g + 1, 1), Place(s + 1, 1, 1))
<1>1. s \in Nat
  BY PlaceFacts
<1> SUFFICES ASSUME NEW x \in PlaceType, IsPlace(plan, x)
             PROVE  Before(x, Place(s + 1, 1, 1)) <=> Before(x, Place(s, g + 1, 1))
  BY DEF SamePlaces
<1>2. /\ x.seg \in Nat /\ x.page \in Nat /\ x.nth \in Nat /\ 1 <= x.page /\ 1 <= x.nth
      /\ x.seg = s => x.page <= g
  BY PlaceBounds
<1>3. Before(x, Place(s + 1, 1, 1)) <=> x.seg <= s
  BY <1>1, <1>2 DEF Before, Place
<1>4. Before(x, Place(s, g + 1, 1)) <=> x.seg <= s
  BY <1>1, <1>2 DEF Before, Place
<1>5. QED
  BY <1>3, <1>4

LEMMA LeavesPage ==
    ASSUME NEW plan, IsPlan(plan), NEW q \in PlaceType, IsPlace(plan, q),
           q.nth = Len(plan.segments[q.seg].pages[q.page])
    PROVE  NextPlace(plan, q, Place(q.seg, q.page + 1, 1))
<1>1. q.seg \in Nat /\ q.page \in Nat /\ q.nth \in Nat
  BY PlaceBounds
<1> SUFFICES ASSUME NEW x \in PlaceType, IsPlace(plan, x)
             PROVE  Before(x, Place(q.seg, q.page + 1, 1)) <=> Before(x, q) \/ x = q
  BY DEF NextPlace
<1>2. /\ x.seg \in Nat /\ x.page \in Nat /\ x.nth \in Nat /\ 1 <= x.page /\ 1 <= x.nth
      /\ x.nth <= Len(plan.segments[x.seg].pages[x.page])
  BY PlaceBounds
<1>3. x.seg = q.seg /\ x.page = q.page => x.nth <= q.nth
  BY <1>2
<1>4. x = q <=> x.seg = q.seg /\ x.page = q.page /\ x.nth = q.nth
  BY DEF PlaceType
<1>5. Before(x, Place(q.seg, q.page + 1, 1))
        <=> x.seg < q.seg \/ (x.seg = q.seg /\ x.page <= q.page)
  BY <1>1, <1>2 DEF Before, Place
<1>6. PICK a \in Nat, b \in Nat, c \in Nat, d \in Nat, e \in Nat, f \in Nat :
          /\ a = x.seg /\ b = x.page /\ c = x.nth /\ d = q.seg /\ e = q.page /\ f = q.nth
  BY <1>1, <1>2
<1>7. a = d /\ b = e => c <= f
  BY <1>6, <1>3
<1>8. Before(x, q) <=> \/ a < d \/ (a = d /\ b < e) \/ (a = d /\ b = e /\ c < f)
  BY <1>6 DEF Before
<1>9. (a < d \/ (a = d /\ b <= e))
        <=> \/ (\/ a < d \/ (a = d /\ b < e) \/ (a = d /\ b = e /\ c < f))
            \/ (a = d /\ b = e /\ c = f)
  BY <1>7
<1>10. QED
  BY <1>4, <1>5, <1>6, <1>8, <1>9

LEMMA AlongPage ==
    ASSUME NEW plan, IsPlan(plan), NEW q \in PlaceType, IsPlace(plan, q)
    PROVE  NextPlace(plan, q, Place(q.seg, q.page, q.nth + 1))
<1>1. q.seg \in Nat /\ q.page \in Nat /\ q.nth \in Nat
  BY PlaceBounds
<1> SUFFICES ASSUME NEW x \in PlaceType, IsPlace(plan, x)
             PROVE  Before(x, Place(q.seg, q.page, q.nth + 1)) <=> Before(x, q) \/ x = q
  BY DEF NextPlace
<1>2. x.seg \in Nat /\ x.page \in Nat /\ x.nth \in Nat
  BY PlaceBounds
<1>3. x = q <=> x.seg = q.seg /\ x.page = q.page /\ x.nth = q.nth
  BY DEF PlaceType
<1>4. Before(x, Place(q.seg, q.page, q.nth + 1))
        <=> \/ x.seg < q.seg \/ (x.seg = q.seg /\ x.page < q.page)
            \/ (x.seg = q.seg /\ x.page = q.page /\ x.nth <= q.nth)
  BY <1>1, <1>2 DEF Before, Place
<1>5. QED
  BY <1>1, <1>2, <1>3, <1>4 DEF Before

-----------------------------------------------------------------------------
(* Where the parser is in an image laid out from the plan, and what it has *)
(* found by then.                                                          *)

HasFixups(plan) == \E c \in DOMAIN plan.commands : plan.commands[c] = "LC_DYLD_CHAINED_FIXUPS"

AtCommands(plan) ==
    /\ cursor.pc = "commands" /\ fixups = << >> /\ cursor.seg = 0
    /\ \A c \in 1..cursor.at : plan.commands[c] = "other"

AtSegments(plan) ==
    /\ cursor.pc = "segments" /\ HasFixups(plan)
    /\ cursor.seg <= Len(plan.segments)
    /\ ReadTo(plan, Place(cursor.seg + 1, 1, 1))

AtPages(plan) ==
    /\ cursor.pc = "pages" /\ HasFixups(plan)
    /\ cursor.seg + 1 \in DOMAIN plan.segments
    /\ Len(plan.segments[cursor.seg + 1].pages) # 0
    /\ cursor.page <= Len(plan.segments[cursor.seg + 1].pages)
    /\ ReadTo(plan, Place(cursor.seg + 1, cursor.page + 1, 1))

AtChain(plan) ==
    /\ cursor.pc = "chain" /\ HasFixups(plan)
    /\ \E q : AtPlace(plan, q) /\ ReadTo(plan, q)

Parsed(plan) == cursor.pc = "parsed" /\ fixups = MeantFixups(plan)

Decoding(plan) ==
    AtCommands(plan) \/ AtSegments(plan) \/ AtPages(plan) \/ AtChain(plan) \/ Parsed(plan)

LEMMA SegmentCount ==
    ASSUME NEW plan, IsPlanOf(plan), TInv
    PROVE  Len(image.segs) = Len(plan.segments) /\ DOMAIN plan.segments = 1..Len(plan.segments)
           /\ Len(plan.segments) \in Nat
<1>1. IsPlan(plan) /\ image = ImageOf(plan)
  BY DEF IsPlanOf
<1>2. PICK m \in Nat, n \in Nat : m = Len(image.segs) /\ n = Len(plan.segments)
  BY <1>1, ImageFacts, PlaceFacts
<1>3. 1..m = 1..n
  BY <1>1, <1>2, ImageFields, ImageFacts, PlaceFacts
<1>4. m = n
  <2>1. m \in 1..m \/ m = 0
    OBVIOUS
  <2>2. n \in 1..n \/ n = 0
    OBVIOUS
  <2>3. m <= n
    BY <1>3, <2>1
  <2>4. n <= m
    BY <1>3, <2>2
  <2>5. QED
    BY <2>3, <2>4
<1>5. QED
  BY <1>1, <1>2, <1>4, PlaceFacts

LEMMA CommandsDecode ==
    ASSUME NEW plan, IsPlanOf(plan), TInv, AtCommands(plan), Parse
    PROVE  Decoding(plan)'
<1>1. IsPlan(plan) /\ IsPlain(plan) /\ image = ImageOf(plan)
  BY DEF IsPlanOf
<1>2. cursor.pc = "commands" /\ fixups = << >> /\ cursor.seg = 0 /\ cursor \in Cursor
      /\ \A c \in 1..cursor.at : plan.commands[c] = "other"
  BY ImageFacts DEF AtCommands
<1>3. image.commands = plan.commands /\ image.has_header = TRUE
  BY <1>1, ImageFields
<1>4. /\ Len(plan.commands) \in Nat /\ DOMAIN plan.commands = 1..Len(plan.commands)
      /\ cursor.at \in Nat
  <2>1. PICK T : plan.commands \in Seq(T)
    BY <1>1 DEF IsPlan
  <2>2. QED
    BY <2>1, ImageFacts
<1>5. CASE SkipCommand
  <2>1. PICK n \in Nat : n = cursor.at + 1
    BY <1>4
  <2>2. /\ cursor' = [cursor EXCEPT !.at = n] /\ fixups' = fixups
        /\ plan.commands[n] = "other"
    BY <1>3, <1>5, <2>1 DEF SkipCommand, Command
  <2>3. cursor'.pc = "commands" /\ cursor'.seg = 0 /\ cursor'.at = n
    BY <1>2, <2>2 DEF Cursor
  <2>4. \A c \in 1..n : plan.commands[c] = "other"
    BY <1>2, <1>4, <2>1, <2>2
  <2>5. AtCommands(plan)'
    BY <1>2, <2>2, <2>3, <2>4 DEF AtCommands
  <2>6. QED
    BY <2>5 DEF Decoding
<1>6. CASE CommandFails
  <2>1. PICK n \in Nat : n = cursor.at + 1 /\ n \in DOMAIN plan.commands
    BY <1>3, <1>4, <1>6 DEF CommandFails
  <2>2. plan.commands[n] = "unreadable"
    BY <1>3, <1>6, <2>1 DEF CommandFails, Command
  <2>3. PICK d \in 1..n : plan.commands[d] = "LC_DYLD_CHAINED_FIXUPS"
    BY <1>1, <2>1, <2>2 DEF IsPlain
  <2>4. d = n \/ d \in 1..cursor.at
    BY <1>4, <2>1
  <2>5. QED
    BY <1>2, <2>2, <2>3, <2>4
<1>7. CASE NoFixups
  <2>1. cursor' = [cursor EXCEPT !.pc = "parsed"] /\ fixups' = << >> /\ cursor.at = Len(plan.commands)
    BY <1>2, <1>3, <1>7 DEF NoFixups, Goto
  <2>2. cursor'.pc = "parsed"
    BY <1>2, <2>1 DEF Cursor
  <2>3. \A c \in DOMAIN plan.commands : plan.commands[c] # "LC_DYLD_CHAINED_FIXUPS"
    BY <1>2, <1>4, <2>1
  <2>4. MeantFixups(plan) = << >>
    BY <2>3, Zenon DEF MeantFixups
  <2>5. QED
    BY <2>1, <2>2, <2>4 DEF Decoding, Parsed
<1>8. CASE ReadHeader
  <2>1. cursor' = [cursor EXCEPT !.pc = "segments"] /\ fixups' = << >>
    BY <1>2, <1>3, <1>8 DEF ReadHeader, Goto
  <2>2. cursor'.pc = "segments" /\ cursor'.seg = 0
    BY <1>2, <2>1 DEF Cursor
  <2>3. HasFixups(plan)
    <3>1. cursor.at + 1 \in DOMAIN plan.commands
      BY <1>3, <1>4, <1>8 DEF ReadHeader
    <3>2. plan.commands[cursor.at + 1] = "LC_DYLD_CHAINED_FIXUPS"
      BY <1>3, <1>8 DEF ReadHeader, Command
    <3>3. QED
      BY <3>1, <3>2 DEF HasFixups
  <2>4. ReadTo(plan, Place(1, 1, 1))'
    <3>1. Len(fixups') = 0
      BY <2>1
    <3>2. ASSUME NEW i \in 1..Len(plan.places)
          PROVE  ~Before(plan.places[i], Place(1, 1, 1))
      <4>1. PICK x : x = plan.places[i] /\ x \in PlaceType /\ IsPlace(plan, x)
        BY <1>1, PlaceFacts DEF PlaceType
      <4>2. x.seg >= 1 /\ x.page >= 1 /\ x.nth >= 1 /\ x.seg \in Nat /\ x.page \in Nat /\ x.nth \in Nat
        BY <1>1, <4>1, PlaceBounds
      <4>3. QED
        BY <4>1, <4>2 DEF Before, Place
    <3>3. Len(plan.places) \in Nat
      BY <1>1, PlaceFacts
    <3>4. QED
      BY <3>1, <3>2, <3>3 DEF ReadTo
  <2>5. Len(plan.segments) \in Nat
    BY SegmentCount
  <2>6. AtSegments(plan)'
    BY <2>2, <2>3, <2>4, <2>5 DEF AtSegments
  <2>7. QED
    BY <2>6 DEF Decoding
<1>9. QED
  BY <1>2, <1>5, <1>6, <1>7, <1>8 DEF Parse, SkipSegment, EnterSegment, SegmentFails,
     SegmentsDone, EnterPage, PageFails, PagesDone, PushRebase, PushBind, ImportFails,
     NamePanics, ValueFails, FormatPanics, AtPointer

LEMMA SegmentsDecode ==
    ASSUME NEW plan, IsPlanOf(plan), TInv, AtSegments(plan), Parse
    PROVE  Decoding(plan)'
<1>1. IsPlan(plan) /\ IsPlain(plan) /\ image = ImageOf(plan)
  BY DEF IsPlanOf
<1>2. /\ cursor.pc = "segments" /\ HasFixups(plan) /\ cursor.seg <= Len(plan.segments)
      /\ ReadTo(plan, Place(cursor.seg + 1, 1, 1)) /\ cursor \in Cursor /\ cursor.seg \in Nat
  BY ImageFacts DEF AtSegments
<1>3. /\ Len(image.segs) = Len(plan.segments) /\ DOMAIN plan.segments = 1..Len(plan.segments)
      /\ Len(plan.segments) \in Nat
  BY SegmentCount
<1>4. PICK s \in Nat : s = cursor.seg + 1
  BY <1>2
<1>5. cursor.seg < Len(image.segs) =>
         /\ s \in DOMAIN plan.segments
         /\ Starts.state = IF Len(plan.segments[s].pages) = 0 THEN "absent" ELSE "present"
  <2> SUFFICES ASSUME cursor.seg < Len(image.segs)
               PROVE  /\ s \in DOMAIN plan.segments
                      /\ Starts.state =
                            IF Len(plan.segments[s].pages) = 0 THEN "absent" ELSE "present"
    OBVIOUS
  <2>1. s \in DOMAIN plan.segments
    BY <1>2, <1>3, <1>4
  <2>2. QED
    BY <1>4, <2>1, StartsOfPlan
<1>6. CASE SkipSegment
  <2>1. /\ cursor' = [cursor EXCEPT !.seg = s] /\ UNCHANGED fixups
        /\ cursor.seg < Len(image.segs) /\ Starts.state = "absent"
    BY <1>4, <1>6 DEF SkipSegment
  <2>2. s \in DOMAIN plan.segments /\ Len(plan.segments[s].pages) = 0
    BY <1>5, <2>1
  <2>3. PICK g \in Nat : g = 0
    OBVIOUS
  <2>4. SamePlaces(plan, Place(s, g + 1, 1), Place(s + 1, 1, 1))
    BY <1>1, <2>2, <2>3, LeavesSegment
  <2>5. PICK q, r : q = Place(s, 1, 1) /\ r = Place(s + 1, 1, 1)
    OBVIOUS
  <2>6. SamePlaces(plan, q, r) /\ ReadTo(plan, q)
    BY <1>2, <1>4, <2>3, <2>4, <2>5
  <2>7. ReadTo(plan, r)'
    BY <1>1, <2>1, <2>6, ReadToMoves
  <2>8. cursor'.pc = "segments" /\ cursor'.seg = s
    BY <1>2, <2>1 DEF Cursor
  <2>9. s <= Len(plan.segments)
    BY <1>3, <2>2
  <2>10. AtSegments(plan)'
    BY <1>2, <2>5, <2>7, <2>8, <2>9 DEF AtSegments
  <2>11. QED
    BY <2>10 DEF Decoding
<1>7. CASE EnterSegment
  <2>1. /\ cursor' = [cursor EXCEPT !.pc = "pages", !.page = 0] /\ UNCHANGED fixups
        /\ cursor.seg < Len(image.segs) /\ Starts.state = "present"
    BY <1>7 DEF EnterSegment
  <2>2. s \in DOMAIN plan.segments /\ Len(plan.segments[s].pages) # 0
    BY <1>5, <2>1
  <2>3. cursor'.pc = "pages" /\ cursor'.seg = cursor.seg /\ cursor'.page = 0
    BY <1>2, <2>1 DEF Cursor
  <2>4. Len(plan.segments[s].pages) \in Nat
    BY <1>1, <2>2, SegmentFacts
  <2>5. ReadTo(plan, Place(s, 1, 1))'
    BY <1>2, <1>4, <2>1 DEF ReadTo
  <2>6. cursor'.seg + 1 = s /\ cursor'.page + 1 = 1
    BY <1>4, <2>3
  <2>7. AtPages(plan)'
    BY <1>2, <2>2, <2>3, <2>4, <2>5, <2>6 DEF AtPages
  <2>8. QED
    BY <2>7 DEF Decoding
<1>8. CASE SegmentFails
  <2>1. cursor.seg < Len(image.segs) /\ Starts.state = "unreadable"
    BY <1>8 DEF SegmentFails
  <2>2. QED
    BY <1>5, <2>1
<1>9. CASE SegmentsDone
  <2>1. /\ cursor' = [cursor EXCEPT !.pc = "parsed"] /\ UNCHANGED fixups
        /\ cursor.seg = Len(plan.segments)
    BY <1>3, <1>9 DEF SegmentsDone, Goto
  <2>2. cursor'.pc = "parsed"
    BY <1>2, <2>1 DEF Cursor
  <2>3. Len(plan.places) \in Nat /\ DOMAIN plan.places = 1..Len(plan.places)
    BY <1>1, PlaceFacts
  <2>4. ASSUME NEW i \in 1..Len(plan.places)
        PROVE  i <= Len(fixups)
    <3>1. PICK x : x = plan.places[i] /\ x \in PlaceType /\ IsPlace(plan, x)
      BY <1>1, <2>3, PlaceFacts DEF PlaceType
    <3>2. x.seg \in Nat /\ x.seg <= Len(plan.segments)
      BY <1>1, <3>1, PlaceBounds
    <3>3. Before(x, Place(cursor.seg + 1, 1, 1))
      BY <1>3, <2>1, <3>2 DEF Before, Place
    <3>4. QED
      BY <1>2, <3>1, <3>3 DEF ReadTo
  <2>5. PICK n \in Nat : n = Len(fixups) /\ n <= Len(plan.places)
    BY <1>2, ImageFacts DEF ReadTo
  <2>6. n = Len(plan.places)
    <3>1. Len(plan.places) \in 1..Len(plan.places) \/ Len(plan.places) = 0
      BY <2>3
    <3>2. QED
      BY <2>3, <2>4, <2>5, <3>1
  <2>7. fixups = [i \in DOMAIN plan.places |-> FixupAt(plan, plan.places[i])]
    <3>1. DOMAIN fixups = 1..n /\ fixups = [i \in 1..n |-> fixups[i]]
      BY <2>5, ImageFacts
    <3>2. \A i \in 1..n : fixups[i] = FixupAt(plan, plan.places[i])
      BY <1>2, <2>5 DEF ReadTo
    <3>3. QED
      BY <2>3, <2>6, <3>1, <3>2
  <2>8. fixups = MeantFixups(plan)
    BY <1>2, <2>7 DEF MeantFixups, HasFixups
  <2>9. QED
    BY <2>1, <2>2, <2>8 DEF Decoding, Parsed
<1>10. QED
  BY <1>2, <1>6, <1>7, <1>8, <1>9 DEF Parse, SkipCommand, CommandFails, NoFixups, ReadHeader,
     EnterPage, PageFails, PagesDone, PushRebase, PushBind, ImportFails, NamePanics, ValueFails,
     FormatPanics, AtPointer

LEMMA PagesDecode ==
    ASSUME NEW plan, IsPlanOf(plan), TInv, AtPages(plan), Parse
    PROVE  Decoding(plan)'
<1>1. IsPlan(plan) /\ IsPlain(plan) /\ image = ImageOf(plan)
  BY DEF IsPlanOf
<1>2. PICK s \in Nat, g \in Nat : s = cursor.seg + 1 /\ g = cursor.page + 1
  BY ImageFacts
<1>3. PICK seg : seg = plan.segments[s]
  OBVIOUS
<1>4. /\ cursor.pc = "pages" /\ HasFixups(plan) /\ s \in DOMAIN plan.segments
      /\ Len(seg.pages) # 0 /\ cursor.page <= Len(seg.pages) /\ ReadTo(plan, Place(s, g, 1))
      /\ cursor \in Cursor /\ cursor.page \in Nat
  BY <1>2, <1>3, ImageFacts DEF AtPages
<1>5. /\ Starts.segment_offset = seg.segment_offset /\ Starts.page_size = seg.page_size
      /\ Starts.page_count = Len(seg.pages) /\ Len(Starts.page_starts) = Len(seg.pages)
      /\ \A h \in 1..Len(seg.pages) : Starts.page_starts[h] = seg.pages[h][1].distance
  BY <1>2, <1>3, <1>4, StartsOfPlan
<1>6. Len(seg.pages) \in Nat /\ DOMAIN seg.pages = 1..Len(seg.pages)
  BY <1>1, <1>3, <1>4, SegmentFacts
<1>7. CASE EnterPage
  <2>1. g \in 1..Len(seg.pages) /\ g - 1 = cursor.page
    BY <1>2, <1>4, <1>5, <1>6, <1>7 DEF EnterPage
  <2>2. PICK q : q = Place(s, g, 1)
    OBVIOUS
  <2>3. q \in PlaceType /\ q.seg = s /\ q.page = g /\ q.nth = 1
    BY <2>2 DEF PlaceType, Place
  <2>4. IsPlace(plan, q)
    <3>1. seg.pages[g] # << >>
      BY <1>1, <1>3, <1>4, <1>6, <2>1 DEF IsPlain
    <3>2. Len(seg.pages[g]) \in Nat /\ DOMAIN seg.pages[g] = 1..Len(seg.pages[g])
      BY <1>1, <1>3, <1>4, <1>6, <2>1, PageFacts
    <3>3. Len(seg.pages[g]) # 0
      <4>1. IsSegment(seg)
        BY <1>1, <1>3, <1>4 DEF IsPlan
      <4>2. PICK R : seg.pages \in Seq(Seq(R))
        BY <4>1 DEF IsSegment
      <4>3. PICK page : page = seg.pages[g] /\ page \in Seq(R)
        BY <2>1, <4>2
      <4>4. QED
        BY <3>1, <4>3
    <3>4. 1 \in DOMAIN seg.pages[g]
      BY <3>2, <3>3
    <3>5. QED
      BY <1>3, <1>4, <1>6, <2>1, <2>3, <3>4 DEF IsPlace
  <2>5. OffsetAt(plan, q) \in Nat
        /\ OffsetAt(plan, q) = seg.segment_offset + (g - 1) * seg.page_size + seg.pages[g][1].distance
    BY <1>1, <1>3, <2>3, <2>4, OffsetFacts
  <2>6. PICK o \in Nat : o = OffsetAt(plan, q)
    BY <2>5
  <2>7. cursor' = [cursor EXCEPT !.pc = "chain", !.offset = o] /\ UNCHANGED fixups
    <3>1. Starts.page_starts[cursor.page + 1] = seg.pages[g][1].distance
      BY <1>2, <1>5, <2>1
    <3>2. o = Starts.segment_offset + cursor.page * Starts.page_size
                + Starts.page_starts[cursor.page + 1]
      BY <1>5, <2>1, <2>5, <2>6, <3>1
    <3>3. QED
      BY <1>7, <3>2 DEF EnterPage
  <2>8. /\ cursor'.pc = "chain" /\ cursor'.offset = o /\ cursor'.seg = cursor.seg
        /\ cursor'.page = cursor.page
    BY <1>4, <2>7 DEF Cursor
  <2>9. AtPlace(plan, q)'
    BY <1>2, <2>3, <2>4, <2>6, <2>8 DEF AtPlace
  <2>10. ReadTo(plan, q)'
    BY <1>4, <2>2, <2>7 DEF ReadTo
  <2>11. AtChain(plan)'
    BY <1>4, <2>8, <2>9, <2>10 DEF AtChain
  <2>12. QED
    BY <2>11 DEF Decoding
<1>8. CASE PageFails
  BY <1>4, <1>5, <1>6, <1>8 DEF PageFails
<1>9. CASE PagesDone
  <2>1. /\ cursor' = [cursor EXCEPT !.pc = "segments", !.seg = s] /\ UNCHANGED fixups
        /\ cursor.page = Len(seg.pages)
    BY <1>2, <1>5, <1>9 DEF PagesDone
  <2>2. PICK h \in Nat : h = cursor.page
    BY <1>4
  <2>3. SamePlaces(plan, Place(s, h + 1, 1), Place(s + 1, 1, 1))
    BY <1>1, <1>3, <1>4, <2>1, <2>2, LeavesSegment
  <2>4. PICK q, r : q = Place(s, g, 1) /\ r = Place(s + 1, 1, 1)
    OBVIOUS
  <2>5. SamePlaces(plan, q, r) /\ ReadTo(plan, q)
    BY <1>2, <1>4, <2>2, <2>3, <2>4
  <2>6. ReadTo(plan, r)'
    BY <1>1, <2>1, <2>5, ReadToMoves
  <2>7. cursor'.pc = "segments" /\ cursor'.seg = s
    BY <1>4, <2>1 DEF Cursor
  <2>8. s <= Len(plan.segments)
    BY <1>4, SegmentCount
  <2>9. AtSegments(plan)'
    BY <1>4, <2>4, <2>6, <2>7, <2>8 DEF AtSegments
  <2>10. QED
    BY <2>9 DEF Decoding
<1>10. QED
  BY <1>4, <1>7, <1>8, <1>9 DEF Parse, SkipCommand, CommandFails, NoFixups, ReadHeader,
     SkipSegment, EnterSegment, SegmentFails, SegmentsDone, PushRebase, PushBind, ImportFails,
     NamePanics, ValueFails, FormatPanics, AtPointer

LEMMA ChainDecodes ==
    ASSUME NEW plan, IsPlanOf(plan), TInv, AtChain(plan), Parse
    PROVE  Decoding(plan)'
<1>1. IsPlan(plan) /\ IsPlain(plan) /\ image = ImageOf(plan)
  BY DEF IsPlanOf
<1>2. cursor.pc = "chain" /\ HasFixups(plan) /\ cursor \in Cursor
  BY ImageFacts DEF AtChain
<1>3. PICK q : AtPlace(plan, q) /\ ReadTo(plan, q)
  BY DEF AtChain
<1>4. /\ q \in PlaceType /\ IsPlace(plan, q) /\ q.seg = cursor.seg + 1 /\ q.page = cursor.page + 1
      /\ cursor.offset = OffsetAt(plan, q)
  BY <1>3 DEF AtPlace
<1>5. /\ Readable /\ Starts.pointer_format # "unimplemented"
      /\ Pointer = DecodedAs(PlannedAt(plan, q), NextAt(plan, q))
      /\ \E j \in DOMAIN plan.places : plan.places[j] = q
  BY <1>2, <1>3, ReadsPlace
<1>6. CASE PushRebase \/ PushBind
  <2>1. PICK f, next : f = FixupAt(plan, q) /\ next = NextAt(plan, q)
    OBVIOUS
  <2>2. Push(f, next)
    BY <1>2, <1>3, <1>6, <2>1, PushesPlace
  <2>3. fixups' = Append(fixups, FixupAt(plan, q)) /\ fixups \in Seq(Fixup)
    BY <2>1, <2>2, ImageFacts DEF Push
  <2>4. PICK seg, page : seg = plan.segments[q.seg] /\ page = seg.pages[q.page]
    OBVIOUS
  <2>5. /\ q.seg \in DOMAIN plan.segments /\ q.page \in 1..Len(seg.pages) /\ q.page \in Nat
        /\ q.nth \in 1..Len(page) /\ q.nth \in Nat /\ q.seg \in Nat
    BY <1>1, <1>4, <2>4, PlaceBounds DEF IsPlace
  <2>6. Len(seg.pages) \in Nat /\ DOMAIN seg.pages = 1..Len(seg.pages)
    BY <1>1, <2>4, <2>5, SegmentFacts
  <2>7. /\ q.nth = Len(page) => next = 0
        /\ q.nth # Len(page) =>
              /\ next \in Nat \ {0}
              /\ OffsetAt(plan, Place(q.seg, q.page, q.nth + 1)) = OffsetAt(plan, q) + next
    BY <1>1, <1>4, <2>1, <2>4, OffsetFacts
  <2>8. CASE q.nth = Len(page)
    <3>1. PICK r : r = Place(q.seg, q.page + 1, 1)
      OBVIOUS
    <3>2. NextPlace(plan, q, r)
      BY <1>1, <1>4, <2>4, <2>8, <3>1, LeavesPage
    <3>3. ReadTo(plan, r)'
      BY <1>1, <1>3, <1>4, <2>3, <3>2, ReadToPushes
    <3>4. PICK g \in Nat : g = cursor.page + 1
      BY ImageFacts
    <3>5. cursor' = [cursor EXCEPT !.pc = "pages", !.page = g]
      BY <2>2, <2>7, <2>8, <3>4 DEF Push
    <3>6. cursor'.pc = "pages" /\ cursor'.seg = cursor.seg /\ cursor'.page = g
      BY <1>2, <3>5 DEF Cursor
    <3>7. cursor'.seg + 1 = q.seg /\ cursor'.page + 1 = q.page + 1 /\ g = q.page
      BY <1>4, <3>4, <3>6
    <3>8. g <= Len(seg.pages) /\ Len(seg.pages) # 0
      BY <2>5, <2>6, <3>7
    <3>9. AtPages(plan)'
      BY <1>2, <2>4, <2>5, <3>1, <3>3, <3>6, <3>7, <3>8 DEF AtPages
    <3>10. QED
      BY <3>9 DEF Decoding
  <2>9. CASE q.nth # Len(page)
    <3>1. PICK r : r = Place(q.seg, q.page, q.nth + 1)
      OBVIOUS
    <3>2. NextPlace(plan, q, r)
      BY <1>1, <1>4, <3>1, AlongPage
    <3>3. ReadTo(plan, r)'
      BY <1>1, <1>3, <1>4, <2>3, <3>2, ReadToPushes
    <3>4. r \in PlaceType /\ r.seg = q.seg /\ r.page = q.page /\ r.nth = q.nth + 1
      BY <2>5, <3>1 DEF PlaceType, Place
    <3>5. IsPlace(plan, r)
      <4>1. DOMAIN page = 1..Len(page) /\ Len(page) \in Nat
        <5>1. PICK s, g : s = q.seg /\ g = q.page
          OBVIOUS
        <5>2. s \in DOMAIN plan.segments /\ g \in DOMAIN plan.segments[s].pages
          BY <2>4, <2>5, <2>6, <5>1
        <5>3. /\ Len(plan.segments[s].pages[g]) \in Nat
              /\ DOMAIN plan.segments[s].pages[g] = 1..Len(plan.segments[s].pages[g])
          BY <1>1, <5>2, PageFacts
        <5>4. QED
          BY <2>4, <5>1, <5>3
      <4>2. q.nth + 1 \in DOMAIN page
        BY <2>5, <2>9, <4>1
      <4>3. QED
        BY <2>4, <2>5, <2>6, <3>4, <4>2 DEF IsPlace
    <3>6. PICK o \in Nat : o = cursor.offset + next /\ o = OffsetAt(plan, r)
      <4>1. cursor.offset + next \in Nat
        BY <2>7, <2>9, ImageFacts
      <4>2. QED
        BY <1>4, <2>7, <2>9, <3>1, <4>1
    <3>7. cursor' = [cursor EXCEPT !.offset = o]
      BY <2>2, <2>7, <2>9, <3>6 DEF Push
    <3>8. /\ cursor'.pc = "chain" /\ cursor'.offset = o /\ cursor'.seg = cursor.seg
          /\ cursor'.page = cursor.page
      BY <1>2, <3>7 DEF Cursor
    <3>9. AtPlace(plan, r)'
      BY <1>4, <3>4, <3>5, <3>6, <3>8 DEF AtPlace
    <3>10. AtChain(plan)'
      BY <1>2, <3>3, <3>8, <3>9 DEF AtChain
    <3>11. QED
      BY <3>10 DEF Decoding
  <2>10. QED
    BY <2>8, <2>9
<1>7. CASE ImportFails \/ NamePanics
  <2>1. PICK p, next : p = PlannedAt(plan, q) /\ next = NextAt(plan, q)
    OBVIOUS
  <2>2. Pointer = DecodedAs(p, next) /\ Pointer.kind = "bind"
    BY <1>5, <1>7, <2>1 DEF ImportFails, NamePanics
  <2>3. p.kind # "rebase"
    BY <2>2 DEF DecodedAs, Rebase
  <2>4. Pointer = Bind(p.value, next, IF p.auth THEN 0 ELSE Number(p.addend), p.auth)
    BY <2>2, <2>3 DEF DecodedAs
  <2>5. Pointer.import = p.value
    BY <2>4 DEF Bind
  <2>6. PICK j \in DOMAIN plan.places : q = plan.places[j]
    BY <1>5
  <2>7. p.kind = "bind"
    BY <1>1, <2>1, <2>3, <2>6, PlannedKinds
  <2>8. /\ p.value \in DOMAIN image.imports
        /\ ImportOf(p.value).name_offset \in DOMAIN image.symbols
        /\ ~image.symbols[ImportOf(p.value).name_offset].long
    BY <2>1, <2>6, <2>7, BindAtPlace
  <2>9. QED
    BY <1>7, <2>5, <2>8 DEF ImportFails, NamePanics
<1>8. QED
  BY <1>2, <1>5, <1>6, <1>7 DEF Parse, SkipCommand, CommandFails, NoFixups, ReadHeader,
     SkipSegment, EnterSegment, SegmentFails, SegmentsDone, EnterPage, PageFails, PagesDone,
     ValueFails, FormatPanics

-----------------------------------------------------------------------------
(* Decoding an image laid out from a plan, over the whole start.           *)

DInv == \A plan : IsPlanOf(plan) => IF pc = "parse" THEN Decoding(plan) ELSE cursor.pc = "parsed"

LEMMA InitDInv == Init => DInv
<1> SUFFICES ASSUME Init, NEW plan PROVE pc = "parse" /\ Decoding(plan)
  BY DEF DInv
<1>1. /\ cursor = [pc |-> "commands", at |-> 0, seg |-> 0, page |-> 0, offset |-> 0]
      /\ fixups = << >> /\ pc = "parse"
  BY DEF Init, ParserInit
<1>2. cursor.pc = "commands" /\ cursor.seg = 0 /\ 1..cursor.at = {}
  BY <1>1
<1>3. AtCommands(plan)
  BY <1>1, <1>2 DEF AtCommands
<1>4. QED
  BY <1>1, <1>3 DEF Decoding

LEMMA NextDInv == IInv /\ TInv /\ DInv /\ [Next]_vars => DInv'
<1> SUFFICES ASSUME IInv, TInv, DInv, [Next]_vars PROVE DInv'
  OBVIOUS
<1>1. CASE ParseSelf
  <2>1. pc = "parse" /\ pc' = "parse" /\ Parse
    BY <1>1 DEF ParseSelf, own_vars
  <2>2. image' = image
    BY <2>1, ParseTyped
  <2>3. ASSUME NEW plan, IsPlanOf(plan)'
        PROVE  Decoding(plan)'
    <3>1. IsPlanOf(plan)
      BY <2>2, <2>3 DEF IsPlanOf
    <3>2. Decoding(plan)
      BY <2>1, <3>1 DEF DInv
    <3>3. CASE Parsed(plan)
      BY <2>1, <3>3 DEF Parsed, Parse, SkipCommand, CommandFails, NoFixups, ReadHeader,
         SkipSegment, EnterSegment, SegmentFails, SegmentsDone, EnterPage, PageFails, PagesDone,
         PushRebase, PushBind, ImportFails, NamePanics, ValueFails, FormatPanics, AtPointer
    <3>4. QED
      BY <2>1, <3>1, <3>2, <3>3, CommandsDecode, SegmentsDecode, PagesDecode, ChainDecodes
      DEF Decoding
  <2>4. QED
    BY <2>1, <2>3 DEF DInv
<1>2. CASE ParseEnds
  <2>1. pc = "parse" /\ UNCHANGED <<image, cursor>> /\ pc' # "parse"
    BY <1>2 DEF ParseEnds, Continue, Panic, parser_vars
  <2>2. cursor.pc \in {"parsed", "error", "panic"}
    BY <1>2 DEF ParseEnds
  <2>3. ASSUME NEW plan, IsPlanOf(plan)'
        PROVE  cursor'.pc = "parsed"
    <3>1. IsPlanOf(plan)
      BY <2>1, <2>3 DEF IsPlanOf
    <3>2. Decoding(plan)
      BY <2>1, <3>1 DEF DInv
    <3>3. cursor.pc = "parsed"
      BY <2>2, <3>2 DEF Decoding, AtCommands, AtSegments, AtPages, AtChain, Parsed
    <3>4. QED
      BY <2>1, <3>3
  <2>4. QED
    BY <2>1, <2>3 DEF DInv
<1>3. CASE UNCHANGED vars
  <2>1. UNCHANGED <<image, cursor, fixups, pc>>
    BY <1>3 DEF vars, parser_vars, own_vars
  <2>2. ASSUME NEW plan, IsPlanOf(plan)'
        PROVE  (IF pc = "parse" THEN Decoding(plan) ELSE cursor.pc = "parsed")'
    <3>1. IsPlanOf(plan)
      BY <2>1, <2>2 DEF IsPlanOf
    <3>2. IF pc = "parse" THEN Decoding(plan) ELSE cursor.pc = "parsed"
      BY <3>1 DEF DInv
    <3>3. QED
      BY <2>1, <3>2 DEF Decoding, AtCommands, AtSegments, AtPages, AtChain, Parsed, ReadTo, AtPlace
  <2>3. QED
    BY <2>2 DEF DInv
<1>4. ASSUME pc # "parse", pc' # "parse", UNCHANGED <<image, cursor>>
      PROVE  DInv'
  <2>1. ASSUME NEW plan, IsPlanOf(plan)'
        PROVE  cursor'.pc = "parsed"
    <3>1. IsPlanOf(plan)
      BY <1>4, <2>1 DEF IsPlanOf
    <3>2. QED
      BY <1>4, <3>1 DEF DInv
  <2>2. QED
    BY <1>4, <2>1 DEF DInv
<1>5. CASE \/ RebaseOne \/ Rebased \/ AttachCache \/ BindOne \/ SelfBound \/ FindExecDir
           \/ RunLoader \/ RunProgram
  <2>1. pc # "parse" /\ pc' # "parse" /\ UNCHANGED <<image, cursor>>
    BY <1>5 DEF RebaseOne, Rebased, AttachCache, BindOne, SelfBound, FindExecDir, RunLoader,
       RunProgram, Continue, Fail, Panic, parser_vars
  <2>2. QED
    BY <1>4, <2>1
<1>6. CASE ContainerCreate
  <2>1. pc # "parse" /\ pc' # "parse" /\ UNCHANGED <<image, cursor>>
    BY <1>6 DEF ContainerCreate, Fail, Panic, UseSlice, parser_vars
  <2>2. QED
    BY <1>4, <2>1
<1>7. CASE WriteAll \/ WriteFails \/ Printed \/ ExitError \/ PanicExit
  <2>1. then # "parse"
    BY DEF TInv, TypeOK
  <2>2. pc # "parse" /\ pc' # "parse" /\ UNCHANGED <<image, cursor>>
    BY <1>7, <2>1 DEF WriteAll, WriteFails, Printed, ExitError, PanicExit, Exit, Panic,
       parser_vars
  <2>3. QED
    BY <1>4, <2>2
<1>8. QED
  BY <1>1, <1>2, <1>3, <1>5, <1>6, <1>7 DEF Next, Ended

(* Every start on an image laid out as documented goes through it place by *)
(* place: at each step the fixups found are those of the places passed.    *)
THEOREM DecodingInvariant == Spec => []DInv
<1>1. QED
  BY InitDInv, NextDInv, StartInvariant, StartTypesInvariant, PTL DEF Spec

(* chained_fixups_parse_all finds exactly the pointers an image was laid   *)
(* out with, and neither fails nor panics: for every image whose segments, *)
(* pages, chains and imports are laid out as bindings_macho.rs documents,  *)
(* in any mix of formats.                                                  *)
THEOREM LaidOutDecodes == Spec => [](LaidOut(world.self, world.meant) => DecodesExactly)
<1>1. DInv /\ TInv => (LaidOut(world.self, world.meant) => DecodesExactly)
  <2> SUFFICES ASSUME DInv, TInv, LaidOut(world.self, world.meant) PROVE DecodesExactly
    OBVIOUS
  <2>1. PICK plan : /\ IsPlan(plan) /\ IsPlain(plan) /\ world.self = ImageOf(plan)
                    /\ world.meant = MeantFixups(plan)
    BY DEF LaidOut
  <2>2. IsPlanOf(plan)
    BY <2>1 DEF IsPlanOf, TInv
  <2>3. IF pc = "parse" THEN Decoding(plan) ELSE cursor.pc = "parsed"
    BY <2>2 DEF DInv
  <2>4. QED
    BY <2>1, <2>3 DEF DecodesExactly, Decoding, AtCommands, AtSegments, AtPages, AtChain, Parsed
<1>2. QED
  BY <1>1, DecodingInvariant, StartTypesInvariant, PTL

(* Whether dynld's own image is such a layout does not change.             *)
LEMMA LaidOutStays ==
    ASSUME [Next]_vars
    PROVE  LaidOut(world.self, world.meant)' <=> LaidOut(world.self, world.meant)
<1>1. world' = world
  BY DEF Next, ParseSelf, ParseEnds, RebaseOne, Rebased, ContainerCreate, AttachCache, BindOne,
     SelfBound, FindExecDir, RunLoader, RunProgram, WriteAll, WriteFails, Printed, ExitError,
     PanicExit, Ended, Panic, Fail, Continue, Exit, UseSlice, vars, own_vars
<1>2. QED
  BY <1>1 DEF LaidOut

(* With an image laid out as documented, no message is formatted before    *)
(* every pointer that needs a rebase has been given it.                    *)
THEOREM LaidOutFormats == Spec => [](LaidOut(world.self, world.meant) => FormatsOnlyRebased)
<1>1. ASSUME [Next]_vars
      PROVE  LaidOut(world.self, world.meant)' <=> LaidOut(world.self, world.meant)
  BY <1>1, LaidOutStays
<1>2. QED
  BY <1>1, LaidOutDecodes, FormatsAfterRebase, PTL DEF Spec

(* With an image laid out as documented, macho_loader and libtlv only run  *)
(* when every pointer of dynld's own image is in place.                    *)
THEOREM LaidOutLoads == Spec => [](LaidOut(world.self, world.meant) => LoadsOnlyFixedUp)
<1>1. ASSUME [Next]_vars
      PROVE  LaidOut(world.self, world.meant)' <=> LaidOut(world.self, world.meant)
  BY <1>1, LaidOutStays
<1>2. QED
  BY <1>1, LaidOutDecodes, LoadsAfterSelfBind, PTL DEF Spec

=============================================================================
