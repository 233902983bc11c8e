------------------------------ MODULE FixedVec ------------------------------
(***************************************************************************)
(* array.rs: FixedVec over an uninitialized array, its owning iterator     *)
(* IntoIter, and FixedString.                                              *)
(*                                                                         *)
(* Reading an element out of the array does not clear its slot, so a slot  *)
(* keeps the bits of an element that has moved; len and index alone say    *)
(* which slots own what is in them.  Slots are numbered from 1.  A vector  *)
(* that is gone may be followed by another one in the same memory.         *)
(***************************************************************************)
EXTENDS Integers, Sequences

CONSTANTS
    Capacity,       \* N
    Items,          \* values that must not be dropped twice
    Bytes, Strings, \* the bytes of the strings tried
    Garbage         \* the content of memory never written

ASSUME CapacityAssumption == Capacity \in Nat
ASSUME StringsAssumption == Strings \subseteq Seq(Bytes)
ASSUME ValuesAssumption == Garbage \notin Items

VARIABLES
    form,       \* what the array belongs to
    slots, len, index,
    held,       \* items the user of the vector has
    dropped,    \* items whose destructor has run
    forgotten   \* items nothing will drop

vars == <<form, slots, len, index, held, dropped, forgotten>>

Forms == {"vec", "iter", "string", "inner", "panicked", "none"}

TypeOK ==
    /\ form \in Forms
    /\ slots \in [1..Capacity -> Items \cup Bytes \cup {Garbage}]
    /\ len \in 0..Capacity /\ index \in 0..len
    /\ held \subseteq Items /\ dropped \subseteq Items /\ forgotten \subseteq Items

Init ==
    /\ form = "none"
    /\ slots = [i \in 1..Capacity |-> Garbage]
    /\ len = 0 /\ index = 0
    /\ held = Items /\ dropped = {} /\ forgotten = {}

(* The number of elements, the slots that own them, and the elements.      *)
Size == IF form \in {"vec", "iter", "string", "panicked"} THEN len - index ELSE 0
Owning == (index + 1)..(index + Size)
Elements == {slots[i] : i \in Owning}

-----------------------------------------------------------------------------
(* FixedVec.                                                               *)

(* new, new_array: the memory is left as it is.                            *)
New(kind) ==
    /\ form = "none"
    /\ form' = kind /\ len' = 0 /\ index' = 0
    /\ UNCHANGED <<slots, held, dropped, forgotten>>

is_full == Capacity - len = 0

(* try_push, also as push and extend use it: the item is written behind    *)
(* the last one.                                                           *)
TryPush(x) ==
    /\ form = "vec" /\ x \in held /\ ~is_full
    /\ slots' = [slots EXCEPT ![len + 1] = x]
    /\ len' = len + 1
    /\ held' = held \ {x}
    /\ UNCHANGED <<form, index, dropped, forgotten>>

(* Err(item): the item goes back to the caller of try_push.                *)
TryPushFull(x) == form = "vec" /\ x \in held /\ is_full /\ UNCHANGED vars

(* push, and extend in the middle of its items: "ArrayVec is full".        *)
PushPanics(x) ==
    /\ form = "vec" /\ x \in held /\ is_full
    /\ form' = "panicked"
    /\ held' = held \ {x} /\ forgotten' = forgotten \cup {x}
    /\ UNCHANGED <<slots, len, index, dropped>>

Pop ==
    /\ form = "vec" /\ len # 0
    /\ len' = len - 1
    /\ held' = held \cup {slots[len]}
    /\ UNCHANGED <<form, slots, index, dropped, forgotten>>

(* clear: every item popped is dropped.                                    *)
Clear ==
    /\ form = "vec"
    /\ len' = 0
    /\ dropped' = dropped \cup Elements
    /\ UNCHANGED <<form, slots, index, held, forgotten>>

(* Mutant of IntoInner: the vector is not forgotten, so that its           *)
(* destructor runs although its array lives on.                            *)
IntoInnerDropping(next_form) ==
    /\ form = "vec"
    /\ form' = next_form
    /\ dropped' = dropped \cup Elements
    /\ UNCHANGED <<slots, len, index, held>>

(* into_inner: the array moves out, and mem::forget keeps the destructor   *)
(* of the vector from running.                                             *)
IntoInner(next_form) ==
    /\ form = "vec"
    /\ form' = next_form
    /\ UNCHANGED <<slots, len, index, held, dropped>>

(* into_inner by the user, into_inner_slice: an array of MaybeUninit drops *)
(* nothing.                                                                *)
KeepInner ==
    /\ IntoInner("inner")
    /\ forgotten' = forgotten \cup Elements

DropInner ==
    /\ form = "inner"
    /\ form' = "none" /\ len' = 0
    /\ UNCHANGED <<slots, index, held, dropped, forgotten>>

(* The destructors of FixedVec and IntoIter: drop_in_place of the slots    *)
(* from index to len.                                                      *)
Drop ==
    /\ form \in {"vec", "iter"}
    /\ form' = "none" /\ len' = 0 /\ index' = 0
    /\ dropped' = dropped \cup Elements
    /\ UNCHANGED <<slots, held, forgotten>>

-----------------------------------------------------------------------------
(* IntoIter.                                                               *)

into_iter == IntoInner("iter") /\ UNCHANGED forgotten

IterNext ==
    /\ form = "iter" /\ index # len
    /\ index' = index + 1
    /\ held' = held \cup {slots[index + 1]}
    /\ UNCHANGED <<form, slots, len, dropped, forgotten>>

IterNextBack ==
    /\ form = "iter" /\ index # len
    /\ len' = len - 1
    /\ held' = held \cup {slots[len]}
    /\ UNCHANGED <<form, slots, index, dropped, forgotten>>

-----------------------------------------------------------------------------
(* FixedString: bytes are copied, nothing is dropped.                      *)

(* Mutant of HasRoom: one byte more than there is room for.                *)
HasRoomForMost(s) == Len(s) <= Capacity - len + 1

HasRoom(s) == Len(s) <= Capacity - len

(* How many bytes of s try_push finds room for: the loop ignores its       *)
(* result, so that the others would be lost.                               *)
Fitting(s) == IF Len(s) <= Capacity - len THEN Len(s) ELSE Capacity - len

TryPushStr(s) ==
    /\ form = "string" /\ HasRoom(s)
    /\ slots' = [i \in 1..Capacity |->
                    IF i \in (len + 1)..(len + Fitting(s)) THEN s[i - len] ELSE slots[i]]
    /\ len' = len + Fitting(s)
    /\ UNCHANGED <<form, index, held, dropped, forgotten>>

(* "in that case the string is unchanged"                                  *)
TryPushStrFull(s) == form = "string" /\ ~HasRoom(s) /\ UNCHANGED vars

DropString ==
    /\ form = "string"
    /\ form' = "none" /\ len' = 0
    /\ UNCHANGED <<slots, index, held, dropped, forgotten>>

Stopped == form = "panicked" /\ UNCHANGED vars

Next ==
    \/ \E kind \in {"vec", "string"} : New(kind)
    \/ \E x \in Items : TryPush(x) \/ TryPushFull(x) \/ PushPanics(x)
    \/ Pop \/ Clear \/ KeepInner \/ DropInner \/ Drop
    \/ into_iter \/ IterNext \/ IterNextBack
    \/ \E s \in Strings : TryPushStr(s) \/ TryPushStrFull(s)
    \/ DropString \/ Stopped

Spec == Init /\ [][Next]_vars

-----------------------------------------------------------------------------
(* However a vector is filled, emptied, turned into an iterator, consumed  *)
(* from both ends and dropped half-way, every item is owned exactly once:  *)
(* by the user, by one slot between index and len, by no one any more      *)
(* after its destructor ran, or by no one because it was forgotten.  So no *)
(* destructor runs twice, none is missed, and no slot is read that was     *)
(* never written or whose item has moved.                                  *)
OwnedOnce ==
    /\ form # "string" =>
          \A i, j \in Owning : slots[i] \in Items /\ (slots[i] = slots[j] => i = j)
    /\ LET owned == IF form = "string" THEN {} ELSE Elements
       IN  /\ Items = held \cup dropped \cup forgotten \cup owned
           /\ held \cap (dropped \cup forgotten \cup owned) = {}
           /\ dropped \cap (forgotten \cup owned) = {}
           /\ forgotten \cap owned = {}

Contents == [k \in 1..Size |-> slots[index + k]]

Abstract == INSTANCE BoundedSequence WITH seq <- Contents, out <- held

(* array.rs implements a sequence of bounded length: elements come out in  *)
(* the order they went in, from the end that was asked for, and a string   *)
(* is added whole or not at all.                                           *)
ImplementsSequence == Abstract!Spec
=============================================================================
