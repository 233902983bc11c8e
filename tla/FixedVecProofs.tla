--------------------------- MODULE FixedVecProofs ---------------------------
(***************************************************************************)
(* For every capacity, set of items and set of strings: every item is      *)
(* owned exactly once, and FixedVec implements BoundedSequence.            *)
(***************************************************************************)
EXTENDS FixedVec, SequenceTheorems, TLAPS

(* What len and index are where the array belongs to no one, and that only *)
(* an iterator has consumed anything.                                      *)
FormOK ==
    /\ form = "none" => len = 0
    /\ form # "iter" => index = 0
    /\ form = "string" => \A i \in Owning : slots[i] \in Bytes

IInv == TypeOK /\ FormOK /\ OwnedOnce

-----------------------------------------------------------------------------
(* The array starts as memory of no one.                                   *)
LEMMA InitIInv == Init => IInv
  BY CapacityAssumption DEF Init, IInv, TypeOK, FormOK, OwnedOnce, Owning, Size, Elements, Forms

(* Every call keeps the types and the order of index, len and capacity.    *)
LEMMA TypeStep == TypeOK /\ FormOK /\ OwnedOnce /\ [Next]_vars => TypeOK'
<1> SUFFICES ASSUME TypeOK, FormOK, OwnedOnce, [Next]_vars PROVE TypeOK'
  OBVIOUS
<1> USE CapacityAssumption, StringsAssumption DEF TypeOK, Forms
<1>1. ASSUME NEW kind \in {"vec", "string"}, New(kind) PROVE TypeOK'
  BY <1>1 DEF New
<1>2. ASSUME NEW x \in Items, TryPush(x) PROVE TypeOK'
  BY <1>2 DEF TryPush, is_full
<1>3. ASSUME NEW x \in Items, TryPushFull(x) PROVE TypeOK'
  BY <1>3 DEF TryPushFull, vars
<1>4. ASSUME NEW x \in Items, PushPanics(x) PROVE TypeOK'
  BY <1>4 DEF PushPanics
<1>5. CASE Pop
  BY <1>5 DEF Pop, FormOK, OwnedOnce, Owning, Size
<1>6. CASE Clear
  BY <1>6 DEF Clear, FormOK, OwnedOnce, Elements
<1>7. CASE KeepInner
  BY <1>7 DEF KeepInner, IntoInner, OwnedOnce, Elements
<1>8. CASE DropInner
  BY <1>8 DEF DropInner, FormOK
<1>9. CASE Drop
  BY <1>9 DEF Drop, OwnedOnce, Elements
<1>10. CASE into_iter
  BY <1>10 DEF into_iter, IntoInner
<1>11. CASE IterNext
  BY <1>11 DEF IterNext, OwnedOnce, Owning, Size
<1>12. CASE IterNextBack
  BY <1>12 DEF IterNextBack, OwnedOnce, Owning, Size
<1>13. ASSUME NEW s \in Strings, TryPushStr(s) PROVE TypeOK'
  <2>1. s \in Seq(Bytes) /\ Len(s) \in Nat /\ Fitting(s) = Len(s) /\ len + Len(s) <= Capacity
    BY <1>13 DEF TryPushStr, HasRoom, Fitting
  <2>2. \A i \in (len + 1)..(len + Len(s)) : s[i - len] \in Bytes
    BY <2>1
  <2>3. slots' \in [1..Capacity -> Items \cup Bytes \cup {Garbage}]
    BY <1>13, <2>1, <2>2 DEF TryPushStr
  <2>4. QED
    BY <1>13, <2>1, <2>3 DEF TryPushStr
<1>14. ASSUME NEW s \in Strings, TryPushStrFull(s) PROVE TypeOK'
  BY <1>14 DEF TryPushStrFull, vars
<1>15. CASE DropString
  BY <1>15 DEF DropString, FormOK
<1>16. CASE Stopped
  BY <1>16 DEF Stopped, vars
<1>17. CASE UNCHANGED vars
  BY <1>17 DEF vars
<1>18. QED
  BY <1>1, <1>2, <1>3, <1>4, <1>5, <1>6, <1>7, <1>8, <1>9, <1>10, <1>11, <1>12, <1>13,
     <1>14, <1>15, <1>16, <1>17 DEF Next

-----------------------------------------------------------------------------
(* Ownership, action by action.                                            *)

(* try_push moves an item from its holder into the array.                  *)
LEMMA PushStep ==
    ASSUME IInv, NEW x \in Items, TryPush(x)
    PROVE  FormOK' /\ OwnedOnce'
<1> USE CapacityAssumption DEF TypeOK, FormOK, IInv, TryPush, is_full
<1>1. Owning' = Owning \cup {len + 1} /\ len + 1 \notin Owning /\ len + 1 \in 1..Capacity
  BY DEF Owning, Size
<1>2. \A i \in Owning : slots'[i] = slots[i]
  BY <1>1 DEF Owning, Size
<1>3. slots'[len + 1] = x
  BY <1>1
<1>4. Elements' = Elements \cup {x} /\ x \notin Elements
  BY <1>1, <1>2, <1>3 DEF Elements, OwnedOnce
<1>5. \A i, j \in Owning' : slots'[i] \in Items /\ (slots'[i] = slots'[j] => i = j)
  BY <1>1, <1>2, <1>3, <1>4 DEF Elements, OwnedOnce
<1>6. QED
  BY <1>4, <1>5 DEF OwnedOnce

(* Calls that give up all elements drop or forget each once.               *)
LEMMA FreeStep ==
    ASSUME IInv, Clear \/ KeepInner \/ DropInner \/ Drop
    PROVE  FormOK' /\ OwnedOnce'
<1> USE CapacityAssumption DEF TypeOK, FormOK, IInv, IntoInner
<1>1. Owning' = {}
  BY DEF Owning, Size, Clear, KeepInner, DropInner, Drop
<1>2. Elements' = {}
  BY <1>1 DEF Elements
<1>3. form = "inner" => Elements = {}
  BY DEF Elements, Owning, Size
<1>4. QED
  BY <1>1, <1>2, <1>3 DEF OwnedOnce, Clear, KeepInner, DropInner, Drop

(* An item leaves from either end.                                         *)
LEMMA TakeStep ==
    ASSUME IInv, Pop \/ IterNext \/ IterNextBack
    PROVE  FormOK' /\ OwnedOnce'
<1> DEFINE i == IF IterNext THEN index + 1 ELSE len
<1> USE CapacityAssumption DEF TypeOK, FormOK, IInv
<1>1. /\ i \in Owning /\ Owning' = Owning \ {i} /\ slots' = slots
      /\ held' = held \cup {slots[i]}
      /\ form' = form /\ form # "string" /\ UNCHANGED <<dropped, forgotten>>
      /\ form # "none" /\ (form # "iter" => index' = 0)
  BY DEF Owning, Size, Pop, IterNext, IterNextBack
<1> HIDE DEF i
<1>2. Elements' = Elements \ {slots[i]} /\ slots[i] \in Elements
  BY <1>1 DEF Elements, OwnedOnce
<1>3. QED
  BY <1>1, <1>2 DEF OwnedOnce

(* Calls that move the array as a whole move no item.                      *)
LEMMA OtherStep ==
    ASSUME IInv,
           \/ \E kind \in {"vec", "string"} : New(kind)
           \/ into_iter \/ DropString
           \/ \E x \in Items : PushPanics(x)
    PROVE  FormOK' /\ OwnedOnce'
<1> USE CapacityAssumption DEF TypeOK, FormOK, IInv
<1>1. ASSUME NEW kind \in {"vec", "string"}, New(kind) PROVE FormOK' /\ OwnedOnce'
  <2>1. Owning = {} /\ Owning' = {} /\ Elements = {} /\ Elements' = {}
    BY <1>1 DEF New, Owning, Size, Elements
  <2>2. QED
    BY <1>1, <2>1 DEF New, OwnedOnce
<1>2. CASE into_iter
  <2>1. Owning' = Owning /\ Elements' = Elements
    BY <1>2 DEF into_iter, IntoInner, Owning, Size, Elements
  <2>2. QED
    BY <1>2, <2>1 DEF into_iter, IntoInner, OwnedOnce
<1>3. CASE DropString
  <2>1. Owning' = {} /\ Elements' = {}
    BY <1>3 DEF DropString, Owning, Size, Elements
  <2>2. QED
    BY <1>3, <2>1 DEF DropString, OwnedOnce
<1>4. ASSUME NEW x \in Items, PushPanics(x) PROVE FormOK' /\ OwnedOnce'
  <2>1. Owning' = Owning /\ Elements' = Elements
    BY <1>4 DEF PushPanics, Owning, Size, Elements
  <2>2. QED
    BY <1>4, <2>1 DEF PushPanics, OwnedOnce
<1>5. QED
  BY <1>1, <1>2, <1>3, <1>4

(* What try_push_str writes when the string fits.                          *)
LEMMA StringFacts ==
    ASSUME IInv, NEW s \in Strings, TryPushStr(s)
    PROVE  /\ Len(s) \in Nat /\ Fitting(s) = Len(s) /\ len' = len + Len(s)
           /\ len' <= Capacity /\ index = 0
           /\ \A i \in 1..Capacity : slots'[i] =
                 IF i \in (len + 1)..(len + Len(s)) THEN s[i - len] ELSE slots[i]
           /\ \A k \in 1..Len(s) : s[k] \in Bytes
<1> USE CapacityAssumption, StringsAssumption DEF TypeOK, FormOK, IInv, TryPushStr
<1>1. Len(s) \in Nat /\ \A k \in 1..Len(s) : s[k] \in Bytes
  OBVIOUS
<1>2. Fitting(s) = Len(s) /\ len + Len(s) <= Capacity
  BY <1>1 DEF HasRoom, Fitting
<1>3. QED
  BY <1>1, <1>2

(* try_push_str puts bytes behind the end only.                            *)
LEMMA StringStep ==
    ASSUME IInv, NEW s \in Strings, TryPushStr(s)
    PROVE  FormOK' /\ OwnedOnce'
<1> USE CapacityAssumption DEF TypeOK, FormOK, IInv
<1>1. \A i \in Owning' : slots'[i] \in Bytes
  <2> SUFFICES ASSUME NEW i \in Owning' PROVE slots'[i] \in Bytes
    OBVIOUS
  <2>1. i \in 1..(len + Len(s)) /\ i \in 1..Capacity /\ Len(s) \in Nat
    BY StringFacts DEF Owning, Size, TryPushStr
  <2>2. CASE i <= len
    <3>1. i \in Owning
      BY <2>1, <2>2, StringFacts DEF Owning, Size, TryPushStr
    <3>2. slots'[i] = slots[i]
      BY <2>1, <2>2, StringFacts
    <3>3. QED
      BY <3>1, <3>2 DEF TryPushStr
  <2>3. CASE i > len
    <3>1. i - len \in 1..Len(s) /\ slots'[i] = s[i - len]
      BY <2>1, <2>3, StringFacts
    <3>2. QED
      BY <3>1, StringFacts
  <2>4. QED
    BY <2>1, <2>2, <2>3
<1>2. QED
  BY <1>1, StringFacts DEF OwnedOnce, TryPushStr

(* Every call keeps the invariant.                                         *)
LEMMA NextIInv == IInv /\ [Next]_vars => IInv'
<1> SUFFICES ASSUME IInv, [Next]_vars PROVE IInv'
  OBVIOUS
<1>1. TypeOK'
  BY TypeStep DEF IInv
<1>2. ASSUME UNCHANGED vars PROVE FormOK' /\ OwnedOnce'
  BY <1>2 DEF vars, IInv, FormOK, OwnedOnce, Owning, Size, Elements
<1>3. FormOK' /\ OwnedOnce'
  BY <1>2, PushStep, FreeStep, TakeStep, OtherStep, StringStep
     DEF Next, TryPushFull, TryPushStrFull, Stopped
<1>4. QED
  BY <1>1, <1>3 DEF IInv

(* The indices stay in range and the slots hold values of their types.     *)
THEOREM TypeCorrect == Spec => []TypeOK
<1>1. IInv => TypeOK
  BY DEF IInv
<1>2. QED
  BY <1>1, InitIInv, NextIInv, PTL DEF Spec

(* No destructor runs twice or on memory never written, and every item is  *)
(* accounted for, for every capacity and any use of FixedVec and IntoIter. *)
THEOREM ItemsAreOwnedOnce == Spec => []OwnedOnce
<1>1. IInv => OwnedOnce
  BY DEF IInv
<1>2. QED
  BY <1>1, InitIInv, NextIInv, PTL DEF Spec

-----------------------------------------------------------------------------
(* The refinement: the slots from index to len, in order, are the sequence. *)

Window(f, m, n) == [k \in 1..n |-> f[m + k]]

(* Length and elements of a window of a function.                          *)
LEMMA WindowFacts ==
    ASSUME NEW f, NEW m \in Nat, NEW n \in Nat, NEW S, \A k \in 1..n : f[m + k] \in S
    PROVE  /\ Window(f, m, n) \in Seq(S) /\ Len(Window(f, m, n)) = n
           /\ \A k \in 1..n : Window(f, m, n)[k] = f[m + k]
  BY DEF Window

(* A slot written behind a window appends to it.                           *)
LEMMA WindowAppend ==
    ASSUME NEW f, NEW g, NEW n \in Nat, \A i \in 1..n : g[i] = f[i]
    PROVE  Window(g, 0, n + 1) = Append(Window(f, 0, n), g[n + 1])
<1> DEFINE S == {f[i] : i \in 1..n} \cup {g[n + 1]}
           s == Window(f, 0, n)
           t == Window(g, 0, n + 1)
           e == g[n + 1]
<1>1. /\ \A k \in 1..n : f[0 + k] \in S
      /\ \A k \in 1..(n + 1) : g[0 + k] \in S
      /\ e \in S
  OBVIOUS
<1> HIDE DEF S
<1>2. s \in Seq(S) /\ Len(s) = n /\ \A k \in 1..n : s[k] = f[k]
  BY <1>1 DEF Window
<1>3. t \in Seq(S) /\ Len(t) = n + 1 /\ \A k \in 1..(n + 1) : t[k] = g[k]
  BY <1>1 DEF Window
<1> HIDE DEF s, t, e
<1>4. /\ Append(s, e) \in Seq(S) /\ Len(Append(s, e)) = n + 1
      /\ \A k \in 1..n : Append(s, e)[k] = s[k]
      /\ Append(s, e)[n + 1] = e
  BY <1>1, <1>2, AppendProperties
<1>5. \A k \in 1..(n + 1) : t[k] = Append(s, e)[k]
  BY <1>2, <1>3, <1>4 DEF e
<1>6. t = Append(s, e)
  BY <1>3, <1>4, <1>5, SeqEqual
<1>7. QED
  BY <1>6 DEF s, t, e

(* Slots written behind a window concatenate to it.                        *)
LEMMA WindowConcat ==
    ASSUME NEW f, NEW g, NEW n \in Nat, NEW r \in Seq(Bytes),
           \A i \in 1..n : g[i] = f[i],
           \A k \in 1..Len(r) : g[n + k] = r[k]
    PROVE  Window(g, 0, n + Len(r)) = Window(f, 0, n) \o r
<1> DEFINE S == {f[i] : i \in 1..n} \cup Bytes
           s == Window(f, 0, n)
           l == n + Len(r)
           t == Window(g, 0, l)
<1>1. r \in Seq(S) /\ Len(r) \in Nat /\ l \in Nat /\ \A k \in 1..Len(r) : r[k] \in S
  OBVIOUS
<1>2. \A k \in 1..n : f[0 + k] \in S
  OBVIOUS
<1>3. ASSUME NEW k \in 1..l
      PROVE  g[0 + k] \in S /\ g[k] = IF k <= n THEN f[k] ELSE r[k - n]
  <2>1. CASE k <= n
    BY <1>1, <2>1
  <2>2. CASE ~(k <= n)
    <3>1. k - n \in 1..Len(r) /\ n + (k - n) = k
      BY <1>1, <2>2
    <3>2. g[k] = r[k - n]
      BY <3>1
    <3>3. QED
      BY <1>1, <2>2, <3>1, <3>2
  <2>3. QED
    BY <2>1, <2>2
<1>4. s \in Seq(S) /\ Len(s) = n /\ \A k \in 1..n : s[k] = f[k]
  BY <1>2 DEF Window
<1> HIDE DEF S, l
<1>5. t \in Seq(S) /\ Len(t) = l /\ \A k \in 1..l : t[k] = g[k]
  BY <1>1, <1>3 DEF Window
<1> HIDE DEF s, t
<1>6. /\ s \o r \in Seq(S) /\ Len(s \o r) = l
      /\ \A k \in 1..l : (s \o r)[k] = IF k <= n THEN s[k] ELSE r[k - n]
  BY <1>1, <1>4, ConcatProperties DEF l
<1>7. \A k \in 1..l : t[k] = (s \o r)[k]
  BY <1>1, <1>3, <1>4, <1>5, <1>6
<1>8. t = s \o r
  BY <1>5, <1>6, <1>7, SeqEqual
<1>9. QED
  BY <1>8 DEF s, t, l

(* A window that shrinks at its end loses its last element.                *)
LEMMA WindowFront ==
    ASSUME NEW f, NEW m \in Nat, NEW n \in Nat \ {0}
    PROVE  /\ Window(f, m, n - 1) = SubSeq(Window(f, m, n), 1, n - 1)
           /\ Window(f, m, n)[n] = f[m + n]
<1> DEFINE S == {f[m + k] : k \in 1..n}
           s == Window(f, m, n)
           t == Window(f, m, n - 1)
<1>1. \A k \in 1..n : f[m + k] \in S
  OBVIOUS
<1> HIDE DEF S
<1>2. s \in Seq(S) /\ Len(s) = n /\ \A k \in 1..n : s[k] = f[m + k]
  BY <1>1 DEF Window
<1>3. t \in Seq(S) /\ Len(t) = n - 1 /\ \A k \in 1..(n - 1) : t[k] = f[m + k]
  BY <1>1 DEF Window
<1> HIDE DEF s, t
<1>4. /\ SubSeq(s, 1, n - 1) \in Seq(S) /\ Len(SubSeq(s, 1, n - 1)) = n - 1
      /\ \A k \in 1..(n - 1) : SubSeq(s, 1, n - 1)[k] = s[k]
  BY <1>2
<1>5. \A k \in 1..(n - 1) : t[k] = SubSeq(s, 1, n - 1)[k]
  BY <1>2, <1>3, <1>4
<1>6. t = SubSeq(s, 1, n - 1)
  BY <1>3, <1>4, <1>5, SeqEqual
<1>7. QED
  BY <1>2, <1>6 DEF s, t

(* A window that shrinks at its start loses its first element.             *)
LEMMA WindowTail ==
    ASSUME NEW f, NEW m \in Nat, NEW n \in Nat \ {0}
    PROVE  /\ Window(f, m + 1, n - 1) = Tail(Window(f, m, n))
           /\ Head(Window(f, m, n)) = f[m + 1]
<1> DEFINE S == {f[m + k] : k \in 1..n}
           s == Window(f, m, n)
           t == Window(f, m + 1, n - 1)
<1>1. \A k \in 1..n : f[m + k] \in S
  OBVIOUS
<1>2. \A k \in 1..(n - 1) : f[(m + 1) + k] \in S /\ (m + 1) + k = m + (k + 1)
  <2> SUFFICES ASSUME NEW k \in 1..(n - 1) PROVE f[(m + 1) + k] \in S /\ (m + 1) + k = m + (k + 1)
    OBVIOUS
  <2>1. k + 1 \in 1..n /\ (m + 1) + k = m + (k + 1)
    OBVIOUS
  <2>2. QED
    BY <2>1, <1>1
<1> HIDE DEF S
<1>3. s \in Seq(S) /\ Len(s) = n /\ \A k \in 1..n : s[k] = f[m + k]
  BY <1>1 DEF Window
<1>4. t \in Seq(S) /\ Len(t) = n - 1 /\ \A k \in 1..(n - 1) : t[k] = f[m + (k + 1)]
  BY <1>2 DEF Window
<1> HIDE DEF s, t
<1>5. /\ Tail(s) \in Seq(S) /\ Len(Tail(s)) = n - 1
      /\ \A k \in 1..(n - 1) : Tail(s)[k] = s[k + 1]
  BY <1>3, HeadTailProperties
<1>6. \A k \in 1..(n - 1) : t[k] = Tail(s)[k]
  <2> SUFFICES ASSUME NEW k \in 1..(n - 1) PROVE t[k] = Tail(s)[k]
    OBVIOUS
  <2>1. k + 1 \in 1..n
    OBVIOUS
  <2>2. s[k + 1] = f[m + (k + 1)]
    BY <1>3, <2>1
  <2>3. t[k] = f[m + (k + 1)] /\ Tail(s)[k] = s[k + 1]
    BY <1>4, <1>5
  <2>4. QED
    BY <2>2, <2>3, Zenon
<1>7. t = Tail(s)
  BY <1>4, <1>5, <1>6, SeqEqual
<1>8. Head(s) = f[m + 1]
  BY <1>3
<1>9. QED
  BY <1>7, <1>8 DEF s, t

Values == Items \cup Bytes \cup {Garbage}

(* The contents are the window of the slots that are owned.                *)
LEMMA ContentsFacts ==
    ASSUME IInv
    PROVE  /\ Size \in Nat /\ index + Size <= Capacity
           /\ slots \in [1..Capacity -> Values]
           /\ Contents = Window(slots, index, Size) /\ Len(Contents) = Size
           /\ Contents \in Seq(Values)
<1>1. /\ Size \in Nat /\ index \in Nat /\ index + Size <= Capacity
      /\ slots \in [1..Capacity -> Values]
  BY CapacityAssumption DEF IInv, TypeOK, Size, Values
<1>2. Contents = Window(slots, index, Size)
  BY DEF Contents, Window
<1>3. \A k \in 1..Size : slots[index + k] \in Values
  BY <1>1, CapacityAssumption
<1>4. QED
  BY <1>1, <1>2, <1>3, WindowFacts

(* A new array is an empty sequence.                                       *)
LEMMA InitRefines == Init => Abstract!Init
  BY CapacityAssumption DEF Init, Abstract!Init, Contents, Size

(* try_push adds an item at the end.                                       *)
LEMMA AddRefines ==
    ASSUME IInv, IInv', NEW x \in Items, TryPush(x)
    PROVE  Abstract!AddItem(x)
<1> USE CapacityAssumption DEF IInv, TypeOK, FormOK
<1>1. /\ len \in Nat /\ len + 1 <= Capacity /\ index = 0 /\ index' = 0
      /\ Size = len /\ Size' = len + 1
      /\ slots' \in [1..Capacity -> Values] /\ slots'[len + 1] = x
      /\ \A i \in 1..len : slots'[i] = slots[i]
  BY DEF TryPush, is_full, Size, Values
<1>2. Contents' = Window(slots', 0, len + 1)
  BY <1>1 DEF Contents, Window
<1>3. Contents = Window(slots, 0, len) /\ Len(Contents) = len
      /\ slots \in [1..Capacity -> Values]
  BY <1>1, ContentsFacts
<1>4. Window(slots', 0, len + 1) = Append(Window(slots, 0, len), slots'[len + 1])
  BY <1>1, <1>3, WindowAppend
<1>5. Contents' = Append(Contents, x)
  BY <1>1, <1>2, <1>3, <1>4
<1>6. QED
  BY <1>1, <1>3, <1>5 DEF Abstract!AddItem, TryPush

(* try_push_str adds a string at the end, whole.                           *)
LEMMA StringRefines ==
    ASSUME IInv, IInv', NEW s \in Strings, TryPushStr(s)
    PROVE  Abstract!AddString(s)
<1> USE CapacityAssumption
<1>1. s \in Seq(Bytes) /\ s \in Seq(Values) /\ Len(s) \in Nat
  BY StringsAssumption DEF Values
<1>2. /\ len \in Nat /\ index = 0 /\ index' = 0 /\ len + Len(s) <= Capacity
      /\ Size = len /\ Size' = len + Len(s) /\ slots' \in [1..Capacity -> Values]
  BY StringFacts DEF TryPushStr, Size, IInv, TypeOK, Values
<1>3. \A i \in 1..len : slots'[i] = slots[i]
  BY <1>1, <1>2, StringFacts
<1>4. \A k \in 1..Len(s) : slots'[len + k] = s[k]
  <2> SUFFICES ASSUME NEW k \in 1..Len(s) PROVE slots'[len + k] = s[k]
    OBVIOUS
  <2>1. len + k \in 1..Capacity /\ len + k \in (len + 1)..(len + Len(s)) /\ (len + k) - len = k
    BY <1>1, <1>2
  <2>2. QED
    BY <2>1, StringFacts
<1>5. Contents' = Window(slots', 0, len + Len(s))
  BY <1>2 DEF Contents, Window
<1>6. /\ Contents = Window(slots, 0, len) /\ Len(Contents) = len
      /\ slots \in [1..Capacity -> Values]
  BY <1>2, ContentsFacts
<1>7. Contents' = Contents \o s
  <2>1. Window(slots', 0, len + Len(s)) = Window(slots, 0, len) \o s
    BY <1>1, <1>2, <1>3, <1>4, WindowConcat
  <2>2. QED
    BY <1>5, <1>6, <2>1
<1>8. QED
  BY <1>2, <1>6, <1>7 DEF Abstract!AddString, TryPushStr

(* pop and next_back take the last element.                                *)
LEMMA LastRefines ==
    ASSUME IInv, IInv', Pop \/ IterNextBack
    PROVE  Abstract!RemoveLast
<1> USE CapacityAssumption DEF IInv, TypeOK, FormOK
<1>1. /\ index \in Nat /\ slots' = slots /\ index' = index /\ held' = held \cup {slots[len]}
      /\ Size \in Nat \ {0} /\ Size' = Size - 1 /\ index + Size = len
  <2>1. CASE Pop
    BY <2>1 DEF Pop, Size
  <2>2. CASE IterNextBack
    BY <2>2 DEF IterNextBack, Size
  <2>3. QED
    BY <2>1, <2>2
<1>2. Contents' = Window(slots, index, Size - 1)
  BY <1>1 DEF Contents, Window
<1>3. /\ Contents = Window(slots, index, Size) /\ Len(Contents) = Size
      /\ slots \in [1..Capacity -> Values] /\ index + Size <= Capacity
  BY ContentsFacts
<1>4. Contents' = SubSeq(Contents, 1, Len(Contents) - 1) /\ Contents[Len(Contents)] = slots[len]
  <2>1. /\ Window(slots, index, Size - 1) = SubSeq(Window(slots, index, Size), 1, Size - 1)
        /\ Window(slots, index, Size)[Size] = slots[index + Size]
    BY <1>1, <1>3, WindowFront
  <2>2. QED
    BY <1>1, <1>2, <1>3, <2>1
<1>5. Contents # << >>
  BY <1>1, <1>3
<1>6. QED
  BY <1>1, <1>4, <1>5 DEF Abstract!RemoveLast

(* next takes the first element.                                           *)
LEMMA FirstRefines ==
    ASSUME IInv, IInv', IterNext
    PROVE  Abstract!RemoveFirst
<1> USE CapacityAssumption DEF IInv, TypeOK, FormOK
<1>1. /\ index \in Nat /\ slots' = slots /\ index' = index + 1
      /\ held' = held \cup {slots[index + 1]}
      /\ Size \in Nat \ {0} /\ Size' = Size - 1
  BY DEF IterNext, Size
<1>2. Contents' = Window(slots, index + 1, Size - 1)
  BY <1>1 DEF Contents, Window
<1>3. /\ Contents = Window(slots, index, Size) /\ Len(Contents) = Size
      /\ slots \in [1..Capacity -> Values] /\ index + Size <= Capacity
  BY ContentsFacts
<1>4. Contents' = Tail(Contents) /\ Head(Contents) = slots[index + 1]
  <2>1. /\ Window(slots, index + 1, Size - 1) = Tail(Window(slots, index, Size))
        /\ Head(Window(slots, index, Size)) = slots[index + 1]
    BY <1>1, <1>3, WindowTail
  <2>2. QED
    BY <1>2, <1>3, <2>1
<1>5. Contents # << >>
  BY <1>1, <1>3
<1>6. QED
  BY <1>1, <1>4, <1>5 DEF Abstract!RemoveFirst

(* Calls that end an array discard what it contains.                       *)
LEMMA EmptyRefines ==
    ASSUME IInv, IInv',
           \/ \E kind \in {"vec", "string"} : New(kind)
           \/ Clear \/ KeepInner \/ DropInner \/ Drop \/ DropString
    PROVE  Abstract!Discard
<1> USE CapacityAssumption DEF IInv, TypeOK, FormOK, IntoInner
<1>1. Size' = 0 /\ held' = held
  <2>1. ASSUME NEW kind \in {"vec", "string"}, New(kind) PROVE Size' = 0 /\ held' = held
    BY <2>1 DEF New, Size
  <2>2. CASE Clear
    <3>1. form' = "vec" /\ index' = 0 /\ len' = 0 /\ held' = held
      BY <2>2 DEF Clear
    <3>2. QED
      BY <3>1 DEF Size
  <2>3. CASE KeepInner
    BY <2>3 DEF KeepInner, Size
  <2>4. CASE DropInner
    BY <2>4 DEF DropInner, Size
  <2>5. CASE Drop
    BY <2>5 DEF Drop, Size
  <2>6. CASE DropString
    BY <2>6 DEF DropString, Size
  <2>7. QED
    BY <2>1, <2>2, <2>3, <2>4, <2>5, <2>6
<1>2. Contents' = << >>
  BY <1>1 DEF Contents
<1>3. QED
  BY <1>1, <1>2 DEF Abstract!Discard

(* A push at the capacity is refused.                                      *)
LEMMA RefuseRefines ==
    ASSUME IInv, NEW x \in Items, PushPanics(x)
    PROVE  Abstract!Refuse(x)
<1> USE CapacityAssumption DEF IInv, TypeOK, FormOK, PushPanics, is_full
<1>1. Len(Contents) = Capacity
  BY ContentsFacts DEF Size
<1>2. Contents' = Contents
  BY DEF Contents, Size
<1>3. QED
  BY <1>1, <1>2 DEF Abstract!Refuse

(* Every call is a step of the bounded sequence, or none.                  *)
LEMMA StepRefines ==
    ASSUME IInv, IInv', [Next]_vars
    PROVE  [Abstract!Next]_<<Contents, held>>
<1>1. ASSUME UNCHANGED vars PROVE UNCHANGED <<Contents, held>>
  BY <1>1 DEF vars, Contents, Size
<1>2. ASSUME into_iter PROVE UNCHANGED <<Contents, held>>
  BY <1>2 DEF into_iter, IntoInner, Contents, Size
<1>3. ASSUME Next PROVE Abstract!Next \/ UNCHANGED <<Contents, held>>
  BY <1>1, <1>2, <1>3, AddRefines, StringRefines, LastRefines, FirstRefines, EmptyRefines,
     RefuseRefines DEF Next, Abstract!Next, TryPushFull, TryPushStrFull, Stopped
<1>4. QED
  BY <1>1, <1>3

(* FixedVec, IntoIter and FixedString are a bounded sequence with the      *)
(* operations of BoundedSequence, for every capacity.                      *)
THEOREM FixedVecImplementsSequence == Spec => ImplementsSequence
<1>1. Init => Abstract!Init
  BY InitRefines
<1>2. IInv /\ IInv' /\ [Next]_vars => [Abstract!Next]_(Abstract!vars)
  BY StepRefines DEF Abstract!vars
<1>3. QED
  BY <1>1, <1>2, InitIInv, NextIInv, PTL DEF Spec, ImplementsSequence, Abstract!Spec
=============================================================================
