----------------------------- MODULE DArrayProofs -----------------------------
(***************************************************************************)
(* A growing array holds what was put in, for every rate of growth, every  *)
(* size of a pointer and any number of elements.                           *)
(***************************************************************************)
EXTENDS DArray, SequenceTheorems, TLAPS

Element == Value \union {NULL}

\* The array c has the elements of s in its first slots; all slots that max counts
\* are allocated unless memory was refused; none is uninitialised until then.
Shape(c, s) ==
    /\ \A i \in 1..Len(s) : i - 1 \in DOMAIN c /\ c[i - 1] = s[i]
    /\ ~failed => 0..max - 1 \subseteq DOMAIN c
    /\ ~grown => ~failed /\ \A i \in DOMAIN c : c[i] # Garbage

\* The inductive invariant.  There is always room for one more element, which
\* DArray_push uses before it looks for room.
IInv ==
    /\ TypeOK
    /\ fault = "bounds" => failed
    /\ ~grown => fault # "garbage"
    /\ Live => end < max /\ Len(items) = end /\ Shape(contents, items)

\* realloc, whether it fails or not, leaves an array of slots.
LEMMA ResizeTypes ==
  ASSUME NEW c \in [Allocated -> Content], Allocated \subseteq Nat,
         grown \in BOOLEAN, failed \in BOOLEAN, max \in Nat,
         NEW size \in Nat, NEW clear, Resize(c, size, clear)
  PROVE  /\ max' = size
         /\ grown' = (grown \/ size > max)
         /\ failed' \in BOOLEAN /\ (failed => failed')
         /\ Allocated' \subseteq Nat /\ contents' \in [Allocated' -> Content]
<1>1. CASE contents' = c /\ failed' = (failed \/ size > max)
  BY <1>1 DEF Resize, Allocated
<1>2. CASE UNCHANGED failed /\ contents' = [i \in 0..size - 1 |->
             IF i \in clear THEN NULL ELSE IF i \in DOMAIN c THEN c[i] ELSE Garbage]
  BY <1>2 DEF Resize, Allocated, Content
<1> QED
  BY <1>1, <1>2 DEF Resize

\* It keeps the elements if they fit, and only adds uninitialised slots, or fails
\* to add any, when it was asked for more.
LEMMA ResizeShape ==
  ASSUME NEW c \in [Allocated -> Content], Allocated \subseteq Nat,
         grown \in BOOLEAN, failed \in BOOLEAN, max \in Nat,
         NEW s \in Seq(Element), Shape(c, s), Len(s) <= max,
         NEW size \in Nat, Len(s) < size,
         NEW clear, \A i \in clear : i >= max, Resize(c, size, clear), items' = s
  PROVE  Shape(contents, items)'
<1> DEFINE larger == size > max
<1>1. max' = size /\ (~grown' => ~grown /\ ~larger)
  <2>1. max' = size /\ grown' = (grown \/ larger)
    BY DEF Resize
  <2> HIDE DEF larger
  <2> QED
    BY <2>1
<1>a. ~larger => size <= max
  OBVIOUS
<1>2. CASE contents' = c /\ failed' = (failed \/ size > max)
  <2>0. failed' = (failed \/ larger)
    BY <1>2
  <2> HIDE DEF larger
  <2>1. ~failed' => ~failed /\ ~larger
    BY <2>0
  <2>2. ~grown' => ~failed'
    BY <1>1, <2>0 DEF Shape
  <2>3. 0..max - 1 \subseteq DOMAIN c /\ size <= max => 0..size - 1 \subseteq DOMAIN c
    OBVIOUS
  <2> QED
    BY <1>1, <1>a, <1>2, <2>1, <2>2, <2>3 DEF Shape
<1>3. CASE UNCHANGED failed /\ contents' = [i \in 0..size - 1 |->
             IF i \in clear THEN NULL ELSE IF i \in DOMAIN c THEN c[i] ELSE Garbage]
  <2>1. \A i \in 1..Len(s) : i - 1 \in 0..size - 1 /\ i - 1 \notin clear
    OBVIOUS
  <2>2. \A i \in 1..Len(s) : i - 1 \in DOMAIN contents' /\ contents'[i - 1] = s[i]
    BY <1>3, <2>1 DEF Shape
  <2>3. ASSUME ~grown' PROVE ~failed' /\ \A i \in DOMAIN contents' : contents'[i] # Garbage
    <3>1. ~grown /\ size <= max /\ ~failed
      BY <1>1, <1>a, <2>3 DEF Shape
    <3>2. \A i \in 0..size - 1 : i \in DOMAIN c /\ i \notin clear
      BY <3>1 DEF Shape
    <3> QED
      BY <1>3, <3>1, <3>2 DEF Shape
  <2> QED
    BY <1>1, <1>3, <2>2, <2>3 DEF Shape
<1> QED
  BY <1>2, <1>3 DEF Resize

LEMMA WrittenProperties ==
  ASSUME contents \in [Allocated -> Content], NEW i, NEW v \in Element
  PROVE  /\ Written(i, v) \in [Allocated -> Content]
         /\ \A j \in Allocated : Written(i, v)[j] = IF j = i THEN v ELSE contents[j]
  BY DEF Written, Content, Element, Allocated

LEMMA InitInv == Init => IInv
<1> SUFFICES ASSUME Init PROVE IInv
  OBVIOUS
<1>1. max \in Nat /\ max > 0
  BY DArrayAssumption DEF Init
<1>2. contents \in [0..max - 1 -> Content] /\ \A i \in 0..max - 1 : contents[i] = NULL
  BY DEF Init, NewContents, Content
<1>3. items \in Seq(Value \union {NULL}) /\ Len(items) = 0
  BY DEF Init
<1>4. TypeOK
  <2>1. Allocated \subseteq Nat /\ contents \in [Allocated -> Content]
    BY <1>1, <1>2 DEF Allocated
  <2> QED
    BY <1>1, <1>3, <2>1 DEF Init, TypeOK, Content
<1> QED
  BY <1>1, <1>2, <1>3, <1>4, DArrayAssumption DEF IInv, Init, Shape

LEMMA PushKeeps ==
  ASSUME IInv, Live, NEW v \in Value, Push(v)
  PROVE  IInv'
<1> USE DArrayAssumption
<1> DEFINE w == Written(end, v)
<1>1. /\ contents \in [Allocated -> Content] /\ Allocated \subseteq Nat
      /\ end \in Nat /\ max \in Nat /\ end < max
      /\ items \in Seq(Element) /\ Len(items) = end
      /\ result \in Content /\ phase = "live" /\ grown \in BOOLEAN /\ failed \in BOOLEAN
      /\ Shape(contents, items)
  BY DEF IInv, TypeOK, Live, Element
<1>2. /\ items' \in Seq(Element) /\ Len(items') = end + 1
      /\ \A i \in 1..end : items'[i] = items[i]
      /\ items'[end + 1] = v
  BY <1>1 DEF Push, Element
<1>3. /\ end' = end + 1 /\ result' = result /\ phase' = phase
      /\ fault' = IF end \in Allocated THEN "none" ELSE "bounds"
  BY <1>1 DEF Push, Writes
<1>4. /\ w \in [Allocated -> Content]
      /\ \A j \in Allocated : w[j] = IF j = end THEN v ELSE contents[j]
  BY <1>1, WrittenProperties DEF Element
<1> HIDE DEF w
<1>5. ASSUME end \in Allocated PROVE Shape(w, items')
  <2>1. ASSUME NEW i \in 1..end + 1 PROVE i - 1 \in DOMAIN w /\ w[i - 1] = items'[i]
    <3>1. CASE i = end + 1
      BY <3>1, <1>1, <1>2, <1>4, <1>5
    <3>2. CASE i # end + 1
      BY <3>2, <1>1, <1>2, <1>4 DEF Shape
    <3> QED
      BY <3>1, <3>2
  <2>2. \A j \in Allocated : w[j] # Garbage \/ w[j] = contents[j]
    BY <1>4
  <2>3. Len(items') = end + 1 /\ DOMAIN w = Allocated /\ DOMAIN contents = Allocated
    BY <1>2, <1>4 DEF Allocated
  <2> QED
    BY <2>1, <2>2, <2>3, <1>1 DEF Shape
<1>6. CASE end + 1 >= max /\ Expand(w)
  <2>1. /\ max + Rate \in Nat /\ end + 1 < max + Rate /\ end + 1 <= max
        /\ Resize(w, max + Rate, Cleared(max))
    BY <1>1, <1>6 DEF Expand
  <2>2. \A i \in Cleared(max) : i >= max
    BY <1>1 DEF Cleared
  <2>3. /\ max' = max + Rate /\ grown' = (grown \/ max + Rate > max)
        /\ failed' \in BOOLEAN /\ (failed => failed')
        /\ Allocated' \subseteq Nat /\ contents' \in [Allocated' -> Content]
    BY <2>1, <1>1, <1>4, ResizeTypes
  <2>4. TypeOK'
    BY <2>1, <2>3, <1>1, <1>2, <1>3 DEF TypeOK, Element
  <2>5. end \in Allocated => Shape(contents, items)'
    BY <2>1, <2>2, <1>1, <1>2, <1>4, <1>5, ResizeShape
  <2>6. end \notin Allocated => failed'
    BY <2>3, <1>1 DEF Shape, Allocated
  <2> QED
    BY <2>1, <2>3, <2>4, <2>5, <2>6, <1>2, <1>3 DEF IInv, Live
<1>7. CASE end + 1 < max /\ contents' = w /\ Keep
  <2>1. Allocated' = Allocated /\ contents' \in [Allocated' -> Content]
    BY <1>7, <1>4 DEF Allocated
  <2>2. TypeOK'
    BY <2>1, <1>1, <1>2, <1>3, <1>7 DEF TypeOK, Element, Keep
  <2>3. end \in Allocated => Shape(contents, items)'
    BY <1>5, <1>7 DEF Shape, Keep
  <2>4. end \notin Allocated => failed'
    BY <1>1, <1>7 DEF Shape, Allocated, Keep
  <2> QED
    BY <2>2, <2>3, <2>4, <1>1, <1>2, <1>3, <1>7 DEF IInv, Live, Keep
<1> QED
  BY <1>6, <1>7 DEF Push, w

LEMMA PopKeeps ==
  ASSUME IInv, Live, Pop
  PROVE  IInv' /\ result' = items[Len(items)]
<1> USE DArrayAssumption
<1> DEFINE e == end - 1
           w == Written(end - 1, NULL)
<1>1. /\ contents \in [Allocated -> Content] /\ Allocated \subseteq Nat
      /\ end \in Nat /\ max \in Nat /\ end < max
      /\ items \in Seq(Element) /\ Len(items) = end
      /\ phase = "live" /\ grown \in BOOLEAN /\ failed \in BOOLEAN
      /\ Shape(contents, items)
      /\ e \in Nat
  BY DEF IInv, TypeOK, Live, Element, Pop
<1>2. /\ items' \in Seq(Element) /\ Len(items') = e
      /\ \A i \in 1..e : items'[i] = items[i]
  BY <1>1 DEF Pop, Front
<1>3. e \in Allocated /\ contents[e] = items[end]
  BY <1>1 DEF Shape, Allocated
<1>4. result' = items[Len(items)]
  BY <1>1, <1>3 DEF Pop, Read
<1>5. items[end] \in Element /\ items[end] # Garbage
  BY <1>1 DEF Element
<1>6. fault' = "none" /\ end' = e /\ phase' = phase /\ result' \in Content
  BY <1>1, <1>3, <1>4, <1>5 DEF Pop, Uses, Element, Content
<1>7. /\ w \in [Allocated -> Content]
      /\ \A j \in Allocated : w[j] = IF j = e THEN NULL ELSE contents[j]
  BY <1>1, WrittenProperties DEF Element
<1> HIDE DEF w
<1>8. Shape(w, items')
  <2>1. ASSUME NEW i \in 1..e PROVE i - 1 \in DOMAIN w /\ w[i - 1] = items'[i]
    <3>1. i \in 1..Len(items) /\ i - 1 # e
      BY <1>1
    <3>2. i - 1 \in Allocated /\ contents[i - 1] = items[i]
      BY <3>1, <1>1 DEF Shape, Allocated
    <3> QED
      BY <3>1, <3>2, <1>2, <1>7
  <2>2. \A j \in Allocated : w[j] # Garbage \/ w[j] = contents[j]
    BY <1>7
  <2>3. Len(items') = e /\ DOMAIN w = Allocated /\ DOMAIN contents = Allocated
    BY <1>2, <1>7 DEF Allocated
  <2> QED
    BY <2>1, <2>2, <2>3, <1>1 DEF Shape
<1>9. CASE Shrinks(e) /\ Contract(w, e)
  <2>1. Resize(w, e + 1, {}) /\ e + 1 \in Nat /\ e <= max
    BY <1>9, <1>1 DEF Shrinks, Contract
  <2>2. /\ max' = e + 1 /\ grown' = (grown \/ e + 1 > max)
        /\ failed' \in BOOLEAN
        /\ Allocated' \subseteq Nat /\ contents' \in [Allocated' -> Content]
    BY <2>1, <1>1, <1>7, ResizeTypes
  <2>3. TypeOK'
    BY <2>1, <2>2, <1>1, <1>2, <1>6 DEF TypeOK, Element
  <2>4. Shape(contents, items)'
    BY <2>1, <1>1, <1>2, <1>7, <1>8, ResizeShape
  <2> QED
    BY <2>1, <2>2, <2>3, <2>4, <1>1, <1>2, <1>4, <1>6 DEF IInv, Live
<1>10. CASE contents' = w /\ Keep
  <2>1. Allocated' = Allocated /\ contents' \in [Allocated' -> Content]
    BY <1>10, <1>7 DEF Allocated
  <2>2. TypeOK'
    BY <2>1, <1>1, <1>2, <1>6, <1>10 DEF TypeOK, Element, Keep
  <2>3. Shape(contents, items)'
    BY <1>8, <1>10 DEF Shape, Keep
  <2> QED
    BY <2>2, <2>3, <1>1, <1>2, <1>4, <1>6, <1>10 DEF IInv, Live, Keep
<1> QED
  BY <1>9, <1>10 DEF Pop, w

\* DArray_set, DArray_remove and DArray_get.
LEMMA AccessKeeps ==
  ASSUME IInv, Live, NEW i \in 0..max,
         (\E v \in Value : Set(i, v)) \/ Get(i) \/ (i < max /\ RemoveSlot(i))
  PROVE  IInv'
<1> USE DArrayAssumption
<1>1. /\ contents \in [Allocated -> Content] /\ Allocated \subseteq Nat
      /\ end \in Nat /\ max \in Nat /\ end < max
      /\ items \in Seq(Element) /\ Len(items) = end
      /\ result \in Content /\ phase = "live" /\ fault = "none"
      /\ grown \in BOOLEAN /\ failed \in BOOLEAN
      /\ Shape(contents, items)
  BY DEF IInv, TypeOK, Live, Element
<1> DEFINE Kept ==
      /\ contents' \in [Allocated -> Content]
      /\ items' \in Seq(Element) /\ Len(items') = end
      /\ Shape(contents', items')
<1>2. ASSUME NEW x \in Element, contents' = Written(i, x), items' = Put(i, x)
      PROVE  Kept
  <2>1. /\ contents' \in [Allocated -> Content]
        /\ \A j \in Allocated : contents'[j] = IF j = i THEN x ELSE contents[j]
    BY <1>1, <1>2, WrittenProperties
  <2>2. /\ items' \in Seq(Element) /\ Len(items') = end
        /\ \A j \in 1..end : items'[j] = IF j = i + 1 THEN x ELSE items[j]
    <3>1. CASE i < end
      <4>1. i + 1 \in 1..Len(items) /\ items' = [items EXCEPT ![i + 1] = x]
        BY <1>1, <1>2, <3>1 DEF Put
      <4> QED
        BY <4>1, <1>1, <1>2, ExceptSeq
    <3>2. CASE ~(i < end)
      <4>1. items' = items /\ \A j \in 1..end : j # i + 1
        BY <1>1, <1>2, <3>2 DEF Put
      <4> QED
        BY <4>1, <1>1
    <3> QED
      BY <3>1, <3>2
  <2>3. ASSUME NEW j \in 1..end
        PROVE  j - 1 \in DOMAIN contents' /\ contents'[j - 1] = items'[j]
    <3>1. (j - 1 = i <=> j = i + 1) /\ j - 1 \in Allocated /\ contents[j - 1] = items[j]
      BY <1>1 DEF Shape, Allocated
    <3> QED
      BY <3>1, <2>1, <2>2
  <2>4. x # Garbage
    BY DEF Element
  <2>5. DOMAIN contents' = Allocated /\ DOMAIN contents = Allocated
    BY <2>1 DEF Allocated
  <2> QED
    BY <2>1, <2>2, <2>3, <2>4, <2>5, <1>1 DEF Shape
<1>3. Kept
  <2>1. ASSUME NEW v \in Value, Set(i, v) PROVE Kept
    <3>1. CASE i < max
      <4>1. v \in Element
        BY DEF Element
      <4>2. contents' = Written(i, v) /\ items' = Put(i, v)
        BY <2>1, <3>1, <1>1 DEF Set
      <4> QED
        BY <4>1, <4>2, <1>2
    <3>2. CASE i >= max
      BY <2>1, <3>2, <1>1 DEF Set
    <3>3. i < max \/ i >= max
      BY <1>1
    <3> QED
      BY <3>1, <3>2, <3>3
  <2>2. CASE Get(i)
    BY <2>2, <1>1 DEF Get
  <2>3. CASE i < max /\ RemoveSlot(i)
    <3>1. NULL \in Element
      BY DEF Element
    <3>2. contents' = Written(i, NULL) /\ items' = Put(i, NULL)
      BY <2>3 DEF RemoveSlot
    <3> QED
      BY <3>1, <3>2, <1>2
  <2> QED
    BY <2>1, <2>2, <2>3
<1>4. /\ fault' \in {"none", "bounds", "garbage"}
      /\ fault' = "bounds" => failed
      /\ ~grown => fault' # "garbage"
  <2>1. /\ i < max /\ ~failed => i \in Allocated
        /\ i \in Allocated /\ ~grown => contents[i] # Garbage
    BY <1>1 DEF Shape, Allocated
  <2> QED
    BY <2>1, <1>1 DEF Set, Get, RemoveSlot, Writes, Uses
<1>5. /\ UNCHANGED <<end, max, phase, grown, failed>>
      /\ result' \in Content
  <2>1. Read(i) \in Content
    BY <1>1 DEF Read, Content
  <2> QED
    BY <2>1, <1>1 DEF Set, Get, RemoveSlot, Content
<1>6. Allocated' = Allocated
  BY <1>3 DEF Allocated
<1>7. TypeOK'
  BY <1>1, <1>3, <1>4, <1>5, <1>6 DEF TypeOK, Element
<1>8. Shape(contents, items)'
  BY <1>3, <1>5 DEF Shape
<1> QED
  BY <1>1, <1>3, <1>4, <1>5, <1>7, <1>8 DEF IInv, Live

LEMMA CopyKeeps ==
  ASSUME IInv, Live, Copy
  PROVE  IInv'
<1> USE DArrayAssumption
<1>1. /\ end \in Nat /\ max \in Nat /\ end < max
      /\ items \in Seq(Element) /\ Len(items) = end
      /\ \A j \in 1..end : j - 1 \in Allocated /\ contents[j - 1] = items[j]
  BY DEF IInv, TypeOK, Element, Shape, Allocated
<1>2. /\ items' \in Seq(Element) /\ Len(items') = end
      /\ \A j \in 1..end : items'[j] = items[end - j + 1]
  <2>1. items' = Reverse(items) /\ Len(items) = end /\ items \in Seq(Element)
    BY <1>1 DEF Copy
  <2> QED
    BY <2>1, <1>1 DEF Reverse
<1>3. \A i \in 0..max - 1 : i < end => /\ end - i \in 1..end
                                       /\ Read(end - 1 - i) = items[end - i]
  <2> SUFFICES ASSUME NEW i \in 0..max - 1, i < end
               PROVE  end - i \in 1..end /\ Read(end - 1 - i) = items[end - i]
    OBVIOUS
  <2>1. end - i \in 1..end /\ (end - i) - 1 = end - 1 - i
    BY <1>1
  <2>2. (end - i) - 1 \in Allocated /\ contents[(end - i) - 1] = items[end - i]
    BY <1>1, <2>1
  <2> QED
    BY <2>1, <2>2 DEF Read
<1>4. contents' = [i \in 0..max - 1 |-> IF i < end THEN items[end - i] ELSE NULL]
  <2>1. contents' = [i \in 0..max - 1 |-> IF i < end THEN Read(end - 1 - i) ELSE NULL]
    BY DEF Copy
  <2> QED
    BY <2>1, <1>3
<1>5. \A i \in 0..max - 1 : contents'[i] \in Element
  <2> SUFFICES ASSUME NEW i \in 0..max - 1 PROVE contents'[i] \in Element
    OBVIOUS
  <2>1. i < end => items[end - i] \in Element
    BY <1>1, <1>3
  <2> QED
    BY <2>1, <1>4 DEF Element
<1>6. Allocated' = 0..max - 1 /\ contents' \in [0..max - 1 -> Element]
  BY <1>4, <1>5 DEF Allocated
<1>7. ASSUME NEW j \in 1..end PROVE j - 1 \in 0..max - 1 /\ contents'[j - 1] = items'[j]
  <2>1. j - 1 \in 0..max - 1 /\ j - 1 < end /\ end - (j - 1) = end - j + 1
    BY <1>1
  <2> QED
    BY <2>1, <1>2, <1>4
<1>8. UNCHANGED <<end, max, result, fault, phase>> /\ grown' = FALSE /\ failed' = FALSE
  BY DEF Copy
<1>9. Element \subseteq Content /\ Garbage \notin Element
  BY DEF Element, Content
<1>10. TypeOK'
  <2>1. 0..max - 1 \subseteq Nat
    BY <1>1
  <2> QED
    BY <2>1, <1>2, <1>6, <1>8, <1>9 DEF IInv, TypeOK, Element
<1>11. Shape(contents, items)'
  BY <1>2, <1>5, <1>6, <1>7, <1>8, <1>9 DEF Shape
<1> QED
  BY <1>1, <1>2, <1>8, <1>10, <1>11 DEF IInv, Live

\* DArray_expand and DArray_contract leave the elements where they are.
LEMMA ResizeKeeps ==
  ASSUME IInv, Live, ExpandArray \/ ContractArray
  PROVE  IInv'
<1> USE DArrayAssumption
<1>1. /\ contents \in [Allocated -> Content] /\ Allocated \subseteq Nat
      /\ end \in Nat /\ max \in Nat /\ end < max
      /\ items \in Seq(Element) /\ Len(items) = end
      /\ UNCHANGED <<end, result, fault, phase, items>>
      /\ grown \in BOOLEAN /\ failed \in BOOLEAN
      /\ Shape(contents, items)
  BY DEF IInv, TypeOK, ExpandArray, ContractArray, Element
<1>2. \E size \in Nat : /\ end < size
                        /\ \E clear : (\A i \in clear : i >= max) /\ Resize(contents, size, clear)
  <2>1. CASE ExpandArray
    <3>1. \A i \in Cleared(max) : i >= max
      BY <1>1 DEF Cleared
    <3>2. max + Rate \in Nat /\ end < max + Rate
      BY <1>1
    <3>3. Resize(contents, max + Rate, Cleared(max))
      BY <2>1 DEF ExpandArray, Expand
    <3> HIDE DEF Cleared
    <3> QED
      BY <3>1, <3>2, <3>3
  <2>2. CASE ContractArray
    <3> DEFINE size == (IF end < Rate THEN Rate ELSE end) + 1
    <3>1. size \in Nat /\ end < size
      BY <1>1
    <3>2. Resize(contents, size, {})
      BY <2>2 DEF ContractArray, Contract
    <3> HIDE DEF size
    <3> QED
      BY <3>1, <3>2
  <2> QED
    BY <2>1, <2>2
<1>3. PICK size \in Nat : /\ end < size
                         /\ \E clear : (\A i \in clear : i >= max) /\ Resize(contents, size, clear)
  BY <1>2
<1>4. PICK clear : (\A i \in clear : i >= max) /\ Resize(contents, size, clear)
  BY <1>3
<1>5. /\ max' = size /\ grown' = (grown \/ size > max)
      /\ failed' \in BOOLEAN
      /\ Allocated' \subseteq Nat /\ contents' \in [Allocated' -> Content]
  BY <1>1, <1>4, ResizeTypes
<1>6. Shape(contents, items)'
  BY <1>1, <1>3, <1>4, ResizeShape
<1>7. TypeOK'
  BY <1>1, <1>5 DEF IInv, TypeOK
<1>8. fault' = "none"
  BY <1>1 DEF Live
<1> QED
  BY <1>1, <1>3, <1>5, <1>6, <1>7, <1>8 DEF IInv, Live

LEMMA NextInv == IInv /\ [Next]_vars => IInv'
<1> SUFFICES ASSUME IInv, [Next]_vars PROVE IInv'
  OBVIOUS
<1>1. ASSUME Live, NEW v \in Value, Push(v) PROVE IInv'
  BY <1>1, PushKeeps
<1>2. ASSUME Live, Pop PROVE IInv'
  BY <1>2, PopKeeps
<1>3. ASSUME Live, PopEmpty PROVE IInv'
  BY <1>3 DEF PopEmpty, IInv, TypeOK, Live, Content, Allocated, Shape
<1>4. ASSUME Live, NEW i \in 0..max, (\E v \in Value : Set(i, v)) \/ Get(i) PROVE IInv'
  BY <1>4, AccessKeeps
<1>5. ASSUME Live, NEW i \in 0..max - 1, RemoveSlot(i) PROVE IInv'
  <2>1. max \in Nat
    BY DEF IInv, TypeOK
  <2>2. i < max /\ i \in 0..max
    BY <2>1
  <2> QED
    BY <1>5, <2>2, AccessKeeps
<1>6. ASSUME Live, Copy PROVE IInv'
  BY <1>6, CopyKeeps
<1>7. ASSUME Live, ExpandArray \/ ContractArray PROVE IInv'
  BY <1>7, ResizeKeeps
<1>8. ASSUME Live, ClearDestroy PROVE IInv'
  <2>1. fault' = "bounds" => failed
    BY <1>8 DEF ClearDestroy, IInv, Shape, Allocated
  <2>2. fault' \in {"none", "bounds", "garbage"} /\ (~grown => fault' # "garbage")
    BY <1>8 DEF ClearDestroy, IInv, Shape, Allocated
  <2>3. UNCHANGED <<contents, end, max, result, grown, failed, items>> /\ phase' = "destroyed"
    BY <1>8 DEF ClearDestroy
  <2>4. TypeOK'
    BY <2>2, <2>3 DEF IInv, TypeOK, Allocated
  <2> QED
    BY <2>1, <2>2, <2>3, <2>4 DEF IInv, Live
<1>9. CASE UNCHANGED vars
  <2> USE <1>9 DEF vars
  <2>1. TypeOK' = TypeOK /\ Allocated' = Allocated /\ Live' = Live
    BY DEF TypeOK, Allocated, Live
  <2> QED
    BY <2>1 DEF IInv, Shape
<1> QED
  BY <1>1, <1>2, <1>3, <1>4, <1>5, <1>6, <1>7, <1>8, <1>9 DEF Next, Use, Test

\* For every rate of growth, every size of a pointer and any number of elements:
\* no sequence of pushes, pops, writes, copies and changes of size loses or moves
\* an element, also if realloc fails; none accesses a slot that is not allocated
\* unless memory was refused; and an array that has not grown shows no
\* uninitialised slot.
THEOREM HoldsItsElements == Spec => [](Holds /\ InBounds /\ CleanUntilGrown)
<1>1. Init => IInv
  BY InitInv
<1>2. IInv /\ [Next]_vars => IInv'
  BY NextInv
<1>3. IInv => Holds /\ InBounds /\ CleanUntilGrown
  <2> SUFFICES ASSUME IInv PROVE Holds /\ InBounds /\ CleanUntilGrown
    OBVIOUS
  <2>1. ASSUME Live, NEW i \in 1..Len(items) PROVE i - 1 \in Allocated /\ contents[i - 1] = items[i]
    BY <2>1 DEF IInv, Shape, Allocated
  <2> QED
    BY <2>1 DEF IInv, Holds, InBounds, CleanUntilGrown
<1> QED
  BY <1>1, <1>2, <1>3, PTL DEF Spec

\* A pop returns the last element that was pushed, whatever the array has been
\* through, and although it may be the pop that shrinks the array.
THEOREM PopsTheLast == Spec => PopsLast
<1> DEFINE Returned == end' < end => result' = items[Len(items)]
<1>1. ASSUME IInv, [Next]_vars PROVE [Returned]_vars
  <2>1. ASSUME Live, Pop PROVE Returned
    BY <1>1, <2>1, PopKeeps
  <2>2. end \in Nat
    BY <1>1 DEF IInv, TypeOK
  <2>3. (Live /\ Pop) \/ end' = end \/ end' = end + 1
    BY <1>1 DEF Next, Use, Test, Push, PopEmpty, Set, Get, Copy, ClearDestroy,
                ExpandArray, ContractArray, RemoveSlot, vars
  <2> QED
    BY <2>1, <2>2, <2>3
<1>2. Init => IInv
  BY InitInv
<1>3. IInv /\ [Next]_vars => IInv'
  BY NextInv
<1> HIDE DEF Returned
<1>4. Spec => [][Returned]_vars
  BY <1>1, <1>2, <1>3, PTL DEF Spec
<1> QED
  BY <1>4 DEF PopsLast, Returned
===============================================================================
