-------------------------------- MODULE DArray --------------------------------
(***************************************************************************)
(* The growing array of darray.c, which holds the locals of frames, the    *)
(* elements of vectors, the fields of values, the buckets of hash maps and *)
(* the breakpoints of the debugger.                                        *)
(*                                                                         *)
(* A slot that realloc has added holds Garbage until it is written.        *)
(* DArray_expand clears Rate + 1 bytes of the Rate slots it adds, and      *)
(* DArray_contract, which adds slots to an array shorter than Rate, none.  *)
(***************************************************************************)
EXTENDS Integers, SequencesExt

CONSTANTS
    Value,      \* what the array holds
    NULL,       \* an empty slot
    Garbage,    \* what an uninitialised slot holds
    Rate,       \* DEFAULT_EXPAND_RATE, 300
    Pointer,    \* the bytes of a slot, 8
    Initial,    \* the sizes that DArray_create is called with
    Most        \* bound on the elements

ASSUME DArrayAssumption ==
    /\ {NULL, Garbage} \cap Value = {} /\ NULL # Garbage
    /\ Rate \in Nat \ {0}
    /\ Pointer \in Nat \ {0, 1}
    /\ Initial \subseteq Nat \ {0}
    /\ Most \in Nat

VARIABLES
    contents,   \* the slots that are allocated
    end, max,   \* DArray_end, DArray_max
    result,     \* what DArray_pop, DArray_remove, DArray_get or DArray_at returned
    fault,      \* "bounds": a slot outside contents was accessed,
                \* "garbage": an uninitialised slot was used, or "none"
    phase,      \* "live" or "destroyed"
    grown,      \* history: slots have been asked for
    failed,     \* history: slots have been asked for and refused
    items       \* history: what was put in, in order

vars == <<contents, end, max, result, fault, phase, grown, failed, items>>

Content == Value \union {NULL, Garbage}
Allocated == DOMAIN contents

TypeOK ==
    /\ Allocated \subseteq Nat /\ contents \in [Allocated -> Content]
    /\ end \in Nat /\ max \in Nat
    /\ result \in Content
    /\ fault \in {"none", "bounds", "garbage"}
    /\ phase \in {"live", "destroyed"}
    /\ {grown, failed} \subseteq BOOLEAN
    /\ items \in Seq(Value \union {NULL})

\* Mutant of NewContents: malloc in the place of calloc.
Malloced(size) == [i \in 0..size - 1 |-> Garbage]

\* calloc in DArray_create.
NewContents(size) == [i \in 0..size - 1 |-> NULL]

Init ==
    /\ max \in Initial
    /\ contents = NewContents(max)
    /\ end = 0
    /\ result = NULL
    /\ fault = "none"
    /\ phase = "live"
    /\ grown = FALSE /\ failed = FALSE
    /\ items = <<>>

-------------------------------------------------------------------------------
\* The slots that memset clears in DArray_expand: it is told bytes.
Cleared(old) == old .. old + (Rate + 1) \div Pointer - 1

\* DArray_resize of the array c to size slots, after which those in clear are
\* cleared.  The new size is stored before realloc is called, and stays stored
\* when realloc fails.
Resize(c, size, clear) ==
    /\ max' = size
    /\ grown' = (grown \/ size > max)
    /\ \/ /\ contents' = [i \in 0..size - 1 |->
              IF i \in clear THEN NULL ELSE IF i \in DOMAIN c THEN c[i] ELSE Garbage]
          /\ UNCHANGED failed
       \/ contents' = c /\ failed' = (failed \/ size > max)

Expand(c) == Resize(c, max + Rate, Cleared(max))

\* Mutant of Contract: the elements past Rate are forgotten.
ContractToRate(c, e) == Resize(c, Rate + 1, {})

\* DArray_contract of the array c with e elements.
Contract(c, e) == Resize(c, (IF e < Rate THEN Rate ELSE e) + 1, {})

Keep == UNCHANGED <<max, grown, failed>>

\* What contents[i] reads, and the array after contents[i] was written.
Read(i) == IF i \in Allocated THEN contents[i] ELSE Garbage
Written(i, v) == [j \in Allocated |-> IF j = i THEN v ELSE contents[j]]

\* The fault of writing, and of using, contents[i].
Writes(i) == fault' = IF i \in Allocated THEN "none" ELSE "bounds"
Uses(i) == fault' = IF i \notin Allocated THEN "bounds"
                    ELSE IF contents[i] = Garbage THEN "garbage" ELSE "none"

\* Mutant of Push: the array is expanded when the next element no longer fits.
PushLate(v) ==
    /\ Writes(end)
    /\ end' = end + 1
    /\ \/ end + 1 > max /\ Expand(Written(end, v))
       \/ end + 1 <= max /\ contents' = Written(end, v) /\ Keep
    /\ items' = Append(items, v)
    /\ UNCHANGED <<result, phase>>

Push(v) ==
    /\ Writes(end)
    /\ end' = end + 1
    /\ \/ end + 1 >= max /\ Expand(Written(end, v))
       \/ end + 1 < max /\ contents' = Written(end, v) /\ Keep
    /\ items' = Append(items, v)
    /\ UNCHANGED <<result, phase>>

PopEmpty ==
    /\ end = 0
    /\ result' = NULL
    /\ UNCHANGED <<contents, end, max, fault, phase, grown, failed, items>>

\* Whether DArray_pop shrinks an array that is left with e elements.
Shrinks(e) == e > Rate /\ e % Rate # 0

\* Mutant of Pop: it reads the slot at end.
PopPastEnd ==
    /\ end > 0
    /\ Uses(end)
    /\ result' = Read(end)
    /\ end' = end - 1
    /\ contents' = Written(end, NULL) /\ Keep
    /\ items' = Front(items)
    /\ UNCHANGED phase

Pop ==
    /\ end > 0
    /\ Uses(end - 1)
    /\ result' = Read(end - 1)
    /\ end' = end - 1
    /\ \/ Shrinks(end - 1) /\ Contract(Written(end - 1, NULL), end - 1)
       \/ ~Shrinks(end - 1) /\ contents' = Written(end - 1, NULL) /\ Keep
    /\ items' = Front(items)
    /\ UNCHANGED phase

\* DArray_expand and DArray_contract, called from outside.
ExpandArray ==
    /\ Expand(contents)
    /\ UNCHANGED <<end, result, fault, phase, items>>

ContractArray ==
    /\ Contract(contents, end)
    /\ UNCHANGED <<end, result, fault, phase, items>>

\* The elements after slot i was set, which changes none of them past the end.
Put(i, v) == IF i < end THEN [items EXCEPT ![i + 1] = v] ELSE items

\* DArray_set, which drops what is set past max.
Set(i, v) ==
    /\ \/ i < max /\ Writes(i) /\ contents' = Written(i, v) /\ items' = Put(i, v)
       \/ i >= max /\ UNCHANGED <<contents, fault, items>>
    /\ UNCHANGED <<end, max, result, phase, grown, failed>>

\* DArray_get, and DArray_at of a slot before max.
Get(i) ==
    /\ \/ i < max /\ Uses(i) /\ result' = Read(i)
       \/ i >= max /\ result' = NULL /\ UNCHANGED fault
    /\ UNCHANGED <<contents, end, max, phase, grown, failed, items>>

\* DArray_remove, which leaves end alone.
RemoveSlot(i) ==
    /\ Uses(i)
    /\ result' = Read(i)
    /\ contents' = Written(i, NULL)
    /\ items' = Put(i, NULL)
    /\ UNCHANGED <<end, max, phase, grown, failed>>

\* DArray_copy pushes the elements from the last one on.  The model goes on with
\* the copy.
Copy ==
    /\ contents' = [i \in 0..max - 1 |-> IF i < end THEN Read(end - 1 - i) ELSE NULL]
    /\ items' = Reverse(items)
    /\ grown' = FALSE /\ failed' = FALSE
    /\ UNCHANGED <<end, max, result, fault, phase>>

\* DArray_clear_destroy frees what every slot points to, up to max.
ClearDestroy ==
    /\ fault' = IF \E i \in 0..max - 1 : i \notin Allocated THEN "bounds"
                ELSE IF \E i \in 0..max - 1 : contents[i] = Garbage THEN "garbage" ELSE "none"
    /\ phase' = "destroyed"
    /\ UNCHANGED <<contents, end, max, result, grown, failed, items>>

Live == phase = "live" /\ fault = "none"

\* What the program calls.
Use ==
    /\ Live
    /\ \/ \E v \in Value : end < Most /\ Push(v)
       \/ PopEmpty \/ Pop
       \/ \E i \in 0..max, v \in Value : Set(i, v)
       \/ \E i \in 0..max : Get(i)
       \/ Copy \/ ClearDestroy

\* What only the operations above and the tests call.
Test ==
    /\ Live
    /\ \/ max <= Most /\ ExpandArray
       \/ ContractArray
       \/ \E i \in 0..max - 1 : RemoveSlot(i)

Next == Use \/ Test

Spec == Init /\ [][Next]_vars
UseSpec == Init /\ [][Use]_vars

-------------------------------------------------------------------------------
(***************************************************************************)
(* Properties.                                                             *)
(***************************************************************************)

\* The elements are in the slots before end, whatever the array went through:
\* growing, shrinking in a pop, a realloc that fails, and writes past the end lose
\* or move none.
Holds ==
    Live =>
        /\ end = Len(items)
        /\ \A i \in 1..Len(items) : i - 1 \in Allocated /\ contents[i - 1] = items[i]

\* No slot outside the allocation is accessed, unless the array has asked for
\* memory in vain: DArray_push writes before it looks for room, so each operation
\* must leave room for one more; and a shrinking that fails must do no harm.
InBounds == fault = "bounds" => failed

\* A pop returns the last element, even when it shrinks the array.
PopsLast == [][end' < end => result' = items[Len(items)]]_vars

\* An array that has not grown reads as NULL where nothing was stored: the locals
\* of frames, the buckets of a hash map and DArray_clear rely on it.
CleanUntilGrown == ~grown => fault # "garbage"
===============================================================================
