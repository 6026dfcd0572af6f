------------------------------ MODULE ListProofs ------------------------------
(***************************************************************************)
(* The linked list is well linked for every number of nodes.               *)
(***************************************************************************)
EXTENDS List, SequenceTheorems, WellFoundedInduction, TLAPS

\* A sequence without its i-th element.
LEMMA RemoveAtProperties ==
  ASSUME NEW S, NEW s \in Seq(S), NEW i \in 1..Len(s)
  PROVE  /\ RemoveAt(s, i) \in Seq(S)
         /\ Len(RemoveAt(s, i)) = Len(s) - 1
         /\ \A j \in 1..Len(s) - 1 : RemoveAt(s, i)[j] = IF j < i THEN s[j] ELSE s[j + 1]
<1> DEFINE a == SubSeq(s, 1, i - 1)
           b == SubSeq(s, i + 1, Len(s))
<1>1. a \in Seq(S) /\ Len(a) = i - 1 /\ \A j \in 1..i - 1 : a[j] = s[j]
  OBVIOUS
<1>2. b \in Seq(S) /\ Len(b) = Len(s) - i /\ \A j \in 1..Len(s) - i : b[j] = s[j + i]
  OBVIOUS
<1>3. RemoveAt(s, i) = a \o b
  BY DEF RemoveAt
<1> HIDE DEF a, b
<1>4. /\ a \o b \in Seq(S)
      /\ Len(a \o b) = Len(a) + Len(b)
      /\ \A j \in 1..Len(a) + Len(b) : (a \o b)[j] = IF j <= Len(a) THEN a[j] ELSE b[j - Len(a)]
  BY <1>1, <1>2, ConcatProperties
<1>5. ASSUME NEW j \in 1..Len(s) - 1
      PROVE  (a \o b)[j] = IF j < i THEN s[j] ELSE s[j + 1]
  <2>1. CASE j < i
    BY <1>1, <1>2, <1>4, <2>1
  <2>2. CASE ~(j < i)
    <3>1. j - (i - 1) \in 1..Len(s) - i /\ b[j - (i - 1)] = s[(j - (i - 1)) + i]
      BY <1>2, <2>2
    <3>2. (j - (i - 1)) + i = j + 1
      OBVIOUS
    <3> QED
      BY <1>1, <1>2, <1>4, <2>2, <3>1, <3>2
  <2> QED
    BY <2>1, <2>2
<1> QED
  BY <1>1, <1>2, <1>3, <1>4, <1>5

-------------------------------------------------------------------------------
\* The loop of List_destroy is about to visit the k-th node: it has freed the
\* nodes up to the one before the previous one.
Visiting(k) ==
    /\ cursor = IF k <= Len(items) THEN items[k] ELSE NULL
    /\ allocated = {items[j] : j \in {j \in 1..Len(items) : j >= k - 1}}

\* The inductive invariant.  The nodes are distinct, without which removing one
\* would unlink another; and while the list is being destroyed it is still
\* linked, with clean ends, from the cursor on.
IInv ==
    /\ TypeOK
    /\ ~fault
    /\ IsInjective(items)
    /\ phase # "destroyed" => Chained
    /\ phase = "open" => count = Len(items) /\ allocated = {items[i] : i \in 1..Len(items)}
    /\ phase = "destroying" => EndsClean /\ \E k \in 1..Len(items) + 1 : Visiting(k)
    /\ phase = "destroyed" => allocated = {}

LEMMA PushKeeps ==
  ASSUME IInv, NEW n \in Node, NEW v \in Value, Push(n, v)
  PROVE  IInv'
<1> USE NodeAssumption DEF IInv, TypeOK, Cells, Push, Called, Calls, Calloc, Touch
<1>1. /\ items' = Append(items, n)
      /\ items' \in Seq(Node) /\ Len(items') = Len(items) + 1
      /\ \A i \in 1..Len(items) : items'[i] = items[i]
      /\ items'[Len(items')] = n
  OBVIOUS
<1>2. \A i \in 1..Len(items) : items[i] \in allocated /\ items[i] # n
  OBVIOUS
<1>3. IsInjective(items')
  BY <1>1, <1>2 DEF IsInjective
<1>4. allocated' = {items'[i] : i \in 1..Len(items')}
  BY <1>1
<1>5. TypeOK'
  <2>1. /\ {first', last', cursor'} \subseteq Node \union {NULL}
        /\ next' \in Cells /\ prev' \in Cells
    BY DEF Alone
  <2>2. /\ value' \in [Node -> Value \union {NULL}]
        /\ allocated' \subseteq Node
        /\ count' \in Int /\ result' \in Value \union {NULL}
        /\ phase' \in {"open", "destroying", "destroyed"}
    OBVIOUS
  <2>3. fault' \in BOOLEAN
    BY DEF Alone
  <2> QED
    BY <1>1, <2>1, <2>2, <2>3
<1>6. CASE items = <<>>
  BY <1>1, <1>3, <1>4, <1>5, <1>6 DEF Chained, Alone
<1>7. CASE items # <<>>
  <2>1. Len(items) \in Nat \ {0} /\ last = items[Len(items)] /\ first = items[1] /\ last # NULL
    BY <1>7 DEF Chained
  <2>2. first' = items'[1] /\ last' = items'[Len(items')] /\ ~fault'
    BY <1>1, <1>2, <2>1
  <2>3. ASSUME NEW i \in 1..Len(items)
        PROVE  next'[items'[i]] = items'[i + 1] /\ prev'[items'[i + 1]] = items'[i]
    <3>1. CASE i = Len(items)
      BY <3>1, <2>1, <1>1, <1>2
    <3>2. CASE i # Len(items)
      <4>1. i \in 1..Len(items) - 1 /\ i + 1 \in 1..Len(items)
        BY <3>2
      <4>2. items[i] # items[Len(items)]
        BY <3>2, <2>1 DEF IsInjective
      <4>3. next[items[i]] = items[i + 1] /\ prev[items[i + 1]] = items[i]
        BY <4>1 DEF Chained
      <4> QED
        BY <4>1, <4>2, <4>3, <2>1, <1>1, <1>2
    <3> QED
      BY <3>1, <3>2
  <2>4. Chained'
    BY <1>1, <2>2, <2>3 DEF Chained
  <2> QED
    BY <1>1, <1>3, <1>4, <1>5, <2>2, <2>4
<1> QED
  BY <1>6, <1>7

LEMMA ShiftKeeps ==
  ASSUME IInv, NEW n \in Node, NEW v \in Value, Shift(n, v)
  PROVE  IInv'
<1> USE NodeAssumption DEF IInv, TypeOK, Cells, Shift, Called, Calls, Calloc, Touch
<1>1. /\ items' = <<n>> \o items
      /\ items' \in Seq(Node) /\ Len(items') = Len(items) + 1
      /\ items'[1] = n
      /\ \A i \in 1..Len(items) : items'[i + 1] = items[i]
  OBVIOUS
<1>2. \A i \in 1..Len(items) : items[i] \in allocated /\ items[i] # n
  OBVIOUS
<1>a. \A i \in 1..Len(items') : i = 1 \/ (i - 1 \in 1..Len(items) /\ items'[i] = items[i - 1])
  <2> SUFFICES ASSUME NEW i \in 1..Len(items'), i # 1
               PROVE  i - 1 \in 1..Len(items) /\ items'[i] = items[i - 1]
    OBVIOUS
  <2>1. i - 1 \in 1..Len(items) /\ (i - 1) + 1 = i
    BY <1>1
  <2> QED
    BY <1>1, <2>1
<1>3. IsInjective(items')
  BY <1>1, <1>2, <1>a DEF IsInjective
<1>4. allocated' = {items'[i] : i \in 1..Len(items')}
  <2>1. ASSUME NEW m \in allocated' PROVE \E i \in 1..Len(items') : m = items'[i]
    <3>1. CASE m = n
      BY <1>1, <3>1
    <3>2. CASE m # n
      <4>1. PICK i \in 1..Len(items) : m = items[i]
        BY <3>2
      <4> QED
        BY <4>1, <1>1
    <3> QED
      BY <3>1, <3>2
  <2>2. ASSUME NEW i \in 1..Len(items') PROVE items'[i] \in allocated'
    BY <1>1, <1>2, <1>a
  <2> QED
    BY <2>1, <2>2
<1>5. TypeOK'
  <2>1. /\ {first', last', cursor'} \subseteq Node \union {NULL}
        /\ next' \in Cells /\ prev' \in Cells
    BY DEF Alone
  <2>2. /\ value' \in [Node -> Value \union {NULL}]
        /\ allocated' \subseteq Node
        /\ count' \in Int /\ result' \in Value \union {NULL}
        /\ phase' \in {"open", "destroying", "destroyed"}
    OBVIOUS
  <2>3. fault' \in BOOLEAN
    BY DEF Alone
  <2> QED
    BY <1>1, <2>1, <2>2, <2>3
<1>6. CASE items = <<>>
  BY <1>1, <1>3, <1>4, <1>5, <1>6 DEF Chained, Alone
<1>7. CASE items # <<>>
  <2>1. Len(items) \in Nat \ {0} /\ last = items[Len(items)] /\ first = items[1] /\ first # NULL
    BY <1>7 DEF Chained
  <2>2. first' = items'[1] /\ last' = items'[Len(items')] /\ ~fault'
    BY <1>1, <1>2, <2>1
  <2>3. ASSUME NEW i \in 1..Len(items)
        PROVE  next'[items'[i]] = items'[i + 1] /\ prev'[items'[i + 1]] = items'[i]
    <3>1. CASE i = 1
      BY <3>1, <2>1, <1>1, <1>2
    <3>2. CASE i # 1
      <4>1. i - 1 \in 1..Len(items) - 1 /\ (i - 1) + 1 = i
        BY <3>2
      <4>2. items[i] # items[1] /\ items[i - 1] \in Node
        <5>1. i \in DOMAIN items /\ 1 \in DOMAIN items
          BY <2>1
        <5>2. items[i] # items[1]
          BY <5>1, <3>2 DEF IsInjective
        <5> QED
          BY <5>2, <4>1, <2>1
      <4>3. next[items[i - 1]] = items[i] /\ prev[items[i]] = items[i - 1]
        BY <4>1 DEF Chained
      <4>4. items'[i] = items[i - 1] /\ items'[i + 1] = items[i]
        BY <1>1, <4>1
      <4> QED
        BY <4>2, <4>3, <4>4, <4>1, <2>1, <1>2
    <3> QED
      BY <3>1, <3>2
  <2>4. Chained'
    BY <1>1, <2>2, <2>3 DEF Chained
  <2> QED
    BY <1>1, <1>3, <1>4, <1>5, <2>2, <2>4
<1> QED
  BY <1>6, <1>7

\* Whichever end or inner node it is called with, List_remove unlinks that node
\* and no other.
LEMMA TakeKeeps ==
  ASSUME IInv, NEW i \in 1..Len(items), NEW c \in Calls, Called(c),
         Take(items[i]), items' = RemoveAt(items, i)
  PROVE  IInv'
<1> DEFINE n == items[i]
           L == Len(items)
<1> USE NodeAssumption DEF IInv, TypeOK, Cells, Take, Called, Free, Touch
<1>1. /\ L \in Nat \ {0}
      /\ items # <<>>
      /\ \A j \in 1..L : items[j] \in Node /\ items[j] \in allocated
      /\ first = items[1] /\ last = items[L]
  BY DEF Chained
<1>2. /\ items' \in Seq(Node)
      /\ Len(items') = L - 1
      /\ \A j \in 1..L - 1 : items'[j] = IF j < i THEN items[j] ELSE items[j + 1]
  BY RemoveAtProperties
<1>3. \A j, k \in 1..L : items[j] = items[k] => j = k
  BY DEF IsInjective
<1>4. IsInjective(items')
  <2> SUFFICES ASSUME NEW j \in 1..L - 1, NEW k \in 1..L - 1, items'[j] = items'[k]
               PROVE  j = k
    BY <1>2 DEF IsInjective
  <2> QED
    BY <1>2, <1>3
<1>5. allocated' = {items'[j] : j \in 1..Len(items')}
  <2>1. ASSUME NEW m \in allocated' PROVE \E j \in 1..Len(items') : m = items'[j]
    <3>1. PICK k \in 1..L : m = items[k]
      OBVIOUS
    <3>2. CASE k < i
      BY <3>1, <3>2, <1>2
    <3>3. CASE k > i
      <4>1. k - 1 \in 1..L - 1 /\ ~(k - 1 < i) /\ (k - 1) + 1 = k
        BY <3>3
      <4>2. items'[k - 1] = items[k]
        BY <4>1, <1>2
      <4> QED
        BY <3>1, <4>1, <4>2, <1>2
    <3>4. k # i
      BY <3>1
    <3> QED
      BY <3>2, <3>3, <3>4
  <2>2. ASSUME NEW j \in 1..Len(items') PROVE items'[j] \in allocated'
    BY <1>1, <1>2, <1>3
  <2> QED
    BY <2>1, <2>2
<1>6. ~fault'
  <2>1. CASE UnlinkInner(n)
    <3>1. i - 1 \in 1..L - 1 /\ (i - 1) + 1 = i /\ i \in 1..L - 1 /\ i + 1 \in 1..L
      BY <2>1, <1>1 DEF UnlinkInner
    <3>2. next[n] = items[i + 1] /\ prev[n] = items[i - 1]
      BY <3>1 DEF Chained
    <3>3. {n, next[n], prev[n]} \subseteq allocated
      BY <3>1, <3>2, <1>1
    <3> QED
      BY <2>1, <3>3 DEF UnlinkInner
  <2> QED
    BY <2>1, <1>1 DEF UnlinkOnly, UnlinkFirst, UnlinkLast
<1>7. Chained' /\ {first', last'} \subseteq Node \union {NULL} /\ next' \in Cells /\ prev' \in Cells
  <2>1. CASE UnlinkOnly(n)
    <3>1. L = 1
      <4>1. 1 \in 1..L /\ L \in 1..L
        BY <1>1
      <4>2. items[1] = items[L]
        BY <2>1, <1>1 DEF UnlinkOnly
      <4> QED
        BY <4>1, <4>2, <1>3
    <3> QED
      BY <2>1, <3>1, <1>2 DEF UnlinkOnly, Chained
  <2>2. CASE UnlinkFirst(n)
    <3>1. i = 1 /\ L > 1
      BY <2>2, <1>1, <1>3 DEF UnlinkFirst
    <3>2. first' = items[2] /\ last' = items[L]
      BY <2>2, <3>1, <1>1 DEF UnlinkFirst, Chained
    <3>3. \A j \in 1..L - 1 : items'[j] = items[j + 1]
      BY <3>1, <1>2
    <3>4. first' = items'[1] /\ last' = items'[Len(items')] /\ items' # <<>>
      BY <3>1, <3>2, <3>3, <1>2
    <3>5. ASSUME NEW j \in 1..Len(items') - 1
          PROVE  next'[items'[j]] = items'[j + 1] /\ prev'[items'[j + 1]] = items'[j]
      <4>1. j + 1 \in 1..L - 1 /\ j \in 1..L - 1
        BY <1>2
      <4> QED
        BY <2>2, <3>3, <4>1 DEF UnlinkFirst, Chained
    <3>6. Chained'
      BY <3>4, <3>5 DEF Chained
    <3>7. {first', last'} \subseteq Node
      <4>1. 2 \in 1..L /\ L \in 1..L
        BY <3>1
      <4> QED
        BY <3>2, <1>1, <4>1
    <3>8. next' = next /\ prev' = prev
      BY <2>2 DEF UnlinkFirst
    <3> QED
      BY <3>6, <3>7, <3>8
  <2>3. CASE UnlinkLast(n)
    <3>1. i = L /\ L > 1
      BY <2>3, <1>1, <1>3 DEF UnlinkLast
    <3>2. first' = items[1] /\ last' = items[L - 1]
      <4>1. L - 1 \in 1..L - 1 /\ (L - 1) + 1 = L
        BY <3>1
      <4> QED
        BY <2>3, <3>1, <1>1, <4>1 DEF UnlinkLast, Chained
    <3>3. \A j \in 1..L - 1 : items'[j] = items[j]
      BY <3>1, <1>2
    <3>4. first' = items'[1] /\ last' = items'[Len(items')] /\ items' # <<>>
      BY <3>1, <3>2, <3>3, <1>2
    <3>5. ASSUME NEW j \in 1..Len(items') - 1
          PROVE  next'[items'[j]] = items'[j + 1] /\ prev'[items'[j + 1]] = items'[j]
      <4>1. j + 1 \in 1..L - 1 /\ j \in 1..L - 1
        BY <1>2
      <4> QED
        BY <2>3, <3>3, <4>1 DEF UnlinkLast, Chained
    <3>6. Chained'
      BY <3>4, <3>5 DEF Chained
    <3>7. {first', last'} \subseteq Node
      <4>1. 1 \in 1..L /\ L - 1 \in 1..L
        BY <3>1
      <4> QED
        BY <3>2, <1>1, <4>1
    <3>8. next' = next /\ prev' = prev
      BY <2>3 DEF UnlinkLast
    <3> QED
      BY <3>6, <3>7, <3>8
  <2>4. CASE UnlinkInner(n)
    <3>1. i - 1 \in 1..L - 1 /\ (i - 1) + 1 = i /\ i \in 1..L - 1 /\ i + 1 \in 1..L
      BY <2>4, <1>1 DEF UnlinkInner
    <3>2. next[n] = items[i + 1] /\ prev[n] = items[i - 1]
      BY <3>1 DEF Chained
    <3>3. /\ prev' = [prev EXCEPT ![items[i + 1]] = items[i - 1]]
          /\ next' = [next EXCEPT ![items[i - 1]] = items[i + 1]]
          /\ first' = first /\ last' = last
      BY <2>4, <3>2 DEF UnlinkInner
    <3>4. first' = items'[1] /\ last' = items'[Len(items')] /\ items' # <<>>
      <4>1. items'[1] = items[1]
        BY <3>1, <1>2
      <4>2. L - 1 \in 1..L - 1 /\ ~(L - 1 < i) /\ (L - 1) + 1 = L
        BY <3>1
      <4>3. items'[L - 1] = items[L]
        BY <4>2, <1>2
      <4> QED
        BY <4>1, <4>2, <4>3, <3>3, <1>1, <1>2
    <3>5. ASSUME NEW j \in 1..Len(items') - 1
          PROVE  next'[items'[j]] = items'[j + 1] /\ prev'[items'[j + 1]] = items'[j]
      <4>0. j \in 1..L - 2
        BY <1>2
      <4>1. CASE j < i - 1
        <5>1. /\ j \in 1..L - 1 /\ j + 1 \in 1..L - 1 /\ j + 1 < i
              /\ items'[j] = items[j] /\ items'[j + 1] = items[j + 1]
          BY <4>0, <4>1, <3>1, <1>2
        <5>2. items[j] # items[i - 1] /\ items[j + 1] # items[i + 1]
          BY <5>1, <4>1, <3>1, <1>3
        <5>3. next[items[j]] = items[j + 1] /\ prev[items[j + 1]] = items[j]
          BY <5>1 DEF Chained
        <5> QED
          BY <5>1, <5>2, <5>3, <3>1, <3>3, <1>1
      <4>2. CASE j = i - 1
        <5>1. items'[j] = items[i - 1] /\ items'[j + 1] = items[i + 1]
          BY <4>0, <4>2, <3>1, <1>2
        <5> QED
          BY <5>1, <3>1, <3>3, <1>1
      <4>3. CASE j > i - 1
        <5>1. /\ j + 1 \in 1..L - 1 /\ (j + 1) + 1 \in 1..L
              /\ items'[j] = items[j + 1] /\ items'[j + 1] = items[(j + 1) + 1]
          BY <4>0, <4>3, <3>1, <1>2
        <5>2. items[j + 1] # items[i - 1] /\ items[(j + 1) + 1] # items[i + 1]
          BY <5>1, <4>3, <3>1, <1>3
        <5>3. next[items[j + 1]] = items[(j + 1) + 1] /\ prev[items[(j + 1) + 1]] = items[j + 1]
          BY <5>1 DEF Chained
        <5> QED
          BY <5>1, <5>2, <5>3, <3>1, <3>3, <1>1
      <4> QED
        BY <4>1, <4>2, <4>3, <4>0, <3>1
    <3>6. Chained'
      BY <3>4, <3>5 DEF Chained
    <3>7. next' \in Cells /\ prev' \in Cells
      BY <3>1, <3>3, <1>1
    <3> QED
      BY <3>3, <3>6, <3>7
  <2> QED
    BY <2>1, <2>2, <2>3, <2>4
<1>8. /\ value' \in [Node -> Value \union {NULL}]
      /\ allocated' \subseteq Node
      /\ count' \in Int /\ result' \in Value \union {NULL}
      /\ phase' \in {"open", "destroying", "destroyed"}
      /\ cursor' \in Node \union {NULL}
  BY <1>1
<1>9. phase' = "open" /\ count' = Len(items')
  BY <1>2
<1>10. fault' \in BOOLEAN
  BY DEF UnlinkOnly, UnlinkFirst, UnlinkLast, UnlinkInner
<1> QED
  BY <1>2, <1>4, <1>5, <1>6, <1>7, <1>8, <1>9, <1>10

\* The loop of List_destroy frees the nodes in order and stops at the end of the
\* list, because its ends are clean.
LEMMA DestroyKeeps ==
  ASSUME IInv, ~Trimmed, Destroy \/ DestroyPrevious \/ DestroyLast
  PROVE  IInv'
<1> DEFINE L == Len(items)
<1> USE NodeAssumption DEF IInv, TypeOK, Cells, Free, Touch
<1>1. CASE Destroy
  <2>1. EndsClean /\ Chained /\ phase = "open"
    BY <1>1 DEF Destroy
  <2>2. Visiting(1)'
    <3>1. cursor' = IF 1 <= L THEN items[1] ELSE NULL
      <4>1. L \in Nat /\ (items = <<>> <=> L = 0)
        OBVIOUS
      <4> QED
        BY <1>1, <2>1, <4>1 DEF Destroy, Chained
    <3>2. {j \in 1..L : j >= 1 - 1} = 1..L
      OBVIOUS
    <3>3. allocated' = allocated /\ items' = items
      BY <1>1 DEF Destroy
    <3> QED
      BY <2>1, <3>1, <3>2, <3>3 DEF Visiting
  <2>3. 1 \in 1..Len(items') + 1
    BY <1>1 DEF Destroy
  <2> QED
    BY <1>1, <2>1, <2>2, <2>3 DEF Destroy, EndsClean, Chained
<1>2. CASE DestroyPrevious
  <2>1. /\ phase = "destroying" /\ EndsClean /\ Chained
        /\ cursor # NULL /\ cursor \in Node
        /\ UNCHANGED <<first, last, count, next, prev, result, phase, items, call>>
    BY <1>2 DEF DestroyPrevious
  <2>2. PICK k \in 1..L : Visiting(k) /\ cursor = items[k]
    BY <2>1 DEF Visiting
  <2>3. first = items[1] /\ last = items[L] /\ L \in Nat \ {0} /\ first # NULL /\ last # NULL
    <3>1. L \in Nat \ {0} /\ items # <<>> /\ 1 \in 1..L /\ L \in 1..L
      BY <2>2
    <3>2. items[1] \in Node /\ items[L] \in Node
      BY <3>1
    <3> QED
      BY <2>1, <3>1, <3>2 DEF Chained
  <2>4. prev[cursor] = IF k = 1 THEN NULL ELSE items[k - 1]
    <3>1. CASE k = 1
      BY <2>1, <2>2, <2>3, <3>1 DEF EndsClean
    <3>2. CASE k # 1
      <4>1. k - 1 \in 1..L - 1 /\ (k - 1) + 1 = k
        BY <3>2
      <4> QED
        BY <2>1, <2>2, <3>2, <4>1 DEF Chained
    <3> QED
      BY <3>1, <3>2
  <2>5. next[cursor] = IF k = L THEN NULL ELSE items[k + 1]
    <3>1. CASE k = L
      BY <2>1, <2>2, <2>3, <3>1 DEF EndsClean
    <3>2. CASE k # L
      <4>1. k \in 1..L - 1
        BY <3>2
      <4> QED
        BY <2>1, <2>2, <3>2, <4>1 DEF Chained
    <3> QED
      BY <3>1, <3>2
  <2>6. ~fault'
    <3>1. items[k] \in allocated
      BY <2>2 DEF Visiting
    <3>2. CASE k = 1
      BY <1>2, <2>2, <2>4, <3>1, <3>2 DEF DestroyPrevious
    <3>3. CASE k # 1
      <4>1. k - 1 \in 1..L /\ items[k - 1] \in allocated
        BY <2>2, <3>3 DEF Visiting
      <4> QED
        BY <1>2, <2>2, <2>4, <3>1, <3>3, <4>1 DEF DestroyPrevious
    <3> QED
      BY <3>2, <3>3
  <2>7. cursor' = IF k + 1 <= L THEN items[k + 1] ELSE NULL
    BY <1>2, <2>5 DEF DestroyPrevious
  <2>8. allocated' = {items[j] : j \in {j \in 1..L : j >= k}}
    <3>1. \A j \in 1..L : items[j] # NULL
      OBVIOUS
    <3>2. \A j, m \in 1..L : items[j] = items[m] => j = m
      BY DEF IsInjective
    <3>3. allocated = {items[j] : j \in {j \in 1..L : j >= k - 1}}
      BY <2>2 DEF Visiting
    <3>4. allocated' = allocated \ {prev[cursor]}
      BY <1>2 DEF DestroyPrevious
    <3>5. CASE k = 1
      BY <3>1, <3>3, <3>4, <3>5, <2>4
    <3>6. CASE k # 1
      <4>1. k - 1 \in 1..L /\ prev[cursor] = items[k - 1]
        BY <3>6, <2>4
      <4>2. \A j \in 1..L : j >= k - 1 /\ items[j] # items[k - 1] <=> j >= k
        BY <4>1, <3>2
      <4> QED
        BY <3>3, <3>4, <4>1, <4>2
    <3> QED
      BY <3>5, <3>6
  <2>9. Visiting(k + 1)'
    BY <2>1, <2>7, <2>8 DEF Visiting
  <2>10. TypeOK'
    <3>1. cursor' \in Node \union {NULL}
      BY <2>1, <1>2 DEF DestroyPrevious
    <3>2. /\ value' \in [Node -> Value \union {NULL}]
          /\ allocated' \subseteq Node /\ fault' \in BOOLEAN
      BY <1>2 DEF DestroyPrevious
    <3> QED
      BY <2>1, <3>1, <3>2
  <2>11. Chained' /\ EndsClean'
    BY <2>1 DEF Chained, EndsClean
  <2>12. k + 1 \in 1..Len(items') + 1
    BY <2>1
  <2> QED
    BY <2>1, <2>6, <2>9, <2>10, <2>11, <2>12
<1>3. CASE DestroyLast
  <2>1. /\ phase = "destroying" /\ EndsClean /\ Chained /\ cursor = NULL
        /\ UNCHANGED <<first, last, count, next, prev, result, cursor, items, call>>
        /\ phase' = "destroyed"
    BY <1>3 DEF DestroyLast
  <2>2. allocated = {items[j] : j \in {j \in 1..L : j >= L}}
    BY <2>1 DEF Visiting
  <2>3. CASE items = <<>>
    <3>1. last = NULL /\ allocated = {}
      BY <2>1, <2>2, <2>3 DEF Chained
    <3> QED
      BY <1>3, <2>1, <3>1 DEF DestroyLast
  <2>4. CASE items # <<>>
    <3>1. last = items[L] /\ L \in 1..L
      BY <2>1, <2>4 DEF Chained
    <3>2. allocated = {last} /\ last # NULL
      BY <2>2, <3>1
    <3> QED
      BY <1>3, <2>1, <3>2 DEF DestroyLast
  <2> QED
    BY <2>3, <2>4
<1> QED
  BY <1>1, <1>2, <1>3

LEMMA InitInv == Init => IInv
<1> SUFFICES ASSUME Init PROVE IInv
  OBVIOUS
<1>1. items = <<>> /\ Len(items) = 0 /\ DOMAIN items = {}
  BY DEF Init
<1>2. TypeOK
  <2>1. items \in Seq(Node)
    BY DEF Init
  <2>2. /\ next \in Cells /\ prev \in Cells
        /\ value \in [Node -> Value \union {NULL}]
    BY DEF Init, Cells
  <2>3. /\ {first, last, cursor} \subseteq Node \union {NULL}
        /\ count \in Int /\ allocated \subseteq Node /\ result \in Value \union {NULL}
    BY DEF Init
  <2>4. phase \in {"open", "destroying", "destroyed"} /\ fault \in BOOLEAN /\ call \in Calls
    BY DEF Init, Calls
  <2> QED
    BY <2>1, <2>2, <2>3, <2>4 DEF TypeOK
<1>3. IsInjective(items)
  BY <1>1 DEF IsInjective
<1>4. Chained /\ phase = "open" /\ count = 0 /\ allocated = {} /\ ~fault
  BY <1>1 DEF Init, Chained
<1> QED
  BY <1>1, <1>2, <1>3, <1>4 DEF IInv

LEMMA NextInv ==
  ASSUME ~Trimmed
  PROVE  IInv /\ [Next]_vars => IInv'
<1> SUFFICES ASSUME IInv, [Next]_vars PROVE IInv'
  OBVIOUS
<1>1. ASSUME NEW n \in Node, NEW v \in Value, Push(n, v) PROVE IInv'
  BY <1>1, PushKeeps
<1>2. ASSUME NEW n \in Node, NEW v \in Value, Shift(n, v) PROVE IInv'
  BY <1>2, ShiftKeeps
<1>a. items \in Seq(Node) /\ (phase = "open" => Chained)
  BY DEF IInv, TypeOK
<1>3. CASE Pop
  <2>1. last = items[Len(items)] /\ Len(items) \in 1..Len(items)
    BY <1>3, <1>a DEF Pop, Called, Chained
  <2> QED
    BY <1>3, <2>1, TakeKeeps DEF Pop, Calls
<1>4. CASE Unshift
  <2>1. first = items[1] /\ 1 \in 1..Len(items)
    BY <1>4, <1>a DEF Unshift, Called, Chained
  <2> QED
    BY <1>4, <2>1, TakeKeeps DEF Unshift, Calls
<1>5. ASSUME NEW i \in 1..Len(items), RemoveNode(i) PROVE IInv'
  BY <1>5, TakeKeeps DEF RemoveNode, Calls
<1>6. CASE TakeNothing
  BY <1>6 DEF TakeNothing, Called, Calls, IInv, TypeOK, Chained
<1>7. CASE Destroy \/ DestroyPrevious \/ DestroyLast
  BY <1>7, DestroyKeeps
<1>8. CASE UNCHANGED vars
  <2> USE <1>8 DEF vars
  <2>1. TypeOK' = TypeOK
    BY DEF TypeOK
  <2>2. Chained' = Chained /\ EndsClean' = EndsClean
    BY DEF Chained, EndsClean
  <2>3. \A k \in 1..Len(items) + 1 : Visiting(k)' = Visiting(k)
    BY DEF Visiting
  <2> QED
    BY <2>1, <2>2, <2>3 DEF IInv
<1> QED
  BY <1>1, <1>2, <1>3, <1>4, <1>5, <1>6, <1>7, <1>8 DEF Next

\* Whatever is pushed, popped, shifted, unshifted and removed, in whatever order
\* and on any number of nodes: the list stays linked in both directions, no freed
\* node is touched, and each node is freed once, provided that a list whose ends
\* dangle is not destroyed.
THEOREM WellLinked ==
  ASSUME ~Trimmed
  PROVE  Spec => [](Linked /\ NoFault /\ NoLeak)
<1>1. Init => IInv
  BY InitInv
<1>2. IInv /\ [Next]_vars => IInv'
  BY NextInv
<1>3. IInv => Linked /\ NoFault /\ NoLeak
  BY DEF IInv, Linked, NoFault, NoLeak
<1> QED
  BY <1>1, <1>2, <1>3, PTL DEF Spec
------------------------------------------------------------------------------
(***************************************************************************)
(* The linked list implements Deque for every number of nodes.  Deque sees *)
(* the values that are found by following next; the recursion over them is *)
(* undone by looking at the least position where it would go wrong.        *)
(***************************************************************************)

\* The values of the nodes of items.
Values == [i \in 1..Len(items) |-> value[items[i]]]

\* While the list is open the pointers lead from each node of items to the next.
LEMMA ContentsAreItems ==
  IInv /\ phase = "open" => Contents = Values
<1> SUFFICES ASSUME IInv, phase = "open" PROVE Contents = Values
  OBVIOUS
<1> DEFINE L == Len(items)
           Step(f) == [i \in 1..count |-> IF i = 1 THEN first ELSE next[f[i - 1]]]
           at == CHOOSE f : f = Step(f)
           g == [i \in 1..count |-> items[i]]
<1>1. count = L /\ L \in Nat /\ Chained /\ items \in Seq(Node)
  BY DEF IInv, TypeOK
<1>2. \A i \in 1..L : items[i] = IF i = 1 THEN first ELSE next[items[i - 1]]
  <2>1. ASSUME NEW i \in 1..L, i # 1 PROVE items[i] = next[items[i - 1]]
    <3>1. i - 1 \in 1..L - 1 /\ (i - 1) + 1 = i
      BY <2>1, <1>1
    <3> QED BY <3>1, <1>1 DEF Chained
  <2>2. ASSUME 1 \in 1..L PROVE items[1] = first
    BY <2>2, <1>1 DEF Chained
  <2> QED BY <2>1, <2>2
<1>3. g = Step(g)
  <2>1. ASSUME NEW i \in 1..count, i # 1 PROVE i - 1 \in 1..count
    BY <1>1, <2>1
  <2> QED BY <1>1, <1>2, <2>1
<1>4. at = Step(at)
  <2> HIDE DEF Step, g
  <2> QED BY <1>3
<1>5. Contents = [i \in 1..count |-> value[at[i]]]
  BY DEF Contents
<1> DEFINE wrong == {i \in 1..L : at[i] # items[i]}
<1>6. wrong = {}
  <2> SUFFICES ASSUME wrong # {} PROVE FALSE
    OBVIOUS
  <2>1. PICK i \in wrong : \A j \in wrong : ~ (<<j, i>> \in OpToRel(<, Nat))
    <3>1. wrong \subseteq Nat
      BY <1>1
    <3> HIDE DEF wrong
    <3> QED BY <3>1, NatLessThanWellFounded, WFMin
  <2>2. i \in 1..L /\ at[i] # items[i]
    OBVIOUS
  <2>3. at[i] = IF i = 1 THEN first ELSE next[at[i - 1]]
    <3> HIDE DEF at
    <3> QED BY <1>1, <1>4, <2>2
  <2>4. i # 1 /\ i - 1 \in 1..L
    <3> HIDE DEF at
    <3> QED BY <1>1, <1>2, <2>2, <2>3
  <2>5. i - 1 \notin wrong
    <3> HIDE DEF wrong
    <3>1. <<i - 1, i>> \in OpToRel(<, Nat)
      BY <1>1, <2>2, <2>4 DEF OpToRel
    <3> QED BY <2>1, <3>1
  <2> QED
    <3> HIDE DEF at
    <3> QED BY <1>2, <2>2, <2>3, <2>4, <2>5
<1> QED
  <2> HIDE DEF at
  <2> QED BY <1>1, <1>5, <1>6 DEF Values

-------------------------------------------------------------------------------
\* List_push appends a value.
LEMMA PushPushes ==
  ASSUME IInv, IInv', NEW n \in Node, NEW v \in Value, Push(n, v)
  PROVE  Values' = Append(Values, v)
<1>1. /\ items \in Seq(Node) /\ Len(items') = Len(items) + 1
      /\ \A i \in 1..Len(items) : items'[i] = items[i] /\ items[i] # n
      /\ items'[Len(items) + 1] = n
  BY DEF IInv, TypeOK, Push, Called, Calloc
<1>2. value' = [value EXCEPT ![n] = v] /\ value \in [Node -> Value \union {NULL}]
  BY DEF IInv, TypeOK, Push, Calloc
<1> QED BY <1>1, <1>2 DEF Values

\* List_shift puts a value before the others.
LEMMA ShiftShifts ==
  ASSUME IInv, IInv', NEW n \in Node, NEW v \in Value, Shift(n, v)
  PROVE  Values' = <<v>> \o Values
<1>1. /\ items \in Seq(Node) /\ items' = <<n>> \o items
      /\ \A i \in 1..Len(items) : items[i] # n
  BY DEF IInv, TypeOK, Shift, Called, Calloc
<1>2. value' = [value EXCEPT ![n] = v] /\ value \in [Node -> Value \union {NULL}]
  BY DEF IInv, TypeOK, Shift, Calloc
<1>3. Values \in Seq(Value \union {NULL}) /\ Len(Values) = Len(items)
  BY <1>1, <1>2 DEF Values
<1>4. /\ Len(items') = Len(items) + 1
      /\ \A i \in 1..Len(items) + 1 : items'[i] = IF i = 1 THEN n ELSE items[i - 1]
  BY <1>1
<1>5. /\ Len(<<v>> \o Values) = Len(items) + 1
      /\ \A i \in 1..Len(items) + 1 : (<<v>> \o Values)[i] = IF i = 1 THEN v ELSE Values[i - 1]
  BY <1>1, <1>3
<1>6. \A i \in 1..Len(items) + 1 : value'[items'[i]] = IF i = 1 THEN v ELSE Values[i - 1]
  <2>1. ASSUME NEW i \in 1..Len(items) + 1, i # 1
        PROVE  value'[items'[i]] = Values[i - 1]
    <3>1. i - 1 \in 1..Len(items) /\ items'[i] = items[i - 1] /\ items[i - 1] \in Node
      BY <1>1, <1>4, <2>1
    <3> QED BY <1>1, <1>2, <3>1 DEF Values
  <2>2. items'[1] = n
    BY <1>1, <1>4
  <2> QED BY <1>2, <2>1, <2>2
<1>7. Values' = [i \in 1..Len(items) + 1 |-> IF i = 1 THEN v ELSE Values[i - 1]]
  <2>1. Values' = [i \in 1..Len(items) + 1 |-> value'[items'[i]]]
    BY <1>4 DEF Values
  <2> QED BY <1>6, <2>1
<1>8. <<v>> \o Values = [i \in 1..Len(items) + 1 |-> IF i = 1 THEN v ELSE Values[i - 1]]
  BY <1>3, <1>5
<1> QED BY <1>7, <1>8

\* List_remove takes the value of its node out and returns it; the order of the others stays.
LEMMA TakeTakes ==
  ASSUME IInv, IInv', phase = "open", NEW i \in 1..Len(items),
         Take(items[i]), items' = RemoveAt(items, i)
  PROVE  Values' = RemoveAt(Values, i) /\ result' = Values[i] /\ Len(Values) = Len(items)
<1> DEFINE L == Len(items)
<1>1. /\ items \in Seq(Node) /\ L \in Nat /\ value \in [Node -> Value \union {NULL}]
      /\ \A j, k \in 1..L : items[j] = items[k] => j = k
  <2>1. items \in Seq(Node) /\ value \in [Node -> Value \union {NULL}] /\ IsInjective(items)
    BY DEF IInv, TypeOK
  <2>2. L \in Nat /\ DOMAIN items = 1..L
    BY <2>1
  <2>3. \A j, k \in 1..L : items[j] = items[k] => j = k
    BY <2>1, <2>2 DEF IsInjective
  <2> QED BY <2>1, <2>2, <2>3
<1>2. /\ result' = value[items[i]]
      /\ value' = [m \in Node |-> IF m = items[i] THEN NULL ELSE value[m]]
  BY DEF Take, Free
<1>3. /\ Len(items') = L - 1
      /\ \A j \in 1..L - 1 : items'[j] = IF j < i THEN items[j] ELSE items[j + 1]
  BY <1>1, RemoveAtProperties
<1>4. Values \in Seq(Value \union {NULL}) /\ Len(Values) = L
  BY <1>1 DEF Values
<1>5. /\ RemoveAt(Values, i) \in Seq(Value \union {NULL})
      /\ Len(RemoveAt(Values, i)) = L - 1
      /\ \A j \in 1..L - 1 : RemoveAt(Values, i)[j] = IF j < i THEN Values[j] ELSE Values[j + 1]
  <2> HIDE DEF Values
  <2> QED BY <1>4, RemoveAtProperties
<1>6. ASSUME NEW j \in 1..L - 1
      PROVE  value'[items'[j]] = IF j < i THEN Values[j] ELSE Values[j + 1]
  <2>1. /\ j \in 1..L /\ j + 1 \in 1..L /\ items[j] \in Node /\ items[j + 1] \in Node
        /\ Values[j] = value[items[j]] /\ Values[j + 1] = value[items[j + 1]]
    BY <1>1 DEF Values
  <2>2. CASE j < i
    <3>1. items'[j] = items[j] /\ items[j] # items[i]
      BY <1>1, <1>3, <2>1, <2>2
    <3> QED BY <1>2, <2>1, <2>2, <3>1
  <2>3. CASE ~ (j < i)
    <3>1. items'[j] = items[j + 1] /\ items[j + 1] # items[i]
      BY <1>1, <1>3, <2>1, <2>3
    <3> QED BY <1>2, <2>1, <2>3, <3>1
  <2> QED BY <2>2, <2>3
<1>7. Values' = [j \in 1..L - 1 |-> value'[items'[j]]]
  BY <1>3 DEF Values
<1>8. RemoveAt(Values, i) = [j \in 1..L - 1 |-> RemoveAt(Values, i)[j]]
  BY <1>5
<1>9. Values' = RemoveAt(Values, i)
  BY <1>5, <1>6, <1>7, <1>8
<1> QED BY <1>2, <1>4, <1>9 DEF Values

-------------------------------------------------------------------------------
\* list.h: read through its pointers, the list is a sequence that grows and shrinks at both
\* ends and loses the right value when one in between is removed, for any number of nodes,
\* provided that a list whose ends dangle is not destroyed.
THEOREM ListImplementsDeque == ~ Trimmed => (Spec => DequeSpec)
<1> SUFFICES ASSUME ~ Trimmed PROVE Spec => DequeSpec
  OBVIOUS
<1>1. Init => Abstract!Init
  <2> SUFFICES ASSUME Init PROVE Contents = << >>
    BY DEF Init, Abstract!Init
  <2>1. items = << >> /\ Len(items) = 0 /\ phase = "open"
    BY DEF Init
  <2> QED BY <2>1, InitInv, ContentsAreItems DEF Values
<1>2. IInv /\ IInv' /\ [Next]_vars => [Abstract!Next]_(Abstract!vars)
  <2> SUFFICES ASSUME IInv, IInv', [Next]_vars PROVE [Abstract!Next]_(Abstract!vars)
    OBVIOUS
  <2>a. items \in Seq(Node) /\ (phase = "open" => Chained)
    BY DEF IInv, TypeOK
  <2>1. phase = "open" => Contents = Values
    BY ContentsAreItems
  <2>2. phase' = "open" => Contents' = Values'
    <3>1. (IInv /\ phase = "open" => Contents = Values)'
      BY ContentsAreItems, PTL
    <3> QED BY <3>1
  <2>3. ASSUME NEW n \in Node, NEW v \in Value, Push(n, v) PROVE Abstract!Next
    <3>1. phase = "open" /\ phase' = "open" /\ call' = "push" /\ result' = result
      BY <2>3 DEF Push, Called
    <3> QED BY <2>1, <2>2, <2>3, <3>1, PushPushes DEF Abstract!Next, Abstract!Push
  <2>4. ASSUME NEW n \in Node, NEW v \in Value, Shift(n, v) PROVE Abstract!Next
    <3>1. phase = "open" /\ phase' = "open" /\ call' = "shift" /\ result' = result
      BY <2>4 DEF Shift, Called
    <3> QED BY <2>1, <2>2, <2>4, <3>1, ShiftShifts DEF Abstract!Next, Abstract!Shift
  <2>5. CASE Pop
    <3>1. /\ phase = "open" /\ phase' = "open" /\ call' = "pop"
          /\ last = items[Len(items)] /\ Len(items) \in 1..Len(items)
          /\ Take(items[Len(items)]) /\ items' = RemoveAt(items, Len(items))
      BY <2>a, <2>5 DEF Pop, Called, Chained
    <3>2. Values' = RemoveAt(Values, Len(Values)) /\ result' = Values[Len(Values)] /\ Values # << >>
      BY <3>1, TakeTakes
    <3> QED BY <2>1, <2>2, <3>1, <3>2 DEF Abstract!Next, Abstract!Pop, Abstract!Take,
           RemoveAt, Abstract!RemoveAt
  <2>6. CASE Unshift
    <3>1. /\ phase = "open" /\ phase' = "open" /\ call' = "unshift"
          /\ first = items[1] /\ 1 \in 1..Len(items)
          /\ Take(items[1]) /\ items' = RemoveAt(items, 1)
      BY <2>a, <2>6 DEF Unshift, Called, Chained
    <3>2. Values' = RemoveAt(Values, 1) /\ result' = Values[1] /\ Values # << >>
      BY <3>1, TakeTakes
    <3> QED BY <2>1, <2>2, <3>1, <3>2 DEF Abstract!Next, Abstract!Unshift, Abstract!Take,
           RemoveAt, Abstract!RemoveAt
  <2>7. ASSUME NEW i \in 1..Len(items), RemoveNode(i) PROVE Abstract!Next
    <3>1. /\ phase = "open" /\ phase' = "open" /\ call' = "remove"
          /\ Take(items[i]) /\ items' = RemoveAt(items, i)
      BY <2>7 DEF RemoveNode, Called
    <3>2. /\ Values' = RemoveAt(Values, i) /\ result' = Values[i]
          /\ i \in DOMAIN Values
      BY <3>1, TakeTakes DEF Values
    <3> QED BY <2>1, <2>2, <3>1, <3>2 DEF Abstract!Next, Abstract!RemoveNode, Abstract!Take,
           RemoveAt, Abstract!RemoveAt
  <2>8. CASE TakeNothing
    <3>1. /\ phase = "open" /\ phase' = "open" /\ call' \in {"pop", "unshift"}
          /\ result' = NULL /\ Values' = Values
          /\ first = NULL \/ last = NULL
      BY <2>8 DEF TakeNothing, Called, Values
    <3>2. Values = << >>
      <4>1. ASSUME items # << >> PROVE FALSE
        <5>1. items[1] \in Node /\ items[Len(items)] \in Node
          BY <2>a, <4>1
        <5> QED BY <2>a, <3>1, <4>1, <5>1, NodeAssumption DEF Chained
      <4> QED BY <4>1 DEF Values
    <3>3. Abstract!TakeNothing
      BY <2>1, <2>2, <3>1, <3>2 DEF Abstract!TakeNothing
    <3> QED BY <3>1, <3>3 DEF Abstract!Next, Abstract!Pop, Abstract!Unshift
  <2>9. CASE Destroy
    BY <2>9 DEF Destroy, Abstract!Next, Abstract!Destroy
  <2>10. CASE DestroyPrevious \/ DestroyLast
    BY <2>10 DEF DestroyPrevious, DestroyLast, Abstract!vars
  <2>11. CASE UNCHANGED vars
    BY <2>1, <2>2, <2>11 DEF vars, Values, Abstract!vars
  <2> QED
    BY <2>3, <2>4, <2>5, <2>6, <2>7, <2>8, <2>9, <2>10, <2>11 DEF Next
<1>3. Spec => []IInv
  BY InitInv, NextInv, PTL DEF Spec
<1> QED BY <1>1, <1>2, <1>3, PTL DEF Spec, DequeSpec, Abstract!Spec
===============================================================================
