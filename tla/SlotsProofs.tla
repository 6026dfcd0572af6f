------------------------------ MODULE SlotsProofs ------------------------------
(***************************************************************************)
(* Proofs about module Slots.  First what the operations of the hash map   *)
(* do to the nodes of a table, then the invariant, action by action.       *)
(***************************************************************************)
EXTENDS Slots, SequenceTheorems, WellFoundedInduction, TLAPS

Table == [Bucket -> Seq(Node)]

Placed(t) == \A b \in Bucket : \A i \in DOMAIN t[b] : BucketOf[t[b][i].key] = b

Once(t) ==
    \A b \in Bucket : \A i, j \in DOMAIN t[b] : t[b][i].key = t[b][j].key => i = j
------------------------------------------------------------------------------
(***************************************************************************)
(* The hash map                                                            *)
(***************************************************************************)
\* A set of indices has a least one.
LEMMA Least ==
  ASSUME NEW S \in SUBSET Nat, S # {}
  PROVE  \E i \in S : \A j \in S : i <= j
<1>1. PICK i \in S : \A j \in S : ~ (<<j, i>> \in OpToRel(<, Nat))
  BY WFMin, NatLessThanWellFounded, Zenon
<1>2. \A j \in S : ~ (j < i)
  BY <1>1 DEF OpToRel
<1> QED
  BY <1>2

\* Hashmap_get_node returns the index of a node of the key, if there is one.
LEMMA GetNode ==
  ASSUME NEW s \in Seq(Node), NEW n \in Name
  PROVE  LET i == Hashmap_get_node(s, n)
         IN  IF \E j \in DOMAIN s : s[j].key = n THEN i \in DOMAIN s /\ s[i].key = n
             ELSE i = 0
<1> DEFINE H == {j \in DOMAIN s : s[j].key = n}
<1>1. CASE \E j \in DOMAIN s : s[j].key = n
  <2>1. H \subseteq Nat /\ H # {} /\ DOMAIN s = 1..Len(s) /\ Len(s) \in Nat
    BY <1>1
  <2>2. PICK i \in H : \A j \in H : i <= j
    BY <2>1, Least
  <2>3. i \in DOMAIN s /\ s[i].key = n /\ \A j \in 1..i - 1 : s[j].key # n
    BY <2>1, <2>2
  <2> QED
    BY <1>1, <2>3 DEF Hashmap_get_node
<1>2. CASE ~ \E j \in DOMAIN s : s[j].key = n
  BY <1>2 DEF Hashmap_get_node
<1> QED
  BY <1>1, <1>2

\* What is left of a bucket: all nodes but the one that is taken out.
LEMMA UnhookedProperties ==
  ASSUME NEW s \in Seq(Node), NEW i \in DOMAIN s
  PROVE  /\ Unhooked(s, i) \in Seq(Node)
         /\ DOMAIN Unhooked(s, i) = 1..Len(s) - 1
         /\ \A j \in 1..Len(s) - 1 :
              Unhooked(s, i)[j] = IF j = i THEN s[Len(s)] ELSE s[j]
<1>1. Len(s) \in Nat /\ DOMAIN s = 1..Len(s) /\ Len(s) - 1 \in Nat
  OBVIOUS
<1>2. \A j \in 1..Len(s) - 1 : (IF j = i THEN s[Len(s)] ELSE s[j]) \in Node
  BY <1>1
<1> QED
  BY <1>1, <1>2, IsASeq DEF Unhooked

\* Hashmap_set adds a node to the table and nothing else.
LEMMA SetProperties ==
  ASSUME NEW t \in Table, NEW n \in Name, NEW v \in Value, Placed(t)
  PROVE  /\ Hashmap_set(t, n, v) \in Table
         /\ Placed(Hashmap_set(t, n, v))
         /\ Nodes(Hashmap_set(t, n, v)) = Nodes(t) \union {[key |-> n, data |-> v]}
         /\ Keys(Hashmap_set(t, n, v)) = Keys(t) \union {n}
         /\ Once(t) /\ n \notin Keys(t) => Once(Hashmap_set(t, n, v))
<1> DEFINE e == Hashmap_set(t, n, v)
           new == [key |-> n, data |-> v]
           s == t[BucketOf[n]]
<1>1. BucketOf[n] \in Bucket /\ new \in Node /\ s \in Seq(Node) /\ new.key = n
  BY SlotsAssumption DEF Table, Node
<1>2. /\ e \in Table
      /\ e[BucketOf[n]] = Append(s, new)
      /\ \A b \in Bucket \ {BucketOf[n]} : e[b] = t[b]
  BY <1>1 DEF Hashmap_set, Table
<1>3. /\ DOMAIN s = 1..Len(s) /\ Len(s) \in Nat
      /\ DOMAIN Append(s, new) = 1..Len(s) + 1
      /\ \A i \in 1..Len(s) : Append(s, new)[i] = s[i]
      /\ Append(s, new)[Len(s) + 1] = new
  BY <1>1
<1> HIDE DEF e, new, s
<1>4. Placed(e)
  <2> SUFFICES ASSUME NEW b \in Bucket, NEW i \in DOMAIN e[b] PROVE BucketOf[e[b][i].key] = b
    BY DEF Placed
  <2>1. CASE b = BucketOf[n]
    <3>1. CASE i = Len(s) + 1
      BY <1>1, <1>2, <1>3, <2>1, <3>1
    <3>2. CASE i \in 1..Len(s)
      BY <1>2, <1>3, <2>1, <3>2 DEF Placed, s
    <3> QED
      BY <1>2, <1>3, <2>1, <3>1, <3>2
  <2>2. CASE b # BucketOf[n]
    BY <1>2, <2>2 DEF Placed
  <2> QED
    BY <2>1, <2>2
<1>5. Nodes(e) = Nodes(t) \union {new}
  <2>1. ASSUME NEW b \in Bucket, NEW i \in DOMAIN e[b] PROVE e[b][i] \in Nodes(t) \union {new}
    <3>1. CASE b = BucketOf[n]
      <4>1. i \in 1..Len(s) => e[b][i] \in Nodes(t)
        BY <1>1, <1>2, <1>3, <3>1 DEF Nodes, s
      <4> QED
        BY <1>2, <1>3, <3>1, <4>1
    <3>2. CASE b # BucketOf[n]
      BY <1>2, <3>2 DEF Nodes
    <3> QED
      BY <3>1, <3>2
  <2>2. ASSUME NEW b \in Bucket, NEW i \in DOMAIN t[b] PROVE t[b][i] \in Nodes(e)
    <3>1. i \in DOMAIN e[b] /\ e[b][i] = t[b][i]
      BY <1>2, <1>3 DEF s
    <3> QED
      BY <3>1 DEF Nodes
  <2>3. new \in Nodes(e)
    <3>1. Len(s) + 1 \in DOMAIN e[BucketOf[n]] /\ e[BucketOf[n]][Len(s) + 1] = new
      BY <1>2, <1>3
    <3> QED
      BY <1>1, <3>1 DEF Nodes
  <2>4. Nodes(e) \subseteq Nodes(t) \union {new}
    BY <2>1 DEF Nodes
  <2>5. Nodes(t) \subseteq Nodes(e)
    BY <2>2 DEF Nodes
  <2> QED
    BY <2>3, <2>4, <2>5
<1>6. Keys(e) = Keys(t) \union {n}
  BY <1>1, <1>5 DEF Keys
<1>7. ASSUME Once(t), n \notin Keys(t) PROVE Once(e)
  <2> SUFFICES ASSUME NEW b \in Bucket, NEW i \in DOMAIN e[b], NEW j \in DOMAIN e[b],
                      e[b][i].key = e[b][j].key
               PROVE  i = j
    BY DEF Once
  <2>1. CASE b = BucketOf[n]
    <3>1. \A k \in 1..Len(s) : s[k].key # n
      BY <1>1, <1>3, <1>7 DEF Keys, Nodes, s
    <3>2. \A k, l \in 1..Len(s) : s[k].key = s[l].key => k = l
      BY <1>1, <1>3, <1>7 DEF Once, s
    <3>3. i \in 1..Len(s) + 1 /\ j \in 1..Len(s) + 1
      BY <1>2, <1>3, <2>1
    <3>4. \A k \in 1..Len(s) + 1 : e[b][k].key = IF k = Len(s) + 1 THEN n ELSE s[k].key
      BY <1>1, <1>2, <1>3, <2>1
    <3> QED
      BY <1>3, <3>1, <3>2, <3>3, <3>4
  <2>2. CASE b # BucketOf[n]
    BY <1>2, <1>7, <2>2 DEF Once
  <2> QED
    BY <2>1, <2>2
<1> QED
  BY <1>2, <1>4, <1>5, <1>6, <1>7 DEF e, new

\* Hashmap_delete takes at most one node out, a node of the key, wherever it puts the
\* others of the bucket; if a key has one node, none of the deleted key is left.
LEMMA DeleteProperties ==
  ASSUME NEW t \in Table, NEW n \in Name, Placed(t)
  PROVE  LET d == Hashmap_delete(t, n)
         IN  /\ d \in Table
             /\ Placed(d)
             /\ Nodes(d) \subseteq Nodes(t)
             /\ \A node \in Nodes(t) : node.key # n => node \in Nodes(d)
             /\ Once(t) => Once(d) /\ n \notin Keys(d)
<1> DEFINE d == Hashmap_delete(t, n)
           s == t[BucketOf[n]]
           i == Hashmap_get_node(s, n)
           L == Len(s)
<1>1. BucketOf[n] \in Bucket /\ s \in Seq(Node)
  BY SlotsAssumption DEF Table
<1>2. IF \E j \in DOMAIN s : s[j].key = n THEN i \in DOMAIN s /\ s[i].key = n ELSE i = 0
  BY <1>1, GetNode
<1>3. DOMAIN s = 1..L /\ L \in Nat
  BY <1>1
<1>4. \A b \in Bucket : \A j \in DOMAIN t[b] : t[b][j].key = n => b = BucketOf[n]
  BY DEF Placed
<1>5. CASE i = 0
  <2>1. d = t
    BY <1>5 DEF Hashmap_delete, Hashmap_find_bucket
  <2>2. n \notin Keys(t)
    BY <1>1, <1>2, <1>3, <1>4, <1>5 DEF Keys, Nodes
  <2> QED
    BY <2>1, <2>2
<1>6. CASE i # 0
  <2>1. i \in 1..L /\ s[i].key = n
    BY <1>2, <1>3, <1>6
  <2>3. d = [t EXCEPT ![BucketOf[n]] = Unhooked(s, i)]
    BY <1>6 DEF Hashmap_delete, Hashmap_find_bucket
  <2> HIDE DEF d, i
  <2> DEFINE u == Unhooked(s, i)
  <2>2. /\ u \in Seq(Node)
        /\ DOMAIN u = 1..L - 1
        /\ \A j \in 1..L - 1 : u[j] = IF j = i THEN s[L] ELSE s[j]
    <3>1. i \in DOMAIN s
      BY <1>3, <2>1
    <3> QED
      BY <1>1, <3>1, UnhookedProperties
  <2> HIDE DEF u
  <2>4. /\ d \in Table
        /\ d[BucketOf[n]] = u
        /\ \A b \in Bucket \ {BucketOf[n]} : d[b] = t[b]
    BY <1>1, <2>2, <2>3 DEF Table, u
  <2>5. ASSUME NEW b \in Bucket, NEW j \in DOMAIN d[b]
        PROVE  \E k \in DOMAIN t[b] : d[b][j] = t[b][k]
    <3>1. CASE b = BucketOf[n]
      BY <1>3, <2>1, <2>2, <2>4, <3>1
    <3> QED
      BY <2>4, <3>1
  <2>6. Placed(d)
    BY <2>5 DEF Placed
  <2>7. Nodes(d) \subseteq Nodes(t)
    BY <2>5 DEF Nodes
  <2>8. ASSUME NEW node \in Nodes(t), node.key # n PROVE node \in Nodes(d)
    <3>1. PICK b \in Bucket : \E j \in DOMAIN t[b] : node = t[b][j]
      BY DEF Nodes
    <3>2. PICK j \in DOMAIN t[b] : node = t[b][j]
      BY <3>1
    <3>3. CASE b = BucketOf[n]
      <4>1. j \in 1..L /\ node = s[j] /\ j # i
        BY <1>3, <2>1, <2>8, <3>2, <3>3
      <4>2. CASE j = L
        <5>1. i \in 1..L - 1 /\ u[i] = s[L]
          BY <1>3, <2>1, <2>2, <4>1, <4>2
        <5>2. i \in DOMAIN d[BucketOf[n]] /\ d[BucketOf[n]][i] = node
          BY <2>2, <2>4, <4>1, <4>2, <5>1
        <5> QED
          BY <1>1, <5>2 DEF Nodes
      <4>3. CASE j # L
        <5>1. j \in 1..L - 1 /\ u[j] = s[j]
          BY <1>3, <2>2, <4>1, <4>3
        <5>2. j \in DOMAIN d[BucketOf[n]] /\ d[BucketOf[n]][j] = node
          BY <2>2, <2>4, <4>1, <5>1
        <5> QED
          BY <1>1, <5>2 DEF Nodes
      <4> QED
        BY <4>2, <4>3
    <3>4. CASE b # BucketOf[n]
      BY <2>4, <3>2, <3>4 DEF Nodes
    <3> QED
      BY <3>3, <3>4
  <2>9. ASSUME Once(t) PROVE Once(d) /\ n \notin Keys(d)
    <3>1. \A j, k \in 1..L : s[j].key = s[k].key => j = k
      BY <1>1, <1>3, <2>9 DEF Once
    <3>2. \A j, k \in 1..L - 1 : u[j].key = u[k].key => j = k
      <4> SUFFICES ASSUME NEW j \in 1..L - 1, NEW k \in 1..L - 1, u[j].key = u[k].key
                   PROVE  j = k
        OBVIOUS
      <4>1. \A x \in 1..L - 1 : x \in 1..L /\ x # L /\ L \in 1..L
        BY <1>3
      <4>2. CASE j = i /\ k # i
        <5>1. s[L].key = s[k].key
          BY <2>2, <4>2
        <5> QED
          BY <3>1, <4>1, <5>1
      <4>3. CASE j # i /\ k = i
        <5>1. s[j].key = s[L].key
          BY <2>2, <4>3
        <5> QED
          BY <3>1, <4>1, <5>1
      <4>4. CASE j # i /\ k # i
        <5>1. s[j].key = s[k].key
          BY <2>2, <4>4
        <5> QED
          BY <3>1, <4>1, <5>1
      <4> QED
        BY <4>2, <4>3, <4>4
    <3>3. Once(d)
      BY <2>2, <2>4, <2>9, <3>2 DEF Once
    <3>4. \A j \in 1..L - 1 : u[j].key # n
      <4> SUFFICES ASSUME NEW j \in 1..L - 1, u[j].key = n PROVE FALSE
        OBVIOUS
      <4>1. CASE j = i
        <5>1. s[L].key = s[i].key
          BY <2>1, <2>2, <4>1
        <5> QED
          BY <1>3, <2>1, <3>1, <4>1, <5>1
      <4>2. CASE j # i
        <5>1. s[j].key = s[i].key
          BY <2>1, <2>2, <4>2
        <5> QED
          BY <1>3, <2>1, <3>1, <4>2, <5>1
      <4> QED
        BY <4>1, <4>2
    <3>5. ASSUME NEW b \in Bucket, NEW j \in DOMAIN d[b] PROVE d[b][j].key # n
      <4>1. CASE b = BucketOf[n]
        BY <2>2, <2>4, <3>4, <4>1
      <4>2. CASE b # BucketOf[n]
        BY <1>4, <2>4, <4>2
      <4> QED
        BY <4>1, <4>2
    <3> QED
      BY <3>3, <3>5 DEF Keys, Nodes
  <2> QED
    BY <2>4, <2>6, <2>7, <2>8, <2>9 DEF d
<1> QED
  BY <1>5, <1>6

\* What Value_set makes of a table: the value of the name is replaced, or the name added.
LEMMA ReplaceProperties ==
  ASSUME NEW t \in Table, NEW n \in Name, NEW v \in Value, Placed(t)
  PROVE  LET e == Hashmap_set(Hashmap_delete(t, n), n, v)
         IN  /\ e \in Table
             /\ Placed(e)
             /\ Keys(e) = Keys(t) \union {n}
             /\ Once(t) =>
                  /\ Once(e)
                  /\ \A node \in Nodes(e) : node.key = n => node.data = v
                  /\ \A node \in Nodes(e) : node.key # n => node \in Nodes(t)
                  /\ \A node \in Nodes(t) : node.key # n => node \in Nodes(e)
<1> DEFINE d == Hashmap_delete(t, n)
           e == Hashmap_set(d, n, v)
           new == [key |-> n, data |-> v]
<1>1. /\ d \in Table
      /\ Placed(d)
      /\ Nodes(d) \subseteq Nodes(t)
      /\ \A node \in Nodes(t) : node.key # n => node \in Nodes(d)
      /\ Once(t) => Once(d) /\ n \notin Keys(d)
  BY DeleteProperties
<1> HIDE DEF d
<1>2. /\ e \in Table
      /\ Placed(e)
      /\ Nodes(e) = Nodes(d) \union {new}
      /\ Keys(e) = Keys(d) \union {n}
      /\ Once(d) /\ n \notin Keys(d) => Once(e)
  BY <1>1, SetProperties
<1> HIDE DEF e
<1>3. Keys(d) \union {n} = Keys(t) \union {n}
  BY <1>1 DEF Keys
<1>4. ASSUME Once(t), NEW node \in Nodes(e)
      PROVE  /\ node.key = n => node.data = v
             /\ node.key # n => node \in Nodes(t)
  <2>1. node \in Nodes(d) => node.key # n
    BY <1>1, <1>4 DEF Keys
  <2> QED
    BY <1>1, <1>2, <2>1
<1> QED
  BY <1>1, <1>2, <1>3, <1>4 DEF d, e

\* Hashmap_get finds each node of a table where every key is once, in its bucket.
LEMMA GetProperties ==
  ASSUME NEW t \in Table, Placed(t), Once(t), NEW node \in Nodes(t)
  PROVE  Hashmap_get(t, node.key) = node.data
<1>1. PICK b \in Bucket : \E i \in DOMAIN t[b] : node = t[b][i]
  BY DEF Nodes
<1>2. PICK i \in DOMAIN t[b] : node = t[b][i]
  BY <1>1
<1>3. t[b] \in Seq(Node) /\ node.key \in Name /\ b = BucketOf[node.key]
  <2>1. t[b] \in Seq(Node)
    BY DEF Table
  <2>2. t[b][i] \in Node
    BY <2>1
  <2> QED
    BY <1>2, <2>1, <2>2 DEF Placed, Node
<1> DEFINE k == Hashmap_get_node(t[b], node.key)
<1>4. k \in DOMAIN t[b] /\ t[b][k].key = node.key
  BY <1>2, <1>3, GetNode
<1> HIDE DEF k
<1>5. k = i
  BY <1>2, <1>4 DEF Once
<1>6. k # 0
  BY <1>3, <1>4
<1>7. Hashmap_get(t, node.key) = IF k = 0 THEN NULL ELSE t[b][k].data
  BY <1>3 DEF Hashmap_get, Hashmap_find_bucket, k
<1> QED
  BY <1>2, <1>5, <1>6, <1>7
------------------------------------------------------------------------------
(***************************************************************************)
(* The inductive invariant                                                 *)
(***************************************************************************)
\* An object that is not allocated has no slots.
DeadEmpty ==
    \A o \in Object \ live : table[o] = EmptyTable /\ fields[o] = << >> /\ made[o] = << >>

Tables == \A o \in live : Placed(table[o]) /\ (Single(o) => Once(table[o]))

\* While Value_set allocates, nothing else of the slots goes on, and what it has set is
\* the value that it protects.
PendingOK ==
    pending # NULL =>
      /\ pending.of \in live
      /\ filling = NULL
      /\ Single(pending.of) =>
           \A node \in Nodes(table[pending.of]) :
             node.key = pending.name => node.data \in pending.protected

\* The pairs that Map_new has come to are in the table.
FillingOK ==
    filling # NULL =>
      /\ filling.of \in live
      /\ filling.next \in 1..Len(made[filling.of])
      /\ Fields(filling.of) = {NameIn(filling.of, i) : i \in 1..filling.next - 1}

\* A Value_each has been called for the fields up to its index, and its object is in use.
LoopsOK ==
    \A l \in DOMAIN loops :
      /\ loops[l].of \in live
      /\ loops[l].index \in 1..Len(fields[loops[l].of])
      /\ loops[l].seen = {fields[loops[l].of][i] : i \in 1..loops[l].index}

IInv ==
    /\ TypeOK
    /\ DeadEmpty
    /\ Tables
    /\ FieldsAgree
    /\ PendingOK
    /\ FillingOK
    /\ LoopsOK

LEMMA InitInv == Init => IInv
<1> SUFFICES ASSUME Init PROVE IInv
  OBVIOUS
<1>1. EmptyTable \in Table
  BY DEF EmptyTable, Table
<1> QED
  BY <1>1 DEF Init, IInv, TypeOK, Table, DeadEmpty, Tables, FieldsAgree, PendingOK, FillingOK,
              LoopsOK

\* A field is pushed: the loops that go over the fields are where they were.
LEMMA PushedField ==
  ASSUME TypeOK, LoopsOK, NEW o \in live, NEW n \in Name,
         fields' = [fields EXCEPT ![o] = Append(@, n)],
         live' = live, loops' = loops
  PROVE  /\ fields' \in [Object -> Seq(Name)]
         /\ Fields(o)' = Fields(o) \union {n}
         /\ \A p \in Object \ {o} : fields'[p] = fields[p]
         /\ LoopsOK'
<1>1. fields \in [Object -> Seq(Name)] /\ o \in Object /\ fields[o] \in Seq(Name)
  BY DEF TypeOK
<1>2. /\ Append(fields[o], n) \in Seq(Name)
      /\ Len(fields[o]) \in Nat
      /\ DOMAIN fields[o] = 1..Len(fields[o])
      /\ Len(Append(fields[o], n)) = Len(fields[o]) + 1
      /\ DOMAIN Append(fields[o], n) = 1..Len(fields[o]) + 1
      /\ \A i \in 1..Len(fields[o]) : Append(fields[o], n)[i] = fields[o][i]
      /\ Append(fields[o], n)[Len(fields[o]) + 1] = n
  BY <1>1
<1>3. /\ fields' \in [Object -> Seq(Name)]
      /\ fields'[o] = Append(fields[o], n)
      /\ \A p \in Object \ {o} : fields'[p] = fields[p]
  BY <1>1, <1>2
<1>4. Fields(o)' = Fields(o) \union {n}
  BY <1>2, <1>3 DEF Fields
<1>5. LoopsOK'
  <2> SUFFICES ASSUME NEW l \in DOMAIN loops
               PROVE  /\ loops[l].index \in 1..Len(fields'[loops[l].of])
                      /\ loops[l].seen = {fields'[loops[l].of][i] : i \in 1..loops[l].index}
    BY DEF LoopsOK
  <2>1. CASE loops[l].of = o
    <3>1. /\ loops[l].index \in 1..Len(fields[o])
          /\ loops[l].seen = {fields[o][i] : i \in 1..loops[l].index}
      BY <2>1 DEF LoopsOK
    <3>2. \A i \in 1..loops[l].index : fields'[o][i] = fields[o][i]
      BY <1>2, <1>3, <3>1
    <3> QED
      BY <1>2, <1>3, <2>1, <3>1, <3>2
  <2>2. CASE loops[l].of # o
    <3>1. live \subseteq Object
      BY DEF TypeOK
    <3>2. /\ loops[l].of \in live
          /\ loops[l].index \in 1..Len(fields[loops[l].of])
          /\ loops[l].seen = {fields[loops[l].of][i] : i \in 1..loops[l].index}
      BY DEF LoopsOK
    <3>3. fields'[loops[l].of] = fields[loops[l].of]
      BY <1>3, <2>2, <3>1, <3>2
    <3> QED
      BY <3>2, <3>3
  <2> QED
    BY <2>1, <2>2
<1> QED
  BY <1>3, <1>4, <1>5

LEMMA ValueNewKeeps ==
  ASSUME IInv, NEW o \in Object, NEW literal \in Literal \union {<< >>}, Value_new(o, literal)
  PROVE  IInv'
<1> USE DEF IInv
<1>1. literal \in Seq(Name \X Value) /\ o \in Object \ live /\ pending = NULL
  <2>1. << >> \in Seq(Name \X Value)
    OBVIOUS
  <2>2. literal \in Seq(Name \X Value)
    BY <2>1, SlotsAssumption
  <2> QED
    BY <2>2 DEF Value_new, Idle
<1>2. made' \in [Object -> Seq(Name \X Value)] /\ made'[o] = literal
      /\ \A p \in live : made'[p] = made[p]
  BY <1>1 DEF Value_new, TypeOK
<1>3. table[o] = EmptyTable /\ fields[o] = << >>
  BY <1>1 DEF DeadEmpty
<1>4. Placed(EmptyTable) /\ Once(EmptyTable) /\ Keys(EmptyTable) = {}
  BY DEF Placed, Once, Keys, Nodes, EmptyTable
<1>5. TypeOK'
  <2>1. filling' \in [of : Object, next : Nat] \union {NULL}
    BY DEF Value_new
  <2> QED
    BY <1>2, <2>1 DEF Value_new, TypeOK
<1>6. DeadEmpty'
  BY DEF DeadEmpty, Value_new, TypeOK
<1>7. Tables'
  <2> SUFFICES ASSUME NEW p \in live' PROVE Placed(table[p]) /\ (Single(p)' => Once(table[p]))
    BY DEF Tables, Value_new
  <2>1. CASE p = o
    BY <1>3, <1>4, <2>1
  <2>2. CASE p \in live
    BY <1>2, <2>2 DEF Tables, Single, NameIn
  <2> QED
    BY <2>1, <2>2 DEF Value_new
<1>8. FieldsAgree'
  BY <1>1, <1>3, <1>4 DEF FieldsAgree, Fields, PendingOf, Value_new
<1>9. FillingOK'
  <2>1. CASE literal = << >>
    BY <2>1 DEF FillingOK, Value_new
  <2>2. CASE literal # << >>
    <3>1. filling' = [of |-> o, next |-> 1] /\ o \in live' /\ fields' = fields
      BY <2>2 DEF Value_new
    <3>2. 1 \in 1..Len(literal)
      BY <1>1, <2>2
    <3>3. Fields(o)' = {} /\ 1..(1 - 1) = {}
      BY <1>3, <3>1 DEF Fields
    <3> QED
      BY <1>2, <3>1, <3>2, <3>3 DEF FillingOK
  <2> QED
    BY <2>1, <2>2
<1> QED
  BY <1>1, <1>5, <1>6, <1>7, <1>8, <1>9 DEF PendingOK, LoopsOK, Value_new

LEMMA MapNewKeeps == IInv /\ Map_new => IInv'
<1> SUFFICES ASSUME IInv, Map_new PROVE IInv'
  OBVIOUS
<1> USE DEF IInv
<1>1. PICK o \in live, next \in Nat :
        /\ filling = [of |-> o, next |-> next]
        /\ o \in Object
        /\ next \in 1..Len(made[o])
        /\ Fields(o) = {NameIn(o, i) : i \in 1..next - 1}
        /\ pending = NULL
  <2>1. filling \in [of : Object, next : Nat] /\ filling.of \in live /\ filling.next \in Nat
    BY DEF Map_new, FillingOK, TypeOK
  <2>2. filling = [of |-> filling.of, next |-> filling.next]
    BY <2>1
  <2>3. /\ filling.of \in Object
        /\ filling.next \in 1..Len(made[filling.of])
        /\ Fields(filling.of) = {NameIn(filling.of, i) : i \in 1..filling.next - 1}
        /\ pending = NULL
    BY <2>1 DEF Map_new, FillingOK, PendingOK, TypeOK
  <2> QED
    BY <2>1, <2>2, <2>3
<1>2. PICK n \in Name, v \in Value :
        /\ n = made[o][next][1]
        /\ v = made[o][next][2]
        /\ Len(made[o]) \in Nat
        /\ DOMAIN made[o] = 1..Len(made[o])
  <2>1. made[o] \in Seq(Name \X Value)
    BY <1>1 DEF TypeOK
  <2>2. made[o][next] \in Name \X Value
    BY <1>1, <2>1
  <2> QED
    BY <2>1, <2>2
<1>3. /\ table \in [Object -> Table]
      /\ table[o] \in Table
      /\ Placed(table[o])
      /\ Keys(table[o]) = Fields(o)
  BY <1>1 DEF TypeOK, Tables, FieldsAgree, PendingOf, Table
<1>4. /\ fields' = [fields EXCEPT ![o] = Append(@, n)]
      /\ table' = [table EXCEPT ![o] = Hashmap_set(@, n, v)]
      /\ filling' = IF next = Len(made[o]) THEN NULL ELSE [filling EXCEPT !.next = @ + 1]
      /\ UNCHANGED <<live, made, pending, loops>>
  BY <1>1, <1>2 DEF Map_new
<1>5. NameIn(o, next) = n
  BY <1>2 DEF NameIn
<1> DEFINE e == Hashmap_set(table[o], n, v)
<1> HIDE DEF e
<1>6. /\ e \in Table
      /\ Placed(e)
      /\ Keys(e) = Keys(table[o]) \union {n}
      /\ Once(table[o]) /\ n \notin Keys(table[o]) => Once(e)
  BY <1>2, <1>3, SetProperties DEF e
<1>7. /\ table' \in [Object -> Table]
      /\ table'[o] = e
      /\ \A p \in Object \ {o} : table'[p] = table[p]
  BY <1>1, <1>3, <1>4, <1>6 DEF e
<1>8. /\ fields' \in [Object -> Seq(Name)]
      /\ Fields(o)' = Fields(o) \union {n}
      /\ \A p \in Object \ {o} : fields'[p] = fields[p]
      /\ LoopsOK'
  BY <1>1, <1>2, <1>4, PushedField
<1>9. filling' \in [of : Object, next : Nat] \union {NULL}
  BY <1>1, <1>4
<1>10. TypeOK'
  BY <1>4, <1>7, <1>8, <1>9 DEF TypeOK, Table
<1>11. DeadEmpty'
  BY <1>1, <1>4, <1>7, <1>8 DEF DeadEmpty
<1>12. Single(o) => n \notin Keys(table[o])
  BY <1>1, <1>2, <1>3, <1>5 DEF Single
<1>13. Tables'
  <2> SUFFICES ASSUME NEW p \in live PROVE Placed(table'[p]) /\ (Single(p) => Once(table'[p]))
    BY <1>4 DEF Tables, Single, NameIn
  <2>1. CASE p = o
    BY <1>1, <1>6, <1>7, <1>12, <2>1 DEF Tables
  <2>2. CASE p # o
    BY <1>7, <2>2 DEF Tables, TypeOK
  <2> QED
    BY <2>1, <2>2
<1>14. FieldsAgree'
  <2> SUFFICES ASSUME NEW p \in live
               PROVE  Keys(table'[p]) = Fields(p)' \union PendingOf(p)'
    BY <1>4 DEF FieldsAgree
  <2>1. PendingOf(p) = {} /\ PendingOf(p)' = {}
    BY <1>1, <1>4 DEF PendingOf
  <2>2. CASE p = o
    BY <1>3, <1>6, <1>7, <1>8, <2>1, <2>2
  <2>3. CASE p # o
    <3>1. p \in Object /\ table'[p] = table[p] /\ fields'[p] = fields[p]
      BY <1>7, <1>8, <2>3 DEF TypeOK
    <3>2. Fields(p)' = Fields(p)
      BY <3>1 DEF Fields
    <3> QED
      BY <2>1, <3>1, <3>2 DEF FieldsAgree
  <2> QED
    BY <2>2, <2>3
<1>15. FillingOK'
  <2>1. CASE next = Len(made[o])
    BY <1>4, <2>1 DEF FillingOK
  <2>2. CASE next # Len(made[o])
    <3>1. filling' = [of |-> o, next |-> next + 1]
      BY <1>1, <1>4, <2>2
    <3>2. next + 1 \in 1..Len(made[o]) /\ 1..(next + 1) - 1 = (1..next - 1) \union {next}
      BY <1>1, <1>2, <2>2
    <3>3. Fields(o)' = {NameIn(o, i) : i \in 1..(next + 1) - 1}
      BY <1>1, <1>5, <1>8, <3>2
    <3>4. o \in live' /\ made' = made /\ filling'.of = o /\ filling'.next = next + 1
      BY <1>1, <1>4, <3>1
    <3>5. Fields(filling.of)' = Fields(o)'
      BY <3>4 DEF Fields
    <3> QED
      BY <3>2, <3>3, <3>4, <3>5 DEF FillingOK, NameIn
  <2> QED
    BY <2>1, <2>2
<1>16. PendingOK'
  BY <1>1, <1>4 DEF PendingOK
<1> QED
  BY <1>8, <1>10, <1>11, <1>13, <1>14, <1>15, <1>16

LEMMA ValueSetKeeps ==
  ASSUME IInv, NEW o \in Object, NEW n \in Name, NEW v \in Value, Value_set(o, n, v)
  PROVE  IInv'
<1> USE DEF IInv
<1> DEFINE e == Hashmap_set(Hashmap_delete(table[o], n), n, v)
<1>1. /\ o \in live /\ pending = NULL /\ filling = NULL
      /\ table' = [table EXCEPT ![o] = e]
      /\ pending' = [of |-> o, name |-> n, protected |-> {v}]
      /\ UNCHANGED <<live, fields, made, filling, loops>>
  BY DEF Value_set, Idle
<1>2. /\ table \in [Object -> Table]
      /\ table[o] \in Table
      /\ Placed(table[o])
      /\ Keys(table[o]) = Fields(o)
  BY <1>1 DEF TypeOK, Tables, FieldsAgree, PendingOf, Table
<1> HIDE DEF e
<1>3. /\ e \in Table
      /\ Placed(e)
      /\ Keys(e) = Keys(table[o]) \union {n}
      /\ Once(table[o]) => Once(e) /\ \A node \in Nodes(e) : node.key = n => node.data = v
  BY <1>2, ReplaceProperties DEF e
<1>4. /\ table' \in [Object -> Table]
      /\ table'[o] = e
      /\ \A p \in Object \ {o} : table'[p] = table[p]
  BY <1>1, <1>2, <1>3
<1>5. pending' \in [of : Object, name : Name, protected : SUBSET Value] /\ pending' # NULL
  BY <1>1, SlotsAssumption
<1>6. TypeOK'
  BY <1>1, <1>4, <1>5 DEF TypeOK, Table
<1>7. DeadEmpty'
  BY <1>1, <1>4 DEF DeadEmpty
<1>8. Tables'
  <2> SUFFICES ASSUME NEW p \in live PROVE Placed(table'[p]) /\ (Single(p) => Once(table'[p]))
    BY <1>1 DEF Tables, Single, NameIn
  <2>1. CASE p = o
    BY <1>3, <1>4, <2>1 DEF Tables
  <2>2. CASE p # o
    BY <1>4, <2>2 DEF Tables, TypeOK
  <2> QED
    BY <2>1, <2>2
<1>9. FieldsAgree'
  <2> SUFFICES ASSUME NEW p \in live
               PROVE  Keys(table'[p]) = Fields(p) \union PendingOf(p)'
    BY <1>1 DEF FieldsAgree, Fields
  <2>1. CASE p = o
    BY <1>1, <1>2, <1>3, <1>4, <1>5, <2>1 DEF PendingOf
  <2>2. CASE p # o
    BY <1>1, <1>4, <2>2 DEF PendingOf, FieldsAgree, TypeOK
  <2> QED
    BY <2>1, <2>2
<1>10. PendingOK'
  <2>1. pending'.of = o /\ pending'.name = n /\ pending'.protected = {v}
    BY <1>1
  <2>2. Single(o)' = Single(o)
    BY <1>1 DEF Single, NameIn
  <2>3. Single(o) => \A node \in Nodes(table'[o]) : node.key = n => node.data \in {v}
    BY <1>1, <1>3, <1>4 DEF Tables
  <2>4. Single(pending.of)' = Single(o)
    BY <2>1, <2>2 DEF Single, NameIn
  <2> QED
    BY <1>1, <2>1, <2>3, <2>4 DEF PendingOK
<1> QED
  BY <1>1, <1>6, <1>7, <1>8, <1>9, <1>10 DEF FillingOK, LoopsOK

LEMMA PushFieldKeeps == IInv /\ PushField => IInv'
<1> SUFFICES ASSUME IInv, PushField PROVE IInv'
  OBVIOUS
<1> USE DEF IInv
<1>1. PICK o \in live, n \in Name : o \in Object /\ pending.of = o /\ pending.name = n
  BY DEF PushField, PendingOK, TypeOK
<1>2. /\ fields' = [fields EXCEPT ![o] = Append(@, n)]
      /\ pending # NULL /\ pending' = NULL /\ filling = NULL
      /\ UNCHANGED <<live, table, made, filling, loops>>
  BY <1>1 DEF PushField, PendingOK
<1>3. /\ fields' \in [Object -> Seq(Name)]
      /\ Fields(o)' = Fields(o) \union {n}
      /\ \A p \in Object \ {o} : fields'[p] = fields[p]
      /\ LoopsOK'
  BY <1>1, <1>2, PushedField
<1>4. TypeOK'
  BY <1>2, <1>3 DEF TypeOK
<1>5. DeadEmpty'
  BY <1>1, <1>2, <1>3 DEF DeadEmpty
<1>6. FieldsAgree'
  <2> SUFFICES ASSUME NEW p \in live PROVE Keys(table[p]) = Fields(p)' \union PendingOf(p)'
    BY <1>2 DEF FieldsAgree
  <2>1. PendingOf(p)' = {} /\ (p = o => PendingOf(p) = {n}) /\ (p # o => PendingOf(p) = {})
    BY <1>1, <1>2 DEF PendingOf
  <2>2. CASE p = o
    BY <1>3, <2>1, <2>2 DEF FieldsAgree
  <2>3. CASE p # o
    <3>1. Fields(p)' = Fields(p)
      BY <1>3, <2>3 DEF Fields, TypeOK
    <3> QED
      BY <2>1, <2>3, <3>1 DEF FieldsAgree
  <2> QED
    BY <2>2, <2>3
<1> QED
  BY <1>2, <1>3, <1>4, <1>5, <1>6 DEF Tables, Single, NameIn, PendingOK, FillingOK

\* Nothing but the loops changes.
LEMMA LoopStep ==
  ASSUME IInv, Idle, UNCHANGED <<live, table, fields, made, pending, filling>>,
         loops' \in Seq([of : Object, index : Nat, first : Nat, seen : SUBSET Name]),
         LoopsOK'
  PROVE  IInv'
<1>1. TypeOK'
  BY DEF IInv, TypeOK
<1>2. DeadEmpty' /\ Tables'
  BY DEF IInv, DeadEmpty, Tables, Single, NameIn
<1>3. FieldsAgree'
  BY DEF IInv, FieldsAgree, Fields, PendingOf
<1>4. PendingOK' /\ FillingOK'
  BY DEF Idle, PendingOK, FillingOK
<1> QED
  BY <1>1, <1>2, <1>3, <1>4 DEF IInv

LEMMA ValueEachKeeps ==
  ASSUME IInv, NEW o \in Object, Value_each(o)
  PROVE  IInv'
<1> DEFINE new == [of |-> o, index |-> 1, first |-> Len(fields[o]),
                   seen |-> {} \union {fields[o][1]}]
           Loop == [of : Object, index : Nat, first : Nat, seen : SUBSET Name]
<1>1. /\ Idle /\ o \in live /\ fields[o] # << >>
      /\ loops' = Append(loops, new)
      /\ UNCHANGED <<live, table, fields, made, pending, filling>>
  BY DEF Value_each, Round
<1>2. fields[o] \in Seq(Name) /\ loops \in Seq(Loop)
  BY DEF IInv, TypeOK
<1>3. fields[o][1] \in Name /\ Len(fields[o]) \in Nat /\ 1 \in 1..Len(fields[o])
  BY <1>1, <1>2
<1>4. new \in Loop
  BY <1>3
<1>5. new.of = o /\ new.index = 1 /\ new.seen = {fields[o][i] : i \in 1..new.index}
  OBVIOUS
<1> HIDE DEF new, Loop
<1>6. /\ Append(loops, new) \in Seq(Loop)
      /\ DOMAIN Append(loops, new) = DOMAIN loops \union {Len(loops) + 1}
      /\ \A l \in DOMAIN loops : Append(loops, new)[l] = loops[l]
      /\ Append(loops, new)[Len(loops) + 1] = new
  BY <1>2, <1>4
<1>7. LoopsOK'
  <2> SUFFICES ASSUME NEW l \in DOMAIN loops'
               PROVE  /\ loops'[l].of \in live
                      /\ loops'[l].index \in 1..Len(fields[loops'[l].of])
                      /\ loops'[l].seen = {fields[loops'[l].of][i] : i \in 1..loops'[l].index}
    BY <1>1 DEF LoopsOK
  <2>1. CASE l \in DOMAIN loops
    <3>1. loops'[l] = loops[l]
      BY <1>1, <1>6, <2>1
    <3> QED
      BY <2>1, <3>1 DEF IInv, LoopsOK
  <2>2. CASE l = Len(loops) + 1
    <3>1. loops'[l] = new
      BY <1>1, <1>6, <2>2
    <3> QED
      BY <1>1, <1>3, <1>5, <3>1
  <2> QED
    BY <1>1, <1>6, <2>1, <2>2
<1> QED
  BY <1>1, <1>6, <1>7, LoopStep DEF Loop

\* The innermost loop is one of the loops.
LEMMA InnerLoop ==
  ASSUME IInv, loops # << >>
  PROVE  /\ Len(loops) \in DOMAIN loops
         /\ Inner \in [of : Object, index : Nat, first : Nat, seen : SUBSET Name]
         /\ Inner.of \in live
         /\ Inner.index \in 1..Len(fields[Inner.of])
         /\ Inner.seen = {fields[Inner.of][i] : i \in 1..Inner.index}
         /\ fields[Inner.of] \in Seq(Name)
<1> DEFINE Loop == [of : Object, index : Nat, first : Nat, seen : SUBSET Name]
<1>1. loops \in Seq(Loop) /\ live \subseteq Object /\ fields \in [Object -> Seq(Name)]
  BY DEF IInv, TypeOK
<1> HIDE DEF Loop
<1>2. Len(loops) \in DOMAIN loops /\ Inner \in Loop
  BY <1>1 DEF Inner
<1> QED
  BY <1>1, <1>2 DEF IInv, LoopsOK, Inner, Loop

LEMMA NextRoundKeeps == IInv /\ NextRound => IInv'
<1> SUFFICES ASSUME IInv, NextRound PROVE IInv'
  OBVIOUS
<1> DEFINE Loop == [of : Object, index : Nat, first : Nat, seen : SUBSET Name]
           L == Len(loops)
<1>1. PICK o \in Object, i \in Nat, k \in Nat, seen \in SUBSET Name :
        Inner = [of |-> o, index |-> i, first |-> k, seen |-> seen]
  <2>1. Inner \in Loop
    BY InnerLoop DEF NextRound
  <2>2. Inner = [of |-> Inner.of, index |-> Inner.index, first |-> Inner.first,
                 seen |-> Inner.seen]
    BY <2>1
  <2> QED
    BY <2>1, <2>2
<1> DEFINE in == [of |-> o, index |-> i, first |-> k, seen |-> seen]
           out == [of |-> o, index |-> i + 1, first |-> k,
                   seen |-> seen \union {fields[o][i + 1]}]
<1>2. /\ Idle
      /\ i < Len(fields[o])
      /\ UNCHANGED <<live, table, fields, made, pending, filling>>
  BY <1>1 DEF NextRound, Rounds
<1>3. /\ L \in DOMAIN loops /\ loops[L] = in
      /\ o \in live
      /\ i \in 1..Len(fields[o])
      /\ seen = {fields[o][j] : j \in 1..i}
      /\ fields[o] \in Seq(Name)
  BY <1>1, InnerLoop DEF NextRound, Inner
<1>4. loops \in Seq(Loop)
  BY DEF IInv, TypeOK
<1>5. i + 1 \in 1..Len(fields[o]) /\ fields[o][i + 1] \in Name
  <2>1. i + 1 \in 1..Len(fields[o])
    BY <1>2, <1>3
  <2> QED
    BY <1>3, <2>1
<1>6. out \in Loop
  BY <1>5
<1>7. loops' = [loops EXCEPT ![L] = out]
  BY <1>1 DEF NextRound, Round
<1>8. seen \union {fields[o][i + 1]} = {fields[o][j] : j \in 1..i + 1}
  <2>1. 1..i + 1 = (1..i) \union {i + 1}
    BY <1>3
  <2> QED
    BY <1>3, <2>1
<1>9. /\ out.of = o /\ out.index = i + 1
      /\ out.seen = {fields[o][j] : j \in 1..i + 1}
  BY <1>8
<1> HIDE DEF out, Loop
<1>10. /\ loops' \in Seq(Loop) /\ DOMAIN loops' = DOMAIN loops
       /\ loops'[L] = out /\ \A l \in DOMAIN loops \ {L} : loops'[l] = loops[l]
  BY <1>3, <1>4, <1>6, <1>7
<1>11. LoopsOK'
  <2> SUFFICES ASSUME NEW l \in DOMAIN loops
               PROVE  /\ loops'[l].of \in live
                      /\ loops'[l].index \in 1..Len(fields[loops'[l].of])
                      /\ loops'[l].seen = {fields[loops'[l].of][j] : j \in 1..loops'[l].index}
    <3>1. live' = live /\ fields' = fields /\ DOMAIN loops' = DOMAIN loops
      BY <1>2, <1>10
    <3> QED
      BY <3>1 DEF LoopsOK
  <2>1. CASE l = L
    BY <1>3, <1>5, <1>9, <1>10, <2>1
  <2>2. CASE l # L
    <3>1. loops'[l] = loops[l]
      BY <1>10, <2>2
    <3> QED
      BY <3>1 DEF IInv, LoopsOK
  <2> QED
    BY <2>1, <2>2
<1> QED
  BY <1>2, <1>10, <1>11, LoopStep DEF Loop

LEMMA LastRoundKeeps == IInv /\ LastRound => IInv'
<1> SUFFICES ASSUME IInv, LastRound PROVE IInv'
  OBVIOUS
<1> DEFINE Loop == [of : Object, index : Nat, first : Nat, seen : SUBSET Name]
<1>1. /\ Idle /\ loops # << >>
      /\ loops' = SubSeq(loops, 1, Len(loops) - 1)
      /\ UNCHANGED <<live, table, fields, made, pending, filling>>
  BY DEF LastRound
<1>2. loops \in Seq(Loop)
  BY DEF IInv, TypeOK
<1> HIDE DEF Loop
<1>3. loops' \in Seq(Loop) /\ \A l \in DOMAIN loops' : l \in DOMAIN loops /\ loops'[l] = loops[l]
  BY <1>1, <1>2
<1>4. LoopsOK'
  BY <1>1, <1>3 DEF IInv, LoopsOK
<1> QED
  BY <1>1, <1>3, <1>4, LoopStep DEF Loop

LEMMA ValueDestroyKeeps ==
  ASSUME IInv, NEW o \in Object, Value_destroy(o)
  PROVE  IInv'
<1> USE DEF IInv
<1>1. /\ o \in live /\ (pending # NULL => pending.of # o) /\ filling = NULL
      /\ \A i \in DOMAIN loops : loops[i].of # o
      /\ live' = live \ {o}
      /\ table' = [table EXCEPT ![o] = EmptyTable]
      /\ fields' = [fields EXCEPT ![o] = << >>]
      /\ made' = [made EXCEPT ![o] = << >>]
      /\ UNCHANGED <<pending, filling, loops>>
  BY DEF Value_destroy
<1>2. EmptyTable \in Table /\ << >> \in Seq(Name) /\ << >> \in Seq(Name \X Value)
  BY DEF EmptyTable, Table
<1>3. /\ table' \in [Object -> Table] /\ table'[o] = EmptyTable
      /\ fields' \in [Object -> Seq(Name)] /\ fields'[o] = << >>
      /\ made' \in [Object -> Seq(Name \X Value)] /\ made'[o] = << >>
      /\ \A p \in Object \ {o} :
           table'[p] = table[p] /\ fields'[p] = fields[p] /\ made'[p] = made[p]
  BY <1>1, <1>2 DEF TypeOK, Table
<1>4. TypeOK'
  BY <1>1, <1>3 DEF TypeOK, Table
<1>5. DeadEmpty'
  BY <1>1, <1>3 DEF DeadEmpty
<1>6. ASSUME NEW p \in live'
      PROVE  /\ p \in live /\ p # o /\ p \in Object
             /\ table'[p] = table[p] /\ Fields(p)' = Fields(p) /\ Single(p)' = Single(p)
  BY <1>1, <1>3 DEF Fields, Single, NameIn, TypeOK
<1>7. Tables' /\ FieldsAgree'
  BY <1>1, <1>6 DEF Tables, FieldsAgree, PendingOf
<1>8. PendingOK'
  <2> SUFFICES ASSUME pending # NULL
               PROVE  /\ pending.of \in live'
                      /\ Single(pending.of)' =>
                           \A node \in Nodes(table'[pending.of]) :
                             node.key = pending.name => node.data \in pending.protected
    BY <1>1 DEF PendingOK, Single, NameIn
  <2>1. pending.of \in live'
    BY <1>1 DEF PendingOK
  <2>2. table'[pending.of] = table[pending.of] /\ made'[pending.of] = made[pending.of]
    BY <1>1, <1>3 DEF PendingOK, TypeOK
  <2> QED
    BY <1>1, <2>1, <2>2 DEF PendingOK, Single, NameIn
<1>9. LoopsOK'
  <2> SUFFICES ASSUME NEW l \in DOMAIN loops
               PROVE  /\ loops[l].of \in live'
                      /\ loops[l].index \in 1..Len(fields'[loops[l].of])
                      /\ loops[l].seen = {fields'[loops[l].of][i] : i \in 1..loops[l].index}
    BY <1>1 DEF LoopsOK
  <2>1. loops[l].of \in live /\ loops[l].of # o
    BY <1>1 DEF LoopsOK
  <2>2. fields'[loops[l].of] = fields[loops[l].of]
    BY <1>3, <2>1 DEF TypeOK
  <2> QED
    BY <1>1, <2>1, <2>2 DEF LoopsOK
<1> QED
  BY <1>1, <1>4, <1>5, <1>7, <1>8, <1>9 DEF FillingOK
------------------------------------------------------------------------------
LEMMA NextInv == IInv /\ [Next]_vars => IInv'
<1> SUFFICES ASSUME IInv, [Next]_vars PROVE IInv'
  OBVIOUS
<1>1. CASE Next
  BY <1>1, ValueNewKeeps, MapNewKeeps, ValueSetKeeps, PushFieldKeeps, ValueEachKeeps,
     NextRoundKeeps, LastRoundKeeps, ValueDestroyKeeps DEF Next
<1>2. CASE UNCHANGED vars
  <2>1. TypeOK' /\ DeadEmpty'
    BY <1>2 DEF vars, IInv, TypeOK, DeadEmpty
  <2>2. Tables' /\ FieldsAgree'
    BY <1>2 DEF vars, IInv, Tables, Single, NameIn, FieldsAgree, Fields, PendingOf
  <2>3. PendingOK'
    BY <1>2 DEF vars, IInv, PendingOK, Single, NameIn
  <2>4. FillingOK'
    <3>1. Fields(filling.of)' = Fields(filling.of)
      BY <1>2 DEF vars, Fields
    <3> QED
      BY <1>2, <3>1 DEF vars, IInv, FillingOK, NameIn
  <2>5. LoopsOK'
    BY <1>2 DEF vars, IInv, LoopsOK
  <2> QED
    BY <2>1, <2>2, <2>3, <2>4, <2>5 DEF IInv
<1> QED
  BY <1>1, <1>2

LEMMA Invariance == Spec => []IInv
  BY InitInv, NextInv, PTL DEF Spec

\* hashmap.c: whatever is set and deleted, in any number of buckets and whichever names
\* share one, the nodes of a name are in its bucket and there is one of each name.
THEOREM OneNodePerKey == Spec => [](TypeOK /\ KeysOnce)
<1>1. IInv => TypeOK /\ KeysOnce
  BY DEF IInv, KeysOnce, Tables, Placed, Once
<1> QED
  BY <1>1, Invariance, PTL

\* value.c: the fields of a value name the slots in its table, all of them and no others.
THEOREM FieldsNameSlots == Spec => []FieldsAgree
<1>1. IInv => FieldsAgree
  BY DEF IInv
<1> QED
  BY <1>1, Invariance, PTL

\* gc.c: by looking up the fields the collector comes upon every value in a table, also
\* when it runs in the middle of Value_set.
THEOREM CollectorFindsSlots == Spec => []Traced
<1>1. IInv => Traced
  <2> SUFFICES ASSUME IInv, NEW o \in live, Single(o), NEW node \in Nodes(table[o])
               PROVE  \/ \E n \in Fields(o) : Hashmap_get(table[o], n) = node.data
                      \/ node.data \in ProtectedBy(o)
    BY DEF Traced
  <2>1. table[o] \in Table /\ Placed(table[o]) /\ Once(table[o])
    BY DEF IInv, TypeOK, Tables, Table
  <2>2. Hashmap_get(table[o], node.key) = node.data
    BY <2>1, GetProperties
  <2>3. node.key \in Fields(o) \union PendingOf(o)
    BY DEF IInv, FieldsAgree, Keys
  <2>4. CASE node.key \in PendingOf(o)
    BY <2>4 DEF IInv, PendingOK, PendingOf, ProtectedBy
  <2> QED
    BY <2>2, <2>3, <2>4
<1> QED
  BY <1>1, Invariance, PTL

\* value.c, Value_each: it returns when its block has been called for every slot that the
\* object has by then, however many its block has set.
THEOREM EachVisitsAll == Spec => VisitsAll
<1>1. IInv /\ [Next]_vars => [LastRound => Keys(table[Inner.of]) \subseteq Inner.seen]_vars
  <2> SUFFICES ASSUME IInv, LastRound PROVE Keys(table[Inner.of]) \subseteq Inner.seen
    OBVIOUS
  <2>1. /\ Inner.of \in live
        /\ Inner.index \in 1..Len(fields[Inner.of])
        /\ Inner.seen = {fields[Inner.of][i] : i \in 1..Inner.index}
        /\ fields[Inner.of] \in Seq(Name)
    BY InnerLoop DEF LastRound
  <2>2. Inner.index >= Len(fields[Inner.of]) /\ pending = NULL
    BY DEF LastRound, Rounds, Idle
  <2>3. DOMAIN fields[Inner.of] = 1..Inner.index
    BY <2>1, <2>2
  <2>4. Keys(table[Inner.of]) = Fields(Inner.of)
    BY <2>1, <2>2 DEF IInv, FieldsAgree, PendingOf
  <2> QED
    BY <2>1, <2>3, <2>4 DEF Fields
<1> QED
  BY <1>1, Invariance, PTL DEF Spec, VisitsAll
------------------------------------------------------------------------------
(***************************************************************************)
(* The slots implement the dictionary                                      *)
(***************************************************************************)
\* Two tables with the same nodes, but for those of one key, have the same values.
LEMMA SameValues ==
  ASSUME NEW t \in Table, Placed(t), Once(t), NEW e \in Table, Placed(e), Once(e),
         NEW n \in Name, NEW v \in Value, n \in Keys(e),
         \A node \in Nodes(e) : node.key = n => node.data = v,
         \A node \in Nodes(e) : node.key # n => node \in Nodes(t)
  PROVE  \A m \in Keys(e) : Hashmap_get(e, m) = IF m = n THEN v ELSE Hashmap_get(t, m)
<1> SUFFICES ASSUME NEW m \in Keys(e)
             PROVE  Hashmap_get(e, m) = IF m = n THEN v ELSE Hashmap_get(t, m)
  OBVIOUS
<1>1. PICK node \in Nodes(e) : node.key = m
  BY DEF Keys
<1>2. Hashmap_get(e, m) = node.data
  BY <1>1, GetProperties
<1>3. m # n => Hashmap_get(t, m) = node.data
  BY <1>1, GetProperties
<1> QED
  BY <1>1, <1>2, <1>3

\* The table of one object gets a value for a name.
LEMMA ImplementsPut ==
  ASSUME IInv, NEW o \in live, NEW n \in Name, NEW v \in Value, NEW e \in Table,
         table' = [table EXCEPT ![o] = e], live' = live, made' = made,
         Keys(e) = Keys(table[o]) \union {n},
         Single(o) => \A m \in Keys(e) :
                        Hashmap_get(e, m) = IF m = n THEN v ELSE Hashmap_get(table[o], m)
  PROVE  Abstract!Put(o, n, v) \/ Contents' = Contents
<1> DEFINE D == {p \in live : Single(p)}
           C(t) == [m \in Keys(t) |-> Hashmap_get(t, m)]
<1>1. /\ table'[o] = e /\ \A p \in live \ {o} : table'[p] = table[p]
  BY DEF IInv, TypeOK
<1>2. \A p \in live : Single(p)' = Single(p)
  BY DEF Single, NameIn
<1>3. Contents = [p \in D |-> C(table[p])]
  BY DEF Contents
<1>4. Contents' = [p \in D |-> C(table'[p])]
  BY <1>2 DEF Contents
<1> HIDE DEF D, C
<1>5. CASE o \in D
  <2>1. C(e) = [m \in DOMAIN C(table[o]) \union {n} |-> IF m = n THEN v ELSE C(table[o])[m]]
    BY <1>5 DEF C, D
  <2>2. Contents[o] = C(table[o]) /\ DOMAIN Contents = D
    BY <1>3, <1>5
  <2>3. Contents' = [Contents EXCEPT ![o] = C(e)]
    BY <1>1, <1>3, <1>4, <1>5 DEF D
  <2> QED
    BY <1>5, <2>1, <2>2, <2>3 DEF Abstract!Put
<1>6. CASE o \notin D
  BY <1>1, <1>3, <1>4, <1>6 DEF D
<1> QED
  BY <1>5, <1>6

\* Tables, objects and literals are as they were.
LEMMA SameContents ==
  ASSUME UNCHANGED <<live, table, made>>
  PROVE  Contents' = Contents
BY DEF Contents, Single, NameIn

LEMMA MapNewPuts ==
  ASSUME IInv, Map_new
  PROVE  (\E o \in Object, n \in Name, v \in Value : Abstract!Put(o, n, v)) \/ Contents' = Contents
<1>1. PICK o \in live, next \in Nat :
        /\ filling = [of |-> o, next |-> next]
        /\ o \in Object
        /\ next \in 1..Len(made[o])
        /\ Fields(o) = {NameIn(o, i) : i \in 1..next - 1}
        /\ pending = NULL
  <2>1. filling \in [of : Object, next : Nat] /\ filling.of \in live /\ filling.next \in Nat
    BY DEF IInv, Map_new, FillingOK, TypeOK
  <2>2. filling = [of |-> filling.of, next |-> filling.next]
    BY <2>1
  <2>3. /\ filling.of \in Object
        /\ filling.next \in 1..Len(made[filling.of])
        /\ Fields(filling.of) = {NameIn(filling.of, i) : i \in 1..filling.next - 1}
        /\ pending = NULL
    BY <2>1 DEF IInv, Map_new, FillingOK, PendingOK, TypeOK
  <2> QED
    BY <2>1, <2>2, <2>3
<1>2. PICK n \in Name, v \in Value :
        /\ n = made[o][next][1]
        /\ v = made[o][next][2]
        /\ Len(made[o]) \in Nat
        /\ DOMAIN made[o] = 1..Len(made[o])
  <2>1. made[o] \in Seq(Name \X Value)
    BY <1>1 DEF IInv, TypeOK
  <2>2. made[o][next] \in Name \X Value
    BY <1>1, <2>1
  <2> QED
    BY <2>1, <2>2
<1>3. table[o] \in Table /\ Placed(table[o]) /\ Keys(table[o]) = Fields(o)
  BY <1>1 DEF IInv, TypeOK, Tables, FieldsAgree, PendingOf, Table
<1> DEFINE e == Hashmap_set(table[o], n, v)
<1>4. table' = [table EXCEPT ![o] = e] /\ live' = live /\ made' = made
  BY <1>1, <1>2 DEF Map_new
<1> HIDE DEF e
<1>5. /\ e \in Table
      /\ Placed(e)
      /\ Nodes(e) = Nodes(table[o]) \union {[key |-> n, data |-> v]}
      /\ Keys(e) = Keys(table[o]) \union {n}
      /\ Once(table[o]) /\ n \notin Keys(table[o]) => Once(e)
  BY <1>3, SetProperties DEF e
<1>6. ASSUME Single(o)
      PROVE  \A m \in Keys(e) :
               Hashmap_get(e, m) = IF m = n THEN v ELSE Hashmap_get(table[o], m)
  <2>1. Once(table[o])
    BY <1>6 DEF IInv, Tables
  <2>2. n \notin Keys(table[o])
    BY <1>1, <1>2, <1>3, <1>6 DEF Single, NameIn
  <2>3. \A node \in Nodes(e) : node.key = n => node.data = v
    BY <1>5, <2>2 DEF Keys
  <2>4. \A node \in Nodes(e) : node.key # n => node \in Nodes(table[o])
    BY <1>5
  <2> QED
    BY <1>3, <1>5, <2>1, <2>2, <2>3, <2>4, SameValues
<1> QED
  BY <1>1, <1>4, <1>5, <1>6, ImplementsPut

LEMMA ValueSetPuts ==
  ASSUME IInv, NEW o \in Object, NEW n \in Name, NEW v \in Value, Value_set(o, n, v)
  PROVE  Abstract!Put(o, n, v) \/ Contents' = Contents
<1> DEFINE e == Hashmap_set(Hashmap_delete(table[o], n), n, v)
<1>1. o \in live /\ table' = [table EXCEPT ![o] = e] /\ live' = live /\ made' = made
  BY DEF Value_set
<1>2. table[o] \in Table /\ Placed(table[o])
  BY <1>1 DEF IInv, TypeOK, Tables, Table
<1> HIDE DEF e
<1>3. /\ e \in Table
      /\ Placed(e)
      /\ Keys(e) = Keys(table[o]) \union {n}
      /\ Once(table[o]) =>
           /\ Once(e)
           /\ \A node \in Nodes(e) : node.key = n => node.data = v
           /\ \A node \in Nodes(e) : node.key # n => node \in Nodes(table[o])
  BY <1>2, ReplaceProperties DEF e
<1>4. ASSUME Single(o)
      PROVE  \A m \in Keys(e) :
               Hashmap_get(e, m) = IF m = n THEN v ELSE Hashmap_get(table[o], m)
  <2>1. Once(table[o])
    BY <1>1, <1>4 DEF IInv, Tables
  <2> QED
    BY <1>2, <1>3, <2>1, SameValues
<1> QED
  BY <1>1, <1>3, <1>4, ImplementsPut

LEMMA ValueNewMakes ==
  ASSUME IInv, NEW o \in Object, NEW literal \in Literal \union {<< >>}, Value_new(o, literal)
  PROVE  Abstract!New(o) \/ Contents' = Contents
<1> DEFINE D == {p \in live : Single(p)}
           C(p) == [m \in Keys(table[p]) |-> Hashmap_get(table[p], m)]
<1>1. o \notin live /\ live' = live \union {o} /\ table' = table
  BY DEF Value_new
<1>2. \A p \in live : Single(p)' = Single(p)
  BY <1>1 DEF Value_new, Single, NameIn, IInv, TypeOK
<1>3. Keys(table[o]) = {}
  BY <1>1 DEF IInv, DeadEmpty, Keys, Nodes, EmptyTable
<1>4. Contents = [p \in D |-> C(p)] /\ o \notin D
  BY <1>1 DEF Contents
<1>5. Contents' = [p \in {q \in live' : Single(q)'} |-> C(p)]
  BY <1>1 DEF Contents
<1>6. C(o) = [m \in {} |-> {}]
  BY <1>3
<1> HIDE DEF C
<1>7. CASE Single(o)'
  <2>1. {q \in live' : Single(q)'} = D \union {o}
    BY <1>1, <1>2, <1>7
  <2> HIDE DEF D
  <2>2. DOMAIN Contents = D
    BY <1>4
  <2>3. Contents' = [p \in D \union {o} |-> IF p = o THEN [m \in {} |-> {}] ELSE Contents[p]]
    BY <1>4, <1>5, <1>6, <2>1
  <2> QED
    BY <1>4, <2>2, <2>3 DEF Abstract!New
<1>8. CASE ~ Single(o)'
  <2>1. {q \in live' : Single(q)'} = D
    BY <1>1, <1>2, <1>8
  <2> QED
    BY <1>4, <1>5, <2>1
<1> QED
  BY <1>7, <1>8

LEMMA ValueDestroyDiscards ==
  ASSUME IInv, NEW o \in Object, Value_destroy(o)
  PROVE  Abstract!Discard(o) \/ Contents' = Contents
<1> DEFINE D == {p \in live : Single(p)}
           C(t) == [m \in Keys(t) |-> Hashmap_get(t, m)]
<1>1. /\ o \in live /\ live' = live \ {o}
      /\ \A p \in live' : table'[p] = table[p] /\ made'[p] = made[p]
  BY DEF Value_destroy, IInv, TypeOK
<1>2. \A p \in live' : Single(p)' = Single(p)
  BY <1>1 DEF Single, NameIn
<1>3. {p \in live' : Single(p)'} = D \ {o}
  BY <1>1, <1>2
<1>4. Contents = [p \in D |-> C(table[p])]
  BY DEF Contents
<1>5. Contents' = [p \in D \ {o} |-> C(table'[p])]
  BY <1>3 DEF Contents
<1>6. D \ {o} \subseteq live'
  BY <1>1
<1> HIDE DEF D, C
<1>7. DOMAIN Contents = D /\ Contents' = [p \in D \ {o} |-> Contents[p]]
  BY <1>1, <1>4, <1>5, <1>6
<1>8. CASE o \in D
  BY <1>7, <1>8 DEF Abstract!Discard
<1>9. CASE o \notin D
  <2>1. D \ {o} = D
    BY <1>9
  <2> QED
    BY <1>4, <1>7, <2>1
<1> QED
  BY <1>8, <1>9

\* hashmap.c, value.c: the slots of each object are a partial function from names to values,
\* as long as it is not made from a literal that has a key twice: every step of the buckets
\* and fields is a step of Dictionary, or changes nothing of what the slots hold.
THEOREM SlotsImplementDictionary == Spec => DictionarySpec
<1>1. Init => Abstract!Init
  <2> SUFFICES ASSUME Init PROVE Contents = [o \in {} |-> {}]
    BY DEF Abstract!Init
  <2>1. {p \in live : Single(p)} = {}
    BY DEF Init
  <2> QED
    BY <2>1 DEF Contents
<1>2. IInv /\ [Next]_vars => [Abstract!Next]_Contents
  <2> SUFFICES ASSUME IInv, [Next]_vars PROVE Abstract!Next \/ Contents' = Contents
    OBVIOUS
  <2>1. CASE \E o \in Object, literal \in Literal \union {<< >>} : Value_new(o, literal)
    BY <2>1, ValueNewMakes DEF Abstract!Next
  <2>2. CASE Map_new
    BY <2>2, MapNewPuts DEF Abstract!Next
  <2>3. CASE \E o \in Object, n \in Name, v \in Value : Value_set(o, n, v)
    BY <2>3, ValueSetPuts DEF Abstract!Next
  <2>4. CASE \E o \in Object : Value_destroy(o)
    BY <2>4, ValueDestroyDiscards DEF Abstract!Next
  <2>5. CASE PushField \/ (\E o \in Object : Value_each(o)) \/ NextRound \/ LastRound
    <3>1. UNCHANGED <<live, table, made>>
      BY <2>5 DEF PushField, Value_each, NextRound, LastRound
    <3> QED
      BY <3>1, SameContents
  <2>6. CASE UNCHANGED vars
    <3>1. UNCHANGED <<live, table, made>>
      BY <2>6 DEF vars
    <3> QED
      BY <3>1, SameContents
  <2> QED
    BY <2>1, <2>2, <2>3, <2>4, <2>5, <2>6 DEF Next
<1> QED
  BY <1>1, <1>2, Invariance, PTL DEF Spec, DictionarySpec, Abstract!Spec
==============================================================================
