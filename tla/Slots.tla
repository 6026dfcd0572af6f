-------------------------------- MODULE Slots ----------------------------------
(***************************************************************************)
(* The slots of values: the hash map of hashmap.c, whose buckets are       *)
(* arrays of nodes, and the list of fields that value.c keeps beside it,   *)
(* in the order in which slots were set.                                   *)
(*                                                                         *)
(* Value_set takes two steps because it allocates between them.  Map_new   *)
(* takes one step per pair of the literal.  Value_each takes one step per  *)
(* round: in between the block runs, which may do anything.                *)
(***************************************************************************)
EXTENDS Integers, Sequences, FiniteSets

CONSTANTS
    Object, Name, Value,    \* as in Dictionary
    Bucket,         \* the buckets of a hash map
    BucketOf,       \* the bucket of each name: its hash modulo their number
    Literal,        \* the map literals of the program, as sequences of <<key, value>>
    NULL,
    MaxFields,      \* bound on the fields of an object
    MaxLoops        \* bound on the Value_each that are nested

ASSUME SlotsAssumption ==
    /\ BucketOf \in [Name -> Bucket]
    /\ Literal \subseteq Seq(Name \X Value)
    /\ NULL \notin Value
    /\ NULL \notin [of : Object, name : Name, protected : SUBSET Value]
    /\ NULL \notin [of : Object, next : Nat]
    /\ MaxFields \in Nat
    /\ MaxLoops \in Nat

VARIABLES
    live,       \* the objects that are allocated
    table,      \* val->table: the nodes of each bucket
    fields,     \* val->fields
    made,       \* history: the literal that the object was made from
    pending,    \* the Value_set that is allocating its field
    filling,    \* the Map_new that is running, and the pair it is at
    loops       \* the Value_each that are running, innermost last

vars == <<live, table, fields, made, pending, filling, loops>>

Node == [key : Name, data : Value]

EmptyTable == [b \in Bucket |-> << >>]
------------------------------------------------------------------------------
(***************************************************************************)
(* hashmap.c                                                               *)
(***************************************************************************)
Hashmap_find_bucket(t, n) == t[BucketOf[n]]

\* The first node of the key in a bucket, 0 if there is none.
Hashmap_get_node(s, n) ==
    IF \E i \in DOMAIN s : s[i].key = n
      THEN CHOOSE i \in DOMAIN s : s[i].key = n /\ \A j \in 1..i - 1 : s[j].key # n
      ELSE 0

Hashmap_get(t, n) ==
    LET s == Hashmap_find_bucket(t, n)
        i == Hashmap_get_node(s, n)
    IN  IF i = 0 THEN NULL ELSE s[i].data

\* It appends, without looking for the key.
Hashmap_set(t, n, v) ==
    [t EXCEPT ![BucketOf[n]] = Append(@, [key |-> n, data |-> v])]

\* The last node of the bucket takes the place of node i.
Unhooked(s, i) == [j \in 1..Len(s) - 1 |-> IF j = i THEN s[Len(s)] ELSE s[j]]

\* Mutant of Hashmap_delete: the last node is popped and not put back.
Hashmap_delete_pops(t, n) ==
    IF Hashmap_get_node(Hashmap_find_bucket(t, n), n) = 0 THEN t
    ELSE [t EXCEPT ![BucketOf[n]] = SubSeq(@, 1, Len(@) - 1)]

\* Mutant of Hashmap_delete: it does nothing.
Hashmap_delete_keeps(t, n) == t

Hashmap_delete(t, n) ==
    LET i == Hashmap_get_node(Hashmap_find_bucket(t, n), n)
    IN  IF i = 0 THEN t ELSE [t EXCEPT ![BucketOf[n]] = Unhooked(@, i)]

Nodes(t) == UNION {{t[b][i] : i \in DOMAIN t[b]} : b \in Bucket}

Keys(t) == {node.key : node \in Nodes(t)}
------------------------------------------------------------------------------
(***************************************************************************)
(* value.c                                                                 *)
(***************************************************************************)
Fields(o) == {fields[o][i] : i \in DOMAIN fields[o]}

\* The interpreter runs: main, or the block of the innermost Value_each.
Idle == pending = NULL /\ filling = NULL

Init ==
    /\ live = {}
    /\ table = [o \in Object |-> EmptyTable]
    /\ fields = [o \in Object |-> << >>]
    /\ made = [o \in Object |-> << >>]
    /\ pending = NULL
    /\ filling = NULL
    /\ loops = << >>

\* Value_from_prototype, and Map_new up to its loop.  A value that is not made from a
\* literal is one of the empty literal here.
Value_new(o, literal) ==
    /\ Idle
    /\ o \notin live
    /\ live' = live \union {o}
    /\ made' = [made EXCEPT ![o] = literal]
    /\ filling' = IF literal = << >> THEN NULL ELSE [of |-> o, next |-> 1]
    /\ UNCHANGED <<table, fields, pending, loops>>

\* One round of the loop in Map_new.
Map_new ==
    /\ filling # NULL
    /\ LET o == filling.of
           pair == made[o][filling.next]
       IN  /\ fields' = [fields EXCEPT ![o] = Append(@, pair[1])]
           /\ table' = [table EXCEPT ![o] = Hashmap_set(@, pair[1], pair[2])]
           /\ filling' = IF filling.next = Len(made[o]) THEN NULL
                         ELSE [filling EXCEPT !.next = @ + 1]
    /\ UNCHANGED <<live, made, pending, loops>>

\* Mutant of Value_set: the value is not protected while the field is allocated.
Value_set_unprotected(o, n, v) ==
    /\ Idle
    /\ o \in live
    /\ Len(fields[o]) < MaxFields
    /\ table' = [table EXCEPT ![o] = Hashmap_set(Hashmap_delete(@, n), n, v)]
    /\ pending' = [of |-> o, name |-> n, protected |-> {}]
    /\ UNCHANGED <<live, fields, made, filling, loops>>

Value_set(o, n, v) ==
    /\ Idle
    /\ o \in live
    /\ Len(fields[o]) < MaxFields
    /\ table' = [table EXCEPT ![o] = Hashmap_set(Hashmap_delete(@, n), n, v)]
    /\ pending' = [of |-> o, name |-> n, protected |-> {v}]
    /\ UNCHANGED <<live, fields, made, filling, loops>>

\* The end of Value_set.
PushField ==
    /\ pending # NULL
    /\ fields' = [fields EXCEPT ![pending.of] = Append(@, pending.name)]
    /\ pending' = NULL
    /\ UNCHANGED <<live, table, made, filling, loops>>

Inner == loops[Len(loops)]

\* The block is called with field i.  The number of fields that there were at first, and
\* the names the block was called with before, are history.
Round(o, i, first, before) ==
    [of |-> o, index |-> i, first |-> first, seen |-> before \union {fields[o][i]}]

\* The first round of Value_each, if there is one.
Value_each(o) ==
    /\ Idle
    /\ o \in live
    /\ fields[o] # << >>
    /\ Len(loops) < MaxLoops
    /\ loops' = Append(loops, Round(o, 1, Len(fields[o]), {}))
    /\ UNCHANGED <<live, table, fields, made, pending, filling>>

\* Mutant of Rounds: the count is taken before the loop.
RoundsAtFirst(l) == l.first

\* DArray_count(keys), read again before each round.
Rounds(l) == Len(fields[l.of])

\* Mutant of NextRound: the index is not advanced.
NextRoundAgain ==
    /\ Idle
    /\ loops # << >>
    /\ Inner.index < Rounds(Inner)
    /\ loops' = [loops EXCEPT ![Len(loops)] =
                    Round(Inner.of, Inner.index, Inner.first, Inner.seen)]
    /\ UNCHANGED <<live, table, fields, made, pending, filling>>

\* The block returns, and is called with the next field.
NextRound ==
    /\ Idle
    /\ loops # << >>
    /\ Inner.index < Rounds(Inner)
    /\ loops' = [loops EXCEPT ![Len(loops)] =
                    Round(Inner.of, Inner.index + 1, Inner.first, Inner.seen)]
    /\ UNCHANGED <<live, table, fields, made, pending, filling>>

\* The block returns, and so does Value_each.
LastRound ==
    /\ Idle
    /\ loops # << >>
    /\ Inner.index >= Rounds(Inner)
    /\ loops' = SubSeq(loops, 1, Len(loops) - 1)
    /\ UNCHANGED <<live, table, fields, made, pending, filling>>

\* Value_destroy, by the collector: the value is not in use.  Hashmap_traverse and
\* Hashmap_destroy free the keys and nodes of all buckets.
Value_destroy(o) ==
    /\ o \in live
    /\ pending # NULL => pending.of # o
    /\ filling = NULL
    /\ \A i \in DOMAIN loops : loops[i].of # o
    /\ live' = live \ {o}
    /\ table' = [table EXCEPT ![o] = EmptyTable]
    /\ fields' = [fields EXCEPT ![o] = << >>]
    /\ made' = [made EXCEPT ![o] = << >>]
    /\ UNCHANGED <<pending, filling, loops>>

Next ==
    \/ \E o \in Object, literal \in Literal \union {<< >>} : Value_new(o, literal)
    \/ Map_new
    \/ \E o \in Object, n \in Name, v \in Value : Value_set(o, n, v)
    \/ PushField
    \/ \E o \in Object : Value_each(o) \/ Value_destroy(o)
    \/ NextRound
    \/ LastRound

\* What has begun goes on; a block returns after whatever it does.
Fairness == WF_vars(Map_new) /\ WF_vars(PushField) /\ WF_vars(NextRound) /\ WF_vars(LastRound)

Spec == Init /\ [][Next]_vars /\ Fairness
------------------------------------------------------------------------------
(***************************************************************************)
(* Properties                                                              *)
(***************************************************************************)
NameIn(o, i) == made[o][i][1]

\* The object was not made from a literal that has a key twice.
Single(o) ==
    \A i, j \in DOMAIN made[o] : NameIn(o, i) = NameIn(o, j) => i = j

PendingOf(o) == IF pending # NULL /\ pending.of = o THEN {pending.name} ELSE {}

ProtectedBy(o) == IF pending # NULL /\ pending.of = o THEN pending.protected ELSE {}

TypeOK ==
    /\ live \subseteq Object
    /\ table \in [Object -> [Bucket -> Seq(Node)]]
    /\ fields \in [Object -> Seq(Name)]
    /\ made \in [Object -> Seq(Name \X Value)]
    /\ pending \in [of : Object, name : Name, protected : SUBSET Value] \union {NULL}
    /\ filling \in [of : Object, next : Nat] \union {NULL}
    /\ loops \in Seq([of : Object, index : Nat, first : Nat, seen : SUBSET Name])

\* hashmap.c, Hashmap_get: the nodes of a name are in its bucket, and there is one of each
\* name, whatever nodes Hashmap_delete has moved.
KeysOnce ==
    \A o \in live : \A b \in Bucket :
      /\ \A i \in DOMAIN table[o][b] : BucketOf[table[o][b][i].key] = b
      /\ Single(o) => \A i, j \in DOMAIN table[o][b] :
                        table[o][b][i].key = table[o][b][j].key => i = j

\* value.c: the fields name the slots that are in the table, all of them and no others,
\* but for the field that is being allocated.
FieldsAgree ==
    \A o \in live : Keys(table[o]) = Fields(o) \union PendingOf(o)

\* gc.c, GC_add_children: the collector comes upon every value in a table by looking up
\* the fields, or the value is protected.  A second value of a key is never found.
Traced ==
    \A o \in live : Single(o) =>
      \A node \in Nodes(table[o]) :
        \/ \E n \in Fields(o) : Hashmap_get(table[o], n) = node.data
        \/ node.data \in ProtectedBy(o)

\* value.c, Value_each: when it returns, its block has been called for every slot that the
\* object has by then, those that the block has set included.
VisitsAll ==
    [][LastRound => Keys(table[Inner.of]) \subseteq Inner.seen]_vars

\* value.c:288: Value_each returns, unless slots are set or other loops begun for ever.
EachReturns ==
    <>[][Map_new \/ PushField \/ NextRound \/ LastRound]_vars => []<>(loops = << >>)

\* The slots of each object implement a partial function from names to values, unless
\* it was made from a literal that has a key twice.
Contents ==
    [o \in {p \in live : Single(p)} |-> [n \in Keys(table[o]) |-> Hashmap_get(table[o], n)]]

Abstract == INSTANCE Dictionary WITH dict <- Contents

DictionarySpec == Abstract!Spec
==============================================================================
