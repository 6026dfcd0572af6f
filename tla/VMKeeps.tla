------------------------------- MODULE VMKeeps --------------------------------
(***************************************************************************)
(* What is kept for a program until it comes to it, and at what price.     *)
(*                                                                         *)
(*   - The garbage collector leaves a run its values in return for one     *)
(*     thing: that no collection comes while something that the run will   *)
(*     come back to is neither a root nor reached from one (AllInSight).   *)
(*     Not every run does its part.  A text that is made of a vector no    *)
(*     one holds, a local past the count of its array and the self of a    *)
(*     call that has returned are out of the collector's sight, and what   *)
(*     becomes of them is not claimed.  What is shown is that nothing      *)
(*     else can go wrong.  The set S in the first part is that of the      *)
(*     sound values.  A step may drop what it holds, take more from S, or  *)
(*     make one value more; a collection leaves of S what it has marked.   *)
(*                                                                         *)
(*   - Calls leave a run its operands.  A call finds its receiver and its  *)
(*     arguments on the operand stack, leaves one value in their place     *)
(*     and touches nothing below them, if the code of each function is     *)
(*     balanced, no file is required and no native is given another to     *)
(*     call.                                                               *)
(***************************************************************************)
EXTENDS VMProofs

\* The values that exist and are not about to be destroyed.
SoundValues == {v \in Value : Allocated(v) /\ v \notin condemned}

In(S) == S \union {NULL}

\* What the program and the instruction that it is at can reach directly is in S.
Reaches(S) ==
    /\ stack \in Seq(In(S))
    /\ \A f \in live : self[f] \in S /\ \A i \in DOMAIN locals[f].at : locals[f].at[i] \in In(S)
    /\ \A i \in 1..Len(natives) : natives[i].values \in Seq(S)
    /\ cont # Idle => cont.values \in Seq(S) /\ cont.safe \subseteq S

\* What a value of S refers to is in S.
Links(S) ==
    \A v \in S :
        /\ \A n \in DOMAIN slots[v] : slots[v][n] \in S
        /\ v \in Object => /\ obj[v].prototype \in S
                           /\ obj[v].own /\ obj[v].type = "Vector" => obj[v].data \in Seq(S)

\* The one slot that Value_set has set, and has still to record as a field.
Awaits(v, n) ==
    /\ cont # Idle /\ cont.kind = "field"
    /\ cont.values[1] = v /\ cont.name = n
    /\ slots[v][n] = cont.values[2] /\ cont.values[2] \in cont.safe

\* Every slot of a value is a field, by which the collector finds it, and only values have
\* slots.
Recorded(S) ==
    \A v \in Value : \A n \in DOMAIN slots[v] : v \in S /\ (n \in fields[v] \/ Awaits(v, n))

Sees(S) ==
    /\ S = SoundValues
    /\ Permanent \subseteq S
    /\ Reaches(S) /\ Links(S) /\ Recorded(S)

KeepInv == phase = "running" => \E S \in {SoundValues} : Sees(S)
------------------------------------------------------------------------------
(***************************************************************************)
(* What a step finds                                                       *)
(***************************************************************************)
LEMMA SeenValues ==
  ASSUME NEW S, Sees(S)
  PROVE  /\ S \subseteq Value /\ S \subseteq In(S) /\ NULL \in In(S) /\ NULL \notin S
         /\ \A v \in S : Allocated(v)
         /\ Number \subseteq S /\ Name \subseteq S /\ Native \subseteq S /\ Blueprint \subseteq S
         /\ {"nil", "true", "false", "lobby"} \subseteq S
BY NamesAreValues DEF Sees, SoundValues, In, Permanent

LEMMA PeekIn ==
  ASSUME NEW S, stack \in Seq(In(S)), NEW k \in Nat \ {0}
  PROVE  Peek(k) \in In(S)
BY DEF Peek, In

LEMMA WithoutIn ==
  ASSUME NEW S, stack \in Seq(In(S)), NEW k \in Nat
  PROVE  Without(k) \in Seq(In(S))
<1> DEFINE W == In(S)
<1> HIDE DEF W
<1>1. stack \in Seq(W)
  BY DEF W
<1>2. \A i \in 1..Len(stack) - k : stack[i] \in W
  BY <1>1
<1>3. Without(k) \in Seq(W)
  BY <1>1, <1>2, SubSeqProperties DEF Without
<1> QED BY <1>3 DEF W

LEMMA PeeksIn ==
  ASSUME NEW S, stack \in Seq(In(S)), NEW n \in Nat
  PROVE  [i \in 1..n |-> Peek(i)] \in Seq(In(S))
<1>1. \A i \in 1..n : Peek(i) \in In(S)
  BY PeekIn
<1> QED BY <1>1

LEMMA PrototypeIn ==
  ASSUME ValueInv, NEW S, Sees(S), NEW v \in S
  PROVE  PrototypeOf(v) \in In(S)
<1>1. CASE v \in Object
  <2>1. v \notin Closure \union Native \union Blueprint \union Number \union Name
    BY <1>1, ValueAssumption DEF Permanent
  <2>2. PrototypeOf(v) = obj[v].prototype
    BY <1>1, <2>1 DEF PrototypeOf
  <2> QED BY <1>1, <2>2 DEF Sees, Links, In
<1>2. CASE v \notin Object
  <2>1. v \in Closure \union Native \union Number \union Name =>
          TypeOf(v) \in {"Closure", "Number", "String"}
    <3>1. Native \intersect (Blueprint \union {"nil", "true", "false"}) = {}
      BY DEF Native, Arithmetic, Comparison, Blueprint
    <3> QED BY <1>2, <3>1, ValueAssumption DEF TypeOf, Permanent
  <2>2. PrototypeOf(v) \in {"Object", "Closure", "Number", "String", NULL}
    BY <1>2, <2>1 DEF PrototypeOf
  <2> QED BY <2>2, SeenValues DEF Blueprint, In
<1> QED BY <1>1, <1>2

LEMMA OwnerIn ==
  ASSUME ValueInv, NEW S, Sees(S), NEW v \in S, NEW n
  PROVE  Owner(v, n) \in S
<1> DEFINE N == Cardinality(Object) + 2
           next == [w \in S |-> IF ~ Allocated(w) \/ n \in DOMAIN slots[w] \/ PrototypeOf(w) = NULL
                                  THEN w ELSE PrototypeOf(w)]
           up == CHOOSE f : f = OwnerStep(v, n, f)
           T == {i \in Nat : i <= N /\ up[i] \notin S}
<1>1. N \in Nat
  BY InstanceAssumption, FS_CardinalityType
<1>2. \A w \in S : next[w] \in S
  BY PrototypeIn DEF In
<1>4. up = OwnerStep(v, n, up)
  <2>1. PICK f : /\ f = [i \in 0..N |-> IF i = 0 THEN v ELSE next[f[i - 1]]]
                 /\ \A i \in 0..N : f[i] \in S
    <3>1. DOMAIN next = S /\ \A w \in DOMAIN next : next[w] \in DOMAIN next
      BY <1>2
    <3> HIDE DEF N, next
    <3> QED BY <1>1, <3>1, Iteration
  <2>2. ASSUME NEW i \in 0..N, i # 0 PROVE f[i - 1] \in S
    BY <1>1, <2>1, <2>2
  <2>3. f = OwnerStep(v, n, f)
    BY <2>1, <2>2 DEF OwnerStep
  <2> QED BY <2>3
<1>5. Owner(v, n) = up[N]
  BY DEF Owner, OwnerStep
<1>6. \A i \in 0..N : up[i] = IF i = 0 THEN v
                              ELSE IF \/ ~ Allocated(up[i - 1]) \/ n \in DOMAIN slots[up[i - 1]]
                                      \/ PrototypeOf(up[i - 1]) = NULL
                                     THEN up[i - 1]
                                   ELSE PrototypeOf(up[i - 1])
  <2> HIDE DEF up
  <2> QED BY <1>4 DEF OwnerStep
<1> HIDE DEF up
<1>7. T = {}
  <2> SUFFICES ASSUME T # {} PROVE FALSE
    OBVIOUS
  <2>1. PICK m \in T : m = 0 \/ m - 1 \in Nat \ T
    <3>1. T \subseteq Nat
      OBVIOUS
    <3> HIDE DEF T
    <3> QED BY LeastNat, <3>1
  <2> HIDE DEF N
  <2>2. m \in 0..N /\ up[m] \notin S
    BY <1>1
  <2>3. m # 0
    BY <1>6, <2>2
  <2>4. up[m - 1] \in S
    BY <1>1, <2>1, <2>2, <2>3
  <2> QED BY <1>6, <2>2, <2>3, <2>4, PrototypeIn DEF In
<1> HIDE DEF N
<1> QED BY <1>1, <1>5, <1>7

LEMMA LookupIn ==
  ASSUME ValueInv, NEW S, Sees(S), NEW v \in S, NEW n
  PROVE  Lookup(v, n) \in In(S)
<1>1. Owner(v, n) \in S
  BY OwnerIn
<1> QED BY <1>1 DEF Lookup, Sees, Links, In

\* An access to values that does not end the process was no access to NULL.
LEMMA UsedIn ==
  ASSUME NEW S, NEW T, Trouble(T) = "none", NEW v \in In(S), v \in T
  PROVE  v \in S
BY NoTrouble DEF In
------------------------------------------------------------------------------
(***************************************************************************)
(* How an instruction may turn out                                         *)
(***************************************************************************)
\* What goes on at k finds values of S there.
Resumes(k, S) ==
    /\ k.stack \in Seq(In(S))
    /\ \A i \in 1..Len(k.natives) : k.natives[i].values \in Seq(S)

\* What the frames that exist hold is not touched.
SameHeld == /\ live' \subseteq live
            /\ \A f \in live' : self'[f] = self[f] /\ locals'[f] = locals[f]

LEMMA SameRecordsHeld ==
  ASSUME UNCHANGED <<frameVars, recordVars>>
  PROVE  SameHeld
BY DEF SameHeld, frameVars, recordVars

\* No value is made or destroyed, and no slot is set.
SameValues == UNCHANGED <<made, condemned, heapVars>>

LEMMA SeesStep ==
  ASSUME NEW S, Sees(S), SameValues, cont # Idle => cont.kind # "field", Reaches(S)'
  PROVE  Sees(S)'
<1> USE DEF SameValues, heapVars, Sees
<1>1. S = SoundValues'
  BY DEF SoundValues, Allocated
<1>2. Links(S)'
  BY DEF Links
<1>3. Recorded(S)'
  BY DEF Recorded, Awaits
<1> QED BY <1>1, <1>2, <1>3

LEMMA SeesStill ==
  ASSUME NEW S, Sees(S), SameValues, SameHeld, UNCHANGED <<stack, natives, cont>>
  PROVE  Sees(S)'
<1> USE DEF SameValues, heapVars, Sees
<1>1. S = SoundValues'
  BY DEF SoundValues, Allocated
<1>2. Links(S)'
  BY DEF Links
<1>3. Recorded(S)'
  BY DEF Recorded, Awaits
<1>4. Reaches(S)'
  BY DEF Reaches, SameHeld
<1> QED BY <1>1, <1>2, <1>3, <1>4

LEMMA CrashSees ==
  ASSUME NEW S, Sees(S), NEW how, Crash(how)
  PROVE  Sees(S)'
BY SeesStill, SameRecordsHeld DEF Crash, SameValues, frameVars

\* The operands and the natives are replaced, nothing else.
LEMMA MoveSees ==
  ASSUME NEW S, Sees(S), SameValues, SameHeld, cont # Idle => cont.kind # "field",
         NEW k, Resumes(k, S), stack' = k.stack, natives' = k.natives,
         cont' = Idle
  PROVE  Sees(S)'
<1>1. Reaches(S)'
  BY DEF Reaches, SameHeld, Sees, Resumes
<1> QED BY <1>1, SeesStep

LEMMA ResumesHere ==
  ASSUME NEW S, Sees(S), NEW st \in Seq(In(S)), NEW cells
  PROVE  /\ Resumes(After(cells, st), S)
         /\ \A next : Resumes([next |-> next, stack |-> st, natives |-> natives], S)
BY DEF Resumes, After, Sees, Reaches

LEMMA ProceedSees ==
  ASSUME NEW S, Sees(S), cont = Idle, NEW next, NEW st \in Seq(In(S)), Proceed(next, st)
  PROVE  Sees(S)'
<1> DEFINE k == [next |-> next, stack |-> st, natives |-> natives]
<1>1. Resumes(k, S)
  BY ResumesHere
<1>2. /\ SameValues /\ SameHeld /\ stack' = k.stack /\ natives' = k.natives /\ cont' = Idle
  BY SameRecordsHeld DEF Proceed, SameValues, frameVars
<1> HIDE DEF k
<1> QED BY <1>1, <1>2, MoveSees

LEMMA AdvanceSees ==
  ASSUME NEW S, Sees(S), cont = Idle, NEW cells, NEW st \in Seq(In(S)), Advance(cells, st)
  PROVE  Sees(S)'
BY ProceedSees DEF Advance

LEMMA PushSees ==
  ASSUME NEW S, Sees(S), cont = Idle, NEW cells, NEW v \in In(S), NEW st \in Seq(In(S)),
         Advance(cells, Append(st, v))
  PROVE  Sees(S)'
<1>1. Append(st, v) \in Seq(In(S))
  OBVIOUS
<1> QED BY <1>1, AdvanceSees

LEMMA GoOnSees ==
  ASSUME NEW S, Sees(S), cont = Idle, NEW k, Resumes(k, S), NEW v \in In(S), GoOn(k, v)
  PROVE  Sees(S)'
<1> DEFINE j == [next |-> k.next, stack |-> Append(k.stack, v), natives |-> k.natives]
<1>1. Append(k.stack, v) \in Seq(In(S))
  BY DEF Resumes
<1>2. Resumes(j, S)
  BY <1>1 DEF Resumes
<1>3. /\ SameValues /\ SameHeld /\ stack' = j.stack /\ natives' = j.natives /\ cont' = Idle
  BY SameRecordsHeld DEF GoOn, SameValues, frameVars
<1> HIDE DEF j
<1> QED BY <1>2, <1>3, MoveSees

\* What an allocation has in hand, and protects, are values of S.
LEMMA MakeSees ==
  ASSUME NEW S, Sees(S), cont = Idle, NEW kind, NEW values \in Seq(S),
         NEW safe \in SUBSET S, NEW name, NEW k, Resumes(k, S),
         Allocate(kind, values, safe, name, k), UNCHANGED slots
  PROVE  Sees(S)'
<1> DEFINE r == [kind |-> kind, values |-> values, safe |-> safe, name |-> name,
                 next |-> k.next]
<1>1. r.values = values /\ r.safe = safe
  OBVIOUS
<1>2. cont' = r
  BY DEF Allocate
<1> HIDE DEF r
<1>3. SameValues /\ SameHeld
  BY SameRecordsHeld DEF Allocate, SameValues, heapVars, frameVars
<1>4. Reaches(S)'
  BY <1>1, <1>2, <1>3 DEF Reaches, SameHeld, Sees, Resumes, Allocate
<1> QED BY <1>3, <1>4, SeesStep

LEMMA BeginNativeSees ==
  ASSUME NEW S, Sees(S), cont = Idle, NEW kind, NEW values \in Seq(S), NEW count, NEW k,
         Continuation(k), Resumes(k, S), BeginNative(kind, values, count, k)
  PROVE  Sees(S)'
<1> DEFINE n == [kind |-> kind, values |-> values, index |-> 0, count |-> count, next |-> k.next]
<1>1. CASE Crash("bound")
  BY <1>1, CrashSees
<1>2. CASE natives' = Append(k.natives, n) /\ stack' = k.stack
             /\ UNCHANGED <<frameVars, prog, recordVars, cont, heapVars, end, result>>
  <2>1. n.values = values
    OBVIOUS
  <2> HIDE DEF n
  <2> DEFINE j == [next |-> NULL, stack |-> k.stack, natives |-> Append(k.natives, n)]
  <2>2. Resumes(j, S)
    BY <2>1 DEF Resumes, Continuation, WaitsOK
  <2>3. stack' = j.stack /\ natives' = j.natives /\ SameValues /\ SameHeld /\ cont' = Idle
    BY <1>2, SameRecordsHeld DEF SameValues, frameVars
  <2> HIDE DEF j
  <2> QED BY <2>2, <2>3, MoveSees
<1> QED BY <1>1, <1>2 DEF BeginNative

\* A call keeps its receiver and its arguments in its own frame.
LEMMA EnterSees ==
  ASSUME ValueInv, NEW S, Sees(S), cont # Idle => cont.kind # "field", cont' = Idle,
         UNCHANGED <<made, condemned>>, NEW g \in Frame, live' = live \union {g}, live \subseteq Frame,
         NEW receiver \in S, NEW args \in Seq(In(S)), NEW max, NEW r,
         NEW k, Resumes(k, S), EnterFrame(g, receiver, args, max, r, k)
  PROVE  Sees(S)'
<1> DEFINE l == NewLocals(args, max)
<1>1. \A i \in DOMAIN l.at : l.at[i] \in In(S)
  BY SeenValues DEF NewLocals
<1> HIDE DEF l
<1>2. /\ self' = [self EXCEPT ![g] = receiver] /\ locals' = [locals EXCEPT ![g] = l]
      /\ stack' = k.stack /\ natives' = k.natives /\ SameValues
  BY DEF EnterFrame, SameValues, l
<1>3. \A f \in live' : /\ self'[f] \in S
                       /\ \A i \in DOMAIN locals'[f].at : locals'[f].at[i] \in In(S)
  BY <1>1, <1>2 DEF ValueInv, RecordInv, Sees, Reaches
<1>4. Reaches(S)'
  BY <1>2, <1>3 DEF Reaches, Resumes
<1> QED BY <1>2, <1>4, SeesStep
------------------------------------------------------------------------------
(***************************************************************************)
(* Instructions that neither call nor allocate                             *)
(***************************************************************************)
\* The parts of a state in which an instruction is taken.
LEMMA SeenParts ==
  ASSUME NEW S, Sees(S)
  PROVE  stack \in Seq(In(S))
BY DEF Sees, Reaches

LEMMA PlainSees ==
  ASSUME TypeInv, NEW S, Sees(S), Skip \/ RunOff \/ PushConstant \/ Jump \/ Goto \/ Pop
  PROVE  Sees(S)'
<1>1. stack \in Seq(In(S)) /\ \A k \in Nat : Without(k) \in Seq(In(S))
  BY SeenParts, WithoutIn
<1>2. CASE \E how : Crash(how)
  BY <1>2, CrashSees
<1>3. ASSUME Ready PROVE cont = Idle /\ self[Current] \in S
  BY <1>3 DEF Ready, Sees, Reaches
<1>4. ASSUME NEW opcode, At(opcode) PROVE cont = Idle /\ self[Current] \in S
  BY <1>3, <1>4 DEF At
<1>5. ASSUME cont = Idle, NEW next, NEW st \in Seq(In(S)), Proceed(next, st) PROVE Sees(S)'
  BY <1>5, ProceedSees
<1>6. CASE Skip
  BY <1>1, <1>3, <1>4, <1>5, <1>6 DEF Skip, Advance
<1>7. CASE PushConstant
  <2>1. ASSUME NEW opcode, At(opcode), NEW cells, NEW v \in S, Advance(cells, Append(stack, v))
        PROVE  Sees(S)'
    BY <1>1, <1>4, <2>1, PushSees, SeenValues
  <2>2. At(PUSH) => Literal(Operand(1)) \in S
    BY Decode, SeenValues
  <2> QED BY <1>4, <1>7, <2>1, <2>2, SeenValues DEF PushConstant
<1>8. CASE Jump \/ Goto
  BY <1>1, <1>4, <1>5, <1>8 DEF Jump, Goto, Advance
<1>9. CASE Pop
  <2>1. Operand(1) \in Nat
    BY <1>9, Decode DEF Pop
  <2> QED BY <1>1, <1>2, <1>4, <1>5, <1>9, <2>1 DEF Pop, Advance, Abort
<1> QED BY <1>2, <1>6, <1>7, <1>8, <1>9 DEF RunOff

LEMMA GetSlotSees ==
  ASSUME TypeInv, NEW S, Sees(S), GetSlot
  PROVE  Sees(S)'
<1> DEFINE n == Literal(Operand(1))
           v == Lookup(Peek(1), n)
<1>1. CASE \E how : Crash(how)
  BY <1>1, CrashSees
<1>2. CASE Trouble({Peek(1)}) = "none" /\ Advance(2, Append(Without(1), v))
  <2>1. Peek(1) \in S
    BY <1>2, SeenParts, PeekIn, UsedIn
  <2>2. v \in In(S)
    BY <2>1, LookupIn DEF TypeInv
  <2>3. cont = Idle /\ Without(1) \in Seq(In(S))
    BY SeenParts, WithoutIn DEF GetSlot, At, Ready
  <2> HIDE DEF v
  <2> QED BY <1>2, <2>2, <2>3, PushSees
<1> QED BY <1>1, <1>2 DEF GetSlot, Using, Abort

LEMMA LocalSees ==
  ASSUME TypeInv, NEW S, Sees(S), PushLocal \/ PushLocalDepth \/ SetLocal \/ SetLocalDepth
  PROVE  Sees(S)'
<1>1. /\ cont = Idle /\ stack \in Seq(In(S)) /\ Operand(1) \in Nat
      /\ PushLocalDepth \/ SetLocalDepth => Operand(2) \in Nat
  BY SeenParts, Decode DEF PushLocal, PushLocalDepth, SetLocal, SetLocalDepth
<1>2. ASSUME NEW f, NEW i \in Nat, NEW cells, PushLocalOf(f, i, cells) PROVE Sees(S)'
  <2>1. CASE \E how : Crash(how)
    BY <2>1, CrashSees
  <2>2. CASE Advance(cells, Append(stack, NULL))
    BY <1>1, <2>2, PushSees, SeenValues
  <2>3. CASE f \in live /\ i < locals[f].max /\ Advance(cells, Append(stack, LocalAt(f, i)))
    <3>1. IsArray(locals[f])
      BY <2>3 DEF TypeInv, ValueInv, RecordInv, F!TypeOK
    <3>2. i \in DOMAIN locals[f].at
      BY <2>3, <3>1 DEF IsArray
    <3>3. LocalAt(f, i) \in In(S)
      BY <2>3, <3>2, SeenValues DEF LocalAt, Sees, Reaches
    <3> QED BY <1>1, <2>3, <3>3, PushSees
  <2> QED BY <1>2, <2>1, <2>2, <2>3 DEF PushLocalOf
<1>3. ASSUME NEW f, NEW i \in Nat, NEW cells, SetLocalOf(f, i, cells) PROVE Sees(S)'
  <2>1. CASE \E how : Crash(how)
    BY <2>1, CrashSees
  <2>2. CASE Advance(cells, stack)
    BY <1>1, <2>2, AdvanceSees
  <2>3. CASE /\ f \in live
             /\ locals' = IF i < locals[f].max THEN [locals EXCEPT ![f].at[i] = Peek(1)] ELSE locals
             /\ UNCHANGED <<frameVars, stack, self, natives, cont, heapVars>>
    <3>1. Peek(1) \in In(S)
      BY <1>1, PeekIn
    <3>2. ASSUME NEW h \in live, NEW j \in DOMAIN locals'[h].at PROVE locals'[h].at[j] \in In(S)
      <4>1. locals' = locals \/ locals' = [locals EXCEPT ![f] = [locals[f] EXCEPT !.at[i] = Peek(1)]]
        BY <2>3
      <4>2. live \subseteq Frame /\ DOMAIN locals = Frame
        BY DEF TypeInv, ValueInv, RecordInv, F!TypeOK
      <4>3. CASE locals' = locals
        BY <3>2, <4>3 DEF Sees, Reaches
      <4>4. CASE locals' = [locals EXCEPT ![f] = [locals[f] EXCEPT !.at[i] = Peek(1)]]
        <5>1. PICK l : l = locals[f]
          OBVIOUS
        <5>2. \A m \in DOMAIN l.at : l.at[m] \in In(S)
          BY <2>3, <5>1 DEF Sees, Reaches
        <5>3. l = [end |-> l.end, max |-> l.max, at |-> l.at]
          BY <2>3, <4>2, <5>1 DEF TypeInv, ValueInv, RecordInv, IsArray
        <5>4. [l EXCEPT !.at[i] = Peek(1)]
                = [end |-> l.end, max |-> l.max, at |-> [l.at EXCEPT ![i] = Peek(1)]]
          BY <5>3
        <5>5. CASE h = f
          <6>1. locals'[h].at = [l.at EXCEPT ![i] = Peek(1)]
            BY <2>3, <4>2, <4>4, <5>1, <5>4, <5>5
          <6> QED BY <3>1, <3>2, <5>2, <6>1
        <5>6. CASE h # f
          BY <2>3, <3>2, <4>2, <4>4, <5>6 DEF Sees, Reaches
        <5> QED BY <5>5, <5>6
      <4> QED BY <4>1, <4>3, <4>4
    <3>3. SameValues /\ live' = live /\ cont' = Idle
      BY <1>1, <2>3 DEF SameValues, frameVars
    <3>4. Reaches(S)'
      BY <1>1, <2>3, <3>2, <3>3 DEF Sees, Reaches
    <3> QED BY <1>1, <3>3, <3>4, SeesStep
  <2> QED BY <1>3, <2>1, <2>2, <2>3 DEF SetLocalOf
<1> QED BY <1>1, <1>2, <1>3 DEF PushLocal, PushLocalDepth, SetLocal, SetLocalDepth
------------------------------------------------------------------------------
(***************************************************************************)
(* The natives                                                             *)
(***************************************************************************)
\* What a native is called with.
Given(S, receiver, b, k) ==
    /\ ValueInv /\ Sees(S)
    /\ cont = Idle
    /\ receiver \in In(S)
    /\ b \in In(S)
    /\ Continuation(k) /\ Resumes(k, S)

LEMMA NumberSees ==
  ASSUME NEW S, NEW native, NEW receiver, NEW b, NEW k, Given(S, receiver, b, k),
         CallNumber(native, receiver, b, k)
  PROVE  Sees(S)'
<1> USE DEF Given
<1>1. CASE \E how : Crash(how)
  BY <1>1, CrashSees
<1>2. CASE \E i, j : Calculate(native, i, j, k)
  <2>1. PICK i, j : Calculate(native, i, j, k)
    BY <1>2
  <2>2. << >> \in Seq(S) /\ {} \in SUBSET S
    OBVIOUS
  <2>3. ASSUME NEW n, Make("Number", << >>, n, k) PROVE Sees(S)'
    BY <2>2, <2>3, MakeSees DEF Make
  <2>4. ASSUME NEW v \in {"true", "false"}, GoOn(k, v) PROVE Sees(S)'
    BY <2>4, GoOnSees, SeenValues
  <2> QED BY <1>1, <2>1, <2>3, <2>4 DEF Calculate, Bool, Abort
<1> QED BY <1>1, <1>2 DEF CallNumber, Typed, Using, Abort

\* What a value of S is put together of is in S, and so is what its text is made of.
LEMMA PartsIn ==
  ASSUME HeapInv, NEW S, Sees(S), NEW v \in S
  PROVE  Parts(v) \subseteq In(S)
<1>1. v \in Object => Held(v) \subseteq S
  BY DEF Held, ValuesIn, Sees, Links
<1>2. \A n \in fields[v] : slots[v][n] \in S
  BY SeenValues DEF HeapInv, Sees, Links
<1> QED BY <1>1, <1>2 DEF Parts, In

LEMMA RereadIn ==
  ASSUME HeapInv, NEW S, Sees(S), NEW v \in In(S), Obstacle({v}) = "none"
  PROVE  v \in S /\ SetToSeq(Reread(v)) \in Seq(S)
<1>1. {v} \subseteq Within({v}) /\ Within({v}) \subseteq In(S)
  <2>1. \A w \in In(S) \ {NULL} : Allocated(w) => Parts(w) \subseteq In(S)
    BY PartsIn DEF In
  <2>2. {v} \in SUBSET In(S)
    OBVIOUS
  <2> QED BY <2>1, <2>2, WithinStays
<1>2. Trouble(Within({v})) = "none"
  BY DEF Obstacle
<1>3. Within({v}) \subseteq S
  BY <1>1, <1>2, NoTrouble DEF In
<1>4. Reread(v) \subseteq S
  BY <1>3 DEF Reread
<1>5. SetToSeq(Reread(v)) \in Seq(Reread(v))
  BY RereadIsSequence
<1>6. \A s \in Seq(Reread(v)) : s \in Seq(S)
  BY <1>4
<1> QED BY <1>1, <1>3, <1>5, <1>6

LEMMA ObjectSees ==
  ASSUME NEW S, NEW native, NEW receiver, NEW b, NEW k, Given(S, receiver, b, k),
         CallObject(native, receiver, b, k)
  PROVE  Sees(S)'
<1> USE DEF Given
<1>0. HeapInv
  BY DEF ValueInv
<1>1. CASE \E how : Crash(how)
  BY <1>1, CrashSees
<1>2. ASSUME NEW v \in {"true", "false"}, GoOn(k, v) PROVE Sees(S)'
  BY <1>2, GoOnSees, SeenValues
<1>3. ASSUME NEW kind, NEW values \in Seq(S), NEW name, Make(kind, values, name, k)
      PROVE  Sees(S)'
  BY <1>3, MakeSees DEF Make
<1>4. ASSUME Trouble({receiver}) = "none" PROVE receiver \in S /\ <<receiver>> \in Seq(S)
  <2>1. receiver \in S
    BY <1>4, UsedIn
  <2> QED BY <2>1
<1>6. ASSUME NEW v \in In(S), ToText(v, k) \/ WriteText(v, k) PROVE Sees(S)'
  <2>1. CASE Crash(Obstacle({v}))
    BY <1>1, <2>1
  <2>2. CASE Obstacle({v}) = "none" /\ ~ Crash(Obstacle({v}))
    <3>1. v \in S /\ SetToSeq(Reread(v)) \in Seq(S)
      BY <1>0, <1>6, <2>2, RereadIn
    <3>2. PICK values : values = SetToSeq(Reread(v))
      OBVIOUS
    <3>3. \/ \E kind, name : Make(kind, values, name, k)
          \/ GoOn(k, v) \/ GoOn(k, "nil")
      BY <1>6, <2>2, <3>2 DEF ToText, WriteText, Describing
    <3>4. v \in In(S) /\ "nil" \in In(S)
      BY <3>1, SeenValues
    <3> QED BY <1>3, <3>1, <3>2, <3>3, <3>4, GoOnSees
  <2> QED BY <1>6, <2>1, <2>2 DEF ToText, WriteText, Describing
<1>7. ASSUME Trouble({receiver}) = "none",
             GoOn(k, IF PrototypeOf(receiver) = NULL THEN "nil" ELSE PrototypeOf(receiver))
      PROVE  Sees(S)'
  <2>1. PrototypeOf(receiver) \in In(S)
    BY <1>4, <1>7, PrototypeIn
  <2> QED BY <1>7, <2>1, GoOnSees, SeenValues
<1>8. ASSUME Equal(receiver, b, k) PROVE Sees(S)'
  BY <1>1, <1>2, <1>8 DEF Equal, Using, Bool
<1> QED BY <1>1, <1>2, <1>3, <1>4, <1>6, <1>7, <1>8 DEF CallObject, Using, Bool

LEMMA StringSees ==
  ASSUME NEW S, NEW native, NEW receiver, NEW b, NEW k, Given(S, receiver, b, k),
         CallString(native, receiver, b, k)
  PROVE  Sees(S)'
<1> USE DEF Given
<1>0. << >> \in Seq(S)
  OBVIOUS
<1>1. CASE \E how : Crash(how)
  BY <1>1, CrashSees
<1>2. CASE BeginNative("require", << >>, 1, k)
  BY <1>0, <1>2, BeginNativeSees
<1>3. CASE \E name : Make("String", << >>, name, k)
  BY <1>0, <1>3, MakeSees DEF Make
<1> QED BY <1>1, <1>2, <1>3 DEF CallString, Typed, Using, Abort

\* The elements of a vector of S are in S.
LEMMA VectorIn ==
  ASSUME NEW S, ValueInv, Sees(S), NEW v \in In(S), NEW T, Trouble(T) = "none", v \in T,
         TypeOf(v) = "Vector", Trouble({DataOf(v)}) = "none"
  PROVE  /\ v \in S /\ v \in Object /\ obj[v].type # NULL /\ obj[v].type = "Vector" /\ obj[v].own
         /\ obj[v].data \in Seq(S)
<1>1. v \in S /\ v \in Word
  BY UsedIn, SeenValues DEF Word
<1>2. v \in Object /\ obj[v].type # NULL /\ obj[v].type = "Vector" /\ obj[v].own
  BY <1>1, VectorKinds
<1> QED BY <1>1, <1>2 DEF Sees, Links

\* Primitive_Vector_push stores a value of S in a vector of S.
LEMMA PushElementSees ==
  ASSUME NEW S, NEW v \in S, NEW element \in S, NEW k, Given(S, v, element, k),
         PushElement(v, element, k), v \in Object, obj[v].type # NULL, obj[v].data \in Seq(S)
  PROVE  Sees(S)'
<1> USE DEF Given
<1> DEFINE d == Append(obj[v].data, element)
           r == [obj[v] EXCEPT !.data = d]
<1>1. d \in Seq(S)
  OBVIOUS
<1>2. obj' = [obj EXCEPT ![v] = r]
  BY DEF PushElement
<1>3. ObjectOK(obj[v]) /\ DOMAIN obj = Object
  BY DEF ValueInv, HeapInv, Unused
<1> HIDE DEF d
<1>4. /\ r.type = obj[v].type /\ r.own = obj[v].own /\ r.prototype = obj[v].prototype
      /\ r.data = d
  BY <1>3 DEF ObjectOK
<1> HIDE DEF r
<1>5. \A o \in Object : obj'[o] = IF o = v THEN r ELSE obj[o]
  BY <1>2, <1>3
<1>6. UNCHANGED <<made, condemned, slots, fields, cont>> /\ SameHeld
  BY SameRecordsHeld DEF PushElement, frameVars
<1>7. S = SoundValues'
  <2>1. \A w \in Value : Allocated(w)' <=> Allocated(w)
    BY <1>4, <1>5, <1>6 DEF Allocated
  <2> QED BY <1>6, <2>1 DEF Sees, SoundValues
<1>8. Links(S)'
  <2>1. ASSUME NEW w \in S, w \in Object
        PROVE  /\ obj'[w].prototype \in S
               /\ obj'[w].own /\ obj'[w].type = "Vector" => obj'[w].data \in Seq(S)
    <3>1. CASE w = v
      <4>1. obj'[w] = r
        BY <1>5, <2>1, <3>1
      <4> QED BY <1>1, <1>4, <3>1, <4>1 DEF Sees, Links
    <3>2. CASE w # v
      <4>1. obj'[w] = obj[w]
        BY <1>5, <2>1, <3>2
      <4> QED BY <2>1, <4>1 DEF Sees, Links
    <3> QED BY <3>1, <3>2
  <2> QED BY <1>6, <2>1 DEF Sees, Links
<1>9. Recorded(S)'
  BY <1>6 DEF Sees, Recorded, Awaits
<1>10. Reaches(S)'
  <2>1. Append(k.stack, v) \in Seq(In(S))
    BY SeenValues DEF Resumes
  <2> QED BY <1>6, <2>1 DEF PushElement, Resumes, Reaches, Sees, SameHeld
<1> QED BY <1>7, <1>8, <1>9, <1>10 DEF Sees

LEMMA VectorSees ==
  ASSUME NEW S, NEW native, NEW receiver, NEW b, NEW k, Given(S, receiver, b, k),
         CallVector(native, receiver, b, k)
  PROVE  Sees(S)'
<1> USE DEF Given
<1>1. CASE \E how : Crash(how)
  BY <1>1, CrashSees
<1>2. CASE /\ Trouble({receiver, b}) = "none" /\ TypeOf(receiver) = "Vector"
           /\ Trouble({DataOf(receiver)}) = "none"
           /\ ElementAt(receiver, NumberOf(b), k)
  <2>1. obj[receiver].data \in Seq(S)
    BY <1>2, VectorIn
  <2>2. CASE GoOn(k, "nil")
    BY <2>2, GoOnSees, SeenValues
  <2>3. ASSUME NEW i \in DOMAIN obj[receiver].data, GoOn(k, obj[receiver].data[i])
        PROVE  Sees(S)'
    <3>1. obj[receiver].data[i] \in In(S)
      BY <2>1 DEF In
    <3> QED BY <2>3, <3>1, GoOnSees
  <2> QED BY <1>1, <1>2, <2>2, <2>3 DEF ElementAt
<1>3. CASE /\ Trouble({receiver}) = "none" /\ TypeOf(receiver) = "Vector" /\ b # NULL
           /\ Trouble({DataOf(receiver)}) = "none"
           /\ PushElement(receiver, b, k)
  <2>1. b \in S
    BY <1>3 DEF In
  <2>2. /\ receiver \in S /\ receiver \in Object /\ obj[receiver].type # NULL
        /\ obj[receiver].data \in Seq(S)
    BY <1>3, VectorIn
  <2> QED BY <1>3, <2>1, <2>2, PushElementSees
<1>4. ASSUME NEW kind, Trouble({receiver, b}) = "none", NEW count,
             BeginNative(kind, <<receiver, b>>, count, k)
      PROVE  Sees(S)'
  <2>1. receiver \in S /\ b \in S
    BY <1>4, UsedIn
  <2>2. <<receiver, b>> \in Seq(S)
    BY <2>1
  <2> QED BY <1>4, <2>2, BeginNativeSees
<1>5. CASE /\ Trouble({receiver}) = "none" /\ TypeOf(receiver) = "Vector"
           /\ Trouble({DataOf(receiver)}) = "none"
           /\ Make("Map", obj[receiver].data, NULL, k)
  <2>1. obj[receiver].data \in Seq(S)
    BY <1>5, VectorIn
  <2> QED BY <1>5, <2>1, MakeSees DEF Make
<1> QED BY <1>1, <1>2, <1>3, <1>4, <1>5 DEF CallVector, Typed, Iterate, Using, Abort

\* Value_set: until it is recorded as a field, the value of the slot is protected.
LEMMA BeginSetSees ==
  ASSUME ValueInv, NEW S, Sees(S), cont = Idle, NEW receiver \in S, NEW n, NEW v \in S,
         NEW k, Resumes(k, S), BeginSet(receiver, n, v, k)
  PROVE  Sees(S)'
<1> DEFINE t == [m \in DOMAIN slots[receiver] \union {n} |->
                   IF m = n THEN v ELSE slots[receiver][m]]
           values == <<receiver, v>>
           r == [kind |-> "field", values |-> values, safe |-> {v}, name |-> n, next |-> k.next]
<1>1. slots' = [slots EXCEPT ![receiver] = t] /\ Allocate("field", values, {v}, n, k)
  BY DEF BeginSet
<1>2. \A w \in Value : slots'[w] = IF w = receiver THEN t ELSE slots[w]
  BY <1>1 DEF ValueInv, HeapInv
<1>3. /\ values \in Seq(S) /\ values[1] = receiver /\ values[2] = v
      /\ {v} \subseteq S
  OBVIOUS
<1>4. /\ r.kind = "field" /\ r.values = values /\ r.safe = {v} /\ r.name = n
      /\ r # Idle
  BY DEF Idle
<1>5. cont' = r
  BY <1>1 DEF Allocate
<1> HIDE DEF r
<1>6. UNCHANGED <<made, condemned, obj, fields>> /\ SameHeld /\ stack' = k.stack
      /\ natives' = k.natives
  BY <1>1, SameRecordsHeld DEF Allocate, frameVars
<1>7. S \subseteq Value /\ S = SoundValues'
  <2>1. \A w \in Value : Allocated(w)' <=> Allocated(w)
    BY <1>6 DEF Allocated
  <2> QED BY <1>6, <2>1, SeenValues DEF Sees, SoundValues
<1>8. /\ DOMAIN t = DOMAIN slots[receiver] \union {n}
      /\ \A m \in DOMAIN t : t[m] = IF m = n THEN v ELSE slots[receiver][m]
  OBVIOUS
<1> HIDE DEF t, values
<1>9. Links(S)'
  <2>1. ASSUME NEW w \in S, NEW m \in DOMAIN slots'[w] PROVE slots'[w][m] \in S
    BY <1>2, <1>7, <1>8, <2>1 DEF Sees, Links
  <2> QED BY <1>6, <2>1 DEF Sees, Links
<1>10. Recorded(S)'
  <2>1. ASSUME NEW w \in Value, NEW m \in DOMAIN slots'[w]
        PROVE  w \in S /\ (m \in fields'[w] \/ Awaits(w, m)')
    <3>1. CASE w = receiver /\ m = n
      <4>1. slots'[w][m] = v
        BY <1>2, <1>8, <2>1, <3>1
      <4> QED BY <1>3, <1>4, <1>5, <3>1, <4>1 DEF Awaits
    <3>2. CASE ~ (w = receiver /\ m = n)
      <4>1. m \in DOMAIN slots[w]
        BY <1>2, <1>8, <2>1, <3>2
      <4> QED BY <1>6, <2>1, <4>1 DEF Sees, Recorded, Awaits
    <3> QED BY <3>1, <3>2
  <2> QED BY <2>1 DEF Recorded
<1>11. Reaches(S)'
  BY <1>3, <1>4, <1>5, <1>6 DEF Reaches, SameHeld, Sees, Resumes
<1> QED BY <1>7, <1>9, <1>10, <1>11 DEF Sees

LEMMA MapSees ==
  ASSUME NEW S, NEW native, NEW receiver, NEW b, NEW c \in In(S), NEW k,
         Given(S, receiver, b, k), CallMap(native, receiver, b, c, k)
  PROVE  Sees(S)'
<1> USE DEF Given
<1>1. CASE \E how : Crash(how)
  BY <1>1, CrashSees
<1>2. ASSUME Trouble({receiver, DataOf(b)}) = "none", GetMember(receiver, TextOf(b), k)
      PROVE  Sees(S)'
  <2>1. receiver \in S
    BY <1>2, UsedIn
  <2>2. Lookup(receiver, TextOf(b)) \in In(S)
    BY <2>1, LookupIn
  <2> QED BY <1>1, <1>2, <2>2, GoOnSees DEF GetMember, Using, Abort
<1>3. ASSUME Trouble({receiver, DataOf(b)}) = "none", c # NULL, BeginSet(receiver, TextOf(b), c, k)
      PROVE  Sees(S)'
  <2>1. receiver \in S /\ c \in S
    BY <1>3, UsedIn DEF In
  <2> QED BY <1>3, <2>1, BeginSetSees
<1> QED BY <1>1, <1>2, <1>3 DEF CallMap, Using, Abort

LEMMA CallNativeSees ==
  ASSUME ValueInv, NEW S, Sees(S), cont = Idle, NEW native, NEW receiver \in In(S),
         NEW args \in Seq(In(S)), NEW k, Continuation(k), Resumes(k, S),
         CallNative(native, receiver, args, k)
  PROVE  Sees(S)'
<1>1. PICK b \in In(S), c \in In(S) :
        \/ CallNumber(native, receiver, b, k)
        \/ CallObject(native, receiver, b, k)
        \/ CallString(native, receiver, b, k)
        \/ CallVector(native, receiver, b, k)
        \/ CallMap(native, receiver, b, c, k)
  <2>1. /\ (IF Len(args) >= 1 THEN args[1] ELSE NULL) \in In(S)
        /\ (IF Len(args) >= 2 THEN args[2] ELSE NULL) \in In(S)
    BY DEF In
  <2> QED BY <2>1 DEF CallNative
<1>2. Given(S, receiver, b, k)
  BY DEF Given
<1> QED BY <1>1, <1>2, NumberSees, ObjectSees, StringSees, VectorSees, MapSees
------------------------------------------------------------------------------
(***************************************************************************)
(* Calls and returns                                                       *)
(***************************************************************************)
LEMMA CallFunctionSees ==
  ASSUME ValueInv, live \subseteq Frame, NEW S, Sees(S), cont = Idle, NEW callee,
         NEW receiver \in S, NEW args \in Seq(In(S)), NEW max, NEW r,
         NEW k, Continuation(k), Resumes(k, S),
         CallFunction(callee, receiver, args, max, r, k)
  PROVE  Sees(S)'
<1>1. CASE CallNative(callee, receiver, args, k)
  BY <1>1, CallNativeSees, SeenValues
<1>2. CASE \E how : Crash(how)
  BY <1>2, CrashSees
<1>3. CASE /\ F!CallFreedScope(callee)
           /\ UNCHANGED <<prog, ip, stack, recordVars, natives, cont, heapVars, end, result>>
  <2>1. SameValues /\ SameHeld
    BY <1>3 DEF F!CallFreedScope, F!Fail, SameValues, SameHeld, recordVars
  <2> QED BY <1>3, <2>1, SeesStill
<1>4. CASE /\ \E g \in Frame : F!Fresh(g)
           /\ F!Call(callee, NewFrame)
           /\ EnterFrame(NewFrame, receiver, args, max, r, k)
           /\ UNCHANGED cont
  <2>1. NewFrame \in Frame
    BY <1>4 DEF NewFrame
  <2>2. live' = live \union {NewFrame} /\ UNCHANGED <<made, condemned>>
    BY <1>4 DEF F!Call, F!PushFrame
  <2> QED BY <1>4, <2>1, <2>2, EnterSees
<1> QED BY <1>1, <1>2, <1>3, <1>4 DEF CallFunction, CallClosure

LEMMA SendSees ==
  ASSUME TypeInv, NEW S, Sees(S), Send
  PROVE  Sees(S)'
<1> DEFINE n == Literal(Operand(1))
           argc == Operand(2)
           k == After(3, Without(argc + 1))
           args == [i \in 1..argc |-> Peek(i)]
           receiver == Peek(argc + 1)
           callee == Lookup(receiver, n)
<1>1. At(SEND) /\ ValueInv /\ stack \in Seq(In(S)) /\ stack \in Seq(Word) /\ live \subseteq Frame
  BY SeenParts DEF Send, TypeInv, ValueInv, ControlInv, F!TypeOK
<1>2. argc \in Nat /\ ip \in Nat /\ cont = Idle /\ self[Current] \in S
  BY <1>1, Decode DEF Sees, Reaches
<1>3. /\ Without(argc + 1) \in Seq(Word) /\ Without(argc + 1) \in Seq(In(S))
      /\ receiver \in In(S) /\ args \in Seq(In(S))
  <2> HIDE DEF argc
  <2>1. argc + 1 \in Nat \ {0}
    BY <1>2
  <2> QED BY <1>1, <1>2, <2>1, WithoutType, WithoutIn, PeekIn, PeeksIn
<1>4. Continuation(k) /\ Resumes(k, S)
  BY <1>1, <1>2, <1>3, AfterGoesOn, ResumesHere
<1>5. \/ \E how : Crash(how)
      \/ /\ Trouble({receiver}) = "none"
         /\ \/ CallFunction(receiver, self[Current], args, argc + 1, k.next, k)
            \/ CallFunction(callee, receiver, args, argc + 1, k.next, k)
            \/ GoOn(k, callee)
  BY DEF Send, Using, Abort
<1> HIDE DEF k, args, receiver, argc, n
<1>6. CASE \E how : Crash(how)
  BY <1>6, CrashSees
<1>7. CASE Trouble({receiver}) = "none"
  <2>1. receiver \in S
    BY <1>3, <1>7, UsedIn
  <2>2. callee \in In(S)
    BY <1>1, <2>1, LookupIn
  <2> HIDE DEF callee
  <2>3. CASE CallFunction(receiver, self[Current], args, argc + 1, k.next, k)
    BY <1>1, <1>2, <1>3, <1>4, <2>3, CallFunctionSees
  <2>4. CASE CallFunction(callee, receiver, args, argc + 1, k.next, k)
    BY <1>1, <1>2, <1>3, <1>4, <2>1, <2>4, CallFunctionSees
  <2>5. CASE GoOn(k, callee)
    BY <1>2, <1>4, <2>2, <2>5, GoOnSees
  <2> QED BY <1>5, <1>6, <2>3, <2>4, <2>5
<1> QED BY <1>5, <1>6, <1>7

\* What the frames held that are still there they hold still.
LEMMA DroppedHeld ==
  ASSUME live \subseteq Frame, live' \subseteq live, DropRecords
  PROVE  SameHeld
BY DEF SameHeld, DropRecords, Kept

LEMMA ReturnSees ==
  ASSUME TypeInv, NEW S, Sees(S), Return
  PROVE  Sees(S)'
<1>1. /\ live' \subseteq live /\ live \subseteq Frame /\ UNCHANGED <<made, condemned>>
      /\ DropRecords /\ UNCHANGED <<natives, cont, heapVars>> /\ cont = Idle
  BY DEF TypeInv, Return, F!Ret, F!RetCaptured, F!Free, F!TypeOK, At, Ready
<1>2. SameValues /\ SameHeld
  BY <1>1, DroppedHeld DEF SameValues
<1>3. stack' \in Seq(In(S))
  BY SeenParts, WithoutIn DEF Return
<1> DEFINE k == [next |-> NULL, stack |-> stack', natives |-> natives]
<1>4. Resumes(k, S)
  BY <1>3, ResumesHere
<1>5. stack' = k.stack /\ natives' = k.natives
  BY <1>1
<1> HIDE DEF k
<1> QED BY <1>1, <1>2, <1>4, <1>5, MoveSees
------------------------------------------------------------------------------
(***************************************************************************)
(* The natives that wait for VM_run                                        *)
(***************************************************************************)
LEMMA WaitingIn ==
  ASSUME ValueInv, NEW S, Sees(S), natives # << >>
  PROVE  Waiting.values \in Seq(S)
BY WaitingIsOK DEF Sees, Reaches, Waiting

\* The record of the native on top is replaced.
LEMMA RewaitIn ==
  ASSUME ValueInv, NEW S, Sees(S), natives # << >>, NEW index, NEW values \in Seq(S),
         NEW st \in Seq(In(S)), NEW next,
         NEW ns, ns = [natives EXCEPT ![Len(natives)] = Rewait(Waiting, index, values)]
  PROVE  Resumes([next |-> next, stack |-> st, natives |-> ns], S)
<1> DEFINE n == Rewait(Waiting, index, values)
<1>1. natives \in Seq(Wait) /\ Len(natives) \in 1..Len(natives)
  BY WaitingIsOK DEF ValueInv, ControlInv, WaitsOK
<1>2. n.values = values
  BY DEF Rewait
<1> HIDE DEF n
<1>3. Len(ns) = Len(natives) /\ \A i \in 1..Len(ns) : ns[i] = IF i = Len(natives) THEN n ELSE natives[i]
  BY <1>1 DEF n
<1> QED BY <1>2, <1>3 DEF Resumes, Sees, Reaches

LEMMA InvokeSees ==
  ASSUME TypeInv, NativeHasControl, Waiting.kind # "require", NEW S, Sees(S),
         NEW args \in Seq(In(S)), Invoke(args)
  PROVE  Sees(S)'
<1> DEFINE values == SubSeq(Waiting.values, 1, 2)
           next == [Waiting EXCEPT !.index = @ + 1]
           ns == [natives EXCEPT ![Len(natives)] = [next EXCEPT !.values = SubSeq(@, 1, 2)]]
           k == [next |-> 0, stack |-> stack, natives |-> ns]
<1>1. /\ ValueInv /\ cont = Idle /\ stack \in Seq(Word) /\ stack \in Seq(In(S))
      /\ live \subseteq Frame /\ natives # << >> /\ self[Current] \in S
  BY SeenParts DEF TypeInv, ValueInv, ControlInv, F!TypeOK, NativeHasControl, Sees, Reaches
<1>2. WaitsOK(ns) /\ \A i \in 1..Len(ns) : ns[i].kind # "require" => LoopsOn(ns[i])
  BY <1>1, InvokedWaits
<1>3. Waiting \in Wait /\ WaitOK(Waiting) /\ Waiting.values \in Seq(S)
  BY <1>1, WaitingIsOK, WaitingIn
<1>4. values \in Seq(S)
  <2>1. Len(Waiting.values) \in {2, 4}
    BY <1>3 DEF WaitOK, Wait
  <2> QED BY <1>3, <2>1
<1> HIDE DEF values
<1>5. ns = [natives EXCEPT ![Len(natives)] = Rewait(Waiting, Waiting.index + 1, values)]
  <2>1. next = Rewait(Waiting, Waiting.index + 1, Waiting.values)
    BY <1>3 DEF Rewait, Wait
  <2> HIDE DEF next
  <2>2. [next EXCEPT !.values = values] = Rewait(Waiting, Waiting.index + 1, values)
    BY <2>1 DEF Rewait
  <2>3. next.values = Waiting.values
    BY <2>1 DEF Rewait
  <2>4. [next EXCEPT !.values = SubSeq(@, 1, 2)] = [next EXCEPT !.values = values]
    BY <2>3 DEF values
  <2> QED BY <2>2, <2>4 DEF next
<1>6. \E how : Crash(how)
      \/ CallFunction(Waiting.values[2], self[Current], args, 10, NULL, k)
  BY DEF Invoke, Using
<1> HIDE DEF ns, next
<1>7. Resumes(k, S)
  BY <1>1, <1>4, <1>5, RewaitIn
<1>8. Continuation(k)
  BY <1>1, <1>2 DEF Continuation
<1> HIDE DEF k
<1> QED BY <1>1, <1>6, <1>7, <1>8, CrashSees, CallFunctionSees

LEMMA NextIn ==
  ASSUME ValueInv, NEW S, Sees(S), NativeHasControl, Waiting.kind # "require",
         Waiting.index < Waiting.count, Trouble({Waiting.values[1]}) = "none"
  PROVE  NextElement \in S
<1>1. Waiting \in Wait /\ WaitOK(Waiting) /\ LoopsOn(Waiting) /\ Waiting.values \in Seq(S)
  BY WaitingIsOK, WaitingIn DEF NativeHasControl
<1>2. Allocated(Waiting.values[1]) /\ Waiting.values[1] \in S
  <2>1. Len(Waiting.values) \in {2, 4}
    BY <1>1 DEF WaitOK, Wait
  <2> QED BY <1>1, <2>1, NoTrouble
<1> DEFINE o == obj[Waiting.values[1]]
<1>3. o.type = "Vector" /\ o.own /\ Waiting.count <= Len(o.data)
  BY <1>1, <1>2 DEF LoopsOn, Allocated
<1>4. o.data \in Seq(S) /\ Waiting.index \in Nat /\ Waiting.count \in Nat
  BY <1>1, <1>2, <1>3 DEF Sees, Links, LoopsOn, Wait
<1> HIDE DEF o
<1>5. Waiting.index + 1 \in 1..Len(o.data)
  BY <1>3, <1>4
<1>6. o.data[Waiting.index + 1] \in S
  BY <1>4, <1>5
<1> QED BY <1>6 DEF NextElement, o

LEMMA EachSees ==
  ASSUME TypeInv, NEW S, Sees(S), EachElement \/ EachIndexed \/ EachIndex
  PROVE  Sees(S)'
<1>1. ValueInv /\ NativeHasControl /\ natives # << >> /\ cont = Idle /\ stack \in Seq(In(S))
  BY SeenParts DEF TypeInv, EachElement, EachIndexed, EachIndex, Iterating, NativeHasControl
<1>2. CASE \E how : Crash(how)
  BY <1>2, CrashSees
<1>3. CASE EachElement /\ Trouble({Waiting.values[1]}) = "none" /\ Invoke(<<NextElement>>)
  <2>1. Waiting.kind # "require" /\ Waiting.index < Waiting.count
    BY <1>3 DEF EachElement, Iterating
  <2>2. NextElement \in In(S)
    BY <1>1, <1>3, <2>1, NextIn, SeenValues
  <2>3. <<NextElement>> \in Seq(In(S))
    BY <2>2
  <2> QED BY <1>1, <1>3, <2>1, <2>3, InvokeSees
<1>4. CASE EachIndexed
  <2>1. Waiting.kind # "require" /\ Len(Waiting.values) = 4
    BY <1>4 DEF EachIndexed, Iterating
  <2>2. Waiting.values \in Seq(S)
    BY <1>1, WaitingIn
  <2>3. SubSeq(Waiting.values, 3, 4) \in Seq(In(S))
    BY <2>1, <2>2, SeenValues
  <2> QED BY <1>1, <1>4, <2>1, <2>3, InvokeSees DEF EachIndexed
<1>5. CASE /\ EachIndex /\ Trouble({Waiting.values[1]}) = "none"
           /\ Make("index", <<NextElement>>, Waiting.index,
                   [next |-> NULL, stack |-> stack, natives |-> natives])
  <2>1. Waiting.kind # "require" /\ Waiting.index < Waiting.count
    BY <1>5 DEF EachIndex, Iterating
  <2>2. NextElement \in S
    BY <1>1, <1>5, <2>1, NextIn
  <2>3. <<NextElement>> \in Seq(S)
    BY <2>2
  <2>4. Resumes([next |-> NULL, stack |-> stack, natives |-> natives], S)
    BY <1>1, ResumesHere
  <2> QED BY <1>1, <1>5, <2>3, <2>4, MakeSees DEF Make
<1> QED BY <1>2, <1>3, <1>4, <1>5 DEF EachElement, EachIndex, Using

LEMMA DoneSees ==
  ASSUME TypeInv, NEW S, Sees(S), EachDone \/ RequireDone
  PROVE  Sees(S)'
<1>1. /\ ValueInv /\ NativeHasControl /\ natives # << >> /\ cont = Idle
      /\ stack \in Seq(In(S)) /\ Waiting.values \in Seq(S) /\ WaitOK(Waiting) /\ Waiting \in Wait
  BY SeenParts, WaitingIn, WaitingIsOK DEF TypeInv, EachDone, RequireDone, NativeHasControl
<1>2. ASSUME NEW st \in Seq(In(S))
      PROVE  Resumes([next |-> Waiting.next, stack |-> st, natives |-> NativesBelow], S)
  <2> DEFINE n == Len(natives) - 1
  <2>1. n \in Nat /\ natives \in Seq(Wait) /\ \A i \in 1..n : i \in 1..Len(natives)
    BY <1>1 DEF ValueInv, ControlInv, WaitsOK
  <2>2. NativesBelow = SubSeq(natives, 1, n)
    BY DEF NativesBelow
  <2> HIDE DEF n
  <2>3. Len(NativesBelow) = n /\ \A i \in 1..n : NativesBelow[i] = natives[i]
    BY <2>1, <2>2, SubSeqProperties
  <2> QED BY <2>1, <2>3 DEF Resumes, Sees, Reaches
<1>3. CASE EachDone
  <2>1. Waiting.values[1] \in In(S)
    <3>1. Len(Waiting.values) \in {2, 4}
      BY <1>1, <1>3 DEF EachDone, WaitOK, Wait
    <3> QED BY <1>1, <3>1, SeenValues
  <2> QED BY <1>1, <1>2, <1>3, <2>1, GoOnSees DEF EachDone
<1>4. CASE RequireDone
  <2>1. SubSeq(stack, 1, Len(stack) - 1) \in Seq(In(S))
    BY <1>1, WithoutIn DEF Without
  <2> QED BY <1>1, <1>2, <1>4, <2>1, GoOnSees, SeenValues DEF RequireDone
<1> QED BY <1>3, <1>4

LEMMA RequireFileSees ==
  ASSUME TypeInv, NEW S, Sees(S), RequireFile
  PROVE  Sees(S)'
<1>1. cont = Idle /\ stack \in Seq(In(S))
  BY SeenParts DEF RequireFile, NativeHasControl
<1>2. CASE \E how : Crash(how)
  BY <1>2, CrashSees
<1>3. CASE Make("file", << >>, NULL, [next |-> NULL, stack |-> stack, natives |-> natives])
  <2>1. << >> \in Seq(S) /\ {} \in SUBSET S
    OBVIOUS
  <2>2. Resumes([next |-> NULL, stack |-> stack, natives |-> natives], S)
    BY <1>1, ResumesHere
  <2> QED BY <1>1, <1>3, <2>1, <2>2, MakeSees DEF Make
<1> QED BY <1>2, <1>3 DEF RequireFile, Abort

LEMMA FinishFileSees ==
  ASSUME TypeInv, NEW S, Sees(S), FinishFile
  PROVE  Sees(S)'
<1> DEFINE ns == [natives EXCEPT ![Len(natives)].index = 1]
           k == [stack |-> stack, natives |-> ns]
           j == [next |-> 0, stack |-> stack, natives |-> ns]
<1>1. /\ ValueInv /\ natives # << >> /\ cont # Idle /\ cont.kind = "file" /\ live \subseteq Frame
  BY DEF TypeInv, FinishFile, Unfinished, ValueInv, ControlInv, F!TypeOK
<1>a. stack \in Seq(In(S)) /\ Waiting \in Wait /\ Waiting.values \in Seq(S)
  BY <1>1, SeenParts, WaitingIn, WaitingIsOK
<1>2. CASE \E how : Crash(how)
  BY <1>2, CrashSees
<1>3. CASE /\ \E g \in Frame : F!Fresh(g)
           /\ F!Require(NewFrame)
           /\ EnterFrame(NewFrame, "lobby", << >>, 10, NULL, k)
           /\ cont' = Idle
  <2>1. NewFrame \in Frame
    BY <1>3 DEF NewFrame
  <2>2. live' = live \union {NewFrame} /\ UNCHANGED <<made, condemned>>
    BY <1>3 DEF F!Require, F!PushFrame
  <2>3. ns = [natives EXCEPT ![Len(natives)] = Rewait(Waiting, 1, Waiting.values)]
    <3>1. [natives[Len(natives)] EXCEPT !.index = 1] = Rewait(Waiting, 1, Waiting.values)
      BY <1>a DEF Rewait, Wait, Waiting
    <3> QED BY <3>1
  <2>4. EnterFrame(NewFrame, "lobby", << >>, 10, NULL, j)
    BY <1>3 DEF EnterFrame
  <2> HIDE DEF ns
  <2>5. Resumes(j, S)
    BY <1>1, <1>a, <2>3, RewaitIn
  <2>6. << >> \in Seq(In(S))
    OBVIOUS
  <2> HIDE DEF j
  <2> QED BY <1>1, <1>3, <2>1, <2>2, <2>4, <2>5, <2>6, EnterSees, SeenValues
<1> QED BY <1>2, <1>3 DEF FinishFile
------------------------------------------------------------------------------
(***************************************************************************)
(* Instructions that allocate                                              *)
(***************************************************************************)
LEMMA AllocatingSees ==
  ASSUME TypeInv, NEW S, Sees(S), Defn \/ MakeVec \/ SetSlot \/ Dump
  PROVE  Sees(S)'
<1>1. ValueInv /\ stack \in Seq(In(S))
  BY SeenParts DEF TypeInv
<1>2. CASE \E how : Crash(how)
  BY <1>2, CrashSees
<1>3. ASSUME cont = Idle, NEW kind, NEW name, NEW cells,
             Make(kind, << >>, name, After(cells, stack))
      PROVE  Sees(S)'
  <2>1. << >> \in Seq(S) /\ {} \in SUBSET S
    OBVIOUS
  <2>2. Resumes(After(cells, stack), S)
    BY <1>1, ResumesHere
  <2> QED BY <1>3, <2>1, <2>2, MakeSees DEF Make
<1>4. CASE Defn
  BY <1>3, <1>4 DEF Defn, At, Ready
<1>5. CASE Dump
  <2>1. CASE Advance(1, stack)
    BY <1>1, <1>5, <2>1, AdvanceSees DEF Dump, At, Ready
  <2>2. CASE Make("print", << >>, NULL, After(1, stack))
    BY <1>3, <1>5, <2>2 DEF Dump, At, Ready
  <2> QED BY <1>2, <1>5, <2>1, <2>2 DEF Dump, Describing
<1>6. CASE MakeVec
  <2> DEFINE elements == [i \in 1..Operand(1) |-> Peek(i)]
             k == After(2, Without(Operand(1)))
  <2>1. Operand(1) \in Nat /\ cont = Idle
    BY <1>6, Decode DEF MakeVec
  <2>2. elements \in Seq(In(S))
    BY <1>1, <2>1, PeeksIn
  <2>3. Resumes(k, S)
    BY <1>1, <2>1, WithoutIn, ResumesHere
  <2>4. CASE /\ NULL \notin ValuesIn(elements)
             /\ Allocate("Vector", elements, ValuesIn(elements), NULL, k) /\ UNCHANGED slots
    <3> HIDE DEF elements, k
    <3>1. elements \in Seq(S)
      <4>1. \A i \in 1..Len(elements) : elements[i] \in S
        BY <2>2, <2>4 DEF ValuesIn, In
      <4> QED BY <2>2, <4>1
    <3>2. ValuesIn(elements) \in SUBSET S
      BY <3>1 DEF ValuesIn
    <3> QED BY <2>1, <2>3, <2>4, <3>1, <3>2, MakeSees
  <2> QED BY <1>2, <1>6, <2>4 DEF MakeVec, Using, Abort
<1>7. CASE SetSlot
  <2> DEFINE k == After(2, Without(2))
  <2>1. cont = Idle
    BY <1>7, Decode DEF SetSlot
  <2>2. Resumes(k, S)
    BY <1>1, WithoutIn, ResumesHere
  <2>3. CASE /\ Trouble({Peek(1), Peek(2)}) = "none"
             /\ BeginSet(Peek(2), Literal(Operand(1)), Peek(1), k)
    <3>1. Peek(1) \in S /\ Peek(2) \in S
      BY <1>1, <2>3, PeekIn, UsedIn
    <3> HIDE DEF k
    <3> QED BY <1>1, <2>1, <2>2, <2>3, <3>1, BeginSetSees
  <2> QED BY <1>2, <1>7, <2>3 DEF SetSlot, Using, Abort
<1> QED BY <1>4, <1>5, <1>6, <1>7

\* A value is made in a cell that none takes; what it refers to is in S.
LEMMA BirthSees ==
  ASSUME NEW S, Sees(S), condemned = {}, condemned' = {}, cont.kind # "field", cont' = Idle,
         NEW v \in Value, ~ Allocated(v), Allocated(v)',
         \A w \in Value \ {v} : /\ slots'[w] = slots[w] /\ fields'[w] = fields[w]
                                /\ w \in Closure => made'[w] = made[w]
                                /\ w \in Object => obj'[w] = obj[w],
         \A n \in DOMAIN slots'[v] : slots'[v][n] \in S /\ n \in fields'[v],
         v \in Object => /\ obj'[v].prototype \in S
                         /\ obj'[v].own /\ obj'[v].type = "Vector" => obj'[v].data \in Seq(S),
         NEW T, T = S \union {v}, Reaches(T)'
  PROVE  Sees(T)'
<1>1. T = SoundValues'
  <2>1. \A w \in Value \ {v} : Allocated(w)' <=> Allocated(w)
    BY DEF Allocated
  <2> QED BY <2>1 DEF Sees, SoundValues
<1>2. S \subseteq Value /\ v \notin S
  BY SeenValues
<1>3. Links(T)'
  <2>1. ASSUME NEW w \in S PROVE w \in Value \ {v}
    BY <1>2, <2>1
  <2>2. ASSUME NEW w \in T, NEW n \in DOMAIN slots'[w] PROVE slots'[w][n] \in T
    BY <2>1, <2>2 DEF Sees, Links
  <2>3. \A s \in Seq(S) : s \in Seq(T)
    OBVIOUS
  <2>4. ASSUME NEW w \in T, w \in Object
        PROVE  /\ obj'[w].prototype \in T
               /\ obj'[w].own /\ obj'[w].type = "Vector" => obj'[w].data \in Seq(T)
    BY <2>1, <2>3, <2>4 DEF Sees, Links
  <2> QED BY <2>2, <2>4 DEF Links
<1>4. Recorded(T)'
  BY <1>2 DEF Sees, Recorded, Awaits
<1> QED BY <1>1, <1>3, <1>4 DEF Sees

\* The value that an instruction ends with is pushed.
LEMMA FinishReaches ==
  ASSUME NEW S, Sees(S), UNCHANGED live, NEW v, Finish(v), NEW T, T = S \union {v}
  PROVE  Reaches(T)'
<1>1. stack \in Seq(In(T))
  BY DEF Sees, Reaches, In
<1>2. stack' \in Seq(In(T))
  <2>1. v \in In(T)
    BY DEF In
  <2> QED BY <1>1, <2>1 DEF Finish
<1>3. \A i \in 1..Len(natives) : natives[i].values \in Seq(T)
  BY DEF Sees, Reaches
<1> QED BY <1>2, <1>3 DEF Reaches, Sees, Finish, recordVars, In

\* Value_to_s is done with the values that it came back to.
LEMMA ReadAgainSees ==
  ASSUME TypeInv, NEW S, Sees(S), ReadAgain
  PROVE  Sees(S)'
<1>1. CASE \E how : Crash(how)
  BY <1>1, CrashSees
<1>2. CASE /\ cont' = [cont EXCEPT !.values = << >>]
           /\ UNCHANGED <<frameVars, prog, ip, stack, recordVars, natives, heapVars, end, result>>
  <2>1. cont # Idle /\ cont.kind # "field" /\ ContOK(cont)
    BY DEF TypeInv, ValueInv, ControlInv, ReadAgain, Unfinished
  <2>2. cont'.values = << >> /\ cont'.safe = cont.safe
    BY <1>2, <2>1 DEF ContOK
  <2>3. << >> \in Seq(S)
    OBVIOUS
  <2>4. SameValues /\ UNCHANGED <<live, stack, self, locals, natives>>
    BY <1>2 DEF SameValues, frameVars, recordVars
  <2>5. Reaches(S)'
    BY <2>1, <2>2, <2>3, <2>4 DEF Sees, Reaches
  <2> QED BY <2>1, <2>4, <2>5, SeesStep
<1> QED BY <1>1, <1>2 DEF ReadAgain, Using

LEMMA SmallFinishSees ==
  ASSUME TypeInv, NEW S, Sees(S), FinishNil \/ FinishPrint \/ OutOfCells
  PROVE  Sees(S)'
<1>1. CASE \E how : Crash(how)
  BY <1>1, CrashSees
<1>2. CASE FinishNil
  <2>1. S \union {"nil"} = S
    BY SeenValues
  <2>2. Reaches(S)'
    BY <1>2, <2>1, FinishReaches DEF FinishNil, frameVars
  <2> QED BY <1>2, <2>2, SeesStep DEF FinishNil, Unfinished, SameValues, frameVars
<1>3. CASE FinishPrint
  <2>1. SameValues /\ UNCHANGED <<live, stack, self, locals, natives>> /\ cont' = Idle
    BY <1>3 DEF FinishPrint, SameValues, frameVars, recordVars
  <2>2. Reaches(S)'
    BY <2>1 DEF Sees, Reaches
  <2> QED BY <1>3, <2>1, <2>2, SeesStep DEF FinishPrint, Unfinished
<1> QED BY <1>1, <1>2, <1>3 DEF OutOfCells

LEMMA FinishClosureSees ==
  ASSUME TypeInv, NEW S, Sees(S), FinishClosure
  PROVE  \E T : Sees(T)'
<1>1. CASE \E how : Crash(how)
  BY <1>1, CrashSees
<1>2. CASE ~ \E how : Crash(how)
  <2>1. PICK c \in FreeCells(Closure) : F!Defn(cont.name, c) /\ Finish(c)
    BY <1>2 DEF FinishClosure
  <2>2. /\ cont.kind # "field" /\ condemned = {} /\ UNCHANGED heapVars
        /\ cont.name \in Function
    BY <1>2 DEF FinishClosure, Unfinished, Going, F!Running
  <2>3. c \in Closure /\ c \in Value /\ made[c] = NULL /\ c \notin Object
    BY <2>1, NamesAreValues, ValueAssumption DEF FreeCells
  <2>4. /\ made' = [made EXCEPT ![c] = cont.name] /\ condemned' = {} /\ UNCHANGED live
        /\ made \in [Closure -> Function \union {NULL}]
    BY <2>1, <2>2 DEF F!Defn, TypeInv, F!TypeOK
  <2>5. ~ Allocated(c) /\ Allocated(c)'
    BY <2>2, <2>3, <2>4, FunctionsAreNames DEF Allocated
  <2>6. DOMAIN slots[c] = {}
    BY <2>3, <2>5, SeenValues DEF Sees, Recorded
  <2>7. \A w \in Value \ {c} : /\ slots'[w] = slots[w] /\ fields'[w] = fields[w]
                               /\ w \in Closure => made'[w] = made[w]
                               /\ w \in Object => obj'[w] = obj[w]
    BY <2>2, <2>3, <2>4 DEF heapVars
  <2>8. \A n \in DOMAIN slots'[c] : slots'[c][n] \in S /\ n \in fields'[c]
    BY <2>2, <2>6 DEF heapVars
  <2>9. PICK T : T = S \union {c}
    OBVIOUS
  <2>10. Reaches(T)' /\ cont' = Idle
    BY <2>1, <2>4, <2>9, FinishReaches DEF Finish
  <2>11. c \in Object =>
            /\ obj'[c].prototype \in S
            /\ obj'[c].own /\ obj'[c].type = "Vector" => obj'[c].data \in Seq(S)
    BY <2>3
  <2>12. Sees(T)'
    BY <2>2, <2>3, <2>4, <2>5, <2>7, <2>8, <2>9, <2>10, <2>11, BirthSees
  <2> QED BY <2>12
<1> QED BY <1>1, <1>2

\* The object that is made in a new cell.
LEMMA NewObjectSees ==
  ASSUME TypeInv, NEW S, Sees(S), Going, cont.kind # "field", cont' = Idle,
         FreeCells(Object) # {}, NEW o, o = NewObject,
         NEW r, obj' = [obj EXCEPT ![o] = r],
         r.type \in Value, r.prototype \in S,
         r.own /\ r.type = "Vector" => r.data \in Seq(S),
         \A w \in Value \ {o} : slots'[w] = slots[w] /\ fields'[w] = fields[w],
         \A n \in DOMAIN slots'[o] : slots'[o][n] \in S /\ n \in fields'[o],
         UNCHANGED <<made, condemned>>,
         NEW T, T = S \union {o}, Reaches(T)'
  PROVE  Sees(T)'
<1>1. /\ o \in Object /\ o \in Value /\ obj[o].type = NULL /\ o \notin Closure
      /\ condemned = {} /\ condemned' = {}
  BY NewObjectIsNew, ValueAssumption DEF Going, F!Running
<1>2. obj'[o] = r /\ \A w \in Object \ {o} : obj'[w] = obj[w]
  BY <1>1 DEF TypeInv, ValueInv, HeapInv
<1>3. ~ Allocated(o) /\ Allocated(o)'
  BY <1>1, <1>2, NamesAreValues DEF Allocated
<1>4. \A w \in Value \ {o} : /\ slots'[w] = slots[w] /\ fields'[w] = fields[w]
                             /\ w \in Closure => made'[w] = made[w]
                             /\ w \in Object => obj'[w] = obj[w]
  BY <1>2
<1>5. obj'[o].prototype \in S
      /\ (obj'[o].own /\ obj'[o].type = "Vector" => obj'[o].data \in Seq(S))
  BY <1>2
<1> QED BY <1>1, <1>3, <1>4, <1>5, BirthSees

\* Nothing was recorded of the cell.
LEMMA NewObjectEmpty ==
  ASSUME NEW S, Sees(S), FreeCells(Object) # {}, NEW o, o = NewObject,
         UNCHANGED <<slots, fields>>
  PROVE  /\ \A w \in Value \ {o} : slots'[w] = slots[w] /\ fields'[w] = fields[w]
         /\ \A n \in DOMAIN slots'[o] : slots'[o][n] \in S /\ n \in fields'[o]
<1>1. o \in Value /\ o \notin S
  BY NewObjectIsNew, SeenValues DEF Allocated
<1>2. DOMAIN slots[o] = {}
  BY <1>1 DEF Sees, Recorded
<1> QED BY <1>2

LEMMA FinishValueSees ==
  ASSUME TypeInv, NEW S, Sees(S), FinishValue
  PROVE  \E T : Sees(T)'
<1> DEFINE isClone == cont.kind = "clone"
           r == [type |-> IF isClone THEN cont.name ELSE cont.kind,
                 prototype |-> IF isClone THEN cont.values[1] ELSE cont.kind,
                 own |-> ~ isClone,
                 data |-> IF cont.kind = "Vector" THEN cont.values ELSE cont.name]
<1>1. /\ Going /\ cont # Idle /\ FreeCells(Object) # {} /\ ContOK(cont)
      /\ cont.kind \in {"Vector", "Number", "String", "clone"} /\ cont.values \in Seq(S)
  BY DEF TypeInv, ValueInv, ControlInv, FinishValue, Makings, Sees, Reaches
<1>2. CASE \E how : Crash(how)
  BY <1>2, CrashSees
<1>3. CASE obj' = [obj EXCEPT ![NewObject] = r] /\ Finish(NewObject)
             /\ UNCHANGED <<frameVars, slots, fields>>
  <2>1. r.type \in Value
    BY <1>1, NamesAreValues DEF ContOK, Blueprint
  <2>2. r.prototype \in S
    <3>1. isClone => cont.values[1] \in S
      BY <1>1 DEF ContOK
    <3>2. {"Vector", "Number", "String"} \subseteq S
      BY SeenValues DEF Blueprint
    <3> QED BY <1>1, <3>1, <3>2
  <2>3. r.own /\ r.type = "Vector" => r.data \in Seq(S)
    BY <1>1
  <2> HIDE DEF r
  <2>4. UNCHANGED <<made, condemned, live, slots, fields>> /\ cont' = Idle
    BY <1>3 DEF frameVars, Finish
  <2>5. PICK o, T : o = NewObject /\ T = S \union {o}
    OBVIOUS
  <2>6. Finish(o) /\ obj' = [obj EXCEPT ![o] = r]
    BY <1>3, <2>5
  <2>7. Reaches(T)'
    BY <2>4, <2>5, <2>6, FinishReaches
  <2>8. /\ \A w \in Value \ {o} : slots'[w] = slots[w] /\ fields'[w] = fields[w]
        /\ \A n \in DOMAIN slots'[o] : slots'[o][n] \in S /\ n \in fields'[o]
    BY <1>1, <2>4, <2>5, NewObjectEmpty
  <2>9. PICK q : q = r
    OBVIOUS
  <2>10. Sees(T)'
    BY <1>1, <2>1, <2>2, <2>3, <2>4, <2>5, <2>6, <2>7, <2>8, <2>9, NewObjectSees
  <2> QED BY <2>10
<1> QED BY <1>2, <1>3 DEF FinishValue

LEMMA PairsIn ==
  ASSUME NEW S, NEW s \in Seq(S)
  PROVE  \A i \in 1..Len(s) \div 2 : i \in Nat /\ s[2 * i] \in S
<1> DEFINE m == Len(s)
<1>1. m \in Nat
  OBVIOUS
<1>2. \A i \in 1..m \div 2 : i \in Nat /\ 2 * i \in 1..m
  <2> HIDE DEF m
  <2> QED BY <1>1
<1> QED BY <1>2

LEMMA FinishMapSees ==
  ASSUME TypeInv, NEW S, Sees(S), FinishMap
  PROVE  \E T : Sees(T)'
<1> DEFINE key(i) == cont.values[2 * i - 1]
           pairs == 1..Len(cont.values) \div 2
           keys == {cont.values[i] : i \in {j \in DOMAIN cont.values : j % 2 = 1}}
           names == {KeyText(key(i)) : i \in pairs} \ {NULL}
           First(n) == CHOOSE i \in pairs : /\ KeyText(key(i)) = n
                                            /\ \A j \in pairs : KeyText(key(j)) = n => i <= j
           r == [type |-> "Map", prototype |-> "Map", own |-> TRUE,
                 data |-> {KeyText(v) : v \in keys}]
           table == [n \in names |-> cont.values[2 * First(n)]]
<1>1. /\ Going /\ cont # Idle /\ FreeCells(Object) # {} /\ cont.values \in Seq(S)
      /\ cont.kind = "Map"
  BY DEF FinishMap, Makings, Sees, Reaches
<1>2. CASE \E how : Crash(how)
  BY <1>2, CrashSees
<1>3. CASE /\ obj' = [obj EXCEPT ![NewObject] = r]
           /\ slots' = [slots EXCEPT ![NewObject] = table]
           /\ fields' = [fields EXCEPT ![NewObject] = names]
           /\ Finish(NewObject)
           /\ UNCHANGED frameVars
  <2>1. ASSUME NEW n \in names
        PROVE  table[n] \in S
    <3> DEFINE named == {i \in pairs : KeyText(key(i)) = n}
    <3>1. named \subseteq Nat /\ named # {}
      <4>1. PICK i \in pairs : KeyText(key(i)) = n
        OBVIOUS
      <4>3. i \in named
        BY <4>1
      <4>4. pairs \subseteq Nat
        BY <1>1, PairsIn
      <4> QED BY <4>3, <4>4
    <3>2. \E i \in named : \A j \in named : i <= j
      <4> HIDE DEF named
      <4> QED BY <3>1, MinimumOfNat
    <3>3. First(n) \in pairs
      BY <3>2
    <3>4. table[n] = cont.values[2 * First(n)]
      OBVIOUS
    <3>5. PICK i \in pairs : i = First(n)
      BY <3>3
    <3>6. cont.values[2 * i] \in S
      BY <1>1, PairsIn
    <3> QED BY <3>4, <3>5, <3>6
  <2>2. r.type \in Value /\ r.prototype \in S /\ r.type # "Vector"
    BY NamesAreValues, SeenValues DEF Blueprint
  <2>3. \A n \in DOMAIN table : table[n] \in S /\ n \in names
    BY <2>1
  <2> HIDE DEF r, table, names
  <2>4. UNCHANGED <<made, condemned, live>> /\ cont' = Idle
    BY <1>3 DEF frameVars, Finish
  <2>5. PICK o, T : o = NewObject /\ T = S \union {o}
    OBVIOUS
  <2>6. PICK q : q = r
    OBVIOUS
  <2>7. Finish(o) /\ obj' = [obj EXCEPT ![o] = q]
    BY <1>3, <2>5, <2>6
  <2>8. Reaches(T)'
    BY <2>4, <2>5, <2>7, FinishReaches
  <2>a. o \in Value
    BY <1>1, <2>5, NewObjectIsNew
  <2>9. /\ \A w \in Value \ {o} : slots'[w] = slots[w] /\ fields'[w] = fields[w]
        /\ \A n \in DOMAIN slots'[o] : slots'[o][n] \in S /\ n \in fields'[o]
    BY <1>3, <2>3, <2>5, <2>a DEF TypeInv, ValueInv, HeapInv
  <2>10. Sees(T)'
    BY <1>1, <2>2, <2>4, <2>5, <2>6, <2>7, <2>8, <2>9, NewObjectSees
  <2> QED BY <2>10
<1> QED BY <1>2, <1>3 DEF FinishMap, Using

LEMMA FinishIndexSees ==
  ASSUME TypeInv, NEW S, Sees(S), FinishIndex
  PROVE  \E T : Sees(T)'
<1>0. PICK o, T : o = NewObject /\ T = S \union {o}
  OBVIOUS
<1> DEFINE r == [type |-> "Number", prototype |-> "Number", own |-> TRUE, data |-> cont.name]
           more == <<cont.values[1], o>>
           ns == [natives EXCEPT ![Len(natives)].values = @ \o more]
<1>1. /\ ValueInv /\ Going /\ cont # Idle /\ cont.kind = "index" /\ FreeCells(Object) # {}
      /\ ContOK(cont) /\ natives # << >> /\ natives \in Seq(Wait) /\ cont.values \in Seq(S)
  BY DEF TypeInv, FinishIndex, Makings, ValueInv, ControlInv, WaitsOK, Sees, Reaches
<1>2. Waiting \in Wait /\ Waiting.values \in Seq(S)
  BY <1>1, WaitingIsOK, WaitingIn
<1>3. more \in Seq(T)
  <2>1. cont.values[1] \in T
    BY <1>0, <1>1 DEF ContOK
  <2> QED BY <1>0, <2>1
<1>4. Waiting.values \o more \in Seq(T)
  <2>1. Waiting.values \in Seq(T)
    BY <1>0, <1>2
  <2> HIDE DEF more
  <2> QED BY <1>3, <2>1
<1>5. PICK q, l, n, w : q = r /\ l = Len(natives) /\ n = Waiting /\ w = more
  OBVIOUS
<1>6. /\ ns = [natives EXCEPT ![l] = [n EXCEPT !.values = n.values \o w]]
      /\ l \in 1..Len(natives) /\ n \in Wait
  BY <1>1, <1>2, <1>5 DEF Waiting
<1>7. [n EXCEPT !.values = n.values \o w].values \in Seq(T)
  <2>1. [n EXCEPT !.values = n.values \o w].values = n.values \o w
    BY <1>6 DEF Wait
  <2> HIDE DEF more
  <2> QED BY <1>4, <1>5, <2>1
<1>8. /\ natives' = ns /\ obj' = [obj EXCEPT ![o] = q] /\ cont' = Idle
      /\ UNCHANGED <<made, condemned, live, stack, self, locals, slots, fields>>
  BY <1>0, <1>5 DEF FinishIndex, frameVars, recordVars
<1>9. q.type \in Value /\ q.prototype \in S /\ q.type # "Vector"
  BY <1>5, NamesAreValues, SeenValues DEF Blueprint
<1> HIDE DEF r, ns, more
<1>10. \A i \in 1..Len(natives') : natives'[i].values \in Seq(T)
  <2>1. PICK m : m = [n EXCEPT !.values = n.values \o w]
    OBVIOUS
  <2>2. /\ Len(natives') = Len(natives)
        /\ \A i \in 1..Len(natives) : natives'[i] = IF i = l THEN m ELSE natives[i]
    BY <1>1, <1>6, <1>8, <2>1
  <2>3. \A i \in 1..Len(natives) : natives[i].values \in Seq(T)
    BY <1>0 DEF Sees, Reaches
  <2> QED BY <1>7, <2>1, <2>2, <2>3
<1>11. Reaches(T)'
  <2>1. stack' \in Seq(In(T))
    BY <1>0, <1>8 DEF Sees, Reaches, In
  <2> QED BY <1>0, <1>8, <1>10, <2>1 DEF Sees, Reaches, In
<1>12. /\ \A u \in Value \ {o} : slots'[u] = slots[u] /\ fields'[u] = fields[u]
       /\ \A m \in DOMAIN slots'[o] : slots'[o][m] \in S /\ m \in fields'[o]
  BY <1>0, <1>1, <1>8, NewObjectEmpty
<1>13. Sees(T)'
  BY <1>0, <1>1, <1>8, <1>9, <1>11, <1>12, NewObjectSees
<1> QED BY <1>13

\* The name of the slot that was set is recorded.
LEMMA FinishFieldSees ==
  ASSUME TypeInv, NEW S, Sees(S), FinishField
  PROVE  Sees(S)'
<1>1. CASE \E how : Crash(how)
  BY <1>1, CrashSees
<1>2. CASE /\ fields' = [fields EXCEPT ![cont.values[1]] = @ \union {cont.name}]
           /\ Finish(cont.values[2])
           /\ UNCHANGED <<frameVars, obj, slots>>
  <2>1. cont # Idle /\ cont.kind = "field" /\ ContOK(cont) /\ cont.values \in Seq(S)
    BY DEF TypeInv, ValueInv, ControlInv, FinishField, Unfinished, Sees, Reaches
  <2>2. cont.values[1] \in S /\ cont.values[2] \in S /\ S \subseteq Value
    BY <2>1, SeenValues DEF ContOK
  <2>3. UNCHANGED <<made, condemned, live, obj, slots>> /\ cont' = Idle
    BY <1>2 DEF frameVars, Finish
  <2>4. S = SoundValues' /\ Links(S)'
    BY <2>3 DEF Sees, SoundValues, Links, Allocated
  <2>5. S \union {cont.values[2]} = S
    BY <2>2
  <2>6. Reaches(S)'
    BY <1>2, <2>3, <2>5, FinishReaches
  <2>7. Recorded(S)'
    <3>1. \A v \in Value : /\ fields[v] \subseteq fields'[v]
                           /\ v = cont.values[1] => cont.name \in fields'[v]
      BY <1>2, <2>2 DEF TypeInv, ValueInv, HeapInv
    <3> QED BY <2>3, <3>1 DEF Sees, Recorded, Awaits
  <2> QED BY <2>4, <2>6, <2>7 DEF Sees
<1> QED BY <1>1, <1>2 DEF FinishField
------------------------------------------------------------------------------
(***************************************************************************)
(* Frames are destroyed                                                    *)
(***************************************************************************)
LEMMA DestroySees ==
  ASSUME TypeInv, NEW S, Sees(S), Destroy
  PROVE  Sees(S)'
<1>1. /\ DropRecords /\ live \subseteq Frame /\ UNCHANGED <<stack, natives, cont, heapVars>>
      /\ made \in [Closure -> Function \union {NULL}] /\ live' \subseteq live
  BY DEF TypeInv, Destroy, F!TypeOK, F!Sweep, F!Release, F!ReleaseFreed, F!Fail, F!Free
<1>2. SameHeld
  BY <1>1, DroppedHeld
<1>3. CASE UNCHANGED <<made, condemned>>
  BY <1>1, <1>2, <1>3, SeesStill DEF SameValues
<1>4. CASE \E c \in Closure : F!Sweep(c)
  <2>1. PICK c \in Closure : /\ c \in condemned /\ condemned' = condemned \ {c}
                             /\ made' = [made EXCEPT ![c] = NULL]
    BY <1>4 DEF F!Sweep
  <2>2. \A v \in Value : Allocated(v)' /\ v \notin condemned' <=> Allocated(v) /\ v \notin condemned
    BY <1>1, <2>1 DEF Allocated, heapVars
  <2>3. S = SoundValues'
    BY <2>2 DEF Sees, SoundValues
  <2>4. Links(S)' /\ Recorded(S)'
    BY <1>1 DEF Sees, Links, Recorded, Awaits, heapVars
  <2>5. Reaches(S)'
    BY <1>1, <1>2 DEF Sees, Reaches, SameHeld
  <2> QED BY <2>3, <2>4, <2>5 DEF Sees
<1> QED BY <1>3, <1>4 DEF Destroy, F!Release, F!ReleaseFreed, F!Fail

LEMMA FaultSees ==
  ASSUME NEW S, Sees(S), CollectFreed \/ CurrentFreed \/ Stranded
  PROVE  Sees(S)'
<1>1. CASE \E how : Crash(how)
  BY <1>1, CrashSees
<1>2. CASE /\ UNCHANGED <<made, condemned, live, self, locals>>
           /\ UNCHANGED <<stack, natives, cont, heapVars>>
  BY <1>2, SeesStill DEF SameHeld, SameValues
<1> QED BY <1>1, <1>2 DEF CollectFreed, CurrentFreed, Stranded, F!CollectFreed, F!CurrentFreed,
                          F!Fail, recordVars
------------------------------------------------------------------------------
(***************************************************************************)
(* Collections                                                             *)
(***************************************************************************)
\* g adds to the subsets of S, and f is x with that done over and over.
Adds(g, S) == g \in [SUBSET S -> SUBSET S] /\ \A X \in SUBSET S : X \subseteq g[X]

Iterates(f, g, x, N) == \A i \in 0..N : f[i] = IF i = 0 THEN x ELSE g[f[i - 1]]

\* Going on from the set x by g, which adds nothing but elements of a set of N elements,
\* N times over, comes to an end.
LEMMA Saturation ==
  ASSUME NEW C, IsFiniteSet(C), NEW S, NEW x \in SUBSET S, S \ x \subseteq C,
         NEW g, Adds(g, S), NEW N, N = Cardinality(C), NEW f, Iterates(f, g, x, N)
  PROVE  f[N] \in SUBSET S /\ x \subseteq f[N] /\ g[f[N]] = f[N]
<1> USE DEF Adds, Iterates
<1> DEFINE Grows(i) == \/ g[f[i]] = f[i]
                       \/ Cardinality(f[i] \intersect C) >= i
           OK(i) == f[i] \in SUBSET S /\ x \subseteq f[i] /\ Grows(i)
           Bad == {i \in Nat : i <= N /\ ~ OK(i)}
<1>1. N \in Nat
  BY FS_CardinalityType
<1>2. \A X : IsFiniteSet(X \intersect C) /\ Cardinality(X \intersect C) \in Nat
  <2>1. ASSUME NEW X PROVE IsFiniteSet(X \intersect C)
    BY FS_Subset
  <2> QED BY <2>1, FS_CardinalityType
\* A set that is not the last lacks an element of C.
<1>3. ASSUME NEW X \in SUBSET S, x \subseteq X, g[X] # X
      PROVE  \E w \in C : w \in g[X] \ X
  BY <1>3
<1>4. Bad = {}
  <2> SUFFICES ASSUME Bad # {} PROVE FALSE
    OBVIOUS
  <2>1. PICK i \in Bad : i = 0 \/ i - 1 \in Nat \ Bad
    <3>1. Bad \subseteq Nat
      OBVIOUS
    <3> HIDE DEF Bad
    <3> QED BY LeastNat, <3>1
  <2>2. i \in Nat /\ i <= N /\ ~ OK(i)
    OBVIOUS
  <2>3. CASE i = 0
    <3>1. f[0] = x
      BY <1>1
    <3>a. PICK k : k = Cardinality(x \intersect C)
      OBVIOUS
    <3>b. k \in Nat
      BY <1>2, <3>a
    <3>2. Cardinality(x \intersect C) >= 0
      BY <3>a, <3>b
    <3>3. OK(0)
      BY <3>1, <3>2
    <3> HIDE DEF OK
    <3> QED BY <2>2, <2>3, <3>3
  <2>4. CASE i # 0
    <3>1. i - 1 \in Nat /\ i - 1 <= N /\ OK(i - 1)
      BY <1>1, <2>1, <2>2, <2>4
    <3>2. f[i] = g[f[i - 1]]
      BY <1>1, <2>2, <2>4
    <3> DEFINE X == f[i - 1]
    <3>3. X \in SUBSET S /\ x \subseteq X
      BY <3>1
    <3>4. f[i] \in SUBSET S /\ x \subseteq f[i] /\ X \subseteq f[i]
      BY <3>2, <3>3
    <3>5. CASE g[X] = X
      BY <2>2, <3>2, <3>4, <3>5
    <3>6. CASE g[X] # X
      <4>1. PICK w \in C : w \in g[X] \ X
        BY <1>3, <3>3, <3>6
      <4>2. Cardinality(X \intersect C) >= i - 1
        BY <3>1, <3>6
      <4> HIDE DEF X
      <4> DEFINE A == X \intersect C
                 B == f[i] \intersect C
      <4>3. IsFiniteSet(A) /\ IsFiniteSet(B) /\ Cardinality(A) \in Nat /\ Cardinality(B) \in Nat
        BY <1>2, <3>3, <3>4
      <4>4. A \union {w} \subseteq B /\ w \notin A
        BY <3>2, <3>4, <4>1 DEF X
      <4> HIDE DEF A, B
      <4>5. Cardinality(A \union {w}) = Cardinality(A) + 1
        BY <4>3, <4>4, FS_AddElement
      <4>6. Cardinality(A \union {w}) <= Cardinality(B)
        BY <4>3, <4>4, FS_Subset
      <4>7. Cardinality(B) >= i
        BY <2>2, <4>2, <4>3, <4>5, <4>6 DEF A
      <4> QED BY <2>2, <3>4, <4>7 DEF B
    <3> QED BY <3>5, <3>6
  <2> QED BY <2>3, <2>4
<1>5. OK(N)
  BY <1>1, <1>4
<1>6. g[f[N]] = f[N]
  <2> SUFFICES ASSUME g[f[N]] # f[N] PROVE FALSE
    OBVIOUS
  <2>1. PICK w \in C : w \in g[f[N]] \ f[N]
    BY <1>3, <1>5
  <2> DEFINE A == f[N] \intersect C
  <2>2. IsFiniteSet(A) /\ Cardinality(A) >= N /\ Cardinality(A) \in Nat
    BY <1>2, <1>5
  <2>3. w \notin A /\ A \union {w} \subseteq C
    BY <2>1
  <2> HIDE DEF A
  <2>4. Cardinality(A \union {w}) = Cardinality(A) + 1
    BY <2>2, <2>3, FS_AddElement
  <2>5. Cardinality(A \union {w}) <= N
    BY <2>3, FS_Subset
  <2> QED BY <1>1, <2>2, <2>4, <2>5
<1> QED BY <1>5, <1>6

LEMMA ChildrenIn ==
  ASSUME NEW S, Sees(S), NEW v \in S
  PROVE  Children(v) \subseteq S
<1>1. {slots[v][n] : n \in fields[v] \intersect DOMAIN slots[v]} \subseteq S
  BY DEF Sees, Links
<1>2. v \in Object => Held(v) \subseteq S /\ obj[v].prototype \in S
  BY DEF Sees, Links, Held, ValuesIn
<1> QED BY <1>1, <1>2 DEF Children

\* What the collector adds to the roots for a frame.
LEMMA FrameRootsIn ==
  ASSUME TypeInv, NEW S, Sees(S), ~ F!RootsFreed, NEW f \in F!Active
  PROVE  FrameRoots(f) \subseteq S
<1>1. ASSUME NEW p \in live PROVE Counted(locals[p]) \subseteq S
  <2>1. PICK l : l = locals[p]
    OBVIOUS
  <2>2. IsArray(l) /\ \A i \in DOMAIN l.at : l.at[i] \in In(S)
    BY <1>1, <2>1 DEF TypeInv, ValueInv, RecordInv, F!TypeOK, Sees, Reaches
  <2>3. \A i \in 0..l.end - 1 : i \in DOMAIN l.at
    BY <2>2 DEF IsArray
  <2>4. Counted(l) \subseteq S
    BY <2>2, <2>3 DEF Counted, In
  <2> QED BY <2>1, <2>4
<1>2. /\ f \in live /\ parent[f] \in live \union {NULL}
      /\ code[f] # NULL => scope[code[f]] \in live \union {NULL}
  BY DEF F!RootsFreed
<1>3. self[f] \in S
  BY <1>2 DEF Sees, Reaches
<1> DEFINE outer == {parent[f], IF code[f] = NULL THEN NULL ELSE scope[code[f]]} \ {NULL}
<1>4. outer \subseteq live
  BY <1>2
<1>5. FrameRoots(f) = {self[f]} \union Counted(locals[f]) \union (UNION {Counted(locals[p]) : p \in outer})
  BY DEF FrameRoots
<1> HIDE DEF outer
<1> QED BY <1>1, <1>2, <1>3, <1>4, <1>5

LEMMA RootsIn ==
  ASSUME TypeInv, NEW S, Sees(S), ~ F!RootsFreed, cont # Idle
  PROVE  Roots \subseteq S
<1>1. ValuesIn(stack) \ {NULL} \subseteq S
  BY DEF Sees, Reaches, ValuesIn, In
<1>2. cont.safe \subseteq S
  BY DEF Sees, Reaches, ValuesIn
<1>3. UNION {FrameRoots(f) : f \in F!Active} \subseteq S
  BY FrameRootsIn
<1> QED BY <1>1, <1>2, <1>3 DEF Roots, Sees

\* The collector marks the roots, what they refer to, and nothing that was not sound.
LEMMA MarkedSet ==
  ASSUME TypeInv, NEW S, Sees(S), ~ F!RootsFreed, cont # Idle
  PROVE  /\ Roots \subseteq Marked
         /\ Marked \subseteq S
         /\ \A v \in Marked : Children(v) \subseteq Marked
<1> DEFINE C == Closure \union Object
           N == Cardinality(C)
           g == [X \in SUBSET S |->
                   X \union (UNION {Children(v) : v \in {w \in X : Allocated(w)}})]
           Step(f) == [n \in 0..N |->
                         IF n = 0 THEN Roots
                         ELSE f[n - 1] \union
                                (UNION {Children(v) : v \in {w \in f[n - 1] : Allocated(w)}})]
           Reach == CHOOSE f : f = Step(f)
<1>1. N \in Nat /\ IsFiniteSet(C)
  BY InstanceAssumption, FS_Union, FS_CardinalityType
<1>2. g \in [SUBSET S -> SUBSET S] /\ \A X \in SUBSET S : X \subseteq g[X]
  BY ChildrenIn
<1>3. Roots \in SUBSET S /\ S \ Roots \subseteq C
  BY RootsIn, SeenValues DEF Roots, Value
<1>4. Marked = Reach[N]
  BY DEF Marked
<1>5. Reach = Step(Reach)
  <2>1. PICK f : /\ f = [i \in 0..N |-> IF i = 0 THEN Roots ELSE g[f[i - 1]]]
                 /\ \A i \in 0..N : f[i] \in DOMAIN g
    <3>1. Roots \in DOMAIN g /\ \A X \in DOMAIN g : g[X] \in DOMAIN g
      BY <1>2, <1>3
    <3> HIDE DEF N, g, C
    <3> QED BY <1>1, <3>1, Iteration
  <2>2. ASSUME NEW i \in 0..N, i # 0 PROVE f[i - 1] \in SUBSET S
    <3>1. i - 1 \in 0..N
      <4> HIDE DEF N
      <4> QED BY <1>1, <2>2
    <3>2. f[i - 1] \in DOMAIN g
      <4> HIDE DEF N, g
      <4> QED BY <2>1, <3>1
    <3> QED BY <3>2
  <2>3. f = Step(f)
    <3> HIDE DEF N
    <3> QED BY <2>1, <2>2
  <2> QED BY <2>3
<1>6. \A i \in 0..N : Reach[i] \in SUBSET S
  <2> DEFINE Bad == {i \in Nat : i <= N /\ Reach[i] \notin SUBSET S}
  <2> HIDE DEF Reach, N
  <2> SUFFICES ASSUME Bad # {} PROVE FALSE
    OBVIOUS
  <2>1. PICK i \in Bad : i = 0 \/ i - 1 \in Nat \ Bad
    <3>1. Bad \subseteq Nat
      OBVIOUS
    <3> HIDE DEF Bad
    <3> QED BY LeastNat, <3>1
  <2>2. i \in 0..N /\ Reach[i] \notin SUBSET S
    BY <1>1
  <2>3. i # 0
    BY <1>3, <1>5, <2>2
  <2>4. Reach[i - 1] \in SUBSET S
    BY <1>1, <2>1, <2>2, <2>3
  <2>5. Reach[i] = g[Reach[i - 1]]
    BY <1>5, <2>2, <2>3, <2>4
  <2> HIDE DEF g
  <2> QED BY <1>2, <2>2, <2>4, <2>5
<1>7. \A i \in 0..N : Reach[i] = IF i = 0 THEN Roots ELSE g[Reach[i - 1]]
  <2> HIDE DEF Reach, N
  <2>1. ASSUME NEW i \in 0..N, i # 0 PROVE i - 1 \in 0..N
    BY <1>1, <2>1
  <2> QED BY <1>5, <1>6, <2>1
<1>8. Reach[N] \in SUBSET S /\ Roots \subseteq Reach[N] /\ g[Reach[N]] = Reach[N]
  <2>1. PICK c, m, x, h, r : c = C /\ m = N /\ x = Roots /\ h = g /\ r = Reach
    OBVIOUS
  <2>2. m = Cardinality(c)
    BY <2>1
  <2> HIDE DEF Reach, C, g, N
  <2>3. Iterates(r, h, x, m)
    BY <1>7, <2>1 DEF Iterates
  <2>4. IsFiniteSet(c)
    BY <1>1, <2>1
  <2>5. Adds(h, S)
    BY <1>2, <2>1 DEF Adds
  <2>6. x \in SUBSET S /\ S \ x \subseteq c
    BY <1>3, <2>1
  <2>7. r[m] \in SUBSET S /\ x \subseteq r[m] /\ h[r[m]] = r[m]
    BY <2>2, <2>3, <2>4, <2>5, <2>6, Saturation
  <2> QED BY <2>1, <2>7
<1> HIDE DEF Reach, N
<1>9. \A v \in Marked : Allocated(v)
  BY <1>4, <1>8, SeenValues
<1> QED BY <1>4, <1>8, <1>9
------------------------------------------------------------------------------
\* The premise of the theorem, for one collection: what it does not see is marked all the same.
LEMMA CollectSees ==
  ASSUME TypeInv, NEW S, Sees(S), AllInSight, Collect
  PROVE  \E T : Sees(T)'
<1>1. /\ Going /\ cont # Idle /\ ~ F!RootsFreed /\ condemned = {}
      /\ obj' = [o \in Object |-> IF o \in Garbage THEN Unused ELSE obj[o]]
      /\ slots' = Cleared(slots, Garbage, << >>)
      /\ fields' = Cleared(fields, Garbage, {})
      /\ UNCHANGED <<made, live, stack, self, locals, natives, cont>>
  BY DEF Collect, Going, F!Running, F!Collect, frameVars, recordVars
<1>2. condemned' = Garbage \intersect Closure
  BY <1>1 DEF Collect, F!Collect, frameVars
<1>3. Roots \subseteq Marked /\ Marked \subseteq S /\ \A v \in Marked : Children(v) \subseteq Marked
  BY <1>1, MarkedSet
<1>4. /\ S \subseteq Value /\ NULL \notin S /\ Permanent \subseteq Marked
      /\ cont.safe \subseteq Marked /\ \A v \in S : Allocated(v)
  BY <1>3, SeenValues DEF Roots
<1>5. \A v \in S : v \in Marked <=> v \notin Garbage
  BY <1>4, NamesAreValues DEF Garbage, Value
<1>6. PICK T : T = Marked
  OBVIOUS
<1>7. T = SoundValues'
  <2>1. ASSUME NEW v \in Value
        PROVE  v \in T <=> Allocated(v)' /\ v \notin condemned'
    <3>1. CASE v \in Closure
      BY <1>1, <1>2, <1>3, <1>4, <1>6, <2>1, <3>1, ValueAssumption DEF Garbage, Allocated
    <3>2. CASE v \in Object
      <4>1. v \notin Closure
        BY <3>2, ValueAssumption
      <4>2. Allocated(v)' <=> v \notin Garbage /\ obj[v].type # NULL
        <5>1. obj'[v] = IF v \in Garbage THEN Unused ELSE obj[v]
          BY <1>1, <3>2
        <5>2. Unused.type = NULL
          BY DEF Unused
        <5> QED BY <3>2, <4>1, <5>1, <5>2 DEF Allocated
      <4>3. v \in Garbage <=> obj[v].type # NULL /\ v \notin Marked
        BY <3>2, <4>1 DEF Garbage, Allocated
      <4>4. v \in Marked => obj[v].type # NULL
        BY <1>3, <1>4, <3>2 DEF Allocated
      <4> QED BY <1>2, <1>6, <4>1, <4>2, <4>3, <4>4
    <3>3. CASE v \notin Closure \union Object
      BY <1>2, <1>4, <1>6, <3>3 DEF Value, Allocated
    <3> QED BY <3>1, <3>2, <3>3
  <2> QED BY <1>3, <1>4, <1>6, <2>1 DEF SoundValues
<1>8. ASSUME NEW v \in T
      PROVE  /\ v \in S /\ v \in Value /\ slots'[v] = slots[v] /\ fields'[v] = fields[v]
             /\ v \in Object => obj'[v] = obj[v]
  <2>1. v \in S /\ v \in Value /\ v \notin Garbage
    BY <1>3, <1>4, <1>5, <1>6, <1>8
  <2> QED BY <1>1, <2>1 DEF Cleared
<1>9. ASSUME NEW v \in T, NEW n \in DOMAIN slots[v]
      PROVE  slots[v][n] \in T
  <2>1. n \in fields[v] \/ Awaits(v, n)
    BY <1>8, <1>9 DEF Sees, Recorded
  <2>2. CASE n \in fields[v]
    <3>1. slots[v][n] \in Children(v)
      BY <1>9, <2>2 DEF Children
    <3> QED BY <1>3, <1>6, <1>9, <3>1
  <2>3. CASE Awaits(v, n)
    BY <1>4, <1>6, <2>3 DEF Awaits
  <2> QED BY <2>1, <2>2, <2>3
<1>10. Links(T)'
  <2>1. ASSUME NEW v \in T, v \in Object
        PROVE  /\ obj[v].prototype \in T
               /\ obj[v].own /\ obj[v].type = "Vector" => obj[v].data \in Seq(T)
    <3>1. v \in S /\ Children(v) \subseteq T
      BY <1>3, <1>6, <2>1
    <3>2. obj[v].prototype \in S
      BY <2>1, <3>1 DEF Sees, Links
    <3>3. obj[v].prototype \in Children(v) /\ Held(v) \subseteq Children(v)
      BY <1>4, <2>1, <3>2 DEF Children
    <3>4. ASSUME obj[v].own, obj[v].type = "Vector" PROVE obj[v].data \in Seq(T)
      <4>1. PICK d : d = obj[v].data
        OBVIOUS
      <4>2. d \in Seq(S)
        BY <2>1, <3>1, <3>4, <4>1 DEF Sees, Links
      <4>3. ValuesIn(d) \subseteq T
        BY <3>1, <3>3, <3>4, <4>1 DEF Held
      <4>4. d \in Seq(T)
        BY <4>2, <4>3 DEF ValuesIn
      <4> QED BY <4>1, <4>4
    <3> QED BY <3>1, <3>3, <3>4
  <2> QED BY <1>8, <1>9, <2>1 DEF Links
<1>11. Recorded(T)'
  <2>1. ASSUME NEW v \in Value, NEW n \in DOMAIN slots'[v]
        PROVE  v \in T /\ (n \in fields'[v] \/ Awaits(v, n)')
    <3>1. v \notin Garbage
      <4>1. v \in Garbage => slots'[v] = << >>
        BY <1>1, <2>1 DEF Cleared
      <4> QED BY <2>1, <4>1
    <3>2. slots'[v] = slots[v]
      BY <1>1, <2>1, <3>1 DEF Cleared
    <3>3. v \in S /\ (n \in fields[v] \/ Awaits(v, n))
      BY <2>1, <3>2 DEF Sees, Recorded
    <3>4. v \in T
      BY <1>5, <1>6, <3>1, <3>3
    <3>5. fields'[v] = fields[v]
      BY <1>8, <3>4
    <3> QED BY <1>1, <3>2, <3>3, <3>4, <3>5 DEF Awaits
  <2> QED BY <2>1 DEF Recorded
<1>12. Unseen \ {NULL} \subseteq T
  BY <1>1, <1>6 DEF AllInSight
<1>13. ValuesIn(stack) \ {NULL} \subseteq T /\ \A f \in F!Active : FrameRoots(f) \subseteq T
  BY <1>3, <1>6 DEF Roots
<1>14. stack \in Seq(In(T))
  <2>1. stack \in Seq(In(S))
    BY SeenParts
  <2>2. \A i \in 1..Len(stack) : stack[i] \in In(T)
    BY <1>13, <2>1 DEF ValuesIn, In
  <2> QED BY <2>1, <2>2
<1>15. InHand \subseteq T
  <2>a. \A i \in DOMAIN natives : ValuesIn(natives[i].values) \subseteq S
    BY DEF TypeInv, ValueInv, ControlInv, WaitsOK, ValuesIn, Sees, Reaches
  <2>b. ValuesIn(cont.values) \subseteq S
    BY <1>1 DEF ValuesIn, Sees, Reaches
  <2>1. InHand \subseteq S
    BY <2>a, <2>b DEF InHand
  <2>2. InHand \ cont.safe \subseteq Unseen
    BY DEF Unseen
  <2> QED BY <1>4, <1>6, <1>12, <2>1, <2>2
<1>16. ASSUME NEW s \in Seq(S), ValuesIn(s) \subseteq T PROVE s \in Seq(T)
  BY <1>16 DEF ValuesIn
<1>17. \A i \in 1..Len(natives) : natives[i].values \in Seq(T)
  <2>1. ASSUME NEW i \in 1..Len(natives) PROVE natives[i].values \in Seq(T)
    <3>1. natives[i].values \in Seq(S)
      BY <2>1 DEF Sees, Reaches
    <3>2. i \in DOMAIN natives
      BY <2>1 DEF TypeInv, ValueInv, ControlInv, WaitsOK
    <3>3. ValuesIn(natives[i].values) \subseteq InHand
      BY <3>2 DEF InHand
    <3>4. ValuesIn(natives[i].values) \subseteq T
      BY <1>15, <3>3
    <3> QED BY <1>16, <3>1, <3>4
  <2> QED BY <2>1
<1>18. cont.values \in Seq(T)
  <2>1. cont.values \in Seq(S)
    BY <1>1 DEF Sees, Reaches
  <2>2. ValuesIn(cont.values) \subseteq InHand
    BY DEF InHand
  <2>3. ValuesIn(cont.values) \subseteq T
    BY <1>15, <2>2
  <2> QED BY <1>16, <2>1, <2>3
<1>19. ASSUME NEW f \in live
       PROVE  self[f] \in T
  <2>1. self[f] \in S
    BY <1>19 DEF Sees, Reaches
  <2>2. CASE f \in F!Active
    BY <1>13, <2>2 DEF FrameRoots
  <2>3. CASE f \notin F!Active
    <3>1. self[f] \in Unseen
      BY <1>19, <2>3 DEF Unseen
    <3> QED BY <1>4, <1>12, <2>1, <3>1
  <2> QED BY <2>2, <2>3
<1>20. ASSUME NEW f \in live
       PROVE  Elements(locals[f]) \subseteq T
  <2> DEFINE seen == F!Active \union {parent[g] : g \in F!Active}
                       \union {scope[code[g]] : g \in {h \in F!Active : code[h] # NULL}}
  <2>1. NULL \notin Elements(locals[f])
    BY DEF Elements
  <2>2. Elements(locals[f]) \ (IF f \in seen THEN Counted(locals[f]) ELSE {}) \subseteq Unseen
    BY <1>20 DEF Unseen
  <2>3. CASE f \in seen
    <3>1. f # NULL
      BY <1>20, InstanceAssumption DEF TypeInv, F!TypeOK
    <3>2. \E g \in F!Active : Counted(locals[f]) \subseteq FrameRoots(g)
      BY <2>3, <3>1 DEF FrameRoots
    <3>3. Counted(locals[f]) \subseteq T
      BY <1>13, <3>2
    <3> HIDE DEF seen
    <3> QED BY <1>12, <2>1, <2>2, <2>3, <3>3
  <2>4. CASE f \notin seen
    <3> HIDE DEF seen
    <3> QED BY <1>12, <2>1, <2>2, <2>4
  <2> QED BY <2>3, <2>4
<1>21. \A f \in live : \A i \in DOMAIN locals[f].at : locals[f].at[i] \in In(T)
  BY <1>20 DEF Elements, In
<1>22. cont.safe \subseteq T
  BY <1>4, <1>6
<1>23. Reaches(T)'
  BY <1>1, <1>14, <1>17, <1>18, <1>19, <1>21, <1>22 DEF Reaches
<1>24. Permanent \subseteq T
  BY <1>4, <1>6
<1>25. Sees(T)'
  BY <1>7, <1>10, <1>11, <1>23, <1>24 DEF Sees
<1> QED BY <1>25
------------------------------------------------------------------------------
(***************************************************************************)
(* Every run                                                               *)
(***************************************************************************)
LEMMA KeepInvInit == Init => KeepInv
<1> SUFFICES ASSUME Init PROVE Sees(SoundValues)
  BY DEF KeepInv
<1>1. /\ made = [c \in Closure |-> NULL] /\ condemned = {} /\ live = {Top}
      /\ stack = << >> /\ natives = << >> /\ cont = Idle
      /\ obj = [o \in Object |-> Unused] /\ slots = Installed
      /\ fields = [v \in Value |-> DOMAIN Installed[v]]
  BY DEF Init, F!Init
<1>2. \A v \in Value : Allocated(v) <=> v \in Permanent
  BY <1>1, ValueAssumption DEF Allocated, Unused, Value
<1>3. PICK S : S = Permanent
  OBVIOUS
<1>4. S = SoundValues
  BY <1>1, <1>2, <1>3 DEF SoundValues, Value
<1>5. \A v \in Value : \A n \in DOMAIN slots[v] : slots[v][n] \in S /\ n \in fields[v]
  BY <1>1, <1>3, InstalledIsTable DEF Permanent
<1>6. \A v \in Value \ S : DOMAIN slots[v] = {}
  <2>1. \A v \in Value : v \notin DOMAIN Natives => slots[v] = << >>
    BY <1>1 DEF Installed
  <2>2. DOMAIN Natives \subseteq S
    BY <1>3 DEF Natives, Permanent, Blueprint
  <2> QED BY <2>1, <2>2
<1>7. Recorded(S)
  BY <1>5, <1>6 DEF Recorded
<1>8. Links(S)
  BY <1>3, <1>5, ValueAssumption DEF Links, Value
<1>9. Reaches(S)
  <2>1. PICK args : args = Program[prog].arguments /\ args \in Seq(S)
    BY <1>3, ProgramAssumption DEF Init
  <2>2. locals[Top] = NewLocals(args, 10) /\ self[Top] = "lobby"
    BY <2>1, InstanceAssumption DEF Init
  <2>3. \A i \in DOMAIN locals[Top].at : locals[Top].at[i] \in In(S)
    BY <2>1, <2>2 DEF NewLocals, In
  <2>4. \A f \in live : self[f] \in S
    BY <1>1, <1>3, <2>2 DEF Permanent
  <2>5. stack \in Seq(In(S)) /\ \A i \in 1..Len(natives) : natives[i].values \in Seq(S)
    BY <1>1
  <2> QED BY <1>1, <2>3, <2>4, <2>5 DEF Reaches
<1>10. Sees(S)
  BY <1>3, <1>4, <1>7, <1>8, <1>9 DEF Sees
<1> QED BY <1>4, <1>10

LEMMA KeepInvNext ==
  KeepInv /\ TypeInv /\ AllInSight /\ [Next]_vars => KeepInv'
<1> SUFFICES ASSUME KeepInv, TypeInv, AllInSight, [Next]_vars, phase' = "running"
             PROVE  \E T : Sees(T)'
  BY DEF KeepInv, Sees
<1>1. phase = "running"
  <2>1. FrameStep
    BY FramesTakeOneStep
  <2> QED BY <2>1 DEF FrameStep, frameVars, F!Defn, F!Call, F!PushFrame, F!CallFreedScope, F!Fail,
               F!Require, F!CurrentFreed, F!RetCaptured, F!Ret, F!Release, F!ReleaseFreed,
               F!Collect, F!CollectFreed, F!Sweep, F!Exit, F!ExitDone
<1>2. PICK S : Sees(S)
  BY <1>1 DEF KeepInv
<1>3. CASE Skip \/ RunOff \/ PushConstant \/ Jump \/ Goto \/ Pop \/ GetSlot
  BY <1>2, <1>3, PlainSees, GetSlotSees
<1>4. CASE PushLocal \/ PushLocalDepth \/ SetLocal \/ SetLocalDepth
  BY <1>2, <1>4, LocalSees
<1>5. CASE Send \/ Return
  BY <1>2, <1>5, SendSees, ReturnSees
<1>6. CASE EachElement \/ EachIndex \/ EachIndexed \/ EachDone \/ RequireFile \/ RequireDone
  BY <1>2, <1>6, EachSees, DoneSees, RequireFileSees
<1>a. CASE FinishFile \/ ReadAgain
  BY <1>2, <1>a, FinishFileSees, ReadAgainSees
<1>7. CASE Defn \/ MakeVec \/ SetSlot \/ Dump
  BY <1>2, <1>7, AllocatingSees
<1>8. CASE FinishNil \/ FinishPrint \/ OutOfCells \/ FinishField
  BY <1>2, <1>8, SmallFinishSees, FinishFieldSees
<1>9. CASE FinishClosure \/ FinishValue \/ FinishMap \/ FinishIndex
  BY <1>2, <1>9, FinishClosureSees, FinishValueSees, FinishMapSees, FinishIndexSees
<1>10. CASE Collect
  BY <1>2, <1>10, CollectSees
<1>11. CASE CollectFreed \/ CurrentFreed \/ Stranded \/ Destroy
  BY <1>2, <1>11, FaultSees, DestroySees
<1>12. CASE Halted \/ UNCHANGED vars
  <2>1. SameValues /\ SameHeld /\ UNCHANGED <<stack, natives, cont>>
    BY <1>12, SameRecordsHeld DEF Halted, vars, frameVars, SameValues
  <2> QED BY <1>2, <2>1, SeesStill
<1>13. ~ Exit
  BY DEF Exit, F!Exit, F!ExitDone
<1> QED
  BY <1>3, <1>4, <1>5, <1>6, <1>a, <1>7, <1>8, <1>9, <1>10, <1>11, <1>12, <1>13 DEF Next

\* What the program can come upon next is sound.
LEMMA InUseIsSound ==
  ASSUME TypeInv, NEW S, Sees(S)
  PROVE  InUse \subseteq S
<1> DEFINE N == Cardinality(Frame)
           up == [X \in SUBSET live |-> X \union ({parent[f] : f \in X} \intersect live)]
           Step(f) == [n \in 0..N |-> IF n = 0 THEN F!Active \intersect live
                                      ELSE f[n - 1] \union ({parent[g] : g \in f[n - 1]} \intersect live)]
           Around == CHOOSE f : f = Step(f)
           calls == Around[N]
           direct == ValuesIn(stack) \union {self[f] : f \in calls}
                       \union (UNION {Elements(locals[f]) : f \in calls})
                       \union InHand
<1>1. N \in Nat
  BY InstanceAssumption, FS_CardinalityType
<1>2. /\ DOMAIN up = SUBSET live /\ \A X \in DOMAIN up : up[X] \in DOMAIN up
      /\ F!Active \intersect live \in DOMAIN up
  OBVIOUS
<1>3. InUse = (direct \union (UNION {ValuesIn(slots[v]) : v \in (direct \union {"lobby"}) \ {NULL}}))
                \ {NULL}
  BY DEF InUse
<1> HIDE DEF N
<1>4. Around = Step(Around)
  <2>1. PICK f : /\ f = [i \in 0..N |-> IF i = 0 THEN F!Active \intersect live ELSE up[f[i - 1]]]
                 /\ \A i \in 0..N : f[i] \in DOMAIN up
    <3> HIDE DEF up
    <3>1. PICK x \in DOMAIN up : x = F!Active \intersect live
      BY <1>2
    <3>a. \A X \in DOMAIN up : up[X] \in DOMAIN up
      BY <1>2
    <3>2. PICK f : /\ f = [i \in 0..N |-> IF i = 0 THEN x ELSE up[f[i - 1]]]
                   /\ \A i \in 0..N : f[i] \in DOMAIN up
      BY <1>1, <3>a, Iteration
    <3> QED BY <3>1, <3>2
  <2>2. ASSUME NEW i \in 0..N, i # 0
        PROVE  up[f[i - 1]] = f[i - 1] \union ({parent[g] : g \in f[i - 1]} \intersect live)
    <3>1. i - 1 \in 0..N
      BY <1>1, <2>2
    <3>2. f[i - 1] \in SUBSET live
      <4> HIDE DEF up
      <4> QED BY <1>2, <2>1, <3>1
    <3> QED BY <3>2
  <2>3. f = Step(f)
    <3> HIDE DEF up
    <3> QED BY <2>1, <2>2
  <2> QED BY <2>3
<1> HIDE DEF Around
<1>5. calls \subseteq live
  <2> DEFINE Bad == {i \in Nat : i <= N /\ ~ Around[i] \subseteq live}
  <2>1. Bad = {}
    <3> SUFFICES ASSUME Bad # {} PROVE FALSE
      OBVIOUS
    <3>1. PICK i \in Bad : i = 0 \/ i - 1 \in Nat \ Bad
      <4>1. Bad \subseteq Nat
        OBVIOUS
      <4> HIDE DEF Bad
      <4> QED BY LeastNat, <4>1
    <3>2. i \in 0..N /\ ~ Around[i] \subseteq live
      BY <1>1
    <3>3. i # 0
      BY <1>4, <3>2
    <3>4. Around[i - 1] \subseteq live
      BY <1>1, <3>1, <3>2, <3>3
    <3> QED BY <1>4, <3>2, <3>3, <3>4
  <2> QED BY <1>1, <2>1
<1> HIDE DEF calls
<1>6. direct \subseteq In(S)
  <2>1. ValuesIn(stack) \subseteq In(S)
    BY DEF Sees, Reaches, ValuesIn
  <2>2. {self[f] : f \in calls} \subseteq In(S)
    BY <1>5 DEF Sees, Reaches, In
  <2>3. UNION {Elements(locals[f]) : f \in calls} \subseteq In(S)
    BY <1>5 DEF Sees, Reaches, Elements
  <2>4. InHand \subseteq S
    <3>1. \A i \in DOMAIN natives : ValuesIn(natives[i].values) \subseteq S
      BY DEF TypeInv, ValueInv, ControlInv, WaitsOK, ValuesIn, Sees, Reaches
    <3>2. ValuesIn(cont.values) \subseteq S
      BY DEF ValuesIn, Sees, Reaches, Idle
    <3> QED BY <3>1, <3>2 DEF InHand
  <2> QED BY <2>1, <2>2, <2>3, <2>4 DEF In
<1> HIDE DEF direct
<1>7. \A v \in S : ValuesIn(slots[v]) \subseteq S
  BY DEF Sees, Links, ValuesIn
<1>8. "lobby" \in S
  BY SeenValues
<1> QED BY <1>3, <1>6, <1>7, <1>8 DEF In

\* gc.c: what GC_protect, GC_add_roots and GC_add_children leave out is all that a run can
\* lose.  In a run in which each such value is marked by another way whenever a collection may
\* come, no collection destroys a value that is in use.  Of the other runs nothing is said: a
\* program that prints a vector it has just made is one.
THEOREM CollectorSpares == Spec => CollectorKeeps
<1>1. KeepInv /\ TypeInv => NoStaleValue
  <2> SUFFICES ASSUME KeepInv, TypeInv, phase = "running" PROVE \A v \in InUse : Allocated(v)
    BY DEF NoStaleValue
  <2>1. PICK S : Sees(S)
    BY DEF KeepInv
  <2> QED BY <2>1, InUseIsSound, SeenValues
<1> QED BY <1>1, KeepInvInit, KeepInvNext, RunsAreTyped, PTL DEF Spec, CollectorKeeps
------------------------------------------------------------------------------
(***************************************************************************)
(* The operand stack                                                       *)
(***************************************************************************)
\* How many operands the function of each frame has at each of its cells.
HeightsOf == [f \in Frame |-> Height(Program[prog].code[IF code[f] # NULL THEN code[f]
                                                         ELSE "main"])]

\* f has n operands, and goes on at the cell `next' once it has got `due' more.
Owes(f, next, n, due) ==
    f \in live => /\ next \in DOMAIN HeightsOf[f]
                  /\ HeightsOf[f][next] \in Nat /\ HeightsOf[f][next] >= due
                  /\ n + due = base[f] + HeightsOf[f][next]

\* at[j] is the place on FRAMES of the frame that called the native j.  It is the one below
\* the frame of the VM_run that the native started, or the last one if the native has control.
Placed(at) ==
    /\ \A i \in DOMAIN at : \A j \in DOMAIN at : i < j => at[i] < at[j]
    /\ \A j \in DOMAIN at : at[j] = Len(frames) => ip = NULL
    /\ ip = NULL /\ frames # << >> => natives # << >> /\ at[Len(natives)] = Len(frames)
    /\ \A i \in 1..Len(frames) :
         frames[i] \in live =>
           (ret[frames[i]] = NULL <=> i = 1 \/ \E j \in DOMAIN at : at[j] = i - 1)

\* Each frame below the last waits for the one value that the call above it leaves: with the
\* frame, or through a native.
Between(at) ==
    /\ \A i \in 1..Len(frames) - 1 :
         frames[i + 1] \in live /\ ret[frames[i + 1]] # NULL =>
           Owes(frames[i], ret[frames[i + 1]], base[frames[i + 1]], 1)
    /\ \A j \in DOMAIN at :
         /\ at[j] = Len(frames) => Owes(frames[at[j]], natives[j].next, Len(stack), 1)
         /\ at[j] < Len(frames) /\ frames[at[j] + 1] \in live =>
              Owes(frames[at[j]], natives[j].next, base[frames[at[j] + 1]], 1)

\* The last frame is at an instruction, or in the middle of one that will push its result.
AtTop ==
    /\ cont # Idle => (cont.kind = "index" <=> ip = NULL)
    /\ frames # << >> /\ ip # NULL =>
         /\ cont = Idle => Owes(Current, ip, Len(stack), 0)
         /\ cont # Idle => Owes(Current, cont.next, Len(stack),
                                IF cont.kind = "print" THEN 0 ELSE 1)

BalanceInv ==
    end = "no" /\ phase = "running" =>
        /\ \A f \in live : code[f] = NULL => f = Top
        /\ \E at \in [1..Len(natives) -> 1..Len(frames)] : Placed(at) /\ Between(at)
        /\ AtTop
------------------------------------------------------------------------------
(***************************************************************************)
(* How a step changes the heights                                          *)
(***************************************************************************)
\* What is known of the frames that a step leaves.
SameLives ==
    /\ live' \subseteq live
    /\ prog' = prog
    /\ \A f \in live' : ret'[f] = ret[f] /\ base'[f] = base[f] /\ code'[f] = code[f]

SameNatives ==
    /\ Len(natives') = Len(natives)
    /\ \A j \in 1..Len(natives) : natives'[j].next = natives[j].next

LEMMA SameHeights ==
  ASSUME F!TypeOK, SameLives
  PROVE  \A f \in live' : /\ f \in live /\ HeightsOf'[f] = HeightsOf[f]
                          /\ ret'[f] = ret[f] /\ base'[f] = base[f] /\ code'[f] = code[f]
<1>1. ASSUME NEW f \in live' PROVE f \in Frame /\ f \in live /\ code'[f] = code[f]
  BY <1>1 DEF F!TypeOK, SameLives
<1>2. prog' = prog
  BY DEF SameLives
<1> QED BY <1>1, <1>2 DEF HeightsOf, SameLives

LEMMA FramesAreThere ==
  ASSUME F!TypeOK
  PROVE  /\ frames \in Seq(Frame) /\ Len(frames) \in Nat
         /\ \A i \in 1..Len(frames) : frames[i] \in Frame
         /\ frames = << >> <=> Len(frames) = 0
         /\ Current = frames[Len(frames)]
BY DEF F!TypeOK, Current, F!Current

\* A step that pushes and pops no frame, and ends no native.
LEMMA SteadyStep ==
  ASSUME BalanceInv, F!TypeOK, frames' = frames, SameLives, SameNatives,
         Len(natives) \in Nat,
         ip' = NULL <=> ip = NULL,
         ip = NULL => Len(stack') = Len(stack),
         end' = "no" => end = "no", phase' = "running" => phase = "running",
         end' = "no" /\ phase' = "running" => AtTop'
  PROVE  BalanceInv'
<1> SUFFICES ASSUME end' = "no", phase' = "running"
             PROVE  /\ \A f \in live' : code'[f] = NULL => f = Top
                    /\ \E at \in [1..Len(natives') -> 1..Len(frames')] : Placed(at)' /\ Between(at)'
  BY DEF BalanceInv
<1>1. PICK at \in [1..Len(natives) -> 1..Len(frames)] : Placed(at) /\ Between(at)
  BY DEF BalanceInv
<1>2. /\ \A f \in live' : /\ f \in live /\ HeightsOf'[f] = HeightsOf[f]
                          /\ ret'[f] = ret[f] /\ base'[f] = base[f] /\ code'[f] = code[f]
  BY SameHeights
<1>3. /\ \A i \in 1..Len(frames) : frames[i] \in Frame
      /\ Len(frames) \in Nat
  BY FramesAreThere
<1>4. \A f \in live' : code'[f] = NULL => f = Top
  BY <1>2 DEF BalanceInv
<1>5. Placed(at)'
  <2>1. ip' = NULL /\ frames # << >> => natives' # << >> /\ at[Len(natives')] = Len(frames)
    BY <1>1 DEF Placed, SameNatives
  <2>2. \A j \in DOMAIN at : at[j] = Len(frames) => ip' = NULL
    BY <1>1 DEF Placed
  <2>3. \A i \in 1..Len(frames) :
          frames[i] \in live' =>
            (ret'[frames[i]] = NULL <=> i = 1 \/ \E j \in DOMAIN at : at[j] = i - 1)
    BY <1>1, <1>2 DEF Placed
  <2> QED BY <1>1, <2>1, <2>2, <2>3 DEF Placed
<1>6. Between(at)'
  <2>1. ASSUME NEW i \in 1..Len(frames) - 1, frames[i + 1] \in live', ret'[frames[i + 1]] # NULL
        PROVE  Owes(frames[i], ret[frames[i + 1]], base[frames[i + 1]], 1)'
    BY <1>1, <1>2, <2>1 DEF Between, Owes
  <2>2. ASSUME NEW j \in DOMAIN at, at[j] = Len(frames)
        PROVE  Owes(frames[at[j]], natives[j].next, Len(stack), 1)'
    <3>1. ip = NULL /\ Len(stack') = Len(stack) /\ natives'[j].next = natives[j].next
      BY <1>1, <2>2 DEF Placed, SameNatives
    <3> QED BY <1>1, <1>2, <2>2, <3>1 DEF Between, Owes
  <2>3. ASSUME NEW j \in DOMAIN at, at[j] < Len(frames), frames[at[j] + 1] \in live'
        PROVE  Owes(frames[at[j]], natives[j].next, base[frames[at[j] + 1]], 1)'
    <3>1. natives'[j].next = natives[j].next
      BY <1>1 DEF SameNatives
    <3> QED BY <1>1, <1>2, <2>3, <3>1 DEF Between, Owes
  <2> QED BY <2>1, <2>2, <2>3 DEF Between
<1>7. at \in [1..Len(natives') -> 1..Len(frames')]
  BY <1>1 DEF SameNatives
<1> QED BY <1>4, <1>5, <1>6, <1>7
\* A native begins to wait: the value that it leaves is still to come.
LEMMA NativeBegins ==
  ASSUME BalanceInv, F!TypeOK, frames' = frames, SameLives, Len(natives) \in Nat,
         frames # << >>, ip # NULL, ip' = NULL, cont' = Idle, UNCHANGED <<end, phase>>,
         NEW x, NEW n, Owes(Current, x, n, 1), Len(stack') = n,
         Len(natives') = Len(natives) + 1,
         \A j \in 1..Len(natives) : natives'[j].next = natives[j].next,
         natives'[Len(natives) + 1].next = x
  PROVE  BalanceInv'
<1> SUFFICES ASSUME end' = "no", phase' = "running"
             PROVE  /\ \A f \in live' : code'[f] = NULL => f = Top
                    /\ \E at \in [1..Len(natives') -> 1..Len(frames')] : Placed(at)' /\ Between(at)'
                    /\ AtTop'
  BY DEF BalanceInv
<1>1. PICK old \in [1..Len(natives) -> 1..Len(frames)] : Placed(old) /\ Between(old)
  BY DEF BalanceInv
<1>2. PICK m, p : m = Len(natives) /\ p = Len(frames)
  OBVIOUS
<1>3. /\ m \in Nat /\ p \in Nat /\ p # 0 /\ old \in [1..m -> 1..p] /\ DOMAIN old = 1..m
      /\ \A i \in 1..p : frames[i] \in Frame
      /\ Current = frames[p]
  BY <1>1, <1>2, FramesAreThere
<1>4. PICK at : at = [j \in 1..m + 1 |-> IF j = m + 1 THEN p ELSE old[j]]
  OBVIOUS
<1>5. /\ at \in [1..m + 1 -> 1..p] /\ DOMAIN at = 1..m + 1 /\ at[m + 1] = p
      /\ \A j \in 1..m : at[j] = old[j] /\ old[j] < p
  <2>1. \A j \in 1..m : old[j] \in 1..p /\ old[j] # p
    BY <1>1, <1>2, <1>3 DEF Placed
  <2> QED BY <1>3, <1>4, <2>1
<1>6. /\ \A f \in live' : /\ f \in live /\ HeightsOf'[f] = HeightsOf[f]
                          /\ ret'[f] = ret[f] /\ base'[f] = base[f] /\ code'[f] = code[f]
  BY SameHeights
<1>7. \A f \in live' : code'[f] = NULL => f = Top
  BY <1>6 DEF BalanceInv
<1>8. Placed(at)'
  <2>1. ASSUME NEW i \in 1..m + 1, NEW j \in 1..m + 1, i < j PROVE at[i] < at[j]
    <3>1. i \in 1..m /\ (j \in 1..m \/ j = m + 1)
      BY <1>3, <2>1
    <3>2. j \in 1..m => old[i] < old[j]
      BY <1>1, <1>3, <2>1, <3>1 DEF Placed
    <3> QED BY <1>5, <3>1, <3>2
  <2>2. natives' # << >> /\ at[Len(natives')] = Len(frames')
    BY <1>2, <1>3, <1>5
  <2>3. ASSUME NEW i \in 1..p, frames[i] \in live'
        PROVE  ret'[frames[i]] = NULL <=> i = 1 \/ \E j \in DOMAIN at : at[j] = i - 1
    <3>1. ret[frames[i]] = NULL <=> i = 1 \/ \E j \in DOMAIN old : old[j] = i - 1
      BY <1>1, <1>2, <1>6, <2>3 DEF Placed
    <3>2. (\E j \in DOMAIN old : old[j] = i - 1) <=> \E j \in DOMAIN at : at[j] = i - 1
      BY <1>3, <1>5
    <3> QED BY <1>6, <2>3, <3>1, <3>2
  <2> QED BY <1>2, <1>5, <2>1, <2>2, <2>3 DEF Placed
<1>9. Between(at)'
  <2>1. ASSUME NEW i \in 1..p - 1, frames[i + 1] \in live', ret'[frames[i + 1]] # NULL
        PROVE  Owes(frames[i], ret[frames[i + 1]], base[frames[i + 1]], 1)'
    BY <1>1, <1>2, <1>6, <2>1 DEF Between, Owes
  <2>2. ASSUME NEW j \in DOMAIN at, at[j] = p
        PROVE  Owes(frames[at[j]], natives[j].next, Len(stack), 1)'
    <3>1. j = m + 1
      BY <1>3, <1>5, <2>2
    <3> QED BY <1>2, <1>3, <1>6, <2>2, <3>1 DEF Owes
  <2>3. ASSUME NEW j \in DOMAIN at, at[j] < p, frames[at[j] + 1] \in live'
        PROVE  Owes(frames[at[j]], natives[j].next, base[frames[at[j] + 1]], 1)'
    <3>1. j \in 1..m
      BY <1>3, <1>5, <2>3
    <3>2. natives'[j].next = natives[j].next /\ at[j] = old[j] /\ j \in DOMAIN old
      BY <1>2, <1>3, <1>5, <3>1
    <3>3. frames[at[j] + 1] \in live /\ base'[frames[at[j] + 1]] = base[frames[at[j] + 1]]
      BY <1>6, <2>3
    <3>4. Owes(frames[at[j]], natives[j].next, base[frames[at[j] + 1]], 1)
      BY <1>1, <1>2, <2>3, <3>2, <3>3 DEF Between
    <3> QED BY <1>6, <3>2, <3>3, <3>4 DEF Owes
  <2> QED BY <1>2, <2>1, <2>2, <2>3 DEF Between
<1>10. AtTop'
  BY DEF AtTop
<1>11. at \in [1..Len(natives') -> 1..Len(frames')]
  BY <1>2, <1>5
<1> QED BY <1>7, <1>8, <1>9, <1>10, <1>11

\* A native ends: its frame goes on with the value.
LEMMA NativeEnds ==
  ASSUME BalanceInv, F!TypeOK, frames' = frames, SameLives, end = "no", phase = "running",
         Len(natives) \in Nat, frames # << >>, ip = NULL, ip' # NULL, cont' = Idle,
         ip' = natives[Len(natives)].next, Len(stack) \in Nat, Len(stack') = Len(stack) + 1,
         Len(natives') = Len(natives) - 1,
         \A j \in 1..Len(natives) - 1 : natives'[j].next = natives[j].next
  PROVE  BalanceInv'
<1> SUFFICES ASSUME end' = "no", phase' = "running"
             PROVE  /\ \A f \in live' : code'[f] = NULL => f = Top
                    /\ \E at \in [1..Len(natives') -> 1..Len(frames')] : Placed(at)' /\ Between(at)'
                    /\ AtTop'
  BY DEF BalanceInv
<1>1. PICK old \in [1..Len(natives) -> 1..Len(frames)] : Placed(old) /\ Between(old)
  BY DEF BalanceInv
<1>2. PICK m, p : m = Len(natives) /\ p = Len(frames)
  OBVIOUS
<1>3. /\ m \in Nat /\ p \in Nat /\ p # 0 /\ old \in [1..m -> 1..p] /\ DOMAIN old = 1..m
      /\ \A i \in 1..p : frames[i] \in Frame
      /\ Current = frames[p]
  BY <1>1, <1>2, FramesAreThere
<1>a. m # 0 /\ old[m] = p
  <2>1. natives # << >> /\ old[m] = p
    BY <1>1, <1>2 DEF Placed
  <2>2. Len(natives') \in Nat
    BY <1>2
  <2> QED BY <1>2, <1>3, <2>1
<1>4. PICK at : at = [j \in 1..m - 1 |-> old[j]]
  OBVIOUS
<1>5. /\ at \in [1..m - 1 -> 1..p] /\ DOMAIN at = 1..m - 1
      /\ \A j \in 1..m - 1 : at[j] = old[j] /\ old[j] < p
  <2>1. \A j \in 1..m - 1 : old[j] \in 1..p /\ old[j] < old[m]
    BY <1>1, <1>2, <1>3, <1>a DEF Placed
  <2> QED BY <1>3, <1>4, <1>a, <2>1
<1>6. /\ \A f \in live' : /\ f \in live /\ HeightsOf'[f] = HeightsOf[f]
                          /\ ret'[f] = ret[f] /\ base'[f] = base[f] /\ code'[f] = code[f]
  BY SameHeights
<1>7. \A f \in live' : code'[f] = NULL => f = Top
  BY <1>6 DEF BalanceInv
<1>8. Placed(at)'
  <2>1. \A i \in DOMAIN at : \A j \in DOMAIN at : i < j => at[i] < at[j]
    BY <1>1, <1>3, <1>5 DEF Placed
  <2>2. \A j \in DOMAIN at : at[j] # Len(frames')
    BY <1>2, <1>3, <1>5
  <2>3. ASSUME NEW i \in 1..p, frames[i] \in live'
        PROVE  ret'[frames[i]] = NULL <=> i = 1 \/ \E j \in DOMAIN at : at[j] = i - 1
    <3>1. ret[frames[i]] = NULL <=> i = 1 \/ \E j \in DOMAIN old : old[j] = i - 1
      BY <1>1, <1>2, <1>6, <2>3 DEF Placed
    <3>2. (\E j \in DOMAIN old : old[j] = i - 1) <=> \E j \in DOMAIN at : at[j] = i - 1
      BY <1>3, <1>a, <1>5
    <3> QED BY <1>6, <2>3, <3>1, <3>2
  <2> QED BY <1>2, <2>1, <2>2, <2>3 DEF Placed
<1>9. Between(at)'
  <2>1. ASSUME NEW i \in 1..p - 1, frames[i + 1] \in live', ret'[frames[i + 1]] # NULL
        PROVE  Owes(frames[i], ret[frames[i + 1]], base[frames[i + 1]], 1)'
    BY <1>1, <1>2, <1>6, <2>1 DEF Between, Owes
  <2>2. ASSUME NEW j \in DOMAIN at, frames[at[j] + 1] \in live'
        PROVE  Owes(frames[at[j]], natives[j].next, base[frames[at[j] + 1]], 1)'
    <3>1. /\ natives'[j].next = natives[j].next /\ at[j] = old[j] /\ j \in DOMAIN old
          /\ old[j] < p
      BY <1>2, <1>3, <1>5
    <3>2. frames[at[j] + 1] \in live /\ base'[frames[at[j] + 1]] = base[frames[at[j] + 1]]
      BY <1>6, <2>2
    <3>3. Owes(frames[at[j]], natives[j].next, base[frames[at[j] + 1]], 1)
      BY <1>1, <1>2, <3>1, <3>2 DEF Between
    <3> QED BY <1>6, <3>1, <3>2, <3>3 DEF Owes
  <2>3. \A j \in DOMAIN at : at[j] # p
    BY <1>3, <1>5
  <2> QED BY <1>2, <2>1, <2>2, <2>3 DEF Between
<1>10. AtTop'
  <2>1. Owes(frames[p], natives[m].next, Len(stack), 1)
    BY <1>1, <1>2, <1>3, <1>a DEF Between
  <2>2. frames[p] \in live' => HeightsOf'[frames[p]] = HeightsOf[frames[p]]
                               /\ base'[frames[p]] = base[frames[p]] /\ frames[p] \in live
    BY <1>6
  <2>3. Current' = frames[p]
    BY <1>2 DEF Current, F!Current
  <2>4. frames[p] \in live' => HeightsOf[frames[p]][natives[m].next] >= 0
    BY <2>1, <2>2 DEF Owes
  <2> QED BY <1>2, <2>1, <2>2, <2>3, <2>4 DEF AtTop, Owes
<1>11. at \in [1..Len(natives') -> 1..Len(frames')]
  BY <1>2, <1>5
<1> QED BY <1>7, <1>8, <1>9, <1>10, <1>11
\* A function is called: its frame starts with no operands, and the caller's wait for the
\* value it will leave.
LEMMA CallBegins ==
  ASSUME BalanceInv, F!TypeOK, WellHeighted, end = "no", phase = "running", frames # << >>,
         base \in [Frame -> Nat], ret \in [Frame -> Nat \union {NULL}], Len(natives) \in Nat,
         NEW g \in Frame, F!Fresh(g), NEW fn \in Loaded, fn # NULL, NEW r, NEW n \in Nat,
         frames' = Append(frames, g), live' = live \union {g}, prog' = prog,
         code' = [code EXCEPT ![g] = fn], ret' = [ret EXCEPT ![g] = r],
         base' = [base EXCEPT ![g] = n], SameNatives,
         cont' = Idle, ip' = 0, Len(stack') = n, UNCHANGED <<end, phase>>,
         \/ r # NULL /\ ip # NULL /\ Owes(Current, r, n, 1)
         \/ r = NULL /\ ip = NULL /\ n = Len(stack)
  PROVE  BalanceInv'
<1> SUFFICES ASSUME end' = "no", phase' = "running"
             PROVE  /\ \A f \in live' : code'[f] = NULL => f = Top
                    /\ \E at \in [1..Len(natives') -> 1..Len(frames')] : Placed(at)' /\ Between(at)'
                    /\ AtTop'
  BY DEF BalanceInv
<1>1. PICK at \in [1..Len(natives) -> 1..Len(frames)] : Placed(at) /\ Between(at)
  BY DEF BalanceInv
<1>2. PICK m, p : m = Len(natives) /\ p = Len(frames)
  OBVIOUS
<1>3. /\ m \in Nat /\ p \in Nat /\ p # 0 /\ at \in [1..m -> 1..p] /\ DOMAIN at = 1..m
      /\ frames \in Seq(Frame) /\ \A i \in 1..p : frames[i] \in Frame
      /\ Current = frames[p]
  BY <1>1, <1>2, FramesAreThere
<1>4. /\ Len(frames') = p + 1 /\ frames'[p + 1] = g
      /\ \A i \in 1..p : frames'[i] = frames[i] /\ frames[i] # g
  <2>1. \A i \in 1..p : frames[i] # g
    BY <1>2 DEF F!Fresh, F!Active
  <2> QED BY <1>2, <1>3, <2>1
<1>5. \A f \in live : f \in Frame /\ f # g
  BY DEF F!Fresh, F!TypeOK
<1>6. /\ ret'[g] = r /\ base'[g] = n /\ HeightsOf'[g] = Height(Program[prog].code[fn])
      /\ g \in live'
  BY DEF HeightsOf, F!TypeOK
<1>7. \A f \in Frame : f # g => /\ f \in live' <=> f \in live
                                /\ HeightsOf'[f] = HeightsOf[f] /\ code'[f] = code[f]
                                /\ ret'[f] = ret[f] /\ base'[f] = base[f]
  BY DEF HeightsOf, F!TypeOK
<1>8. \A f \in live' : code'[f] = NULL => f = Top
  <2>1. \A f \in live' : f # g => f \in live /\ code'[f] = code[f]
    BY <1>5, <1>7
  <2>2. code'[g] = fn
    BY DEF F!TypeOK
  <2> QED BY <2>1, <2>2 DEF BalanceInv
<1>9. Placed(at)'
  <2>1. \A i \in DOMAIN at : \A j \in DOMAIN at : i < j => at[i] < at[j]
    BY <1>1 DEF Placed
  <2>2. \A j \in DOMAIN at : at[j] # Len(frames')
    BY <1>3, <1>4
  <2>3. ip' # NULL
    BY NaturalsAreNotNULL
  <2>4. ASSUME NEW i \in 1..p, frames'[i] \in live'
        PROVE  ret'[frames'[i]] = NULL <=> i = 1 \/ \E j \in DOMAIN at : at[j] = i - 1
    <3>1. ret[frames[i]] = NULL <=> i = 1 \/ \E j \in DOMAIN at : at[j] = i - 1
      BY <1>1, <1>2, <1>3, <1>4, <1>7, <2>4 DEF Placed
    <3> QED BY <1>3, <1>4, <1>7, <3>1
  <2>5. r = NULL <=> \E j \in DOMAIN at : at[j] = p
    <3>1. CASE ip # NULL
      BY <1>1, <1>2, <3>1 DEF Placed
    <3>2. CASE ip = NULL
      <4>1. natives # << >> /\ at[m] = p
        BY <1>1, <1>2, <3>2 DEF Placed
      <4>2. m \in DOMAIN at
        BY <1>1, <1>2, <1>3, <4>1
      <4> QED BY <3>2, <4>1, <4>2
    <3> QED BY <3>1, <3>2
  <2>6. \A i \in 1..p + 1 : i \in 1..p \/ (i = p + 1 /\ i # 1 /\ i - 1 = p)
    BY <1>3
  <2> QED BY <1>4, <1>6, <2>1, <2>2, <2>3, <2>4, <2>5, <2>6 DEF Placed
<1>10. Between(at)'
  <2>1. ASSUME NEW i \in 1..p, frames'[i + 1] \in live', ret'[frames'[i + 1]] # NULL
        PROVE  Owes(frames[i], ret[frames[i + 1]], base[frames[i + 1]], 1)'
    <3>1. CASE i = p
      <4>1. r # NULL /\ Owes(frames[p], r, n, 1) /\ frames'[i] = frames[p]
        BY <1>3, <1>4, <1>6, <2>1, <3>1
      <4> QED BY <1>3, <1>4, <1>6, <1>7, <3>1, <4>1 DEF Owes
    <3>2. CASE i # p
      <4>1. i \in 1..p - 1 /\ i + 1 \in 1..p
        BY <1>3, <2>1, <3>2
      <4>2. /\ frames'[i] = frames[i] /\ frames'[i + 1] = frames[i + 1]
            /\ frames[i] \in Frame /\ frames[i + 1] \in Frame
            /\ frames[i] # g /\ frames[i + 1] # g
        BY <1>3, <1>4, <2>1, <4>1
      <4>3. Owes(frames[i], ret[frames[i + 1]], base[frames[i + 1]], 1)
        BY <1>1, <1>2, <1>7, <2>1, <4>1, <4>2 DEF Between
      <4> QED BY <1>7, <4>2, <4>3 DEF Owes
    <3> QED BY <3>1, <3>2
  <2>2. ASSUME NEW j \in DOMAIN at, frames'[at[j] + 1] \in live'
        PROVE  Owes(frames[at[j]], natives[j].next, base[frames[at[j] + 1]], 1)'
    <3>1. /\ natives'[j].next = natives[j].next /\ at[j] \in 1..p
          /\ frames'[at[j]] = frames[at[j]] /\ frames[at[j]] \in Frame /\ frames[at[j]] # g
      BY <1>2, <1>3, <1>4 DEF SameNatives
    <3>2. CASE at[j] = p
      <4>1. r = NULL /\ n = Len(stack)
        BY <1>1, <1>2, <3>2 DEF Placed
      <4>2. Owes(frames[at[j]], natives[j].next, n, 1)
        BY <1>1, <1>2, <3>2, <4>1 DEF Between
      <4>3. frames'[at[j] + 1] = g
        BY <1>4, <3>2
      <4> QED BY <1>6, <1>7, <3>1, <4>2, <4>3 DEF Owes
    <3>3. CASE at[j] # p
      <4>1. at[j] < p /\ at[j] + 1 \in 1..p
        <5>1. PICK a : a = at[j]
          OBVIOUS
        <5>2. p \in Nat /\ a \in 1..p /\ a # p
          BY <1>3, <3>1, <3>3, <5>1
        <5> QED BY <5>1, <5>2
      <4>2. /\ frames'[at[j] + 1] = frames[at[j] + 1]
            /\ frames[at[j] + 1] \in Frame /\ frames[at[j] + 1] # g
        BY <1>3, <1>4, <4>1
      <4>3. Owes(frames[at[j]], natives[j].next, base[frames[at[j] + 1]], 1)
        BY <1>1, <1>2, <1>7, <2>2, <4>1, <4>2 DEF Between
      <4> QED BY <1>7, <3>1, <4>2, <4>3 DEF Owes
    <3> QED BY <3>2, <3>3
  <2>3. \A j \in DOMAIN at : at[j] # p + 1
    BY <1>3
  <2>4. Len(frames') - 1 = p
    BY <1>3, <1>4
  <2> QED BY <1>4, <2>1, <2>2, <2>3, <2>4 DEF Between
<1>11. AtTop'
  <2>1. Current' = g
    BY <1>4 DEF Current, F!Current
  <2>2. Respects(Program[prog].code[fn], HeightsOf'[g])
    BY <1>6 DEF WellHeighted
  <2>3. 0 \in DOMAIN HeightsOf'[g] /\ HeightsOf'[g][0] = 0
    BY <2>2 DEF Respects
  <2> QED BY <1>6, <2>1, <2>3 DEF AtTop, Owes
<1>12. at \in [1..Len(natives') -> 1..Len(frames')]
  BY <1>2, <1>3, <1>4 DEF SameNatives
<1> QED BY <1>8, <1>9, <1>10, <1>11, <1>12
\* A frame is popped: the one below it, or the native that called it, has the value.
LEMMA CallEnds ==
  ASSUME BalanceInv, F!TypeOK, end = "no", phase = "running", frames # << >>, ip # NULL,
         Current \in live, Len(natives) \in Nat, cont = Idle, SameLives, SameNatives,
         base \in [Frame -> Nat], Len(stack) = base[Current] + 1,
         F!PopFrame, phase' = phase, cont' = Idle,
         end' = "no" => ip' = ret[Current],
         end' = "no" => Len(stack') = IF ret[Current] = NULL THEN base[Current]
                                      ELSE base[Current] + 1
  PROVE  BalanceInv'
<1> SUFFICES ASSUME end' = "no", phase' = "running"
             PROVE  /\ \A f \in live' : code'[f] = NULL => f = Top
                    /\ \E at \in [1..Len(natives') -> 1..Len(frames')] : Placed(at)' /\ Between(at)'
                    /\ AtTop'
  BY DEF BalanceInv
<1>1. PICK at \in [1..Len(natives) -> 1..Len(frames)] : Placed(at) /\ Between(at)
  BY DEF BalanceInv
<1>2. PICK m, p, q : m = Len(natives) /\ p = Len(frames) /\ q = p - 1
  OBVIOUS
<1>3. /\ m \in Nat /\ p \in Nat /\ p # 0 /\ q \in Nat /\ p = q + 1
      /\ at \in [1..m -> 1..p] /\ DOMAIN at = 1..m
      /\ frames \in Seq(Frame) /\ \A i \in 1..p : frames[i] \in Frame
      /\ Current = frames[p]
  BY <1>1, <1>2, FramesAreThere
<1>4. Len(frames') = q /\ \A i \in 1..q : frames'[i] = frames[i]
  <2>1. \A i \in 1..q : frames[i] \in Frame
    BY <1>3
  <2>2. frames' = SubSeq(frames, 1, q)
    BY <1>2 DEF F!PopFrame
  <2> QED BY <1>3, <2>1, <2>2, SubSeqProperties
<1>5. /\ \A f \in live' : /\ f \in live /\ HeightsOf'[f] = HeightsOf[f]
                          /\ ret'[f] = ret[f] /\ base'[f] = base[f] /\ code'[f] = code[f]
  BY SameHeights
<1>6. \A f \in live' : code'[f] = NULL => f = Top
  BY <1>5 DEF BalanceInv
<1>7. \A j \in 1..m : at[j] \in 1..q
  <2>1. \A j \in 1..m : at[j] \in 1..p /\ at[j] # p
    BY <1>1, <1>2, <1>3 DEF Placed
  <2> QED BY <1>3, <2>1
<1>8. ret[Current] = NULL <=> p = 1 \/ \E j \in 1..m : at[j] = q
  <2>1. p \in 1..Len(frames) /\ p - 1 = q
    BY <1>2, <1>3
  <2> QED BY <1>1, <1>3, <2>1 DEF Placed
<1>9. ASSUME NEW j \in 1..m, at[j] = q
      PROVE  j = m
  <2>1. at[j] < at[m] \/ j = m
    <3>1. j < m \/ j = m
      BY <1>3
    <3> QED BY <1>1, <1>3, <3>1 DEF Placed
  <2>2. at[m] \in 1..q
    BY <1>3, <1>7
  <2> QED BY <1>3, <1>9, <2>1, <2>2
<1>10. Placed(at)'
  <2>1. \A i \in DOMAIN at : \A j \in DOMAIN at : i < j => at[i] < at[j]
    BY <1>1 DEF Placed
  <2>2. ASSUME NEW j \in DOMAIN at, at[j] = q
        PROVE  ip' = NULL
    BY <1>3, <1>8, <2>2
  <2>3. ASSUME ip' = NULL, q # 0
        PROVE  natives' # << >> /\ at[Len(natives')] = q
    <3>1. PICK j \in 1..m : at[j] = q
      BY <1>3, <1>8, <2>3
    <3>2. m \in 1..m /\ at[m] = q
      BY <1>3, <1>9, <3>1
    <3> QED BY <1>2, <1>3, <3>2 DEF SameNatives
  <2>4. ASSUME NEW i \in 1..q, frames[i] \in live'
        PROVE  ret'[frames[i]] = NULL <=> i = 1 \/ \E j \in DOMAIN at : at[j] = i - 1
    <3>1. i \in 1..p
      BY <1>3
    <3> QED BY <1>1, <1>2, <1>5, <2>4, <3>1 DEF Placed
  <2>5. frames' # << >> => q # 0
    BY <1>4 DEF F!PopFrame
  <2> QED BY <1>4, <2>1, <2>2, <2>3, <2>4, <2>5 DEF Placed
<1>11. Between(at)'
  <2>1. ASSUME NEW i \in 1..q - 1, frames'[i + 1] \in live', ret'[frames'[i + 1]] # NULL
        PROVE  Owes(frames[i], ret[frames[i + 1]], base[frames[i + 1]], 1)'
    <3>1. i \in 1..p - 1 /\ frames'[i] = frames[i] /\ frames'[i + 1] = frames[i + 1]
      BY <1>3, <1>4
    <3>2. Owes(frames[i], ret[frames[i + 1]], base[frames[i + 1]], 1)
      BY <1>1, <1>2, <1>5, <2>1, <3>1 DEF Between
    <3> QED BY <1>5, <2>1, <3>1, <3>2 DEF Owes
  <2>2. ASSUME NEW j \in DOMAIN at, at[j] = q
        PROVE  Owes(frames[at[j]], natives[j].next, Len(stack), 1)'
    <3>1. ret[Current] = NULL /\ q \in 1..q /\ natives'[j].next = natives[j].next
      BY <1>2, <1>3, <1>7, <1>8, <2>2 DEF SameNatives
    <3>2. at[j] < p /\ frames[at[j] + 1] = Current /\ frames'[q] = frames[q]
      BY <1>3, <1>4, <2>2, <3>1
    <3>3. Owes(frames[q], natives[j].next, base[Current], 1)
      BY <1>1, <1>2, <2>2, <3>2 DEF Between
    <3> QED BY <1>5, <2>2, <3>1, <3>2, <3>3 DEF Owes
  <2>3. ASSUME NEW j \in DOMAIN at, at[j] < q, frames'[at[j] + 1] \in live'
        PROVE  Owes(frames[at[j]], natives[j].next, base[frames[at[j] + 1]], 1)'
    <3>1. PICK a \in 1..q : a = at[j]
      BY <1>3, <1>7
    <3>2. a < p /\ a + 1 \in 1..q
      <4>1. a < q /\ q \in Nat /\ p = q + 1
        BY <1>3, <2>3, <3>1
      <4> QED BY <4>1
    <3>3. /\ frames'[a] = frames[a] /\ frames'[a + 1] = frames[a + 1]
          /\ natives'[j].next = natives[j].next
      BY <1>2, <1>3, <1>4, <3>2 DEF SameNatives
    <3>4. Owes(frames[a], natives[j].next, base[frames[a + 1]], 1)
      BY <1>1, <1>2, <1>5, <2>3, <3>1, <3>2, <3>3 DEF Between
    <3> QED BY <1>5, <2>3, <3>1, <3>3, <3>4 DEF Owes
  <2> QED BY <1>4, <2>1, <2>2, <2>3 DEF Between
<1>12. AtTop'
  <2> SUFFICES ASSUME frames' # << >>, ip' # NULL
               PROVE  Owes(Current, ip, Len(stack), 0)'
    BY DEF AtTop
  <2>1. q # 0
    BY <1>4 DEF F!PopFrame
  <2>2. ret[Current] # NULL /\ q \in 1..p - 1 /\ frames[q + 1] = Current
    BY <1>3, <2>1
  <2>3. Owes(frames[q], ret[Current], base[Current], 1)
    BY <1>1, <1>2, <2>2 DEF Between
  <2>4. Current' = frames[q]
    BY <1>3, <1>4, <2>1 DEF Current, F!Current
  <2>5. base[Current] \in Nat
    BY <1>3
  <2> QED BY <1>5, <2>2, <2>3, <2>4, <2>5 DEF Owes
<1>13. at \in [1..Len(natives') -> 1..Len(frames')]
  BY <1>2, <1>3, <1>4, <1>7 DEF SameNatives
<1> QED BY <1>6, <1>10, <1>11, <1>12, <1>13
------------------------------------------------------------------------------
(***************************************************************************)
(* The operands of an instruction                                          *)
(***************************************************************************)
\* What the instructions take and give, and where they lead.
LEMMA Effects ==
  ASSUME NEW cs, NEW i
  PROVE  /\ cs[i + 1] = SEND => /\ Takes(cs, i) = cs[i + 3] + 1 /\ Gives(cs, i) = 1
                                /\ Targets(cs, i) = {i + 3}
         /\ cs[i + 1] = RET => Takes(cs, i) = 1
         /\ cs[i + 1] = JMP => /\ Takes(cs, i) = 0 /\ Gives(cs, i) = 0
                               /\ Targets(cs, i) = {i + 2 + cs[i + 2]}
         /\ cs[i + 1] \in {JIF, JIT} => /\ Takes(cs, i) = 1 /\ Gives(cs, i) = 0
                                        /\ Targets(cs, i) = {i + 2, i + 2 + cs[i + 2]}
         /\ cs[i + 1] = GOTO => /\ Takes(cs, i) = 0 /\ Gives(cs, i) = 0
                                /\ Targets(cs, i) = {cs[i + 2] - 1}
         /\ cs[i + 1] = POP => /\ Takes(cs, i) = cs[i + 2] /\ Gives(cs, i) = 0
                               /\ Targets(cs, i) = {i + 2}
         /\ cs[i + 1] = MAKEVEC => /\ Takes(cs, i) = cs[i + 2] /\ Gives(cs, i) = 1
                                   /\ Targets(cs, i) = {i + 2}
         /\ cs[i + 1] = SETSLOT => /\ Takes(cs, i) = 2 /\ Gives(cs, i) = 1
                                   /\ Targets(cs, i) = {i + 2}
         /\ cs[i + 1] \in {GETSLOT, SETLOCAL} => /\ Takes(cs, i) = 1 /\ Gives(cs, i) = 1
                                                 /\ Targets(cs, i) = {i + 2}
         /\ cs[i + 1] = SETLOCALDEPTH => /\ Takes(cs, i) = 1 /\ Gives(cs, i) = 1
                                         /\ Targets(cs, i) = {i + 3}
         /\ cs[i + 1] \in {PUSH, PUSHLOCAL, DEFN} => /\ Takes(cs, i) = 0 /\ Gives(cs, i) = 1
                                                     /\ Targets(cs, i) = {i + 2}
         /\ cs[i + 1] = PUSHLOCALDEPTH => /\ Takes(cs, i) = 0 /\ Gives(cs, i) = 1
                                          /\ Targets(cs, i) = {i + 3}
         /\ cs[i + 1] \in {PUSHTRUE, PUSHFALSE, PUSHNIL, PUSHLOBBY, PUSHSELF} =>
              Takes(cs, i) = 0 /\ Gives(cs, i) = 1 /\ Targets(cs, i) = {i + 1}
         /\ cs[i + 1] = SETLINE => /\ Takes(cs, i) = 0 /\ Gives(cs, i) = 0
                                   /\ Targets(cs, i) = {i + 2}
         /\ cs[i + 1] \in {NOOP, DUMP} \/ cs[i + 1] \notin Opcodes =>
              Takes(cs, i) = 0 /\ Gives(cs, i) = 0 /\ Targets(cs, i) = {i + 1}
<1> USE DEF Width, Opcodes, NOOP, SETLINE, PUSHSELF, PUSH, PUSHTRUE, PUSHFALSE, PUSHNIL, PUSHLOBBY,
            PUSHLOCAL, SETLOCAL, PUSHLOCALDEPTH, SETLOCALDEPTH, JMP, JIF, JIT, GOTO, GETSLOT,
            SETSLOT, POP, DEFN, MAKEVEC, SEND, RET, DUMP
<1>1. ASSUME cs[i + 1] = SEND
      PROVE  Takes(cs, i) = cs[i + 3] + 1 /\ Gives(cs, i) = 1 /\ Targets(cs, i) = {i + 3}
  BY <1>1 DEF Takes, Gives, Targets
<1>2. ASSUME cs[i + 1] = RET
      PROVE  Takes(cs, i) = 1
  BY <1>2 DEF Takes, Gives, Targets
<1>3. ASSUME cs[i + 1] = JMP
      PROVE  Takes(cs, i) = 0 /\ Gives(cs, i) = 0 /\ Targets(cs, i) = {i + 2 + cs[i + 2]}
  BY <1>3 DEF Takes, Gives, Targets
<1>4. ASSUME cs[i + 1] \in {JIF, JIT}
      PROVE  Takes(cs, i) = 1 /\ Gives(cs, i) = 0 /\ Targets(cs, i) = {i + 2, i + 2 + cs[i + 2]}
  BY <1>4 DEF Takes, Gives, Targets
<1>5. ASSUME cs[i + 1] = GOTO
      PROVE  Takes(cs, i) = 0 /\ Gives(cs, i) = 0 /\ Targets(cs, i) = {cs[i + 2] - 1}
  BY <1>5 DEF Takes, Gives, Targets
<1>6. ASSUME cs[i + 1] = POP
      PROVE  Takes(cs, i) = cs[i + 2] /\ Gives(cs, i) = 0 /\ Targets(cs, i) = {i + 2}
  BY <1>6 DEF Takes, Gives, Targets
<1>7. ASSUME cs[i + 1] = MAKEVEC
      PROVE  Takes(cs, i) = cs[i + 2] /\ Gives(cs, i) = 1 /\ Targets(cs, i) = {i + 2}
  BY <1>7 DEF Takes, Gives, Targets
<1>8. ASSUME cs[i + 1] = SETSLOT
      PROVE  Takes(cs, i) = 2 /\ Gives(cs, i) = 1 /\ Targets(cs, i) = {i + 2}
  BY <1>8 DEF Takes, Gives, Targets
<1>9. ASSUME cs[i + 1] \in {GETSLOT, SETLOCAL}
      PROVE  Takes(cs, i) = 1 /\ Gives(cs, i) = 1 /\ Targets(cs, i) = {i + 2}
  BY <1>9 DEF Takes, Gives, Targets
<1>10. ASSUME cs[i + 1] = SETLOCALDEPTH
       PROVE  Takes(cs, i) = 1 /\ Gives(cs, i) = 1 /\ Targets(cs, i) = {i + 3}
  BY <1>10 DEF Takes, Gives, Targets
<1>11. ASSUME cs[i + 1] \in {PUSH, PUSHLOCAL, DEFN}
       PROVE  Takes(cs, i) = 0 /\ Gives(cs, i) = 1 /\ Targets(cs, i) = {i + 2}
  BY <1>11 DEF Takes, Gives, Targets
<1>12. ASSUME cs[i + 1] = PUSHLOCALDEPTH
       PROVE  Takes(cs, i) = 0 /\ Gives(cs, i) = 1 /\ Targets(cs, i) = {i + 3}
  BY <1>12 DEF Takes, Gives, Targets
<1>13. ASSUME cs[i + 1] \in {PUSHTRUE, PUSHFALSE, PUSHNIL, PUSHLOBBY, PUSHSELF}
       PROVE  Takes(cs, i) = 0 /\ Gives(cs, i) = 1 /\ Targets(cs, i) = {i + 1}
  BY <1>13 DEF Takes, Gives, Targets
<1>14. ASSUME cs[i + 1] = SETLINE
       PROVE  Takes(cs, i) = 0 /\ Gives(cs, i) = 0 /\ Targets(cs, i) = {i + 2}
  BY <1>14 DEF Takes, Gives, Targets
<1>15. ASSUME cs[i + 1] \in {NOOP, DUMP} \/ cs[i + 1] \notin Opcodes
       PROVE  Takes(cs, i) = 0 /\ Gives(cs, i) = 0 /\ Targets(cs, i) = {i + 1}
  <2>1. CASE cs[i + 1] \in {NOOP, DUMP}
    BY <2>1 DEF Takes, Gives, Targets
  <2>2. CASE cs[i + 1] \notin Opcodes
    <3>1. Takes(cs, i) = 0 /\ Gives(cs, i) = 0
      BY <2>2 DEF Takes, Gives
    <3>2. Targets(cs, i) = {i + 1}
      BY <2>2 DEF Targets
    <3> QED BY <3>1, <3>2
  <2> QED BY <1>15, <2>1, <2>2
<1> HIDE DEF Width, Opcodes, NOOP, SETLINE, PUSHSELF, PUSH, PUSHTRUE, PUSHFALSE, PUSHNIL, PUSHLOBBY,
             PUSHLOCAL, SETLOCAL, PUSHLOCALDEPTH, SETLOCALDEPTH, JMP, JIF, JIT, GOTO, GETSLOT,
             SETSLOT, POP, DEFN, MAKEVEC, SEND, RET, DUMP
<1> QED BY <1>1, <1>2, <1>3, <1>4, <1>5, <1>6, <1>7, <1>8, <1>9, <1>10, <1>11, <1>12, <1>13, <1>14, <1>15

\* The code of a balanced program at an instruction: it has the operands that it takes.
LEMMA AtHeight ==
  ASSUME TypeInv, WellHeighted, BalanceInv, Ready, InBounds
  PROVE  /\ Takes(Cells, ip) <= Len(stack) /\ Takes(Cells, ip) \in Int
         /\ Operand(0) = RET => Len(stack) = base[Current] + 1
         /\ \A j \in Targets(Cells, ip) : \A n \in Int :
              n = Len(stack) - Takes(Cells, ip) =>
                /\ Owes(Current, j, n, Gives(Cells, ip))
                /\ Owes(Current, j, n + Gives(Cells, ip), 0)
<1> DEFINE fn == Running(Current)
           h == HeightsOf[Current]
<1>1. /\ fn \in Loaded /\ Cells \in Seq(Nat) /\ ip \in Nat /\ Current \in Frame /\ Current \in live
      /\ cont = Idle /\ frames # << >> /\ end = "no" /\ phase = "running" /\ ip # NULL
  BY CodeIsThere, NaturalsAreNotNULL DEF Ready, Going, F!Running
<1>2. fn = IF code[Current] # NULL THEN code[Current] ELSE "main"
  <2>1. code[Current] = NULL => Current = frames[1]
    BY <1>1 DEF BalanceInv, TypeInv, CodeInv
  <2> QED BY <2>1 DEF Running
<1>3. h = Height(Cells)
  BY <1>1, <1>2 DEF HeightsOf, Cells
<1>4. Respects(Cells, h)
  <2>1. Cells = Program[prog].code[fn]
    BY DEF Cells
  <2> QED BY <1>1, <1>3, <2>1 DEF WellHeighted
<1>5. /\ ip \in DOMAIN h /\ h[ip] \in Nat /\ Len(stack) = base[Current] + h[ip]
      /\ base[Current] \in Nat /\ Len(stack) \in Nat
  <2>1. Owes(Current, ip, Len(stack), 0)
    BY <1>1 DEF BalanceInv, AtTop
  <2>2. base[Current] \in Nat /\ Len(stack) \in Nat
    BY <1>1 DEF TypeInv, ValueInv, RecordInv, ControlInv
  <2> QED BY <1>1, <2>1, <2>2 DEF Owes
<1>6. Whole(Cells, ip) /\ Operand(0) = Cells[ip + 1]
  BY <1>1 DEF InBounds, Whole, Operand
<1>7. /\ Takes(Cells, ip) <= h[ip]
      /\ Cells[ip + 1] = RET => h[ip] = 1
      /\ \A j \in Targets(Cells, ip) :
           j \in DOMAIN h /\ h[j] = h[ip] - Takes(Cells, ip) + Gives(Cells, ip) /\ h[j] \in Nat
  BY <1>4, <1>5, <1>6 DEF Respects
<1>8. Takes(Cells, ip) \in Int /\ Gives(Cells, ip) \in {0, 1}
  <2>1. Gives(Cells, ip) \in {0, 1}
    BY DEF Gives
  <2>2. ASSUME NEW k \in {2, 3}, ip + k <= Len(Cells) PROVE Cells[ip + k] \in Nat
    BY <1>1, <2>2
  <2>3. Width(SEND) = 3 /\ Width(POP) = 2 /\ Width(MAKEVEC) = 2
    BY Widths
  <2>4. Takes(Cells, ip) \in Int
    <3>1. CASE Cells[ip + 1] = SEND
      BY <1>1, <1>6, <2>2, <2>3, <3>1, Effects DEF Whole
    <3>2. CASE Cells[ip + 1] \in {POP, MAKEVEC}
      BY <1>1, <1>6, <2>2, <2>3, <3>2, Effects DEF Whole
    <3>3. CASE Cells[ip + 1] \notin {SEND, POP, MAKEVEC}
      BY <3>3 DEF Takes
    <3> QED BY <3>1, <3>2, <3>3
  <2> QED BY <2>1, <2>4
<1> HIDE DEF h
<1>a. PICK t, g, x, b, n : /\ t = Takes(Cells, ip) /\ g = Gives(Cells, ip) /\ x = h[ip]
                           /\ b = base[Current] /\ n = Len(stack)
  OBVIOUS
<1>b. t \in Int /\ g \in {0, 1} /\ x \in Nat /\ b \in Nat /\ n = b + x /\ t <= x
  <2>1. t \in Int /\ g \in {0, 1}
    BY <1>8, <1>a
  <2>2. x \in Nat /\ b \in Nat /\ n = b + x
    BY <1>5, <1>a
  <2>3. t <= x
    BY <1>7, <1>a
  <2> QED BY <2>1, <2>2, <2>3
<1>9. t <= n
  BY <1>b
<1>10. Operand(0) = RET => n = b + 1
  BY <1>6, <1>7, <1>a, <1>b
<1>11. ASSUME NEW j \in Targets(Cells, ip), NEW m \in Int, m = n - t
       PROVE  Owes(Current, j, m, g) /\ Owes(Current, j, m + g, 0)
  <2>1. PICK y : y = h[j]
    OBVIOUS
  <2>2. j \in DOMAIN h /\ y \in Nat /\ y = x - t + g
    BY <1>7, <1>a, <2>1
  <2>3. y >= g /\ m + g = b + y /\ y >= 0 /\ m + g + 0 = b + y
    BY <1>b, <1>11, <2>2
  <2> QED BY <1>a, <2>1, <2>2, <2>3 DEF Owes, h
<1> QED BY <1>8, <1>9, <1>10, <1>11, <1>a
------------------------------------------------------------------------------
(***************************************************************************)
(* How an instruction changes the balance                                  *)
(***************************************************************************)
\* What is owed stays owed in a step that moves no frame.
LEMMA OwesStays ==
  ASSUME F!TypeOK, SameLives, NEW f \in live, NEW x, NEW n, NEW due, Owes(f, x, n, due)
  PROVE  Owes(f, x, n, due)'
BY SameHeights DEF Owes

\* The process ends.
LEMMA CrashBalances ==
  ASSUME BalanceInv, NEW how \in Ends \ {"no"}, Crash(how)
  PROVE  BalanceInv'
BY DEF Crash, BalanceInv

LEMMA TroubleBalances ==
  ASSUME BalanceInv, NEW S, Trouble(S) # "none", Crash(Trouble(S))
  PROVE  BalanceInv'
BY CrashBalances DEF Trouble, Ends

LEMMA ObstacleBalances ==
  ASSUME BalanceInv, NEW S, Obstacle(S) # "none", Crash(Obstacle(S))
  PROVE  BalanceInv'
BY CrashBalances DEF Obstacle, Trouble, Ends

LEMMA AbortBalances ==
  ASSUME BalanceInv, Abort
  PROVE  BalanceInv'
BY CrashBalances DEF Abort, Ends

\* The last frame is at an instruction.
AtInstruction ==
    /\ BalanceInv /\ TypeInv /\ end = "no" /\ phase = "running" /\ frames # << >>
    /\ cont = Idle /\ ip # NULL /\ Current \in live

\* An instruction that is over.
LEMMA MovesOn ==
  ASSUME AtInstruction, UNCHANGED <<frameVars, ret, base, natives, cont, end, prog>>,
         NEW x \in Nat, NEW n, ip' = x, Len(stack') = n, Owes(Current, x, n, 0)
  PROVE  BalanceInv'
<1>1. /\ F!TypeOK /\ frames' = frames /\ SameLives /\ SameNatives /\ ip' # NULL
      /\ Len(natives) \in Nat /\ cont' = Idle /\ phase' = phase /\ Current' = Current
  BY NaturalsAreNotNULL
     DEF AtInstruction, TypeInv, ValueInv, ControlInv, WaitsOK, frameVars, SameLives, SameNatives,
         Current, F!Current
<1>2. Owes(Current, x, n, 0)'
  <2>1. PICK f : f = Current
    OBVIOUS
  <2>2. Owes(f, x, n, 0)'
    BY <1>1, <2>1, OwesStays DEF AtInstruction
  <2> QED BY <1>1, <2>1, <2>2 DEF Owes
<1>3. AtTop'
  BY <1>1, <1>2 DEF AtTop
<1> QED BY <1>1, <1>3, SteadyStep DEF AtInstruction

\* An instruction that has begun to allocate.
LEMMA GoesToAllocate ==
  ASSUME AtInstruction, UNCHANGED <<frameVars, ret, base, natives, ip, end, prog>>,
         NEW x \in Nat, NEW n, cont' # Idle, cont'.kind # "index", cont'.next = x,
         Len(stack') = n, Owes(Current, x, n, IF cont'.kind = "print" THEN 0 ELSE 1)
  PROVE  BalanceInv'
<1>1. /\ F!TypeOK /\ frames' = frames /\ SameLives /\ SameNatives /\ ip' # NULL
      /\ Len(natives) \in Nat /\ phase' = phase /\ Current' = Current
  BY DEF AtInstruction, TypeInv, ValueInv, ControlInv, WaitsOK, frameVars, SameLives, SameNatives,
         Current, F!Current
<1>2. PICK due : due = IF cont'.kind = "print" THEN 0 ELSE 1
  OBVIOUS
<1>3. Owes(Current, x, n, due)'
  <2>1. PICK f : f = Current
    OBVIOUS
  <2>2. Owes(f, x, n, due)'
    BY <1>1, <1>2, <2>1, OwesStays DEF AtInstruction
  <2> QED BY <1>1, <2>1, <2>2 DEF Owes
<1>4. AtTop'
  BY <1>1, <1>2, <1>3 DEF AtTop
<1> QED BY <1>1, <1>4, SteadyStep DEF AtInstruction
\* How a native turns out: it has pushed its value, it will when it has allocated, or when the
\* VM_runs are done that it starts.  Or the process ends.
Turns(k) ==
    \/ \E how \in Ends \ {"no"} : Crash(how)
    \/ /\ UNCHANGED <<frameVars, ret, base, cont, end, prog>>
       /\ natives' = k.natives
       /\ ip' = k.next
       /\ Len(stack') = Len(k.stack) + 1
    \/ /\ UNCHANGED <<frameVars, ret, base, ip, end, prog>>
       /\ natives' = k.natives
       /\ cont' # Idle /\ cont'.kind \notin {"index", "print"} /\ cont'.next = k.next
       /\ Len(stack') = Len(k.stack)
    \/ /\ UNCHANGED <<frameVars, ret, base, cont, end, prog>>
       /\ Len(natives') = Len(k.natives) + 1
       /\ \A j \in 1..Len(k.natives) : natives'[j] = k.natives[j]
       /\ natives'[Len(k.natives) + 1].next = k.next
       /\ ip' = NULL
       /\ Len(stack') = Len(k.stack)

LEMMA TroubleTurns ==
  ASSUME NEW S, NEW k, Trouble(S) # "none", Crash(Trouble(S))
  PROVE  Turns(k)
BY DEF Turns, Trouble, Ends

LEMMA ObstacleTurns ==
  ASSUME NEW S, NEW k, Obstacle(S) # "none", Crash(Obstacle(S))
  PROVE  Turns(k)
BY DEF Turns, Obstacle, Trouble, Ends

LEMMA AbortTurns ==
  ASSUME NEW k, Abort \/ Crash("bound") \/ Crash("not a vector") \/ Crash("vector bounds")
  PROVE  Turns(k)
BY DEF Turns, Abort, Ends

LEMMA GoOnTurns ==
  ASSUME NEW k, k.stack \in Seq(Word), NEW v, GoOn(k, v)
  PROVE  Turns(k)
<1>1. Len(stack') = Len(k.stack) + 1
  BY DEF GoOn
<1> QED BY <1>1 DEF Turns, GoOn, recordVars

LEMMA AllocateTurns ==
  ASSUME NEW k, NEW kind, kind \notin {"none", "index", "print"}, NEW values, NEW safe, NEW name,
         Allocate(kind, values, safe, name, k)
  PROVE  Turns(k)
<1>1. cont'.kind = kind /\ cont'.next = k.next /\ Idle.kind = "none"
  BY DEF Allocate, Idle
<1>2. cont' # Idle
  BY <1>1
<1> QED BY <1>1, <1>2 DEF Turns, Allocate, recordVars

LEMMA PushElementTurns ==
  ASSUME NEW v, NEW element, NEW k, k.stack \in Seq(Word), PushElement(v, element, k)
  PROVE  Turns(k)
<1>1. stack' = Append(k.stack, v)
  BY DEF PushElement
<1>2. Len(stack') = Len(k.stack) + 1
  BY <1>1
<1> QED BY <1>2 DEF PushElement, Turns, recordVars

LEMMA BeginNativeTurns ==
  ASSUME NEW k, WaitsOK(k.natives), NEW kind, NEW values, NEW count,
         BeginNative(kind, values, count, k)
  PROVE  Turns(k)
<1>1. CASE Crash("bound")
  BY <1>1, AbortTurns
<1>2. CASE ~ Crash("bound")
  BY <1>2 DEF Turns, BeginNative, WaitsOK, recordVars
<1> QED BY <1>1, <1>2

LEMMA NativeTurns ==
  ASSUME NEW native, NEW receiver, NEW args, NEW k, WaitsOK(k.natives), k.stack \in Seq(Word),
         CallNative(native, receiver, args, k)
  PROVE  Turns(k)
<1> USE TroubleTurns, AbortTurns, GoOnTurns, AllocateTurns, BeginNativeTurns
    DEF Using, Typed, Make
<1>1. PICK b, c :
        \/ CallNumber(native, receiver, b, k)
        \/ CallObject(native, receiver, b, k)
        \/ CallString(native, receiver, b, k)
        \/ CallVector(native, receiver, b, k)
        \/ CallMap(native, receiver, b, c, k)
  BY DEF CallNative
<1>2. CASE CallNumber(native, receiver, b, k)
  BY <1>2 DEF CallNumber, Calculate
<1>3. CASE CallObject(native, receiver, b, k)
  <2>1. CASE Equal(receiver, b, k)
    BY <2>1 DEF Equal
  <2>2. ASSUME NEW v, ToText(v, k) \/ WriteText(v, k) PROVE Turns(k)
    <3>1. CASE Obstacle({v}) # "none" /\ Crash(Obstacle({v}))
      BY <3>1, ObstacleTurns
    <3>2. CASE \E w : GoOn(k, w)
      BY <3>2
    <3>3. CASE \E kind \in {"String", "nil"} : \E values, name : Make(kind, values, name, k)
      BY <3>3
    <3> QED BY <2>2, <3>1, <3>2, <3>3 DEF ToText, WriteText, Describing
  <2> QED BY <1>3, <2>1, <2>2 DEF CallObject
<1>4. CASE CallString(native, receiver, b, k)
  BY <1>4 DEF CallString
<1>5. CASE CallVector(native, receiver, b, k)
  <2>1. ASSUME NEW i, ElementAt(receiver, i, k) PROVE Turns(k)
    BY <2>1 DEF ElementAt
  <2>2. CASE PushElement(receiver, b, k)
    BY <2>2, PushElementTurns
  <2>3. ASSUME NEW kind, Iterate(kind, receiver, b, k) PROVE Turns(k)
    BY <2>3 DEF Iterate
  <2> QED BY <1>5, <2>1, <2>2, <2>3 DEF CallVector
<1>6. CASE CallMap(native, receiver, b, c, k)
  BY <1>6 DEF CallMap, GetMember, BeginSet
<1> QED BY <1>1, <1>2, <1>3, <1>4, <1>5, <1>6

\* An instruction that turns out so leaves one operand.
LEMMA TurnsBalance ==
  ASSUME AtInstruction, NEW k, k.next \in Nat, k.natives = natives, k.stack \in Seq(Word),
         Owes(Current, k.next, Len(k.stack), 1), Turns(k)
  PROVE  BalanceInv'
<1>1. PICK x \in Nat, n \in Nat : x = k.next /\ n = Len(k.stack)
  OBVIOUS
<1>2. Owes(Current, x, n, 1) /\ Owes(Current, x, n + 1, 0)
  <2>1. Owes(Current, x, n, 1)
    BY <1>1
  <2>2. Current \in live => HeightsOf[Current][x] >= 0
    BY <2>1 DEF Owes
  <2>3. n + 1 = n + 1 + 0
    OBVIOUS
  <2> QED BY <2>1, <2>2, <2>3 DEF Owes
<1>3. CASE \E how \in Ends \ {"no"} : Crash(how)
  BY <1>3, CrashBalances DEF AtInstruction
<1>4. CASE /\ UNCHANGED <<frameVars, ret, base, cont, end, prog>>
           /\ natives' = k.natives
           /\ ip' = k.next
           /\ Len(stack') = Len(k.stack) + 1
  BY <1>1, <1>2, <1>4, MovesOn
<1>5. CASE /\ UNCHANGED <<frameVars, ret, base, ip, end, prog>>
           /\ natives' = k.natives
           /\ cont' # Idle /\ cont'.kind \notin {"index", "print"} /\ cont'.next = k.next
           /\ Len(stack') = Len(k.stack)
  <2>1. (IF cont'.kind = "print" THEN 0 ELSE 1) = 1
    BY <1>5
  <2>2. Owes(Current, x, n, IF cont'.kind = "print" THEN 0 ELSE 1)
    BY <1>2, <2>1
  <2> QED BY <1>1, <1>5, <2>2, GoesToAllocate
<1>6. CASE /\ UNCHANGED <<frameVars, ret, base, cont, end, prog>>
           /\ Len(natives') = Len(k.natives) + 1
           /\ \A j \in 1..Len(k.natives) : natives'[j] = k.natives[j]
           /\ natives'[Len(k.natives) + 1].next = k.next
           /\ ip' = NULL
           /\ Len(stack') = Len(k.stack)
  <2>1. /\ F!TypeOK /\ frames' = frames /\ SameLives /\ Len(natives) \in Nat /\ phase' = phase
        /\ cont' = Idle /\ end' = end /\ BalanceInv /\ ip # NULL /\ frames # << >>
    BY <1>6 DEF AtInstruction, TypeInv, ValueInv, ControlInv, WaitsOK, frameVars, SameLives
  <2>2. /\ Len(natives') = Len(natives) + 1 /\ Len(stack') = n
        /\ \A j \in 1..Len(natives) : natives'[j].next = natives[j].next
        /\ natives'[Len(natives) + 1].next = x
    BY <1>1, <1>6
  <2> QED BY <1>2, <1>6, <2>1, <2>2, NativeBegins
<1> QED BY <1>3, <1>4, <1>5, <1>6 DEF Turns
------------------------------------------------------------------------------
(***************************************************************************)
(* Calls and returns                                                       *)
(***************************************************************************)
\* Function_call by SEND, whose value is one more operand, or by a native that has control.
LEMMA CalleeBalances ==
  ASSUME BalanceInv, TypeInv, WellHeighted, end = "no", phase = "running", frames # << >>,
         cont = Idle, Current \in live, NEW callee, NEW receiver, NEW args, NEW max, NEW r, NEW k,
         WaitsOK(k.natives), k.stack \in Seq(Word), Len(k.natives) = Len(natives),
         \A j \in 1..Len(natives) : k.natives[j].next = natives[j].next,
         CallFunction(callee, receiver, args, max, r, k),
         \/ /\ r = k.next /\ k.next \in Nat /\ ip # NULL /\ k.natives = natives
            /\ Owes(Current, k.next, Len(k.stack), 1)
         \/ r = NULL /\ ip = NULL /\ callee \notin Native /\ k.stack = stack
  PROVE  BalanceInv'
<1>1. Len(natives) \in Nat /\ F!TypeOK /\ RecordInv
  BY DEF TypeInv, ValueInv, ControlInv, WaitsOK
<1>2. CASE callee \in Native /\ CallNative(callee, receiver, args, k)
  <2>1. Turns(k)
    BY <1>2, NativeTurns
  <2>2. AtInstruction
    BY <1>2 DEF AtInstruction
  <2> QED BY <1>2, <2>1, <2>2, TurnsBalance
<1>3. CASE \E how \in Ends \ {"no"} : Crash(how)
  BY <1>3, CrashBalances
<1>4. CASE F!CallFreedScope(callee)
             /\ UNCHANGED <<prog, ip, stack, recordVars, natives, cont, heapVars, end, result>>
  <2>1. /\ UNCHANGED <<frames, live, code, phase, ret, base, prog, natives, ip, stack, cont, end>>
    BY <1>4 DEF F!CallFreedScope, F!Fail, recordVars
  <2>2. SameLives /\ SameNatives
    BY <2>1 DEF SameLives, SameNatives
  <2>3. AtTop /\ (AtTop => AtTop')
    <3>1. AtTop
      BY DEF BalanceInv
    <3>2. Current' = Current /\ HeightsOf' = HeightsOf
      BY <2>1 DEF Current, F!Current, HeightsOf
    <3>3. AtTop'
      BY <2>1, <3>1, <3>2 DEF AtTop, Owes
    <3> QED BY <3>1, <3>3
  <2> QED BY <1>1, <2>1, <2>2, <2>3, SteadyStep
<1>5. CASE /\ \E g \in Frame : F!Fresh(g)
           /\ F!Call(callee, NewFrame)
           /\ callee \in Closure
           /\ EnterFrame(NewFrame, receiver, args, max, r, k)
           /\ UNCHANGED cont
  <2>1. PICK g \in Frame : g = NewFrame
    BY <1>5 DEF NewFrame
  <2>2. PICK fn \in Loaded : fn = made[callee] /\ fn # NULL
    BY <1>5 DEF F!Call, TypeInv, CodeInv
  <2>3. PICK n \in Nat : n = Len(k.stack)
    OBVIOUS
  <2>4. /\ F!Fresh(g) /\ frames' = Append(frames, g) /\ live' = live \union {g}
        /\ code' = [code EXCEPT ![g] = fn] /\ UNCHANGED phase
    BY <1>5, <2>1, <2>2 DEF F!Call, F!PushFrame
  <2>5. /\ ret' = [ret EXCEPT ![g] = r] /\ base' = [base EXCEPT ![g] = n]
        /\ prog' = prog /\ end' = end /\ cont' = Idle /\ ip' = 0 /\ Len(stack') = n
        /\ natives' = k.natives
    BY <1>5, <2>1, <2>3 DEF EnterFrame
  <2>6. SameNatives
    BY <2>5 DEF SameNatives
  <2>7. \/ r # NULL /\ ip # NULL /\ Owes(Current, r, n, 1)
        \/ r = NULL /\ ip = NULL /\ n = Len(stack)
    BY <2>3, NaturalsAreNotNULL
  <2> QED BY <1>1, <2>2, <2>4, <2>5, <2>6, <2>7, CallBegins DEF RecordInv
<1> QED BY <1>2, <1>3, <1>4, <1>5 DEF CallFunction, CallClosure, Ends

\* The operands that an instruction with no place to return needs.
LEMMA AtOpcode ==
  ASSUME TypeInv, WellHeighted, BalanceInv, NEW opcode, At(opcode)
  PROVE  /\ AtInstruction /\ Ready /\ InBounds /\ ip \in Nat /\ stack \in Seq(Word)
         /\ Cells[ip + 1] = opcode /\ Operand(1) = Cells[ip + 2] /\ Operand(2) = Cells[ip + 3]
<1>1. /\ Ready /\ InBounds /\ Operand(0) = opcode /\ ip \in Nat
  BY Decode DEF At
<1>2. AtInstruction
  BY <1>1 DEF AtInstruction, Ready, Going, F!Running
<1>3. /\ Operand(0) = Cells[ip + 1] /\ Operand(1) = Cells[ip + 2] /\ Operand(2) = Cells[ip + 3]
  BY <1>1 DEF Operand
<1> QED BY <1>1, <1>2, <1>3 DEF TypeInv, ValueInv, ControlInv

LEMMA WithoutLength ==
  ASSUME stack \in Seq(Word), NEW k \in Nat, k <= Len(stack)
  PROVE  Without(k) \in Seq(Word) /\ Len(Without(k)) = Len(stack) - k
<1>1. PICK n \in Nat : n = Len(stack) - k
  OBVIOUS
<1>2. \A i \in 1..n : stack[i] \in Word
  BY <1>1
<1>3. Without(k) = SubSeq(stack, 1, n)
  BY <1>1 DEF Without
<1>4. SubSeq(stack, 1, n) \in Seq(Word) /\ Len(SubSeq(stack, 1, n)) = n
  BY <1>1, <1>2, SubSeqProperties
<1> QED BY <1>1, <1>3, <1>4

\* SEND takes the arguments and the receiver, and leaves one value.
LEMMA SendBalances ==
  ASSUME TypeInv, WellHeighted, BalanceInv, Send
  PROVE  BalanceInv'
<1> DEFINE n == Literal(Operand(1))
           argc == Operand(2)
           k == After(3, Without(argc + 1))
           args == [i \in 1..argc |-> Peek(i)]
           receiver == Peek(argc + 1)
           callee == Lookup(receiver, n)
<1>1. At(SEND)
  BY DEF Send
<1>2. /\ AtInstruction /\ Ready /\ InBounds /\ ip \in Nat /\ stack \in Seq(Word)
      /\ Cells[ip + 1] = SEND /\ argc = Cells[ip + 3] /\ argc \in Nat
  BY <1>1, AtOpcode, Decode
<1>3. /\ Takes(Cells, ip) = argc + 1 /\ Gives(Cells, ip) = 1 /\ Targets(Cells, ip) = {ip + 3}
  BY <1>2, Effects
<1>4. argc + 1 <= Len(stack)
  BY <1>2, <1>3, AtHeight
<1>5. Without(argc + 1) \in Seq(Word) /\ Len(Without(argc + 1)) = Len(stack) - (argc + 1)
  BY <1>2, <1>4, WithoutLength
<1>6. k.next = ip + 3 /\ k.stack = Without(argc + 1) /\ k.natives = natives
  BY DEF After
<1>7. k.next \in Nat /\ k.stack \in Seq(Word) /\ Owes(Current, k.next, Len(k.stack), 1)
  <2>1. PICK m \in Int : m = Len(stack) - (argc + 1)
    BY <1>2
  <2>2. Owes(Current, ip + 3, m, 1)
    BY <1>2, <1>3, <2>1, AtHeight
  <2> QED BY <1>2, <1>5, <1>6, <2>1, <2>2
<1>8. \/ \E S : Trouble(S) # "none" /\ Crash(Trouble(S))
      \/ Abort
      \/ CallFunction(receiver, self[Current], args, argc + 1, k.next, k)
      \/ CallFunction(callee, receiver, args, argc + 1, k.next, k)
      \/ GoOn(k, callee)
  BY DEF Send, Using
<1>9. WaitsOK(k.natives)
  BY <1>6 DEF TypeInv, ValueInv, ControlInv
<1> HIDE DEF k, args, receiver, callee, argc, n
<1>10. ASSUME NEW c, NEW v, CallFunction(c, v, args, argc + 1, k.next, k) PROVE BalanceInv'
  BY <1>2, <1>6, <1>7, <1>9, <1>10, CalleeBalances DEF AtInstruction
<1>11. CASE GoOn(k, callee)
  BY <1>2, <1>6, <1>7, <1>11, GoOnTurns, TurnsBalance
<1> QED BY <1>8, <1>10, <1>11, TroubleBalances, AbortBalances

\* RET of a function whose operands are balanced leaves one value.
LEMMA ReturnBalances ==
  ASSUME TypeInv, WellHeighted, BalanceInv, Return
  PROVE  BalanceInv'
<1>1. At(RET)
  BY DEF Return
<1>2. /\ AtInstruction /\ Ready /\ InBounds /\ ip \in Nat /\ stack \in Seq(Word)
      /\ Operand(0) = RET
  BY <1>1, AtOpcode DEF At
<1>3. Len(stack) = base[Current] + 1
  BY <1>2, AtHeight
<1>4. /\ F!TypeOK /\ Len(natives) \in Nat /\ base \in [Frame -> Nat] /\ Current \in Frame
  BY <1>1, Decode DEF TypeInv, ValueInv, RecordInv, ControlInv, WaitsOK
<1>5. stack # << >> /\ Len(Without(1)) = base[Current]
  <2>1. PICK b \in Nat : b = base[Current]
    BY <1>4
  <2>2. 1 <= Len(stack) /\ Len(stack) - 1 = b
    BY <1>3, <2>1
  <2> QED BY <1>2, <2>1, <2>2, WithoutLength
<1>6. /\ F!PopFrame /\ phase' = phase /\ live' \subseteq live
      /\ \A f \in live' : code'[f] = code[f]
  BY <1>4 DEF Return, F!Ret, F!RetCaptured, F!Free, F!TypeOK
<1>7. /\ prog' = prog /\ natives' = natives /\ cont' = Idle
      /\ \A f \in live' : ret'[f] = ret[f] /\ base'[f] = base[f]
  BY <1>2, <1>4, <1>6 DEF Return, DropRecords, Kept, F!TypeOK, AtInstruction
<1>8. SameLives /\ SameNatives
  BY <1>6, <1>7 DEF SameLives, SameNatives
<1>9. /\ ip' = ret[Current]
      /\ stack' = IF ret[Current] = NULL THEN Without(1) ELSE stack
  BY <1>5 DEF Return
<1>10. Len(stack') = IF ret[Current] = NULL THEN base[Current] ELSE base[Current] + 1
  BY <1>3, <1>5, <1>9
<1> QED BY <1>2, <1>3, <1>4, <1>6, <1>7, <1>8, <1>9, <1>10, CallEnds DEF AtInstruction
------------------------------------------------------------------------------
(***************************************************************************)
(* Instructions                                                            *)
(***************************************************************************)
\* An instruction that takes its operands, leaves what it gives and goes on where it leads.
LEMMA MovesTo ==
  ASSUME TypeInv, WellHeighted, BalanceInv, NEW opcode, At(opcode),
         UNCHANGED <<frameVars, ret, base, natives, cont, end, prog>>,
         NEW x \in Nat, x \in Targets(Cells, ip), ip' = x, NEW n \in Nat,
         Len(stack') = n, n = Len(stack) - Takes(Cells, ip) + Gives(Cells, ip)
  PROVE  BalanceInv'
<1>1. AtInstruction /\ Ready /\ InBounds /\ stack \in Seq(Word)
  BY AtOpcode
<1>2. PICK m, g : m = Len(stack) - Takes(Cells, ip) /\ g = Gives(Cells, ip)
  OBVIOUS
<1>3. m \in Int /\ n = m + g
  BY <1>1, <1>2, AtHeight
<1>4. Owes(Current, x, m + g, 0)
  BY <1>1, <1>2, <1>3, AtHeight
<1> QED BY <1>1, <1>3, <1>4, MovesOn

\* An instruction that takes its operands and allocates what it gives.
LEMMA AllocatesAt ==
  ASSUME TypeInv, WellHeighted, BalanceInv, NEW opcode, At(opcode),
         NEW kind, kind \notin {"none", "index"}, NEW values, NEW safe, NEW name, NEW k,
         Allocate(kind, values, safe, name, k), k.natives = natives, k.next \in Nat,
         k.next \in Targets(Cells, ip), Len(k.stack) = Len(stack) - Takes(Cells, ip),
         Gives(Cells, ip) = IF kind = "print" THEN 0 ELSE 1
  PROVE  BalanceInv'
<1>1. AtInstruction /\ Ready /\ InBounds /\ stack \in Seq(Word)
  BY AtOpcode
<1>2. PICK x, m, g : x = k.next /\ x \in Nat /\ m = Len(k.stack) /\ g = Gives(Cells, ip)
  OBVIOUS
<1>3. m \in Int
  BY <1>1, <1>2, AtHeight
<1>4. Owes(Current, x, m, g)
  BY <1>1, <1>2, <1>3, AtHeight
<1>5. /\ UNCHANGED <<frameVars, ret, base, natives, ip, end, prog>>
      /\ cont'.kind = kind /\ cont'.next = x /\ Len(stack') = m /\ Idle.kind = "none"
  BY <1>2 DEF Allocate, recordVars, Idle
<1>6. cont' # Idle /\ cont'.kind # "index"
  BY <1>5
<1>7. Owes(Current, x, m, IF cont'.kind = "print" THEN 0 ELSE 1)
  BY <1>2, <1>4, <1>5
<1>8. x \in Nat
  BY <1>2
<1> QED BY <1>1, <1>5, <1>6, <1>7, <1>8, GoesToAllocate

LEMMA AdvanceBalances ==
  ASSUME TypeInv, WellHeighted, BalanceInv, NEW opcode, At(opcode), NEW cells \in Nat,
         ip + cells \in Targets(Cells, ip), NEW st, Advance(cells, st), NEW n \in Nat,
         Len(st) = n, n = Len(stack) - Takes(Cells, ip) + Gives(Cells, ip)
  PROVE  BalanceInv'
<1>1. ip \in Nat
  BY AtOpcode
<1>2. PICK x \in Nat : x = ip + cells
  BY <1>1
<1>3. /\ UNCHANGED <<frameVars, ret, base, natives, cont, end, prog>>
      /\ ip' = x /\ Len(stack') = n
  BY <1>2 DEF Advance, Proceed, recordVars
<1> QED BY <1>2, <1>3, MovesTo

LEMMA PushBalances ==
  ASSUME TypeInv, WellHeighted, BalanceInv, NEW opcode, At(opcode), NEW cells \in Nat,
         ip + cells \in Targets(Cells, ip), NEW v, Advance(cells, Append(stack, v)),
         Takes(Cells, ip) = 0, Gives(Cells, ip) = 1
  PROVE  BalanceInv'
<1>1. stack \in Seq(Word)
  BY AtOpcode
<1>2. PICK n \in Nat : n = Len(stack) + 1
  BY <1>1
<1>3. Len(Append(stack, v)) = n /\ n = Len(stack) - 0 + 1
  BY <1>1, <1>2
<1> QED BY <1>3, AdvanceBalances

LEMMA SkipBalances ==
  ASSUME TypeInv, WellHeighted, BalanceInv, Skip
  PROVE  BalanceInv'
<1>1. ASSUME NEW opcode, At(opcode), NEW cells \in Nat, Advance(cells, stack),
             \/ opcode = SETLINE /\ cells = 2
             \/ (opcode = NOOP \/ opcode \notin Opcodes) /\ cells = 1
      PROVE  BalanceInv'
  <2>1. stack \in Seq(Word) /\ Cells[ip + 1] = opcode
    BY <1>1, AtOpcode
  <2>2. Takes(Cells, ip) = 0 /\ Gives(Cells, ip) = 0 /\ Targets(Cells, ip) = {ip + cells}
    BY <1>1, <2>1, Effects
  <2>3. PICK n \in Nat : n = Len(stack)
    BY <2>1
  <2>4. n = Len(stack) - 0 + 0
    BY <2>3
  <2> QED BY <1>1, <2>2, <2>3, <2>4, AdvanceBalances
<1>2. CASE Ready /\ InBounds /\ Operand(0) \notin Opcodes /\ Advance(1, stack)
  <2>1. PICK opcode : opcode = Operand(0)
    OBVIOUS
  <2> QED BY <1>1, <1>2, <2>1 DEF At
<1> QED BY <1>1, <1>2 DEF Skip

LEMMA PushConstantBalances ==
  ASSUME TypeInv, WellHeighted, BalanceInv, PushConstant
  PROVE  BalanceInv'
<1>1. ASSUME NEW opcode, At(opcode), NEW cells \in Nat, NEW v, Advance(cells, Append(stack, v)),
             \/ opcode = PUSH /\ cells = 2
             \/ opcode \in {PUSHTRUE, PUSHFALSE, PUSHNIL, PUSHLOBBY, PUSHSELF} /\ cells = 1
      PROVE  BalanceInv'
  <2>1. Cells[ip + 1] = opcode
    BY <1>1, AtOpcode
  <2>2. Takes(Cells, ip) = 0 /\ Gives(Cells, ip) = 1 /\ Targets(Cells, ip) = {ip + cells}
    BY <1>1, <2>1, Effects
  <2> QED BY <1>1, <2>2, PushBalances
<1> QED BY <1>1 DEF PushConstant

\* JIF and JIT take their operand whether they jump or not.
LEMMA JumpBalances ==
  ASSUME TypeInv, WellHeighted, BalanceInv, Jump \/ Goto
  PROVE  BalanceInv'
<1>1. CASE Jump /\ At(JMP)
  <2>1. stack \in Seq(Word) /\ Cells[ip + 1] = JMP /\ Operand(1) = Cells[ip + 2] /\ ip \in Nat
    BY <1>1, AtOpcode
  <2>2. PICK cells \in Nat : cells = 2 + Operand(1)
    BY <1>1, Decode
  <2>3. /\ Takes(Cells, ip) = 0 /\ Gives(Cells, ip) = 0
        /\ Targets(Cells, ip) = {ip + 2 + Operand(1)}
    BY <2>1, Effects
  <2>4. ip + cells = ip + 2 + Operand(1)
    BY <1>1, <2>1, <2>2, Decode
  <2>5. PICK n \in Nat : n = Len(stack) /\ n = Len(stack) - 0 + 0
    BY <2>1
  <2>6. Advance(cells, stack)
    BY <1>1, <2>2 DEF Jump, At, JMP, JIF, JIT
  <2> QED BY <1>1, <2>3, <2>4, <2>5, <2>6, AdvanceBalances
<1>2. CASE Jump /\ ~ At(JMP)
  <2>1. PICK opcode \in {JIF, JIT}, cells \in {2, 2 + Operand(1)} :
          At(opcode) /\ Advance(cells, Without(1))
    BY <1>2 DEF Jump
  <2>2. /\ stack \in Seq(Word) /\ Cells[ip + 1] = opcode /\ Operand(1) = Cells[ip + 2]
        /\ ip \in Nat /\ Ready /\ InBounds
    BY <2>1, AtOpcode
  <2>3. Operand(1) \in Nat
    BY <2>1, Decode
  <2>4. /\ Takes(Cells, ip) = 1 /\ Gives(Cells, ip) = 0
        /\ Targets(Cells, ip) = {ip + 2, ip + 2 + Operand(1)}
    BY <2>1, <2>2, Effects
  <2>5. ip + cells \in Targets(Cells, ip) /\ cells \in Nat
    BY <2>1, <2>2, <2>3, <2>4
  <2>6. 1 <= Len(stack)
    BY <2>2, <2>4, AtHeight
  <2>7. PICK n \in Nat : n = Len(stack) - 1 /\ n = Len(stack) - 1 + 0
    BY <2>2, <2>6
  <2>8. Len(Without(1)) = n
    BY <2>2, <2>6, <2>7, WithoutLength
  <2> QED BY <2>1, <2>4, <2>5, <2>7, <2>8, AdvanceBalances
<1>3. CASE Goto
  <2>1. At(GOTO) /\ Proceed(Operand(1) - 1, stack)
    BY <1>3 DEF Goto
  <2>2. stack \in Seq(Word) /\ Cells[ip + 1] = GOTO /\ Operand(1) = Cells[ip + 2] /\ InBounds
    BY <2>1, AtOpcode
  <2>3. PICK x \in Nat : x = Operand(1) - 1
    <3>1. Operand(1) >= 2 /\ Operand(1) \in Nat
      BY <2>1, <2>2, Decode DEF InBounds, At, GOTO
    <3> QED BY <3>1
  <2>4. Takes(Cells, ip) = 0 /\ Gives(Cells, ip) = 0 /\ Targets(Cells, ip) = {x}
    BY <2>2, <2>3, Effects
  <2>5. PICK n \in Nat : n = Len(stack) /\ n = Len(stack) - 0 + 0
    BY <2>2
  <2>6. /\ UNCHANGED <<frameVars, ret, base, natives, cont, end, prog>>
        /\ ip' = x /\ Len(stack') = n
    BY <2>1, <2>3, <2>5 DEF Proceed, recordVars
  <2> QED BY <2>1, <2>4, <2>5, <2>6, MovesTo
<1> QED BY <1>1, <1>2, <1>3

LEMMA PopBalances ==
  ASSUME TypeInv, WellHeighted, BalanceInv, Pop
  PROVE  BalanceInv'
<1>1. At(POP)
  BY DEF Pop
<1>2. /\ stack \in Seq(Word) /\ Cells[ip + 1] = POP /\ Operand(1) = Cells[ip + 2]
      /\ ip \in Nat /\ Ready /\ InBounds /\ Operand(1) \in Nat
  BY <1>1, AtOpcode, Decode
<1>3. Takes(Cells, ip) = Operand(1) /\ Gives(Cells, ip) = 0 /\ Targets(Cells, ip) = {ip + 2}
  BY <1>2, Effects
<1>4. Operand(1) <= Len(stack)
  BY <1>2, <1>3, AtHeight
<1>5. PICK n \in Nat : n = Len(stack) - Operand(1) /\ n = Len(stack) - Operand(1) + 0
  BY <1>2, <1>4
<1>6. Len(Without(Operand(1))) = n
  BY <1>2, <1>4, <1>5, WithoutLength
<1>7. CASE Advance(2, Without(Operand(1)))
  BY <1>1, <1>3, <1>5, <1>6, <1>7, AdvanceBalances
<1> QED BY <1>7, AbortBalances DEF Pop

\* The value that is looked up takes the place of the one it is looked up in.
LEMMA GetSlotBalances ==
  ASSUME TypeInv, WellHeighted, BalanceInv, GetSlot
  PROVE  BalanceInv'
<1>1. At(GETSLOT)
  BY DEF GetSlot
<1>2. /\ stack \in Seq(Word) /\ Cells[ip + 1] = GETSLOT /\ ip \in Nat /\ Ready /\ InBounds
  BY <1>1, AtOpcode
<1>3. Takes(Cells, ip) = 1 /\ Gives(Cells, ip) = 1 /\ Targets(Cells, ip) = {ip + 2}
  BY <1>2, Effects
<1>4. 1 <= Len(stack)
  BY <1>2, <1>3, AtHeight
<1>5. PICK n \in Nat : n = Len(stack) /\ n = Len(stack) - 1 + 1
  BY <1>2, <1>4
<1>6. ASSUME NEW v, Advance(2, Append(Without(1), v)) PROVE BalanceInv'
  <2>1. Without(1) \in Seq(Word) /\ Len(Without(1)) = n - 1
    BY <1>2, <1>4, <1>5, WithoutLength
  <2>2. Len(Append(Without(1), v)) = n
    BY <2>1
  <2> QED BY <1>1, <1>3, <1>5, <1>6, <2>2, AdvanceBalances
<1> QED BY <1>6, TroubleBalances, AbortBalances DEF GetSlot, Using

LEMMA PushLocalBalances ==
  ASSUME TypeInv, WellHeighted, BalanceInv, PushLocal \/ PushLocalDepth
  PROVE  BalanceInv'
<1>1. ASSUME NEW opcode, At(opcode), NEW cells \in Nat, NEW f, NEW i, PushLocalOf(f, i, cells),
             \/ opcode = PUSHLOCAL /\ cells = 2
             \/ opcode = PUSHLOCALDEPTH /\ cells = 3
      PROVE  BalanceInv'
  <2>1. Cells[ip + 1] = opcode
    BY <1>1, AtOpcode
  <2>2. Takes(Cells, ip) = 0 /\ Gives(Cells, ip) = 1 /\ Targets(Cells, ip) = {ip + cells}
    BY <1>1, <2>1, Effects
  <2>3. ASSUME NEW v, Advance(cells, Append(stack, v)) PROVE BalanceInv'
    BY <1>1, <2>2, <2>3, PushBalances
  <2>4. CASE Crash("freed frame") \/ Crash("local bounds")
    BY <2>4, CrashBalances DEF Ends
  <2> QED BY <1>1, <2>3, <2>4 DEF PushLocalOf
<1>2. CASE PushLocal
  <2>1. PICK opcode, f, i : opcode = PUSHLOCAL /\ f = Current /\ i = Operand(1)
    OBVIOUS
  <2>2. At(opcode) /\ PushLocalOf(f, i, 2) /\ 2 \in Nat
    BY <1>2, <2>1 DEF PushLocal
  <2> QED BY <1>1, <2>1, <2>2
<1>3. CASE PushLocalDepth
  <2>1. At(PUSHLOCALDEPTH) /\ PushLocalOf(Outer(Operand(1)), Operand(2), 3) /\ 3 \in Nat
    BY <1>3 DEF PushLocalDepth
  <2> QED BY <1>1, <2>1
<1> QED BY <1>2, <1>3

\* The local that is set stays on the stack.
LEMMA SetLocalBalances ==
  ASSUME TypeInv, WellHeighted, BalanceInv, SetLocal \/ SetLocalDepth
  PROVE  BalanceInv'
<1>1. ASSUME NEW opcode, At(opcode), NEW cells \in Nat, NEW f, NEW i, SetLocalOf(f, i, cells),
             \/ opcode = SETLOCAL /\ cells = 2
             \/ opcode = SETLOCALDEPTH /\ cells = 3
      PROVE  BalanceInv'
  <2>1. stack \in Seq(Word) /\ Cells[ip + 1] = opcode /\ ip \in Nat
    BY <1>1, AtOpcode
  <2>2. PICK x \in Nat : x = ip + cells
    BY <1>1, <2>1
  <2>3. Takes(Cells, ip) = 1 /\ Gives(Cells, ip) = 1 /\ Targets(Cells, ip) = {x}
    BY <1>1, <2>1, <2>2, Effects
  <2>4. PICK n \in Nat : n = Len(stack) /\ n = Len(stack) - 1 + 1
    BY <2>1
  <2>5. CASE Crash("freed frame")
    BY <2>5, CrashBalances DEF Ends
  <2>6. CASE Advance(cells, stack)
    BY <1>1, <2>2, <2>3, <2>4, <2>6, AdvanceBalances
  <2>7. CASE /\ ip' = ip + cells
             /\ UNCHANGED <<frameVars, prog, stack, self, ret, base, natives, cont, heapVars,
                            end, result>>
    <3>1. /\ UNCHANGED <<frameVars, ret, base, natives, cont, end, prog>>
          /\ ip' = x /\ Len(stack') = n
      BY <2>2, <2>4, <2>7
    <3> QED BY <1>1, <2>3, <2>4, <3>1, MovesTo
  <2> QED BY <1>1, <2>5, <2>6, <2>7 DEF SetLocalOf
<1>2. CASE SetLocal
  <2>1. PICK opcode, f, i : opcode = SETLOCAL /\ f = Current /\ i = Operand(1)
    OBVIOUS
  <2>2. At(opcode) /\ SetLocalOf(f, i, 2) /\ 2 \in Nat
    BY <1>2, <2>1 DEF SetLocal
  <2> QED BY <1>1, <2>1, <2>2
<1>3. CASE SetLocalDepth
  <2>1. At(SETLOCALDEPTH) /\ SetLocalOf(Outer(Operand(1)), Operand(2), 3) /\ 3 \in Nat
    BY <1>3 DEF SetLocalDepth
  <2> QED BY <1>1, <2>1
<1> QED BY <1>2, <1>3

\* What allocates has taken its operands when it begins to, and pushes its value at the end.
LEMMA AllocationBalances ==
  ASSUME TypeInv, WellHeighted, BalanceInv, Defn \/ MakeVec \/ SetSlot \/ Dump
  PROVE  BalanceInv'
<1>1. ASSUME NEW opcode, At(opcode), NEW cells \in Nat, ip + cells \in Targets(Cells, ip),
             NEW kind, kind \notin {"none", "index"}, NEW values, NEW safe, NEW name, NEW st,
             Allocate(kind, values, safe, name, After(cells, st)),
             Len(st) = Len(stack) - Takes(Cells, ip),
             Gives(Cells, ip) = IF kind = "print" THEN 0 ELSE 1
      PROVE  BalanceInv'
  <2>1. PICK k : k = After(cells, st)
    OBVIOUS
  <2>2. ip \in Nat
    BY <1>1, AtOpcode
  <2>3. k.natives = natives /\ k.next = ip + cells /\ k.next \in Nat /\ k.stack = st
    BY <2>1, <2>2 DEF After
  <2> QED BY <1>1, <2>1, <2>3, AllocatesAt
<1>2. ASSUME NEW opcode, At(opcode), NEW cells \in Nat, NEW kind, NEW name,
             Make(kind, << >>, name, After(cells, stack)),
             \/ opcode = DEFN /\ kind = "closure" /\ cells = 2
             \/ opcode = DUMP /\ kind = "print" /\ cells = 1
      PROVE  BalanceInv'
  <2>1. stack \in Seq(Word) /\ Cells[ip + 1] = opcode
    BY <1>2, AtOpcode
  <2>2. /\ Takes(Cells, ip) = 0 /\ Gives(Cells, ip) = IF kind = "print" THEN 0 ELSE 1
        /\ Targets(Cells, ip) = {ip + cells}
    BY <1>2, <2>1, Effects
  <2>3. Len(stack) = Len(stack) - 0
    BY <2>1
  <2>4. Allocate(kind, << >>, {}, name, After(cells, stack)) /\ kind \notin {"none", "index"}
    BY <1>2 DEF Make
  <2> QED BY <1>1, <1>2, <2>2, <2>3, <2>4
<1>3. ASSUME NEW opcode, At(opcode), NEW t \in Nat, NEW kind \in {"Vector", "field"},
             NEW values, NEW safe, NEW name,
             Allocate(kind, values, safe, name, After(2, Without(t))),
             \/ opcode = MAKEVEC /\ t = Operand(1)
             \/ opcode = SETSLOT /\ t = 2
      PROVE  BalanceInv'
  <2>1. /\ stack \in Seq(Word) /\ Cells[ip + 1] = opcode /\ Operand(1) = Cells[ip + 2]
        /\ ip \in Nat /\ Ready /\ InBounds
    BY <1>3, AtOpcode
  <2>2. Takes(Cells, ip) = t /\ Gives(Cells, ip) = 1 /\ Targets(Cells, ip) = {ip + 2}
    BY <1>3, <2>1, Effects
  <2>3. t <= Len(stack)
    BY <2>1, <2>2, AtHeight
  <2>4. Len(Without(t)) = Len(stack) - t
    BY <2>1, <2>3, WithoutLength
  <2>5. Gives(Cells, ip) = IF kind = "print" THEN 0 ELSE 1
    BY <2>2
  <2> QED BY <1>1, <1>3, <2>2, <2>4, <2>5
<1>4. CASE MakeVec
  <2>1. Operand(1) \in Nat /\ At(MAKEVEC)
    BY <1>4, Decode DEF MakeVec
  <2>2. CASE \E S : Trouble(S) # "none" /\ Crash(Trouble(S))
    BY <2>2, TroubleBalances
  <2>3. CASE \E values, safe : Allocate("Vector", values, safe, NULL, After(2, Without(Operand(1))))
    <3>1. PICK t \in Nat : t = Operand(1)
      BY <2>1
    <3>2. PICK values, safe : Allocate("Vector", values, safe, NULL, After(2, Without(t)))
      BY <2>3, <3>1
    <3>3. PICK opcode : opcode = MAKEVEC
      OBVIOUS
    <3>4. "Vector" \in {"Vector", "field"} /\ At(opcode)
      BY <2>1, <3>3
    <3> QED BY <1>3, <3>1, <3>2, <3>3, <3>4
  <2> QED BY <1>4, <2>2, <2>3, AbortBalances DEF MakeVec, Using
<1>5. CASE SetSlot
  <2>1. At(SETSLOT)
    BY <1>5 DEF SetSlot
  <2>2. CASE \E S : Trouble(S) # "none" /\ Crash(Trouble(S))
    BY <2>2, TroubleBalances
  <2>3. CASE \E values, safe, name : Allocate("field", values, safe, name, After(2, Without(2)))
    BY <1>3, <2>1, <2>3
  <2> QED BY <1>5, <2>2, <2>3, AbortBalances DEF SetSlot, Using, BeginSet
<1>6. CASE Defn
  BY <1>2, <1>6 DEF Defn
<1>7. CASE Dump
  <2>1. At(DUMP) /\ 1 \in Nat
    BY <1>7 DEF Dump
  <2>2. CASE \E S : Obstacle(S) # "none" /\ Crash(Obstacle(S))
    BY <2>2, ObstacleBalances
  <2>3. CASE Make("print", << >>, NULL, After(1, stack))
    BY <1>2, <2>1, <2>3
  <2>4. CASE Advance(1, stack)
    <3>1. stack \in Seq(Word) /\ Cells[ip + 1] = DUMP
      BY <2>1, AtOpcode
    <3>2. Takes(Cells, ip) = 0 /\ Gives(Cells, ip) = 0 /\ Targets(Cells, ip) = {ip + 1}
      BY <3>1, Effects
    <3>3. PICK n \in Nat : n = Len(stack)
      BY <3>1
    <3>4. n = Len(stack) - 0 + 0
      BY <3>3
    <3>5. PICK opcode : opcode = DUMP
      OBVIOUS
    <3> QED BY <2>1, <2>4, <3>2, <3>3, <3>4, <3>5, AdvanceBalances
  <2> QED BY <1>7, <2>2, <2>3, <2>4 DEF Dump, Describing
<1> QED BY <1>4, <1>5, <1>6, <1>7
------------------------------------------------------------------------------
(***************************************************************************)
(* Natives                                                                 *)
(***************************************************************************)
\* A native that loops calls its closure with the operands as they are.
LEMMA InvokeBalances ==
  ASSUME TypeInv, WellHeighted, BalanceInv, NativesCallClosures, NativeHasControl,
         Waiting.kind # "require", NEW args, Invoke(args)
  PROVE  BalanceInv'
<1> DEFINE next == [Waiting EXCEPT !.index = @ + 1]
           ns == [natives EXCEPT ![Len(natives)] = [next EXCEPT !.values = SubSeq(@, 1, 2)]]
           k == [next |-> 0, stack |-> stack, natives |-> ns]
<1>1. /\ natives \in Seq(Wait) /\ natives # << >> /\ ip = NULL /\ cont = Idle
      /\ end = "no" /\ phase = "running" /\ frames # << >> /\ Current \in live
      /\ stack \in Seq(Word) /\ Len(natives) \in 1..Len(natives) /\ Waiting \in Wait
      /\ ValueInv
  BY WaitingIsOK DEF NativeHasControl, Going, F!Running, TypeInv, ValueInv, ControlInv, WaitsOK
<1>2. Waiting.values[2] \notin Native
  BY <1>1 DEF NativesCallClosures, Waiting
<1>3. WaitsOK(ns) /\ Len(ns) = Len(natives)
  BY InvokedWaits, <1>1
<1>4. \A j \in 1..Len(natives) : ns[j].next = natives[j].next
  <2>1. [next EXCEPT !.values = SubSeq(@, 1, 2)].next = Waiting.next
    BY <1>1 DEF Wait
  <2> HIDE DEF next
  <2> QED BY <1>1, <2>1 DEF Waiting
<1>5. \/ Trouble({Waiting.values[2]}) # "none" /\ Crash(Trouble({Waiting.values[2]}))
      \/ CallFunction(Waiting.values[2], self[Current], args, 10, NULL, k)
  BY DEF Invoke, Using
<1>6. k.natives = ns /\ k.stack = stack
  OBVIOUS
<1> HIDE DEF ns, next, k
<1>7. CASE CallFunction(Waiting.values[2], self[Current], args, 10, NULL, k)
  BY <1>1, <1>2, <1>3, <1>4, <1>6, <1>7, CalleeBalances
<1> QED BY <1>5, <1>7, TroubleBalances

LEMMA EachBalances ==
  ASSUME TypeInv, WellHeighted, BalanceInv, NativesCallClosures, EachElement \/ EachIndexed
  PROVE  BalanceInv'
<1>1. CASE \E S : Trouble(S) # "none" /\ Crash(Trouble(S))
  BY <1>1, TroubleBalances
<1>2. CASE EachElement /\ Invoke(<<NextElement>>)
  BY <1>2, InvokeBalances DEF EachElement, Iterating
<1>3. CASE EachIndexed
  BY <1>3, InvokeBalances DEF EachIndexed, Iterating
<1> QED BY <1>1, <1>2, <1>3 DEF EachElement, Using

\* While a native allocates it has control.
LEMMA IndexBalances ==
  ASSUME TypeInv, BalanceInv, EachIndex
  PROVE  BalanceInv'
<1>1. CASE \E S : Trouble(S) # "none" /\ Crash(Trouble(S))
  BY <1>1, TroubleBalances
<1>2. CASE \E values : Make("index", values, Waiting.index,
                            [next |-> NULL, stack |-> stack, natives |-> natives])
  <2>1. /\ UNCHANGED <<frameVars, ret, base, prog, natives, ip, stack, end>>
        /\ cont'.kind = "index" /\ ip = NULL
    BY <1>2 DEF EachIndex, Iterating, NativeHasControl, Make, Allocate, recordVars
  <2>2. /\ F!TypeOK /\ frames' = frames /\ SameLives /\ SameNatives /\ phase' = phase
        /\ Len(natives) \in Nat
    BY <2>1 DEF TypeInv, ValueInv, ControlInv, WaitsOK, frameVars, SameLives, SameNatives
  <2>3. AtTop'
    BY <2>1 DEF AtTop
  <2> QED BY <2>1, <2>2, <2>3, SteadyStep
<1> QED BY <1>1, <1>2 DEF EachIndex, Using

\* A loop is over: the vector is the value of the call.
LEMMA DoneBalances ==
  ASSUME TypeInv, BalanceInv, EachDone
  PROVE  BalanceInv'
<1>1. /\ natives \in Seq(Wait) /\ natives # << >> /\ ip = NULL /\ cont = Idle
      /\ end = "no" /\ phase = "running" /\ frames # << >> /\ stack \in Seq(Word)
      /\ Len(natives) \in Nat /\ Len(natives) # 0 /\ Waiting \in Wait /\ F!TypeOK /\ ValueInv
      /\ NativeHasControl
  BY WaitingIsOK DEF EachDone, NativeHasControl, Going, F!Running, TypeInv, ValueInv, ControlInv,
                     WaitsOK
<1>2. /\ UNCHANGED <<frameVars, ret, base, prog, cont, end>>
      /\ ip' = Waiting.next /\ natives' = NativesBelow
      /\ stack' = Append(stack, Waiting.values[1])
  BY DEF EachDone, GoOn, recordVars
<1>3. /\ frames' = frames /\ SameLives /\ cont' = Idle /\ ip' # NULL
      /\ ip' = natives[Len(natives)].next
  BY <1>1, <1>2, NaturalsAreNotNULL DEF frameVars, SameLives, Waiting, Wait
<1>4. Len(stack) \in Nat /\ Len(stack') = Len(stack) + 1
  BY <1>1, <1>2
<1>5. /\ Len(natives') = Len(natives) - 1
      /\ \A j \in 1..Len(natives) - 1 : natives'[j].next = natives[j].next
  <2> DEFINE n == Len(natives) - 1
  <2>1. n \in Nat /\ \A j \in 1..n : natives[j] \in Wait
    BY <1>1
  <2>2. natives' = SubSeq(natives, 1, n)
    BY <1>2 DEF NativesBelow
  <2> HIDE DEF n
  <2>3. Len(natives') = n /\ \A j \in 1..n : natives'[j] = natives[j]
    BY <2>1, <2>2, SubSeqProperties
  <2> QED BY <2>3 DEF n
<1> QED BY <1>1, <1>3, <1>4, <1>5, NativeEnds
------------------------------------------------------------------------------
(***************************************************************************)
(* Allocations, collections and the end                                    *)
(***************************************************************************)
\* The rest of an instruction, which may push its value.
LEMMA CompletesBalance ==
  ASSUME TypeInv, RunInv, BalanceInv, end = "no", phase = "running", frames # << >>,
         frames' = frames, SameLives, UNCHANGED <<phase, end, natives>>,
         cont # Idle, cont.kind # "index", ip' = cont.next, cont' = Idle,
         IF cont.kind = "print" THEN stack' = stack ELSE \E v : stack' = Append(stack, v)
  PROVE  BalanceInv'
<1>1. /\ F!TypeOK /\ SameNatives /\ Len(natives) \in Nat /\ stack \in Seq(Word) /\ ip # NULL
      /\ AtTop
  BY DEF TypeInv, ValueInv, ControlInv, WaitsOK, SameNatives, BalanceInv, AtTop
<1>2. PICK f, x, n, due : /\ f = Current /\ x = cont.next /\ n = Len(stack)
                          /\ due = IF cont.kind = "print" THEN 0 ELSE 1
  OBVIOUS
<1>3. Owes(f, x, n, due)
  BY <1>1, <1>2 DEF AtTop
<1>4. Current' = f /\ f \in Frame /\ n \in Nat /\ due \in {0, 1}
  <2>1. Current \in Frame
    BY <1>1 DEF F!TypeOK, Current, F!Current
  <2> QED BY <1>1, <1>2, <2>1 DEF Current, F!Current
<1>5. Len(stack') = n + due
  BY <1>1, <1>2
<1>6. Owes(f, x, n + due, 0)'
  <2>1. CASE f \in live'
    <3>1. f \in live /\ HeightsOf'[f] = HeightsOf[f] /\ base'[f] = base[f]
      BY <1>1, <2>1, SameHeights
    <3>2. HeightsOf[f][x] >= 0 /\ n + due + 0 = n + due
      BY <1>3, <1>4, <3>1 DEF Owes
    <3> QED BY <1>3, <3>1, <3>2 DEF Owes
  <2> QED BY <2>1 DEF Owes
<1>7. ip' # NULL
  BY <1>1 DEF RunInv, AtTop
<1>8. AtTop'
  BY <1>2, <1>4, <1>5, <1>6 DEF AtTop
<1> QED BY <1>1, <1>7, <1>8, SteadyStep

LEMMA FinishBalances ==
  ASSUME TypeInv, RunInv, BalanceInv,
         \/ FinishClosure \/ FinishValue \/ FinishMap \/ FinishIndex \/ FinishField \/ FinishNil
         \/ FinishPrint \/ ReadAgain \/ OutOfCells
  PROVE  BalanceInv'
<1>1. /\ cont # Idle /\ end = "no" /\ phase = "running" /\ frames # << >>
      /\ F!TypeOK /\ natives \in Seq(Wait) /\ Len(natives) \in Nat
  <2>1. Going /\ cont # Idle
    BY DEF FinishClosure, FinishValue, FinishMap, FinishIndex, FinishField, FinishNil,
           FinishPrint, ReadAgain, OutOfCells, Unfinished, Makings
  <2> QED BY <2>1 DEF Going, F!Running, TypeInv, ValueInv, ControlInv, WaitsOK
<1>2. CASE \E how \in Ends \ {"no"} : Crash(how)
  BY <1>2, CrashBalances
<1>3. CASE \E S : Trouble(S) # "none" /\ Crash(Trouble(S))
  BY <1>3, TroubleBalances
<1>4. ASSUME NEW v, Finish(v), UNCHANGED <<frames, live, code, phase>>,
             cont.kind \notin {"index", "print"}
      PROVE  BalanceInv'
  <2>1. /\ SameLives /\ UNCHANGED <<end, natives>> /\ ip' = cont.next /\ cont' = Idle
        /\ stack' = Append(stack, v)
    BY <1>4 DEF Finish, SameLives, recordVars
  <2> QED BY <1>1, <1>4, <2>1, CompletesBalance
<1>5. CASE FinishIndex
  <2>1. /\ UNCHANGED <<frames, live, code, phase, prog, ip, stack, ret, base, end>> /\ cont' = Idle
        /\ natives' = [natives EXCEPT ![Len(natives)].values =
                         @ \o <<cont.values[1], NewObject>>]
        /\ cont.kind = "index"
    BY <1>5 DEF FinishIndex, Makings, frameVars, recordVars
  <2>2. SameNatives
    <3>1. Len(natives') = Len(natives)
      BY <1>1, <2>1
    <3>2. \A j \in 1..Len(natives) : natives[j] \in Wait
      BY <1>1
    <3>3. \A j \in 1..Len(natives) : natives'[j].next = natives[j].next
      BY <2>1, <3>2 DEF Wait
    <3> QED BY <3>1, <3>3 DEF SameNatives
  <2>3. ip = NULL
    BY <1>1, <2>1 DEF BalanceInv, AtTop
  <2>4. AtTop'
    BY <2>1, <2>3 DEF AtTop
  <2>5. SameLives
    BY <2>1 DEF SameLives
  <2> QED BY <1>1, <2>1, <2>2, <2>4, <2>5, SteadyStep
<1>6. CASE FinishClosure /\ ~ Crash("no value")
  <2>1. PICK c : Finish(c) /\ F!Defn(cont.name, c)
    BY <1>6 DEF FinishClosure
  <2>2. UNCHANGED <<frames, live, code, phase>> /\ cont.kind \notin {"index", "print"}
    BY <1>6, <2>1 DEF FinishClosure, Unfinished, F!Defn
  <2> QED BY <1>4, <2>1, <2>2
<1>7. ASSUME NEW v, Finish(v), UNCHANGED frameVars, cont.kind \notin {"index", "print"}
      PROVE  BalanceInv'
  BY <1>4, <1>7 DEF frameVars
<1>8. CASE FinishValue
  BY <1>7, <1>8 DEF FinishValue, Makings
<1>9. CASE FinishMap
  BY <1>2, <1>3, <1>7, <1>9 DEF FinishMap, Makings, Using, Ends
<1>10. CASE FinishField \/ FinishNil
  BY <1>2, <1>7, <1>10 DEF FinishField, FinishNil, Unfinished, Ends
<1>11. CASE FinishPrint
  <2>1. /\ SameLives /\ UNCHANGED <<frames, phase, end, natives>> /\ ip' = cont.next
        /\ cont' = Idle /\ stack' = stack /\ cont.kind = "print"
    BY <1>11 DEF FinishPrint, Unfinished, SameLives, frameVars, recordVars
  <2> QED BY <1>1, <2>1, CompletesBalance
<1>12. CASE OutOfCells \/ Crash("no value")
  BY <1>2, <1>12 DEF OutOfCells, Ends
<1>13. CASE /\ ReadAgain
            /\ cont' = [cont EXCEPT !.values = << >>]
            /\ UNCHANGED <<frameVars, prog, ip, stack, recordVars, natives, heapVars, end, result>>
  <2>1. ContOK(cont)
    BY <1>1 DEF TypeInv, ValueInv, ControlInv
  <2>2. cont'.kind = cont.kind /\ cont'.next = cont.next /\ cont.kind \in {"String", "nil"}
    BY <1>13, <2>1 DEF ContOK, ReadAgain, Unfinished
  <2>3. cont' # Idle
    BY <2>2 DEF Idle
  <2>4. /\ UNCHANGED <<frames, live, code, phase, prog, ip, stack, ret, base, natives, end>>
        /\ SameLives /\ SameNatives
    BY <1>13 DEF frameVars, recordVars, SameLives, SameNatives
  <2>5. HeightsOf' = HeightsOf /\ Current' = Current
    BY <2>4 DEF HeightsOf, Current, F!Current
  <2>6. AtTop
    BY <1>1 DEF BalanceInv
  <2>7. AtTop'
    BY <1>1, <2>2, <2>3, <2>4, <2>5, <2>6 DEF AtTop, Owes
  <2> QED BY <1>1, <2>4, <2>7, SteadyStep
<1>14. CASE ReadAgain
  BY <1>3, <1>13, <1>14 DEF ReadAgain, Using
<1> QED BY <1>5, <1>6, <1>8, <1>9, <1>10, <1>11, <1>12, <1>14

\* The frames that the collector frees are owed nothing; those that are left are as before.
LEMMA CollectorBalances ==
  ASSUME TypeInv, BalanceInv,
         Collect \/ CollectFreed \/ Destroy \/ CurrentFreed \/ Stranded \/ Exit
  PROVE  BalanceInv'
<1>1. CASE Stranded \/ Crash("freed value")
  BY <1>1, CrashBalances DEF Stranded, Ends
<1>2. ASSUME UNCHANGED <<frames, prog, ip, stack, natives, cont, end>>, live' \subseteq live,
             \A f \in live' : ret'[f] = ret[f] /\ base'[f] = base[f] /\ code'[f] = code[f],
             phase' = "running" => phase = "running"
      PROVE  BalanceInv'
  <2>1. /\ F!TypeOK /\ SameLives /\ SameNatives /\ Len(natives) \in Nat /\ Current' = Current
    BY <1>2 DEF TypeInv, ValueInv, ControlInv, WaitsOK, SameLives, SameNatives, Current,
                F!Current
  <2>2. ASSUME end' = "no", phase' = "running"
        PROVE  AtTop'
    <3>1. AtTop
      BY <1>2, <2>2 DEF BalanceInv
    <3>2. PICK f, n, x, due : /\ f = Current /\ n = Len(stack)
                              /\ x = IF cont = Idle THEN ip ELSE cont.next
                              /\ due = IF cont = Idle \/ cont.kind = "print" THEN 0 ELSE 1
      OBVIOUS
    <3>3. frames # << >> /\ ip # NULL => Owes(f, x, n, due)
      BY <3>1, <3>2 DEF AtTop
    <3>4. frames # << >> /\ ip # NULL => Owes(f, x, n, due)'
      <4>1. CASE f \in live'
        BY <2>1, <3>3, <4>1, SameHeights DEF Owes
      <4> QED BY <4>1 DEF Owes
    <3> QED BY <1>2, <2>1, <3>1, <3>2, <3>4 DEF AtTop
  <2> QED BY <1>2, <2>1, <2>2, SteadyStep
<1>3. CASE Collect
  <2>1. UNCHANGED <<frames, live, code, phase, prog, ip, stack, ret, base, natives, cont, end>>
    BY <1>3 DEF Collect, F!Collect, frameVars, recordVars
  <2> QED BY <1>2, <2>1
<1>4. CASE (CollectFreed \/ CurrentFreed) /\ ~ Crash("freed value")
  <2>1. UNCHANGED <<frames, live, code, phase, prog, ip, stack, ret, base, natives, cont, end>>
    BY <1>4 DEF CollectFreed, CurrentFreed, F!CollectFreed, F!CurrentFreed, F!Fail, recordVars
  <2> QED BY <1>2, <2>1
<1>5. CASE Destroy
  <2>1. /\ UNCHANGED <<frames, prog, ip, stack, natives, cont, end, phase>>
        /\ live' \subseteq live /\ DropRecords
    BY <1>5 DEF Destroy, F!Sweep, F!Release, F!ReleaseFreed, F!Fail, F!Free
  <2>2. \A f \in live' : f \in Frame /\ code'[f] = code[f]
    BY <1>5 DEF Destroy, F!Sweep, F!Release, F!ReleaseFreed, F!Fail, F!Free, TypeInv, F!TypeOK
  <2>3. \A f \in live' : ret'[f] = ret[f] /\ base'[f] = base[f]
    BY <2>1, <2>2 DEF DropRecords, Kept
  <2> QED BY <1>2, <2>1, <2>2, <2>3
<1>6. CASE Exit
  <2>1. phase' # "running"
    BY <1>6 DEF Exit, F!Exit, F!ExitDone
  <2> QED BY <2>1 DEF BalanceInv
<1> QED BY <1>1, <1>3, <1>4, <1>5, <1>6
------------------------------------------------------------------------------
LEMMA BalanceInvInit == Init /\ WellHeighted => BalanceInv
<1> SUFFICES ASSUME Init, WellHeighted PROVE BalanceInv
  OBVIOUS
<1>1. /\ frames = <<Top>> /\ live = {Top} /\ ret[Top] = NULL /\ base[Top] = 0 /\ natives = << >>
      /\ ip = 0 /\ ip # NULL /\ cont = Idle /\ stack = << >> /\ code[Top] = NULL
      /\ Top \in Frame /\ prog \in DOMAIN Program
  BY InstanceAssumption, NaturalsAreNotNULL DEF Init, F!Init
<1>2. Owes(Top, 0, 0, 0)
  <2>1. "main" \in Loaded
    BY <1>1, ProgramAssumption DEF Loaded
  <2>2. HeightsOf[Top] = Height(Program[prog].code["main"])
    BY <1>1 DEF HeightsOf
  <2>3. Respects(Program[prog].code["main"], HeightsOf[Top])
    BY <2>1, <2>2 DEF WellHeighted
  <2>4. 0 \in DOMAIN HeightsOf[Top] /\ HeightsOf[Top][0] = 0
    BY <2>3 DEF Respects
  <2> QED BY <1>1, <2>4 DEF Owes
<1>3. AtTop
  BY <1>1, <1>2 DEF AtTop, Current, F!Current
<1>4. PICK at : at = << >>
  OBVIOUS
<1>5. at \in [1..Len(natives) -> 1..Len(frames)] /\ DOMAIN at = {}
  BY <1>1, <1>4
<1>6. Placed(at)
  BY <1>1, <1>5 DEF Placed
<1>7. Between(at)
  BY <1>1, <1>5 DEF Between
<1> QED BY <1>1, <1>3, <1>5, <1>6, <1>7 DEF BalanceInv

LEMMA BalanceInvNext ==
  BalanceInv /\ TypeInv /\ RunInv /\ WellHeighted /\ NativesCallClosures /\ NothingRequired
    /\ [Next]_vars => BalanceInv'
<1> SUFFICES ASSUME BalanceInv, TypeInv, RunInv, WellHeighted, NativesCallClosures,
                    NothingRequired, [Next]_vars
             PROVE  BalanceInv'
  OBVIOUS
<1>1. CASE RunOff
  BY <1>1, CrashBalances DEF RunOff, Ends
<1>2. CASE Skip \/ PushConstant \/ Jump \/ Goto \/ Pop \/ GetSlot
  BY <1>2, SkipBalances, PushConstantBalances, JumpBalances, PopBalances, GetSlotBalances
<1>3. CASE \/ PushLocal \/ PushLocalDepth \/ SetLocal \/ SetLocalDepth
           \/ Defn \/ MakeVec \/ SetSlot \/ Dump
  BY <1>3, PushLocalBalances, SetLocalBalances, AllocationBalances
<1>4. CASE Send \/ Return
  BY <1>4, SendBalances, ReturnBalances
<1>5. CASE EachElement \/ EachIndex \/ EachIndexed \/ EachDone
  BY <1>5, EachBalances, IndexBalances, DoneBalances
<1>6. ~ RequireFile /\ ~ FinishFile /\ ~ RequireDone
  <2>1. natives # << >> => Len(natives) \in DOMAIN natives
    BY DEF TypeInv, ValueInv, ControlInv, WaitsOK
  <2>2. ~ FinishFile
    BY <2>1 DEF FinishFile, Unfinished, NothingRequired, TypeInv, ValueInv, ControlInv
  <2> QED BY <2>1, <2>2 DEF RequireFile, RequireDone, NothingRequired, NativeHasControl, Waiting
<1>7. CASE \/ FinishClosure \/ FinishValue \/ FinishMap \/ FinishIndex \/ FinishField
           \/ FinishNil \/ FinishPrint \/ ReadAgain \/ OutOfCells
  BY <1>7, FinishBalances
<1>8. CASE Collect \/ CollectFreed \/ Destroy \/ CurrentFreed \/ Stranded \/ Exit
  BY <1>8, CollectorBalances
<1>9. CASE Halted \/ UNCHANGED vars
  <2>1. UNCHANGED vars
    BY <1>9 DEF Halted
  <2>2. UNCHANGED <<frames, live, code, phase, prog, ip, stack, ret, base, natives, cont, end>>
    BY <2>1 DEF vars, frameVars, recordVars
  <2>3. HeightsOf' = HeightsOf /\ Current' = Current
    BY <2>2 DEF HeightsOf, Current, F!Current
  <2>4. ASSUME NEW at PROVE Placed(at)' <=> Placed(at)
    BY <2>2 DEF Placed
  <2>5. ASSUME NEW at PROVE Between(at)' <=> Between(at)
    BY <2>2, <2>3 DEF Between, Owes
  <2>6. AtTop' <=> AtTop
    BY <2>2, <2>3 DEF AtTop, Owes
  <2> QED BY <2>2, <2>4, <2>5, <2>6 DEF BalanceInv
<1> QED BY <1>1, <1>2, <1>3, <1>4, <1>5, <1>6, <1>7, <1>8, <1>9 DEF Next

\* vm.c, function.c, primitives.c: where each function leaves one operand on every way through
\* its code, a call leaves one value in the place of its receiver and arguments, and no call
\* touches the operands of its caller.
THEOREM OperandsAreBalanced == Spec => OperandsBalance
<1>1. BalanceInv /\ TypeInv /\ WellHeighted => CallBalance
  <2> SUFFICES ASSUME BalanceInv, TypeInv, WellHeighted PROVE CallBalance
    OBVIOUS
  <2>1. At(RET) => Len(stack) = base[Current] + 1
    BY AtHeight DEF At
  <2>2. ASSUME Going, Current \in live PROVE Len(stack) >= base[Current]
    <3>1. /\ F!TypeOK /\ frames # << >> /\ end = "no" /\ phase = "running"
          /\ natives \in Seq(Wait) /\ stack \in Seq(Word) /\ base \in [Frame -> Nat]
          /\ Current \in Frame
      BY <2>2 DEF Going, F!Running, TypeInv, F!TypeOK, ValueInv, RecordInv, ControlInv, WaitsOK
    <3>2. ASSUME NEW x, NEW due \in {0, 1}, Owes(Current, x, Len(stack), due)
          PROVE  Len(stack) >= base[Current]
      <4>1. PICK h, n, b : h = HeightsOf[Current][x] /\ n = Len(stack) /\ b = base[Current]
        OBVIOUS
      <4>2. h \in Nat /\ n \in Nat /\ b \in Nat /\ h >= due /\ n + due = b + h
        BY <2>2, <3>1, <3>2, <4>1 DEF Owes
      <4> QED BY <4>1, <4>2
    <3>3. CASE ip # NULL
      BY <3>1, <3>2, <3>3 DEF BalanceInv, AtTop
    <3>4. CASE ip = NULL
      <4>1. PICK at \in [1..Len(natives) -> 1..Len(frames)] : Placed(at) /\ Between(at)
        BY <3>1 DEF BalanceInv
      <4>2. PICK m : m = Len(natives)
        OBVIOUS
      <4>3. m \in DOMAIN at /\ at[m] = Len(frames)
        BY <3>1, <3>4, <4>1, <4>2 DEF Placed
      <4>4. Owes(frames[at[m]], natives[m].next, Len(stack), 1)
        BY <4>1, <4>3 DEF Between
      <4>5. frames[at[m]] = Current
        BY <4>3 DEF Current, F!Current
      <4> QED BY <3>2, <4>4, <4>5
    <3> QED BY <3>3, <3>4
  <2> QED BY <2>1, <2>2 DEF CallBalance
<1>2. WellHeighted /\ TypeInv /\ [Next]_vars => WellHeighted'
  <2>1. [Next]_vars => prog' = prog
    BY FramesTakeOneStep DEF FrameStep
  <2> QED BY <2>1 DEF WellHeighted, Loaded
<1> QED BY <1>1, <1>2, BalanceInvInit, BalanceInvNext, RunInvInit, RunInvNext, RunsAreTyped, PTL
        DEF Spec, OperandsBalance
================================================================================
