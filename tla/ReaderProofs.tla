----------------------------- MODULE ReaderProofs ------------------------------
(***************************************************************************)
(* Proofs about module Reader, for every program that may be written:      *)
(*                                                                         *)
(*   - no literal of a function that can be found is collected while files *)
(*     are read, be they cut off or misread;                               *)
(*                                                                         *)
(*   - files that README describes are read back as they were written.     *)
(*     FileLayout says at which line of its file each function begins, and *)
(*     ReadInv what has been read when so many lines have been passed.     *)
(***************************************************************************)
EXTENDS Reader, SequenceTheorems, WellFoundedInduction, TLAPS

\* A set of numbers has one that is 0 or whose predecessor is outside.
LEMMA Lowest ==
  ASSUME NEW S, S \subseteq Nat, S # {}
  PROVE  \E n \in S : n = 0 \/ n - 1 \in Nat \ S
<1>1. PICK n \in S : \A m \in S : ~ (<<m, n>> \in OpToRel(<, Nat))
  BY NatLessThanWellFounded, WFMin
<1>2. CASE n # 0
  <2>1. n - 1 \in Nat /\ <<n - 1, n>> \in OpToRel(<, Nat)
    BY <1>2 DEF OpToRel
  <2> QED BY <1>1, <2>1
<1> QED BY <1>1, <1>2
------------------------------------------------------------------------------
(***************************************************************************)
(* FlattenSeq                                                              *)
(***************************************************************************)
\* f[i] is the first i sequences of s, one after the other.
Flattens(f, s) == f = [i \in 1..Len(s) |-> IF i = 1 THEN s[i] ELSE f[i - 1] \o s[i]]

\* Such a function exists: that of one sequence less, extended.
LEMMA FlattensExists ==
  ASSUME NEW s
  PROVE  Len(s) \in Nat => \E f : Flattens(f, s)
<1> SUFFICES ASSUME Len(s) \in Nat PROVE \E f : Flattens(f, s)
  OBVIOUS
<1> DEFINE To(n, f) == f = [i \in 1..n |-> IF i = 1 THEN s[i] ELSE f[i - 1] \o s[i]]
           Bad == {n \in Nat : ~ \E f : To(n, f)}
<1>1. Bad = {}
  <2> SUFFICES ASSUME Bad # {} PROVE FALSE
    OBVIOUS
  <2>1. PICK n \in Bad : n = 0 \/ n - 1 \in Nat \ Bad
    <3>1. Bad \subseteq Nat
      OBVIOUS
    <3> HIDE DEF Bad
    <3> QED BY Lowest, <3>1
  <2>2. CASE n = 0
    <3>1. To(0, [i \in 1..0 |-> s[i]])
      OBVIOUS
    <3> QED BY <2>1, <2>2, <3>1
  <2>3. CASE n # 0
    <3>1. n \in Nat /\ n - 1 \in Nat /\ \E f : To(n - 1, f)
      BY <2>1, <2>3
    <3>2. PICK f : To(n - 1, f)
      BY <3>1
    <3> DEFINE g == [i \in 1..n |-> IF i = n THEN IF n = 1 THEN s[n] ELSE f[n - 1] \o s[n]
                                    ELSE f[i]]
    <3>3. ASSUME NEW i \in 1..n
          PROVE  g[i] = IF i = 1 THEN s[i] ELSE g[i - 1] \o s[i]
      <4>1. CASE i = n
        BY <3>1, <4>1
      <4>2. CASE i # n
        <5>a. i \in 1..n - 1
          BY <3>1, <4>2
        <5>b. \A j \in 1..n - 1 : f[j] = IF j = 1 THEN s[j] ELSE f[j - 1] \o s[j]
          BY <3>2
        <5>1. i \in 1..n - 1 /\ f[i] = IF i = 1 THEN s[i] ELSE f[i - 1] \o s[i]
          BY <5>a, <5>b
        <5>2. g[i] = f[i] /\ (i # 1 => g[i - 1] = f[i - 1])
          BY <3>1, <4>2, <5>1
        <5> QED BY <5>1, <5>2
      <4> QED BY <4>1, <4>2
    <3>4. To(n, g)
      <4>1. g = [i \in 1..n |-> g[i]]
        OBVIOUS
      <4> HIDE DEF g
      <4> QED BY <3>3, <4>1
    <3> HIDE DEF g
    <3> QED BY <2>1, <3>4
  <2> QED BY <2>2, <2>3
<1>2. \E f : To(Len(s), f)
  <2> HIDE DEF To
  <2> QED BY <1>1
<1> QED BY <1>2 DEF Flattens

LEMMA FlattenSeqIs ==
  ASSUME NEW s, Len(s) \in Nat, Len(s) # 0
  PROVE  \E f : Flattens(f, s) /\ FlattenSeq(s) = f[Len(s)]
<1>1. \E f : Flattens(f, s)
  BY FlattensExists
<1>2. Flattens(CHOOSE f : Flattens(f, s), s)
  BY <1>1
<1>3. FlattenSeq(s) = (CHOOSE f : Flattens(f, s))[Len(s)]
  BY DEF FlattenSeq, Flattens
<1> QED BY <1>2, <1>3

LEMMA Concat ==
  ASSUME NEW T, NEW a \in Seq(T), NEW b \in Seq(T)
  PROVE  /\ a \o b \in Seq(T) /\ Len(a) \in Nat /\ Len(b) \in Nat
         /\ Len(a \o b) = Len(a) + Len(b) /\ Len(a \o b) >= Len(a)
         /\ \A j \in 1..Len(a) : (a \o b)[j] = a[j]
         /\ \A k \in 1..Len(b) : (a \o b)[Len(a) + k] = b[k]
OBVIOUS

LEMMA Within ==
  ASSUME NEW x \in Nat, NEW y \in Nat, NEW z \in Nat, z >= x + y, NEW j \in 1..y
  PROVE  x + j \in 1..z
OBVIOUS

LEMMA AtLeast ==
  ASSUME NEW x \in Nat, NEW y \in Nat, NEW z \in Nat, x >= y, y >= z
  PROVE  x >= z
OBVIOUS

\* Where the sequences of s are in F: the elements of s[i] come after the first at[i].
Offsets(F, s, at) ==
    /\ at \in [1..Len(s) + 1 -> Nat]
    /\ at[1] = 0
    /\ Len(F) = at[Len(s) + 1]
    /\ \A i \in 1..Len(s) :
         /\ at[i + 1] = at[i] + Len(s[i])
         /\ \A j \in 1..Len(s[i]) : F[at[i] + j] = s[i][j]

LEMMA Flattened ==
  ASSUME NEW T, NEW s \in Seq(Seq(T))
  PROVE  FlattenSeq(s) \in Seq(T) /\ \E at : Offsets(FlattenSeq(s), s, at)
<1>0. Len(s) \in Nat /\ \A i \in 1..Len(s) : s[i] \in Seq(T) /\ Len(s[i]) \in Nat
  OBVIOUS
<1>1. CASE Len(s) = 0
  <2>1. FlattenSeq(s) = s /\ s = << >>
    BY <1>1 DEF FlattenSeq
  <2>a. Len(<< >>) = 0 /\ 0 + 1 = 1
    OBVIOUS
  <2>2. Offsets(<< >>, << >>, [i \in 1..1 |-> 0])
    BY <2>a DEF Offsets
  <2> QED BY <2>1, <2>2
<1>2. CASE Len(s) # 0
  <2>1. PICK f : Flattens(f, s) /\ FlattenSeq(s) = f[Len(s)]
    BY <1>0, <1>2, FlattenSeqIs
  <2>2. \A i \in 1..Len(s) : f[i] = IF i = 1 THEN s[i] ELSE f[i - 1] \o s[i]
    BY <2>1 DEF Flattens
  \* The type of f.
  <2>3. \A i \in 1..Len(s) : f[i] \in Seq(T)
    <3> DEFINE Bad == {i \in Nat : i \in 1..Len(s) /\ f[i] \notin Seq(T)}
    <3> SUFFICES ASSUME Bad # {} PROVE FALSE
      <4>1. \A i \in 1..Len(s) : i \in Nat
        BY <1>0
      <4> QED BY <4>1
    <3>1. PICK i \in Bad : i = 0 \/ i - 1 \in Nat \ Bad
      <4>1. Bad \subseteq Nat
        OBVIOUS
      <4> HIDE DEF Bad
      <4> QED BY Lowest, <4>1
    <3>2. i \in 1..Len(s) /\ f[i] \notin Seq(T) /\ s[i] \in Seq(T)
      BY <1>0, <3>1
    <3>3. CASE i = 1
      BY <2>2, <3>2, <3>3
    <3>4. CASE i # 1
      <4>1. i - 1 \in 1..Len(s) /\ i - 1 \in Nat \ Bad
        BY <1>0, <3>1, <3>2, <3>4
      <4>2. f[i - 1] \in Seq(T) /\ f[i] = f[i - 1] \o s[i]
        BY <2>2, <3>2, <3>4, <4>1
      <4>3. \A a, b \in Seq(T) : a \o b \in Seq(T)
        OBVIOUS
      <4> QED BY <3>2, <4>2, <4>3
    <3> QED BY <3>3, <3>4
  <2> DEFINE at == [i \in 1..Len(s) + 1 |-> IF i = 1 THEN 0 ELSE Len(f[i - 1])]
  <2>4. at \in [1..Len(s) + 1 -> Nat] /\ at[1] = 0 /\ \A i \in 1..Len(s) : at[i + 1] = Len(f[i])
    <3>1. ASSUME NEW i \in 1..Len(s) PROVE i + 1 \in 1..Len(s) + 1 /\ i + 1 # 1 /\ (i + 1) - 1 = i
      BY <1>0
    <3>2. ASSUME NEW i \in 1..Len(s) + 1 PROVE (IF i = 1 THEN 0 ELSE Len(f[i - 1])) \in Nat
      <4>1. CASE i # 1
        <5>1. i - 1 \in 1..Len(s)
          BY <1>0, <4>1
        <5> QED BY <2>3, <5>1, <4>1
      <4> QED BY <4>1
    <3>3. 1 \in 1..Len(s) + 1
      BY <1>0
    <3> QED BY <3>1, <3>2, <3>3
  <2> HIDE DEF at
  <2>5. \A a, b \in Seq(T) : /\ Len(a \o b) = Len(a) + Len(b) /\ Len(a) \in Nat /\ Len(b) \in Nat
                            /\ \A j \in 1..Len(a) : (a \o b)[j] = a[j]
                            /\ \A k \in 1..Len(b) : (a \o b)[Len(a) + k] = b[k]
    BY Concat
  <2>6. ASSUME NEW i \in 1..Len(s)
        PROVE  at[i + 1] = at[i] + Len(s[i]) /\ \A j \in 1..Len(s[i]) : f[i][at[i] + j] = s[i][j]
    <3>1. CASE i = 1
      <4>1. f[1] = s[1] /\ at[2] = Len(s[1]) /\ Len(s[1]) \in Nat
        BY <1>0, <2>2, <2>4, <3>1
      <4> QED BY <2>4, <3>1, <4>1
    <3>2. CASE i # 1
      <4>1. i - 1 \in 1..Len(s) /\ (i - 1) + 1 = i
        BY <1>0, <3>2
      <4>2. f[i] = f[i - 1] \o s[i] /\ f[i - 1] \in Seq(T) /\ s[i] \in Seq(T)
        BY <1>0, <2>2, <2>3, <3>2, <4>1
      <4>3. at[i] = Len(f[i - 1]) /\ at[i + 1] = Len(f[i])
        BY <2>4, <4>1
      <4>4. PICK a, b \in Seq(T) : a = f[i - 1] /\ b = s[i]
        BY <4>2
      <4>5. f[i] = a \o b /\ at[i] = Len(a) /\ Len(s[i]) = Len(b) /\ at[i + 1] = Len(a \o b)
        BY <4>2, <4>3, <4>4
      <4>6. at[i + 1] = at[i] + Len(s[i])
        BY <2>5, <4>5
      <4>7. \A j \in 1..Len(b) : f[i][at[i] + j] = b[j]
        BY <2>5, <4>5
      <4> QED BY <4>4, <4>6, <4>7
    <3> QED BY <3>1, <3>2
  \* What comes later leaves it where it is.
  <2>7. ASSUME NEW i \in 1..Len(s), NEW j \in 1..Len(s[i])
        PROVE  f[Len(s)][at[i] + j] = s[i][j]
    <3> DEFINE Bad == {m \in Nat : m \in i..Len(s) /\ f[m][at[i] + j] # s[i][j]}
    <3>1. Bad = {}
      <4> SUFFICES ASSUME Bad # {} PROVE FALSE
        OBVIOUS
      <4>1. PICK m \in Bad : m = 0 \/ m - 1 \in Nat \ Bad
        <5>1. Bad \subseteq Nat
          OBVIOUS
        <5> HIDE DEF Bad
        <5> QED BY Lowest, <5>1
      <4>2. m \in i..Len(s) /\ f[m][at[i] + j] # s[i][j]
        BY <4>1
      <4>3. m # i
        BY <2>6, <4>2
      <4>4. m - 1 \in i..Len(s) /\ m - 1 \in Nat \ Bad /\ m \in 1..Len(s) /\ m - 1 \in 1..Len(s) /\ m # 1
        BY <1>0, <4>1, <4>2, <4>3
      <4>5. f[m - 1][at[i] + j] = s[i][j]
        BY <4>4
      <4>6. f[m] = f[m - 1] \o s[m] /\ f[m - 1] \in Seq(T) /\ s[m] \in Seq(T)
        BY <1>0, <2>2, <2>3, <4>4
      <4>7. at[i] + j \in 1..Len(f[m - 1])
        <5>1. \A k \in i..Len(s) : Len(f[k]) \in Nat /\ Len(f[k]) >= Len(f[i])
          <6> DEFINE Short == {k \in Nat : k \in i..Len(s) /\ ~ Len(f[k]) >= Len(f[i])}
          <6>0. \A k \in i..Len(s) : k \in 1..Len(s) /\ k \in Nat
            BY <1>0
          <6>a. \A k \in i..Len(s) : Len(f[k]) \in Nat
            BY <2>3, <6>0
          <6>1. Short = {}
            <7> SUFFICES ASSUME Short # {} PROVE FALSE
              OBVIOUS
            <7>1. PICK k \in Short : k = 0 \/ k - 1 \in Nat \ Short
              <8>1. Short \subseteq Nat
                OBVIOUS
              <8> HIDE DEF Short
              <8> QED BY Lowest, <8>1
            <7>2. k \in i..Len(s) /\ ~ Len(f[k]) >= Len(f[i])
              BY <7>1
            <7>3. k # i
              BY <6>a, <7>2
            <7>4. k - 1 \in i..Len(s) /\ k - 1 \in Nat \ Short /\ k \in 1..Len(s) /\ k - 1 \in 1..Len(s) /\ k # 1
              BY <1>0, <7>1, <7>2, <7>3
            <7>5. Len(f[k - 1]) >= Len(f[i])
              BY <7>4
            <7>6. f[k] = f[k - 1] \o s[k] /\ f[k - 1] \in Seq(T) /\ s[k] \in Seq(T) /\ f[i] \in Seq(T)
              BY <1>0, <2>2, <2>3, <7>4
            <7>7. Len(f[k]) >= Len(f[k - 1]) /\ Len(f[k]) \in Nat /\ Len(f[k - 1]) \in Nat /\ Len(f[i]) \in Nat
              <8>1. PICK a, b \in Seq(T) : a = f[k - 1] /\ b = s[k]
                BY <7>6
              <8>2. Len(a \o b) >= Len(a) /\ Len(a \o b) \in Nat /\ Len(a) \in Nat
                BY Concat
              <8>3. f[k] = a \o b
                BY <7>6, <8>1
              <8>4. i \in i..Len(s)
                BY <1>0
              <8>5. Len(f[i]) \in Nat
                BY <6>a, <8>4
              <8>6. Len(f[k - 1]) = Len(a) /\ Len(f[k]) = Len(a \o b)
                BY <8>1, <8>3
              <8> QED BY <8>2, <8>5, <8>6
            <7> QED BY <7>2, <7>5, <7>7, AtLeast
          <6> HIDE DEF Short
          <6>2. ASSUME NEW k \in i..Len(s) PROVE Len(f[k]) >= Len(f[i])
            BY <6>0, <6>1 DEF Short
          <6> QED BY <6>a, <6>2
        <5>2. Len(f[i]) = at[i] + Len(s[i]) /\ at[i] \in Nat /\ Len(s[i]) \in Nat
          <6>1. i \in 1..Len(s) + 1
            BY <1>0
          <6> QED BY <1>0, <2>4, <2>6, <6>1
        <5>3. Len(f[m - 1]) \in Nat /\ Len(f[m - 1]) >= Len(f[i])
          BY <4>4, <5>1
        <5>4. Len(f[m - 1]) >= at[i] + Len(s[i])
          BY <5>2, <5>3
        <5> QED BY <5>2, <5>3, <5>4, Within
      <4> QED BY <2>5, <4>2, <4>5, <4>6, <4>7
    <3>2. Len(s) \in i..Len(s)
      BY <1>0
    <3> QED BY <1>0, <3>1, <3>2
  <2>8. FlattenSeq(s) \in Seq(T) /\ Len(FlattenSeq(s)) = at[Len(s) + 1]
    <3>1. Len(s) \in 1..Len(s)
      BY <1>0, <1>2
    <3> QED BY <2>1, <2>3, <2>4, <3>1
  <2>9. Offsets(FlattenSeq(s), s, at)
    BY <2>1, <2>4, <2>6, <2>7, <2>8 DEF Offsets
  <2> QED BY <2>8, <2>9
<1> QED BY <1>0, <1>1, <1>2
------------------------------------------------------------------------------
(***************************************************************************)
(* Literals                                                                *)
(***************************************************************************)
\* Functions whose names, literals and code are made of members of T.
Functions(T) == [name: T, literals: Seq(T), code: T]

\* Each file is a sequence of functions, one of which is being read.
FilesOK ==
    /\ \E T : files \in Seq(Seq(Functions(T)))
    /\ phase \in {"name", "literals", "cells", "register"} => files # << >>
    /\ phase \in {"literals", "cells"} => files[Len(files)] # << >>

LEMMA MoreFunctions ==
  ASSUME NEW T, NEW U, T \subseteq U
  PROVE  Seq(Seq(Functions(T))) \subseteq Seq(Seq(Functions(U)))
<1>1. Functions(T) \subseteq Functions(U)
  BY DEF Functions
<1> HIDE DEF Functions
<1>2. Seq(Functions(T)) \subseteq Seq(Functions(U))
  BY <1>1
<1>3. \A A, B : A \subseteq B => Seq(A) \subseteq Seq(B)
  OBVIOUS
<1> QED BY <1>2, <1>3

\* What is changed when a function is.
LEMMA BecomesOK ==
  ASSUME NEW T, files \in Seq(Seq(Functions(T))), files # << >>, Last(files) # << >>,
         NEW fn \in Functions(T), Becomes(fn)
  PROVE  /\ files' \in Seq(Seq(Functions(T))) /\ Len(files') = Len(files)
         /\ \A f \in 1..Len(files) - 1 : files'[f] = files[f]
         /\ Len(files'[Len(files)]) = Len(files[Len(files)])
         /\ \A k \in 1..Len(files[Len(files)]) - 1 :
              files'[Len(files)][k] = files[Len(files)][k]
         /\ files'[Len(files)][Len(files[Len(files)])] = fn
<1>1. PICK n \in Nat : n = Len(files) /\ n # 0
  OBVIOUS
<1>2. files[n] \in Seq(Functions(T)) /\ files[n] # << >>
  BY <1>1 DEF Last
<1>3. PICK k \in Nat : k = Len(files[n]) /\ k # 0
  BY <1>2
<1>4. files' = [files EXCEPT ![n] = [files[n] EXCEPT ![k] = fn]]
  BY <1>1, <1>3 DEF Becomes
<1>5. PICK g : g = [files[n] EXCEPT ![k] = fn]
  OBVIOUS
<1>6. /\ g \in Seq(Functions(T)) /\ Len(g) = k /\ g[k] = fn
      /\ \A j \in 1..k - 1 : g[j] = files[n][j]
  <2> HIDE DEF Functions
  <2> QED BY <1>2, <1>3, <1>5
<1>7. /\ files' \in Seq(Seq(Functions(T))) /\ Len(files') = n /\ files'[n] = g
      /\ \A f \in 1..n - 1 : files'[f] = files[f]
  <2> HIDE DEF Functions
  <2> QED BY <1>1, <1>4, <1>5, <1>6
<1> QED BY <1>1, <1>3, <1>6, <1>7

\* Named is the first function of the name.
LEMMA NamedIs ==
  ASSUME NEW file, NEW k, Len(file) \in Nat, k \in 1..Len(file)
  PROVE  k = Named(file, file[k].name) <=> \A j \in 1..k - 1 : file[j].name # file[k].name
<1> DEFINE I == {i \in 1..Len(file) : file[i].name = file[k].name}
<1>1. k \in I
  OBVIOUS
<1>2. Named(file, file[k].name) = CHOOSE x \in I : \A y \in I : x =< y
  BY <1>1 DEF Named, SelectInSeq, Min
<1>3. \E x \in I : \A y \in I : x =< y
  <2> DEFINE Bad == {x \in Nat : \E y \in I : y <= x}
  <2>1. Bad \subseteq Nat /\ k \in Bad
    BY <1>1
  <2>2. PICK x \in Bad : x = 0 \/ x - 1 \in Nat \ Bad
    <3> HIDE DEF Bad
    <3> QED BY <2>1, Lowest
  <2>3. PICK z \in I : z <= x
    BY <2>2
  <2>4. \A y \in I : x =< y
    BY <2>2
  <2>5. z = x
    BY <2>2, <2>3, <2>4
  <2> QED BY <2>3, <2>4, <2>5
<1>4. PICK x \in I : x = Named(file, file[k].name) /\ \A y \in I : x =< y
  <2> HIDE DEF I
  <2> QED BY <1>2, <1>3
<1> QED BY <1>1, <1>4

LEMMA FilesOKInit == ReadInit => FilesOK
<1> SUFFICES ASSUME ReadInit PROVE FilesOK
  OBVIOUS
<1>1. files = << >> /\ phase = "open"
  BY DEF ReadInit
<1>2. files \in Seq(Seq(Functions({})))
  BY <1>1
<1> QED BY <1>1, <1>2 DEF FilesOK

LEMMA FilesOKNext == FilesOK /\ [Read \/ Loaded]_readerVars => FilesOK'
<1> SUFFICES ASSUME FilesOK, [Read \/ Loaded]_readerVars PROVE FilesOK'
  OBVIOUS
<1>1. PICK T : files \in Seq(Seq(Functions(T)))
  BY DEF FilesOK
<1>2. CASE OpenFile
  <2>1. files' = Append(files, << >>) /\ phase' = "name"
    BY <1>2 DEF OpenFile
  <2>2. files' \in Seq(Seq(Functions(T))) /\ files' # << >>
    BY <1>1, <2>1
  <2> QED BY <2>1, <2>2 DEF FilesOK
<1>3. CASE ReadFunction
  <2>1. PICK x, c, fn : /\ fn = [name |-> x, literals |-> << >>, code |-> c]
                        /\ files' = [files EXCEPT ![Len(files)] = Append(@, fn)]
    BY <1>3 DEF ReadFunction
  <2>2. PICK U : U = T \union {x, c}
    OBVIOUS
  <2>3. files \in Seq(Seq(Functions(U))) /\ fn \in Functions(U) /\ files # << >>
    <3>1. T \subseteq U
      BY <2>2
    <3>2. files \in Seq(Seq(Functions(U)))
      BY <1>1, <3>1, MoreFunctions
    <3>3. fn \in Functions(U)
      BY <2>1, <2>2 DEF Functions
    <3> QED BY <3>2, <3>3, <1>3 DEF ReadFunction, FilesOK
  <2>4. PICK n \in Nat : n = Len(files) /\ n # 0
    <3> HIDE DEF Functions
    <3> QED BY <2>3
  <2>5. Append(files[n], fn) \in Seq(Functions(U)) /\ Append(files[n], fn) # << >>
    <3> HIDE DEF Functions
    <3>1. files[n] \in Seq(Functions(U))
      BY <2>3, <2>4
    <3>2. PICK W : W = Functions(U)
      OBVIOUS
    <3>3. PICK g \in Seq(W) : g = files[n]
      BY <3>1, <3>2
    <3>4. fn \in W
      BY <2>3, <3>2
    <3>5. Append(g, fn) \in Seq(W) /\ Append(g, fn) # << >>
      BY <3>4, AppendProperties
    <3> QED BY <3>2, <3>3, <3>5
  <2>6. files' \in Seq(Seq(Functions(U))) /\ files' # << >> /\ files'[Len(files')] # << >>
    <3> HIDE DEF Functions
    <3> QED BY <2>1, <2>3, <2>4, <2>5
  <2> QED BY <2>6 DEF FilesOK
<1>4. ASSUME phase \in {"literals", "cells"}, phase' \in {"literals", "cells"},
             NEW U, NEW fn \in Functions(U), T \subseteq U, Becomes(fn)
      PROVE  FilesOK'
  <2>1. files \in Seq(Seq(Functions(U))) /\ files # << >> /\ Last(files) # << >>
    BY <1>1, <1>4, MoreFunctions DEF FilesOK, Last
  <2>2. /\ files' \in Seq(Seq(Functions(U))) /\ Len(files') = Len(files)
        /\ Len(files'[Len(files)]) = Len(files[Len(files)])
    BY <1>4, <2>1, BecomesOK
  <2>3. files' # << >> /\ files'[Len(files')] # << >>
    <3> HIDE DEF Functions
    <3>1. PICK n \in Nat : n = Len(files) /\ n # 0
      BY <2>1
    <3>2. files[n] \in Seq(Functions(U)) /\ files[n] # << >>
      BY <2>1, <3>1 DEF Last
    <3>3. Len(files[n]) # 0
      BY <3>2
    <3> QED BY <2>2, <3>1, <3>3
  <2> QED BY <2>2, <2>3 DEF FilesOK
<1>5. ASSUME phase \in {"literals", "cells"} PROVE ThisFunction \in Functions(T)
  <2> HIDE DEF Functions
  <2>1. PICK n \in Nat : n = Len(files) /\ n # 0
    BY <1>1, <1>5 DEF FilesOK
  <2>2. files[n] \in Seq(Functions(T)) /\ files[n] # << >>
    BY <1>1, <1>5, <2>1 DEF FilesOK
  <2> QED BY <2>1, <2>2 DEF ThisFunction, Last
<1>6. CASE ReadLiteral
  <2>1. PICK x, fn : /\ fn = [ThisFunction EXCEPT !.literals = Append(ThisFunction.literals, x)]
                     /\ Becomes(fn)
    BY <1>6 DEF ReadLiteral
  <2>2. phase = "literals" /\ phase' \in {"literals", "cells"}
    BY <1>6 DEF ReadLiteral
  <2>3. PICK U : U = T \union {x}
    OBVIOUS
  <2>4. fn \in Functions(U) /\ T \subseteq U
    <3>1. ThisFunction.literals \in Seq(U) /\ x \in U
      BY <1>5, <2>2, <2>3 DEF Functions
    <3>2. Append(ThisFunction.literals, x) \in Seq(U)
      BY <3>1
    <3> QED BY <1>5, <2>1, <2>2, <2>3, <3>2 DEF Functions
  <2> QED BY <1>4, <2>1, <2>2, <2>4
<1>7. CASE ReadCell
  <2>1. PICK c, fn : fn = [ThisFunction EXCEPT !.code = c] /\ Becomes(fn)
    BY <1>7 DEF ReadCell
  <2>2. phase = "cells" /\ phase' = "cells"
    BY <1>7 DEF ReadCell
  <2>3. PICK U : U = T \union {c}
    OBVIOUS
  <2>4. fn \in Functions(U) /\ T \subseteq U
    <3>1. ThisFunction.literals \in Seq(U)
      BY <1>5, <2>2, <2>3 DEF Functions
    <3> QED BY <1>5, <2>1, <2>2, <2>3, <3>1 DEF Functions
  <2> QED BY <1>4, <2>1, <2>2, <2>4
<1>8. CASE Overrun \/ NoFunction \/ FunctionRead \/ Register \/ Loaded \/ UNCHANGED readerVars
  <2>1. files' = files
    BY <1>8 DEF Overrun, NoFunction, FunctionRead, Register, Loaded, readerVars, reading
  <2>2. \/ phase' \in {"overrun", "no main", "ready", "open"} \/ phase' = phase
        \/ phase \in {"name", "cells"} /\ phase' \in {"name", "register"}
    BY <1>8 DEF Overrun, NoFunction, FunctionRead, Register, Loaded, readerVars, reading
  <2> QED BY <2>1, <2>2 DEF FilesOK
<1> QED BY <1>2, <1>3, <1>6, <1>7, <1>8 DEF Read

\* The function that is being read keeps its name and its place.
LEMMA SameNames ==
  ASSUME FilesOK, phase \in {"literals", "cells"}, NEW T, files \in Seq(Seq(Functions(T))),
         NEW U, T \subseteq U, NEW fn \in Functions(U), fn.name = ThisFunction.name, Becomes(fn)
  PROVE  /\ Len(files) \in 1..Len(files) /\ Len(Last(files)) \in DOMAIN files[Len(files)]
         /\ DOMAIN files' = DOMAIN files /\ files'[Len(files)][Len(Last(files))] = fn
         /\ \A f \in DOMAIN files :
              /\ DOMAIN files'[f] = DOMAIN files[f]
              /\ \A k \in DOMAIN files[f] :
                   /\ ~ (f = Len(files) /\ k = Len(Last(files))) => files'[f][k] = files[f][k]
                   /\ files'[f][k].name = files[f][k].name
                   /\ k = Named(files'[f], files'[f][k].name) <=> k = Named(files[f], files[f][k].name)
<1>1. files \in Seq(Seq(Functions(U)))
  BY MoreFunctions
<1>2. files # << >> /\ Last(files) # << >>
  BY DEF FilesOK, Last
<1>3. /\ files' \in Seq(Seq(Functions(U))) /\ Len(files') = Len(files)
      /\ \A f \in 1..Len(files) - 1 : files'[f] = files[f]
      /\ Len(files'[Len(files)]) = Len(files[Len(files)])
      /\ \A k \in 1..Len(files[Len(files)]) - 1 : files'[Len(files)][k] = files[Len(files)][k]
      /\ files'[Len(files)][Len(files[Len(files)])] = fn
  BY <1>1, <1>2, BecomesOK
<1> HIDE DEF Functions
<1>4. PICK n \in Nat : n = Len(files) /\ n # 0
  <2>1. PICK S : files \in Seq(S)
    BY <1>1
  <2>2. files # << >>
    BY <1>2
  <2> QED BY <2>1, <2>2
<1>5. PICK m \in Nat : m = Len(files[n]) /\ m # 0
  <2>1. files[n] \in Seq(Functions(U)) /\ files[n] # << >>
    BY <1>1, <1>2, <1>4 DEF Last
  <2> QED BY <2>1
<1>6. Last(files) = files[n] /\ ThisFunction = files[n][m]
  BY <1>4, <1>5 DEF Last, ThisFunction
<1>7. DOMAIN files = 1..n /\ DOMAIN files' = 1..n
  BY <1>1, <1>3, <1>4
<1>8. ASSUME NEW f \in 1..n
      PROVE  /\ DOMAIN files'[f] = DOMAIN files[f] /\ DOMAIN files[f] = 1..Len(files[f])
             /\ Len(files'[f]) = Len(files[f]) /\ Len(files[f]) \in Nat
             /\ \A k \in DOMAIN files[f] :
                   /\ ~ (f = n /\ k = m) => files'[f][k] = files[f][k]
                   /\ files'[f][k].name = files[f][k].name
  <2>0. files[f] \in Seq(Functions(U)) /\ files'[f] \in Seq(Functions(U))
    BY <1>1, <1>3, <1>4
  <2>1. CASE f # n
    <3>0. f \in 1..n - 1
      BY <1>4, <2>1
    <3>1. files'[f] = files[f]
      BY <1>3, <1>4, <3>0
    <3> QED BY <2>0, <2>1, <3>1
  <2>2. CASE f = n
    <3>1. DOMAIN files'[n] = 1..m /\ DOMAIN files[n] = 1..m /\ Len(files'[n]) = m
      BY <1>3, <1>4, <1>5, <2>0, <2>2
    <3>2. ASSUME NEW k \in 1..m, k # m PROVE files'[n][k] = files[n][k]
      <4>1. k \in 1..m - 1
        BY <1>5, <3>2
      <4> QED BY <1>3, <1>4, <1>5, <4>1
    <3>3. files'[n][m] = fn /\ files[n][m].name = fn.name
      BY <1>3, <1>4, <1>5, <1>6
    <3> QED BY <1>5, <2>2, <3>1, <3>2, <3>3
  <2> QED BY <2>1, <2>2
<1>9. ASSUME NEW f \in 1..n, NEW k \in DOMAIN files[f]
      PROVE  k = Named(files'[f], files'[f][k].name) <=> k = Named(files[f], files[f][k].name)
  <2>1. PICK l \in Nat : l = Len(files[f]) /\ l = Len(files'[f]) /\ k \in 1..l
    BY <1>8, <1>9
  <2>2. \A j \in 1..l : files'[f][j].name = files[f][j].name
    BY <1>8, <2>1
  <2>3. k = Named(files[f], files[f][k].name) <=> \A j \in 1..k - 1 : files[f][j].name # files[f][k].name
    BY <2>1, NamedIs
  <2>4. k = Named(files'[f], files'[f][k].name) <=> \A j \in 1..k - 1 : files'[f][j].name # files'[f][k].name
    BY <2>1, NamedIs
  <2>5. \A j \in 1..k - 1 : j \in 1..l
    BY <2>1
  <2> QED BY <2>1, <2>2, <2>3, <2>4, <2>5
<1>10. n \in 1..n /\ m \in DOMAIN files[n] /\ files'[n][m] = fn
  <2>1. n \in 1..n
    BY <1>4
  <2>2. DOMAIN files[n] = 1..m
    BY <1>5, <1>8, <2>1
  <2>3. m \in 1..m
    BY <1>5
  <2>4. files'[n][m] = fn
    BY <1>3, <1>4, <1>5
  <2> QED BY <2>1, <2>2, <2>3, <2>4
<1>11. Len(files) = n /\ Len(Last(files)) = m
  BY <1>4, <1>5, <1>6
<1> QED BY <1>7, <1>8, <1>9, <1>10, <1>11

LEMMA LiteralsKeptNext ==
    FilesOK /\ LiteralsKept /\ [Read \/ Loaded]_readerVars => LiteralsKept'
<1> SUFFICES ASSUME FilesOK, LiteralsKept, [Read \/ Loaded]_readerVars PROVE LiteralsKept'
  OBVIOUS
<1>1. PICK T : files \in Seq(Seq(Functions(T)))
  BY DEF FilesOK
<1>2. PICK n : n = Len(files)
  OBVIOUS
\* A function that is appended is not the first of any name that was there.
<1>3. CASE OpenFile
  <2>1. files' = Append(files, << >>) /\ heap' = heap
    BY <1>3 DEF OpenFile
  <2>2. ASSUME NEW f \in DOMAIN files' 
        PROVE  \/ files'[f] = << >>
               \/ f \in DOMAIN files /\ files'[f] = files[f]
    <3> HIDE DEF Functions
    <3> QED BY <1>1, <2>1
  <2>3. DOMAIN << >> = {}
    OBVIOUS
  <2> QED BY <2>1, <2>2, <2>3 DEF LiteralsKept
<1>4. CASE ReadFunction
  <2>a. PICK x, c, fn : /\ fn = [name |-> x, literals |-> << >>, code |-> c]
                        /\ files' = [files EXCEPT ![Len(files)] = Append(@, fn)]
    BY <1>4 DEF ReadFunction
  <2>1. /\ fn.literals = << >>
        /\ files' = [files EXCEPT ![Len(files)] = Append(@, fn)] /\ heap' = heap
    BY <1>4, <2>a DEF ReadFunction
  <2>2. DOMAIN files' = DOMAIN files
    BY <2>1
  <2>3. ASSUME NEW f \in DOMAIN files, NEW k \in DOMAIN files'[f], NEW i \in DOMAIN files'[f][k].literals,
               k = Named(files'[f], files'[f][k].name)
        PROVE  <<f, k, i>> \in heap
    <3>1. CASE f # Len(files)
      <4>1. files'[f] = files[f]
        BY <2>1, <3>1
      <4> QED BY <2>3, <4>1 DEF LiteralsKept
    <3>2. CASE f = Len(files)
      <4>1. files'[f] = Append(files[f], fn) /\ files[f] \in Seq(Functions(T))
        BY <1>1, <2>1, <3>2 DEF Functions
      <4>2. PICK m \in Nat : m = Len(files[f])
        BY <4>1
      <4>3. /\ Len(files'[f]) = m + 1 /\ files'[f][m + 1] = fn /\ DOMAIN files'[f] = 1..m + 1
            /\ \A j \in 1..m : files'[f][j] = files[f][j]
        BY <4>1, <4>2
      <4>4. DOMAIN fn.literals = {}
        BY <2>1
      <4>5. k \in 1..m
        BY <2>3, <4>3, <4>4
      <4>6. \A j \in 1..k - 1 : files'[f][j].name # files'[f][k].name
        <5>1. Len(files'[f]) \in Nat /\ k \in 1..Len(files'[f])
          BY <4>2, <4>3, <4>5
        <5> QED BY <2>3, <5>1, NamedIs
      <4>7. \A j \in 1..k - 1 : files[f][j].name # files[f][k].name
        BY <4>2, <4>3, <4>5, <4>6
      <4>8. k = Named(files[f], files[f][k].name)
        BY <4>2, <4>5, <4>7, NamedIs
      <4>9. k \in DOMAIN files[f] /\ files'[f][k] = files[f][k]
        BY <4>1, <4>2, <4>3, <4>5
      <4> QED BY <4>8, <4>9 DEF LiteralsKept
    <3> QED BY <3>1, <3>2
  <2> QED BY <2>1, <2>2, <2>3 DEF LiteralsKept
\* GC_add_roots comes to all that LiteralsKept is about, and so to the literals that were there.
<1>6. ASSUME NEW kept \in {heap, Rooted}, NEW f \in DOMAIN files, NEW k \in DOMAIN files[f],
             k = Named(files[f], files[f][k].name), NEW i \in DOMAIN files[f][k].literals
      PROVE  <<f, k, i>> \in kept
  <2>1. <<f, k, i>> \in heap
    BY <1>6 DEF LiteralsKept
  <2> QED BY <1>6, <2>1 DEF Rooted
<1>7. CASE ReadLiteral
  <2>a. PICK x, s : x = ThisLine.text /\ s = Append(ThisFunction.literals, x)
    OBVIOUS
  <2>b. PICK fn : fn = [ThisFunction EXCEPT !.literals = s]
    OBVIOUS
  <2>c. Becomes(fn)
    BY <1>7, <2>a, <2>b DEF ReadLiteral
  <2>d. PICK kept \in {heap, Rooted} :
          heap' = kept \union {<<Len(files), Len(Last(files)), Len(s)>>}
    BY <1>7, <2>a DEF ReadLiteral
  <2>1. /\ s = Append(ThisFunction.literals, x)
        /\ fn = [ThisFunction EXCEPT !.literals = s] /\ Becomes(fn)
        /\ heap' = kept \union {<<Len(files), Len(Last(files)), Len(s)>>}
    BY <2>a, <2>b, <2>c, <2>d
  <2>2. phase \in {"literals", "cells"}
    BY <1>7 DEF ReadLiteral
  <2>3. PICK U : U = T \union {x}
    OBVIOUS
  <2>4. ThisFunction \in Functions(T)
    <3> HIDE DEF Functions
    <3>1. PICK m \in Nat : m = Len(files) /\ m # 0
      BY <1>1, <2>2 DEF FilesOK
    <3>2. files[m] \in Seq(Functions(T)) /\ files[m] # << >>
      BY <1>1, <2>2, <3>1 DEF FilesOK
    <3> QED BY <3>1, <3>2 DEF ThisFunction, Last
  <2>5. /\ fn \in Functions(U) /\ T \subseteq U /\ fn.name = ThisFunction.name /\ fn.literals = s
        /\ ThisFunction.literals \in Seq(U) /\ x \in U
    <3>1. ThisFunction.literals \in Seq(U) /\ x \in U
      BY <2>3, <2>4 DEF Functions
    <3>2. s \in Seq(U)
      BY <2>1, <3>1
    <3> QED BY <2>1, <2>3, <2>4, <3>1, <3>2 DEF Functions
  <2>6. /\ Len(files) \in 1..Len(files) /\ Len(Last(files)) \in DOMAIN files[Len(files)]
        /\ DOMAIN files' = DOMAIN files /\ files'[Len(files)][Len(Last(files))] = fn
        /\ \A f \in DOMAIN files :
              /\ DOMAIN files'[f] = DOMAIN files[f]
              /\ \A k \in DOMAIN files[f] :
                   /\ ~ (f = Len(files) /\ k = Len(Last(files))) => files'[f][k] = files[f][k]
                   /\ files'[f][k].name = files[f][k].name
                   /\ k = Named(files'[f], files'[f][k].name) <=> k = Named(files[f], files[f][k].name)
    BY <1>1, <2>1, <2>2, <2>5, SameNames
  <2>7. ASSUME NEW f \in DOMAIN files, NEW k \in DOMAIN files[f], NEW i \in DOMAIN files'[f][k].literals,
               k = Named(files'[f], files'[f][k].name)
        PROVE  <<f, k, i>> \in heap'
    <3>1. k = Named(files[f], files[f][k].name)
      BY <2>6, <2>7
    <3>2. CASE i \in DOMAIN files[f][k].literals
      BY <1>6, <2>1, <3>1, <3>2
    <3>3. CASE i \notin DOMAIN files[f][k].literals
      <4>1. f = Len(files) /\ k = Len(Last(files)) /\ files'[f][k].literals = s
        BY <2>5, <2>6, <2>7, <3>3
      <4>2. files[f][k] = ThisFunction
        BY <4>1 DEF ThisFunction, Last
      <4>3. i = Len(s)
        BY <2>1, <2>5, <2>7, <3>3, <4>1, <4>2
      <4> QED BY <2>1, <4>1, <4>3
    <3> QED BY <3>2, <3>3
  <2> QED BY <2>6, <2>7 DEF LiteralsKept
<1>8. CASE ReadCell
  <2>1. PICK c, fn : fn = [ThisFunction EXCEPT !.code = c] /\ Becomes(fn)
    BY <1>8 DEF ReadCell
  <2>2. phase \in {"literals", "cells"} /\ heap' = heap
    BY <1>8 DEF ReadCell
  <2>3. PICK U : U = T \union {c}
    OBVIOUS
  <2>4. ThisFunction \in Functions(T)
    <3> HIDE DEF Functions
    <3>1. PICK m \in Nat : m = Len(files) /\ m # 0
      BY <1>1, <2>2 DEF FilesOK
    <3>2. files[m] \in Seq(Functions(T)) /\ files[m] # << >>
      BY <1>1, <2>2, <3>1 DEF FilesOK
    <3> QED BY <3>1, <3>2 DEF ThisFunction, Last
  <2>5. /\ fn \in Functions(U) /\ T \subseteq U /\ fn.name = ThisFunction.name
        /\ fn.literals = ThisFunction.literals
    <3>1. ThisFunction.literals \in Seq(U)
      BY <2>3, <2>4 DEF Functions
    <3> QED BY <2>1, <2>3, <2>4, <3>1 DEF Functions
  <2>6. /\ DOMAIN files' = DOMAIN files /\ files'[Len(files)][Len(Last(files))] = fn
        /\ \A f \in DOMAIN files :
              /\ DOMAIN files'[f] = DOMAIN files[f]
              /\ \A k \in DOMAIN files[f] :
                   /\ ~ (f = Len(files) /\ k = Len(Last(files))) => files'[f][k] = files[f][k]
                   /\ k = Named(files'[f], files'[f][k].name) <=> k = Named(files[f], files[f][k].name)
    BY <1>1, <2>1, <2>2, <2>5, SameNames
  <2>7. ASSUME NEW f \in DOMAIN files, NEW k \in DOMAIN files[f]
        PROVE  files'[f][k].literals = files[f][k].literals
    BY <2>5, <2>6 DEF ThisFunction, Last
  <2> QED BY <2>2, <2>6, <2>7 DEF LiteralsKept
<1>9. CASE Overrun \/ NoFunction \/ FunctionRead \/ Register \/ Loaded \/ UNCHANGED readerVars
  <2>1. files' = files /\ heap' = heap
    BY <1>9 DEF Overrun, NoFunction, FunctionRead, Register, Loaded, readerVars, reading
  <2> QED BY <2>1 DEF LiteralsKept
<1> QED BY <1>3, <1>4, <1>7, <1>8, <1>9 DEF Read

\* input_reader.c:50: whatever the lines of the files are, the collector comes to every literal
\* of every function that can be found, because the function is among those of its file
\* before its literals are made, and stays the first of its name.
THEOREM LiteralsSurvive == ReadSpec => []LiteralsKept
<1>1. ReadInit => LiteralsKept
  BY DEF ReadInit, LiteralsKept
<1> QED BY <1>1, FilesOKInit, FilesOKNext, LiteralsKeptNext, PTL DEF ReadSpec
------------------------------------------------------------------------------
(***************************************************************************)
(* Sequences                                                               *)
(***************************************************************************)
LEMMA SeqIs ==
  ASSUME NEW T, NEW s \in Seq(T)
  PROVE  Len(s) \in Nat /\ DOMAIN s = 1..Len(s) /\ \A i \in 1..Len(s) : s[i] \in T
OBVIOUS

LEMMA OneIs ==
  ASSUME NEW T, NEW a \in T
  PROVE  <<a>> \in Seq(T) /\ Len(<<a>>) = 1 /\ <<a>>[1] = a
OBVIOUS

LEMMA TwoAre ==
  ASSUME NEW T, NEW a \in T, NEW b \in T
  PROVE  <<a, b>> \in Seq(T) /\ Len(<<a, b>>) = 2 /\ <<a, b>>[1] = a /\ <<a, b>>[2] = b
OBVIOUS

\* A sequence that is written down index by index.
LEMMA ListIs ==
  ASSUME NEW T, NEW n \in Nat, NEW s, s = [i \in 1..n |-> s[i]], \A i \in 1..n : s[i] \in T
  PROVE  s \in Seq(T) /\ Len(s) = n
OBVIOUS

LEMMA FirstIndex ==
  ASSUME NEW n, n = 1
  PROVE  1 \in 1..n
OBVIOUS

\* e is a sequence of two elements, and two more sequences after it.
Parts(e, a, b, c) ==
    /\ e = (a \o b) \o c
    /\ Len(e) = 2 + Len(b) + Len(c)
    /\ e[1] = a[1] /\ e[2] = a[2]
    /\ \A i \in 1..Len(b) : e[2 + i] = b[i]
    /\ \A i \in 1..Len(c) : e[2 + Len(b) + i] = c[i]

LEMMA ThreeParts ==
  ASSUME NEW T, NEW a \in Seq(T), NEW b \in Seq(T), NEW c \in Seq(T), Len(a) = 2
  PROVE  \E e \in Seq(T) : Parts(e, a, b, c)
<1>a. PICK x, y \in Nat : x = Len(b) /\ y = Len(c)
  OBVIOUS
<1>0. \A p, q \in Seq(T) : /\ Len(p \o q) = Len(p) + Len(q)
                           /\ \A i \in 1..Len(p) : (p \o q)[i] = p[i]
                           /\ \A i \in 1..Len(q) : (p \o q)[Len(p) + i] = q[i]
  BY Concat
<1>1. PICK d \in Seq(T) : d = a \o b
  BY Concat
<1>2. /\ Len(d) = 2 + x /\ \A i \in 1..2 : d[i] = a[i]
      /\ \A i \in 1..x : d[2 + i] = b[i]
  <2>1. /\ Len(d) = Len(a) + Len(b) /\ \A i \in 1..Len(a) : d[i] = a[i]
        /\ \A i \in 1..Len(b) : d[Len(a) + i] = b[i]
    BY <1>0, <1>1
  <2> QED BY <1>a, <2>1
<1>3. PICK e \in Seq(T) : e = d \o c
  BY Concat
<1>4. /\ Len(e) = 2 + x + y /\ \A i \in 1..2 + x : e[i] = d[i]
      /\ \A i \in 1..y : e[2 + x + i] = c[i]
  <2>1. /\ Len(e) = Len(d) + Len(c) /\ \A i \in 1..Len(d) : e[i] = d[i]
        /\ \A i \in 1..Len(c) : e[Len(d) + i] = c[i]
    BY <1>0, <1>3
  <2> QED BY <1>a, <1>2, <2>1
<1>5. 1 \in 1..2 + x /\ 2 \in 1..2 + x /\ \A i \in 1..x : 2 + i \in 1..2 + x
  OBVIOUS
<1>6. e[1] = a[1] /\ e[2] = a[2]
  BY <1>2, <1>4, <1>5
<1>7. \A i \in 1..x : e[2 + i] = b[i]
  BY <1>2, <1>4, <1>5
<1>8. e = (a \o b) \o c
  BY <1>1, <1>3
<1> QED BY <1>a, <1>4, <1>6, <1>7, <1>8 DEF Parts

\* Sequences of one element are put one after the other.
LEMMA Singles ==
  ASSUME NEW T, NEW s \in Seq(Seq(T)), \A i \in 1..Len(s) : Len(s[i]) = 1
  PROVE  /\ FlattenSeq(s) \in Seq(T) /\ Len(FlattenSeq(s)) = Len(s)
         /\ \A i \in 1..Len(s) : FlattenSeq(s)[i] = s[i][1]
<1>1. PICK F, at : F = FlattenSeq(s) /\ F \in Seq(T) /\ Offsets(F, s, at)
  BY Flattened
<1>2. Len(s) \in Nat
  OBVIOUS
<1> DEFINE Bad == {i \in Nat : i \in 1..Len(s) + 1 /\ at[i] # i - 1}
<1>3. Bad = {}
  <2> SUFFICES ASSUME Bad # {} PROVE FALSE
    OBVIOUS
  <2>1. PICK i \in Bad : i = 0 \/ i - 1 \in Nat \ Bad
    <3>1. Bad \subseteq Nat
      OBVIOUS
    <3> HIDE DEF Bad
    <3> QED BY Lowest, <3>1
  <2>2. i # 1
    BY <1>1, <2>1 DEF Offsets
  <2>3. i - 1 \in 1..Len(s) /\ at[i - 1] = i - 2
    BY <1>2, <2>1, <2>2
  <2>4. at[(i - 1) + 1] = at[i - 1] + 1
    BY <1>1, <2>3 DEF Offsets
  <2> QED BY <2>1, <2>3, <2>4
<1>4. \A i \in 1..Len(s) + 1 : at[i] = i - 1
  BY <1>2, <1>3
<1>5. Len(F) = Len(s)
  BY <1>1, <1>2, <1>4 DEF Offsets
<1>6. ASSUME NEW i \in 1..Len(s) PROVE F[i] = s[i][1]
  <2>1. F[at[i] + 1] = s[i][1]
    <3>1. \A j \in 1..Len(s[i]) : F[at[i] + j] = s[i][j]
      BY <1>1 DEF Offsets
    <3>2. Len(s[i]) = 1
      OBVIOUS
    <3>3. 1 \in 1..Len(s[i])
      BY <3>2, FirstIndex
    <3> QED BY <3>1, <3>3
  <2>2. at[i] = i - 1 /\ i \in Nat
    BY <1>2, <1>4
  <2> QED BY <2>1, <2>2
<1> QED BY <1>1, <1>5, <1>6

First == {".", "_", ":", "\"", ""}
Text == STRING \union {"path", "number", ""}
Lines == [first: First, text: Text, ints: Seq(Int)]

\* The lines of a function as README describes them.
Size(fn) == 2 + Len(fn.literals) + Len(fn.code)

\* The lines of fn come after the first p of l.
IsAt(l, p, fn) ==
    /\ l[p + 1].first = "_" /\ l[p + 1].text = fn.name
    /\ Scanned(l[p + 2]) = <<Len(fn.literals), Len(fn.code)>>
    /\ \A i \in 1..Len(fn.literals) : l[p + 2 + i].text = fn.literals[i]
    /\ \A i \in 1..Len(fn.code) : l[p + 2 + Len(fn.literals) + i].ints = <<fn.code[i]>>

\* l has the lines of the functions, each function after at of them, and perhaps one more.
LaidOut(l, fns, at) ==
    /\ at \in [1..Len(fns) + 1 -> Nat]
    /\ at[1] = 1
    /\ \A k \in 1..Len(fns) :
         /\ at[k + 1] = at[k] + Size(fns[k])
         /\ at[k + 1] <= at[Len(fns) + 1]
         /\ IsAt(l, at[k], fns[k])
    /\ \/ Len(l) = at[Len(fns) + 1]
       \/ Len(l) = at[Len(fns) + 1] + 1 /\ l[Len(l)].first # "_"

LEMMA TextIs ==
  /\ "." \in First /\ "_" \in First /\ ":" \in First /\ "\"" \in First /\ "" \in First
  /\ "path" \in Text /\ "number" \in Text /\ "" \in Text
  /\ \A x \in STRING : x \in Text
BY DEF First, Text

LEMMA NoneIsSeq == << >> \in Seq(Int)
OBVIOUS

LEMMA WrittenIs ==
  ASSUME NEW fn \in WrittenFunction
  PROVE  /\ fn.name \in STRING /\ fn.literals \in Seq(STRING) /\ fn.code \in Seq(Nat)
         /\ Len(fn.literals) \in Nat /\ Len(fn.code) \in Nat /\ Size(fn) \in Nat
         /\ DOMAIN fn.literals = 1..Len(fn.literals) /\ DOMAIN fn.code = 1..Len(fn.code)
<1>1. fn.name \in STRING /\ fn.literals \in Seq(STRING) /\ fn.code \in Seq(Nat)
  BY DEF WrittenFunction
<1>2. PICK s \in Seq(STRING), t \in Seq(Nat) : s = fn.literals /\ t = fn.code
  BY <1>1
<1>3. PICK x, y \in Nat : x = Len(s) /\ y = Len(t) /\ DOMAIN s = 1..x /\ DOMAIN t = 1..y
  BY SeqIs
<1>4. Size(fn) = 2 + x + y
  BY <1>2, <1>3 DEF Size
<1>5. Size(fn) \in Nat
  BY <1>4
<1> QED BY <1>1, <1>2, <1>3, <1>5

\* The lines of the literals.
LEMMA LiteralsAreLines ==
  ASSUME NEW fn \in WrittenFunction, Multiline \intersect ToSet(fn.literals) = {}
  PROVE  LET F == FlattenSeq([i \in DOMAIN fn.literals |-> LiteralLines(fn.literals[i])])
         IN  /\ F \in Seq(Lines) /\ Len(F) = Len(fn.literals)
             /\ \A i \in 1..Len(fn.literals) : F[i].text = fn.literals[i]
<1> DEFINE s == [i \in DOMAIN fn.literals |-> LiteralLines(fn.literals[i])]
<1>1. ASSUME NEW x \in STRING, x \notin Multiline
      PROVE  LiteralLines(x) \in Seq(Lines) /\ Len(LiteralLines(x)) = 1 /\ LiteralLines(x)[1].text = x
  <2>1. CASE x \in DOMAIN Numeral
    <3>1. LiteralLines(x) = <<Line("", x, <<Numeral[x]>>)>>
      BY <1>1, <2>1 DEF LiteralLines
    <3>2. Numeral[x] \in Int
      BY <2>1, ReaderAssumption
    <3>3. <<Numeral[x]>> \in Seq(Int)
      BY <3>2, OneIs
    <3>4. Line("", x, <<Numeral[x]>>) \in Lines /\ Line("", x, <<Numeral[x]>>).text = x
      BY <1>1, <3>3, TextIs, NoneIsSeq DEF Line, Lines
    <3> QED BY <3>1, <3>4, OneIs
  <2>2. CASE x \notin DOMAIN Numeral
    <3>1. LiteralLines(x) = <<Line("\"", x, << >>)>>
      BY <1>1, <2>2 DEF LiteralLines
    <3>3. Line("\"", x, << >>) \in Lines /\ Line("\"", x, << >>).text = x
      BY <1>1, TextIs, NoneIsSeq DEF Line, Lines
    <3> QED BY <3>1, <3>3, OneIs
  <2> QED BY <2>1, <2>2
<1>2. ASSUME NEW i \in 1..Len(fn.literals) PROVE fn.literals[i] \in STRING /\ fn.literals[i] \notin Multiline
  BY WrittenIs DEF ToSet
<1>3. DOMAIN fn.literals = 1..Len(fn.literals) /\ Len(fn.literals) \in Nat
  BY WrittenIs
<1>4. PICK x \in Nat : x = Len(fn.literals) /\ DOMAIN fn.literals = 1..x
  BY <1>3
<1>5. \A i \in 1..x : /\ s[i] \in Seq(Lines) /\ Len(s[i]) = 1 /\ s[i][1].text = fn.literals[i]
  BY <1>1, <1>2, <1>4
<1>6. s = [i \in 1..x |-> s[i]]
  BY <1>4
<1>7. FlattenSeq([i \in DOMAIN fn.literals |-> LiteralLines(fn.literals[i])]) = FlattenSeq(s)
  OBVIOUS
<1> HIDE DEF s
<1>8. s \in Seq(Seq(Lines)) /\ Len(s) = x
  BY <1>5, <1>6, ListIs
<1>9. \A i \in 1..Len(s) : Len(s[i]) = 1
  BY <1>5, <1>8
<1>10. PICK F : F = FlattenSeq(s)
  OBVIOUS
<1>11. F \in Seq(Lines) /\ Len(F) = x /\ \A i \in 1..x : F[i] = s[i][1]
  BY <1>8, <1>9, <1>10, Singles
<1>12. F \in Seq(Lines) /\ Len(F) = Len(fn.literals)
       /\ \A i \in 1..Len(fn.literals) : F[i].text = fn.literals[i]
  BY <1>4, <1>5, <1>11
<1> QED BY <1>7, <1>10, <1>12

LEMMA EncodeIs ==
  ASSUME NEW fn \in WrittenFunction, Multiline \intersect ToSet(fn.literals) = {}
  PROVE  /\ Encode(fn, "documented") \in Seq(Lines)
         /\ Len(Encode(fn, "documented")) = Size(fn)
         /\ IsAt(Encode(fn, "documented"), 0, fn)
<1> DEFINE h == Line("_", fn.name, << >>)
           n == Line(":", "", Counts(fn, "documented"))
           F == FlattenSeq([i \in DOMAIN fn.literals |-> LiteralLines(fn.literals[i])])
           C == [i \in DOMAIN fn.code |-> Line("", "number", <<fn.code[i]>>)]
<1>1. PICK x, y \in Nat : /\ x = Len(fn.literals) /\ y = Len(fn.code)
                         /\ DOMAIN fn.code = 1..y /\ Size(fn) = 2 + x + y
  BY WrittenIs DEF Size
<1>2. F \in Seq(Lines) /\ Len(F) = x /\ \A i \in 1..x : F[i].text = fn.literals[i]
  BY <1>1, LiteralsAreLines
<1>3. h \in Lines /\ h.first = "_" /\ h.text = fn.name
  <2>1. fn.name \in Text
    BY WrittenIs, TextIs
  <2> QED BY <2>1, TextIs, NoneIsSeq DEF Line, Lines
<1>4. n \in Lines /\ Scanned(n) = <<x, y>>
  <2>1. Counts(fn, "documented") = <<x, y>>
    BY <1>1 DEF Counts
  <2>2. <<x, y>> \in Seq(Int) /\ <<x, y>>[1] = x /\ <<x, y>>[2] = y
    BY TwoAre
  <2>3. n \in Lines /\ n.ints = <<x, y>>
    BY <2>1, <2>2, TextIs, NoneIsSeq DEF Line, Lines
  <2> QED BY <2>2, <2>3 DEF Scanned
<1>5. C \in Seq(Lines) /\ Len(C) = y /\ \A i \in 1..y : C[i].ints = <<fn.code[i]>>
  <2>1. ASSUME NEW i \in 1..y PROVE C[i] \in Lines /\ C[i].ints = <<fn.code[i]>>
    <3>1. fn.code \in Seq(Nat) /\ i \in 1..Len(fn.code)
      BY <1>1, WrittenIs
    <3>2. fn.code[i] \in Int
      BY <3>1, SeqIs
    <3>3. <<fn.code[i]>> \in Seq(Int)
      BY <3>2, OneIs
    <3>4. PICK t \in Seq(Int) : t = <<fn.code[i]>>
      BY <3>3
    <3>5. C[i] = Line("", "number", t)
      BY <1>1, <3>4
    <3>6. Line("", "number", t) \in Lines /\ Line("", "number", t).ints = t
      BY TextIs DEF Line, Lines
    <3> QED BY <3>4, <3>5, <3>6
  <2>2. C = [i \in 1..y |-> C[i]]
    BY <1>1
  <2> HIDE DEF C
  <2> QED BY <2>1, <2>2, ListIs
<1>6. Encode(fn, "documented") = (<<h, n>> \o F) \o C
  BY DEF Encode
<1> HIDE DEF h, n, F, C
<1>7. <<h, n>> \in Seq(Lines) /\ Len(<<h, n>>) = 2 /\ <<h, n>>[1] = h /\ <<h, n>>[2] = n
  BY <1>3, <1>4, TwoAre
<1>8. PICK e : e = Encode(fn, "documented")
  OBVIOUS
<1>9. /\ e \in Seq(Lines) /\ Len(e) = 2 + x + y /\ e[1] = h /\ e[2] = n
      /\ \A i \in 1..x : e[2 + i] = F[i]
      /\ \A i \in 1..y : e[2 + x + i] = C[i]
  <2>1. PICK a, b, c \in Seq(Lines) : a = <<h, n>> /\ b = F /\ c = C
    BY <1>2, <1>5, <1>7
  <2>2. /\ Len(a) = 2 /\ Len(b) = x /\ Len(c) = y /\ a[1] = h /\ a[2] = n
        /\ e = (a \o b) \o c
    BY <1>2, <1>5, <1>6, <1>7, <1>8, <2>1
  <2> HIDE DEF Lines
  <2>3. \E g \in Seq(Lines) : Parts(g, a, b, c)
    BY <2>2, ThreeParts
  <2>4. e \in Seq(Lines) /\ Parts(e, a, b, c)
    BY <2>2, <2>3 DEF Parts
  <2> QED BY <2>1, <2>2, <2>4 DEF Parts
<1>10. /\ e[0 + 1].first = "_" /\ e[0 + 1].text = fn.name /\ Scanned(e[0 + 2]) = <<x, y>>
       /\ \A i \in 1..x : e[0 + 2 + i].text = fn.literals[i]
       /\ \A i \in 1..y : e[0 + 2 + x + i].ints = <<fn.code[i]>>
  <2>1. 0 + 1 = 1 /\ 0 + 2 = 2
    OBVIOUS
  <2>2. e[0 + 1].first = "_" /\ e[0 + 1].text = fn.name /\ Scanned(e[0 + 2]) = <<x, y>>
    BY <1>3, <1>4, <1>9, <2>1
  <2>3. \A i \in 1..x : e[0 + 2 + i].text = fn.literals[i]
    BY <1>2, <1>9, <2>1
  <2>4. \A i \in 1..y : e[0 + 2 + x + i].ints = <<fn.code[i]>>
    BY <1>5, <1>9, <2>1
  <2> QED BY <2>2, <2>3, <2>4
<1>11. IsAt(e, 0, fn)
  BY <1>1, <1>10 DEF IsAt
<1> QED BY <1>1, <1>8, <1>9, <1>11
------------------------------------------------------------------------------
(***************************************************************************)
(* The layout of a file                                                    *)
(***************************************************************************)
\* Where the lines of a function are if those of e are after the first p of l.
LEMMA Shifted ==
  ASSUME NEW fn \in WrittenFunction, NEW e, NEW l, NEW p \in Nat, IsAt(e, 0, fn),
         \A j \in 1..Size(fn) : l[p + j] = e[j]
  PROVE  IsAt(l, p, fn)
<1>1. PICK x, y \in Nat : x = Len(fn.literals) /\ y = Len(fn.code) /\ Size(fn) = 2 + x + y
  BY WrittenIs DEF Size
<1>2. /\ e[1].first = "_" /\ e[1].text = fn.name /\ Scanned(e[2]) = <<x, y>>
      /\ \A i \in 1..x : e[2 + i].text = fn.literals[i]
      /\ \A i \in 1..y : e[2 + x + i].ints = <<fn.code[i]>>
  <2>1. 0 + 1 = 1 /\ 0 + 2 = 2
    OBVIOUS
  <2> QED BY <1>1, <2>1 DEF IsAt
<1>3. \A j \in 1..2 + x + y : l[p + j] = e[j]
  BY <1>1
<1>4. l[p + 1] = e[1] /\ l[p + 2] = e[2]
  <2>1. 1 \in 1..2 + x + y /\ 2 \in 1..2 + x + y
    OBVIOUS
  <2> QED BY <1>3, <2>1
<1>5. ASSUME NEW i \in 1..x PROVE l[p + 2 + i] = e[2 + i]
  <2>1. 2 + i \in 1..2 + x + y /\ p + (2 + i) = p + 2 + i
    OBVIOUS
  <2> QED BY <1>3, <2>1
<1>6. ASSUME NEW i \in 1..y PROVE l[p + 2 + x + i] = e[2 + x + i]
  <2>1. 2 + x + i \in 1..2 + x + y /\ p + (2 + x + i) = p + 2 + x + i
    OBVIOUS
  <2> QED BY <1>3, <2>1
<1> QED BY <1>1, <1>2, <1>4, <1>5, <1>6 DEF IsAt

LEMMA Rising ==
  ASSUME NEW n \in Nat, NEW o \in [1..n + 1 -> Nat], \A i \in 1..n : o[i] <= o[i + 1]
  PROVE  \A i \in 1..n + 1 : o[i] <= o[n + 1]
<1> DEFINE Bad == {d \in Nat : d <= n /\ ~ o[n + 1 - d] <= o[n + 1]}
<1>1. Bad = {}
  <2> SUFFICES ASSUME Bad # {} PROVE FALSE
    OBVIOUS
  <2>1. PICK d \in Bad : d = 0 \/ d - 1 \in Nat \ Bad
    <3>1. Bad \subseteq Nat
      OBVIOUS
    <3> HIDE DEF Bad
    <3> QED BY Lowest, <3>1
  <2>2. n + 1 - d \in 1..n + 1 /\ n + 1 \in 1..n + 1
    BY <2>1
  <2>3. CASE d = 0
    <3>1. n + 1 - d = n + 1 /\ o[n + 1] \in Nat
      BY <2>2, <2>3
    <3>2. o[n + 1] <= o[n + 1]
      BY <3>1
    <3> QED BY <2>1, <3>1, <3>2
  <2>4. CASE d # 0
    <3>1. PICK i \in 1..n : i = n + 1 - d
      BY <2>1, <2>4
    <3>2. n + 1 - (d - 1) = i + 1 /\ d - 1 <= n /\ d - 1 \in Nat \ Bad
      BY <2>1, <2>4, <3>1
    <3>3. o[i + 1] <= o[n + 1]
      BY <3>2
    <3>4. o[i] <= o[i + 1] /\ i \in 1..n + 1 /\ i + 1 \in 1..n + 1
      OBVIOUS
    <3>5. o[i] \in Nat /\ o[i + 1] \in Nat /\ o[n + 1] \in Nat
      BY <2>2, <3>4
    <3>6. o[i] <= o[n + 1]
      BY <3>3, <3>4, <3>5
    <3> QED BY <2>1, <3>1, <3>6
  <2> QED BY <2>3, <2>4
<1>2. ASSUME NEW i \in 1..n + 1 PROVE o[i] <= o[n + 1]
  <2>1. n + 1 - i \in Nat /\ n + 1 - i <= n /\ n + 1 - (n + 1 - i) = i
    OBVIOUS
  <2> QED BY <1>1, <2>1
<1> QED BY <1>2

\* A file that README describes has each function after the ones before it.
LEMMA FileLayout ==
  ASSUME NEW fns \in Seq(WrittenFunction),
         \A k \in 1..Len(fns) : Multiline \intersect ToSet(fns[k].literals) = {}
  PROVE  /\ File(fns, "documented") \in Seq(Lines)
         /\ \A l \in Seq(Lines) :
              /\ Len(l) \in {Len(File(fns, "documented")) - 1, Len(File(fns, "documented"))}
              /\ \A i \in 1..Len(l) : l[i] = File(fns, "documented")[i]
              => \E at : LaidOut(l, fns, at)
<1>1. PICK n \in Nat : n = Len(fns) /\ DOMAIN fns = 1..n /\ \A k \in 1..n : fns[k] \in WrittenFunction
  BY SeqIs
<1> DEFINE s == [i \in DOMAIN fns |-> Encode(fns[i], "documented")]
           h == Line(".", "path", << >>)
           e == Line("", "", << >>)
<1>2. \A k \in 1..n : /\ s[k] \in Seq(Lines) /\ Len(s[k]) = Size(fns[k]) /\ IsAt(s[k], 0, fns[k])
                    /\ Size(fns[k]) \in Nat
  BY <1>1, EncodeIs, WrittenIs
<1>3. File(fns, "documented") = (<<h>> \o FlattenSeq(s)) \o <<e>>
  BY DEF File
<1>4. h \in Lines /\ e \in Lines /\ e.first # "_"
  BY TextIs, NoneIsSeq DEF Line, Lines
<1>5. s = [i \in 1..n |-> s[i]]
  BY <1>1
<1> HIDE DEF s, h, e
<1>6. s \in Seq(Seq(Lines)) /\ Len(s) = n
  BY <1>2, <1>5, ListIs
<1>7. PICK G, o : G \in Seq(Lines) /\ G = FlattenSeq(s) /\ Offsets(G, s, o)
  BY <1>6, Flattened
<1>8. /\ o \in [1..n + 1 -> Nat] /\ o[1] = 0 /\ Len(G) = o[n + 1]
      /\ \A k \in 1..n : /\ o[k + 1] = o[k] + Size(fns[k])
                         /\ \A j \in 1..Size(fns[k]) : G[o[k] + j] = s[k][j]
  BY <1>2, <1>6, <1>7 DEF Offsets
<1>9. \A k \in 1..n + 1 : o[k] <= o[n + 1]
  <2>1. ASSUME NEW k \in 1..n PROVE o[k] <= o[k + 1]
    <3>1. k \in 1..n + 1
      OBVIOUS
    <3>2. o[k] \in Nat /\ Size(fns[k]) \in Nat /\ o[k + 1] = o[k] + Size(fns[k])
      BY <1>2, <1>8, <3>1
    <3> QED BY <3>2
  <2> QED BY <1>8, <2>1, Rising
\* The file: one line, those of the functions, and another.
<1>10. PICK F \in Seq(Lines), m \in Nat :
         /\ F = File(fns, "documented") /\ m = o[n + 1]
         /\ Len(F) = m + 2 /\ F[m + 2] = e /\ \A i \in 1..m : F[1 + i] = G[i]
  <2>1. PICK a, b \in Seq(Lines) : /\ a = <<h>> /\ b = <<e>> /\ Len(a) = 1 /\ Len(b) = 1 /\ b[1] = e
    <3>1. <<h>> \in Seq(Lines) /\ Len(<<h>>) = 1
      BY <1>4, OneIs
    <3>2. <<e>> \in Seq(Lines) /\ Len(<<e>>) = 1 /\ <<e>>[1] = e
      BY <1>4, OneIs
    <3> QED BY <3>1, <3>2
  <2>2. PICK m \in Nat : m = Len(G) /\ m = o[n + 1]
    BY <1>8
  <2>3. \A p, q \in Seq(Lines) :
          /\ p \o q \in Seq(Lines) /\ Len(p \o q) = Len(p) + Len(q)
          /\ \A i \in 1..Len(p) : (p \o q)[i] = p[i]
          /\ \A i \in 1..Len(q) : (p \o q)[Len(p) + i] = q[i]
    BY Concat
  <2>4. PICK d \in Seq(Lines) : d = a \o G
    BY <1>7, <2>3
  <2>5. Len(d) = 1 + m /\ \A i \in 1..m : d[1 + i] = G[i]
    <3>1. Len(d) = Len(a) + Len(G) /\ \A i \in 1..Len(G) : d[Len(a) + i] = G[i]
      BY <1>7, <2>3, <2>4
    <3> QED BY <2>1, <2>2, <3>1
  <2>6. PICK F \in Seq(Lines) : F = d \o b
    BY <2>3
  <2>7. Len(F) = m + 2 /\ F[m + 2] = e /\ \A i \in 1..1 + m : F[i] = d[i]
    <3>1. /\ Len(F) = Len(d) + Len(b) /\ \A i \in 1..Len(d) : F[i] = d[i]
          /\ \A i \in 1..Len(b) : F[Len(d) + i] = b[i]
      BY <2>3, <2>6
    <3>2. 1 \in 1..1 /\ 1 + m + 1 = m + 2
      BY FirstIndex
    <3>3. F[Len(d) + 1] = b[1]
      BY <2>1, <3>1, <3>2
    <3> QED BY <2>1, <2>5, <3>1, <3>2, <3>3
  <2>8. \A i \in 1..m : F[1 + i] = G[i]
    <3>1. \A i \in 1..m : 1 + i \in 1..1 + m
      OBVIOUS
    <3> QED BY <2>5, <2>7, <3>1
  <2>9. F = File(fns, "documented")
    BY <1>3, <1>7, <2>1, <2>4, <2>6
  <2> QED BY <2>2, <2>7, <2>8, <2>9
<1> DEFINE at == [k \in 1..n + 1 |-> o[k] + 1]
<1>11. /\ at \in [1..n + 1 -> Nat] /\ at[1] = 1 /\ at[n + 1] = m + 1
       /\ \A k \in 1..n + 1 : at[k] = o[k] + 1 /\ o[k] \in Nat /\ at[k] <= m + 1
  <2>1. \A k \in 1..n + 1 : o[k] \in Nat /\ o[k] <= m
    BY <1>8, <1>9, <1>10
  <2>2. 1 \in 1..n + 1 /\ n + 1 \in 1..n + 1
    OBVIOUS
  <2> QED BY <1>8, <1>10, <2>1, <2>2
<1> HIDE DEF at
<1>12. ASSUME NEW l \in Seq(Lines), Len(l) \in {m + 1, m + 2}, \A i \in 1..Len(l) : l[i] = F[i]
       PROVE  LaidOut(l, fns, at)
  <2>1. ASSUME NEW k \in 1..n
        PROVE  /\ at[k + 1] = at[k] + Size(fns[k]) /\ at[k + 1] <= at[n + 1]
               /\ IsAt(l, at[k], fns[k])
    <3>1. k \in 1..n + 1 /\ k + 1 \in 1..n + 1
      OBVIOUS
    <3>2. PICK p, z \in Nat : p = o[k] /\ z = Size(fns[k])
      BY <1>2, <1>11, <3>1
    <3>3. at[k] = p + 1 /\ at[k + 1] = p + z + 1 /\ p + z + 1 <= m + 1
      BY <1>8, <1>11, <3>1, <3>2
    <3>4. ASSUME NEW j \in 1..z PROVE l[p + 1 + j] = s[k][j]
      <4>1. p + 1 + j \in 1..Len(l) /\ p + j \in 1..m /\ 1 + (p + j) = p + 1 + j
        BY <1>12, <3>3
      <4>2. l[p + 1 + j] = F[p + 1 + j] /\ F[p + 1 + j] = G[p + j]
        BY <1>10, <1>12, <4>1
      <4> QED BY <1>8, <3>2, <4>2
    <3>5. IsAt(s[k], 0, fns[k]) /\ fns[k] \in WrittenFunction /\ p + 1 \in Nat
      BY <1>1, <1>2
    <3>6. IsAt(l, p + 1, fns[k])
      BY <3>2, <3>4, <3>5, Shifted
    <3> QED BY <1>11, <3>2, <3>3, <3>6
  <2>2. \/ Len(l) = at[n + 1]
        \/ Len(l) = at[n + 1] + 1 /\ l[Len(l)].first # "_"
    <3>1. CASE Len(l) = m + 1
      BY <1>11, <3>1
    <3>2. CASE Len(l) = m + 2
      <4>1. m + 2 \in 1..Len(l) /\ m + 1 + 1 = m + 2
        BY <3>2
      <4>2. l[Len(l)] = e
        BY <1>10, <1>12, <3>2, <4>1
      <4> QED BY <1>4, <1>11, <3>2, <4>1, <4>2
    <3> QED BY <1>12, <3>1, <3>2
  <2> QED BY <1>1, <1>11, <2>1, <2>2 DEF LaidOut
<1>13. File(fns, "documented") \in Seq(Lines) /\ Len(File(fns, "documented")) - 1 = m + 1
       /\ Len(File(fns, "documented")) = m + 2
  BY <1>10
<1> QED BY <1>10, <1>12, <1>13
------------------------------------------------------------------------------
(***************************************************************************)
(* What has been read when so many lines have been passed                  *)
(***************************************************************************)
\* fn when a literals and c cells of it have been read.
Partly(fn, a, c) ==
    [name |-> fn.name,
     literals |-> [i \in 1..a |-> fn.literals[i]],
     code |-> [i \in 1..Len(fn.code) |-> IF i <= c THEN fn.code[i] ELSE 0]]

\* The first m functions of a file are those that were written.
ReadTo(file, fns, m) == \A k \in 1..m : file[k] = AsWritten(fns[k])

\* How far the lines and the functions of the file have got.
Progress(file, fns, at) ==
    LET k == Len(file) IN
    /\ k \in 0..Len(fns)
    /\ phase = "name" =>
         /\ ReadTo(file, fns, k) /\ cnt = at[k + 1]
         /\ k = Len(fns) => Len(lines) = cnt + 1
    /\ phase = "literals" =>
         /\ k # 0 /\ ReadTo(file, fns, k - 1)
         /\ \E a \in 0..Len(fns[k].literals) :
              /\ file[k] = Partly(fns[k], a, 0) /\ cnt = at[k] + 2 + a
              /\ left = <<Len(fns[k].literals) - a, Len(fns[k].code)>> /\ left[1] # 0
    /\ phase = "cells" =>
         /\ k # 0 /\ ReadTo(file, fns, k - 1)
         /\ \E c \in 0..Len(fns[k].code) :
              /\ file[k] = Partly(fns[k], Len(fns[k].literals), c)
              /\ cnt = at[k] + 2 + Len(fns[k].literals) + c
              /\ left = <<0, Len(fns[k].code) - c>>
    /\ phase = "register" => k = Len(fns) /\ ReadTo(file, fns, k)

InFile == phase \in {"name", "literals", "cells", "register"}

\* The files that have been read and registered.
Closed == IF InFile THEN Len(files) - 1 ELSE Len(files)

\* Of the functions of a file that is required, the main one is not registered.
Registers(f, k) == f = 1 \/ source[f][k].name # Main

\* What is left to load.
Ahead ==
    /\ unread \in Seq(Seq(Lines))
    /\ Len(unread) + Len(files) = Len(source)
    /\ \A f \in 1..Len(unread) : \E at : LaidOut(unread[f], source[Len(files) + f], at)

\* The file that is being read.
Here ==
    InFile => /\ lines \in Seq(Lines)
              /\ \E at : /\ LaidOut(lines, source[Len(files)], at)
                         /\ Progress(files[Len(files)], source[Len(files)], at)

\* What has been loaded.
Behind ==
    /\ \A f \in 1..Closed :
         Len(files[f]) = Len(source[f]) /\ ReadTo(files[f], source[f], Len(source[f]))
    /\ \A f \in 1..Closed : \A k \in DOMAIN source[f] :
         Registers(f, k) => source[f][k].name \in DOMAIN functions
    /\ \A x \in DOMAIN functions :
         \E f \in 1..Closed : \E k \in DOMAIN source[f] :
            /\ Registers(f, k) /\ source[f][k].name = x
            /\ functions[x] = AsWritten(source[f][k])

ReadInv ==
    /\ source \in Written
    /\ Intact =>
         /\ InFile \/ phase \in {"open", "ready"}
         /\ phase = "ready" => unread = << >>
         /\ Ahead /\ Here /\ Behind

LEMMA SourceIs ==
  ASSUME source \in Written
  PROVE  /\ source \in Seq(Seq(WrittenFunction)) /\ source # << >> /\ Len(source) \in Nat
         /\ DOMAIN source = 1..Len(source) /\ Len(source) # 0
         /\ \A f \in 1..Len(source) : source[f] \in Seq(WrittenFunction)
<1>1. source \in Seq(Seq(WrittenFunction)) /\ source # << >>
  BY ReaderAssumption
<1> QED BY <1>1

\* Intact, about one file: it has functions, and none of their literals takes two lines.
LEMMA IntactFile ==
  ASSUME source \in Written, Intact, NEW f \in 1..Len(source)
  PROVE  /\ Len(source[f]) # 0 /\ DOMAIN source[f] = 1..Len(source[f])
         /\ \E k \in 1..Len(source[f]) : source[f][k].name = Main
         /\ \A k \in 1..Len(source[f]) : Multiline \intersect ToSet(source[f][k].literals) = {}
<1>1. PICK g \in Seq(WrittenFunction) : g = source[f]
  BY SourceIs
<1>2. DOMAIN g = 1..Len(g) /\ Len(g) \in Nat
  BY SeqIs
<1>3. /\ \E k \in DOMAIN source[f] : source[f][k].name = Main
      /\ \A k \in DOMAIN source[f] : Multiline \intersect ToSet(source[f][k].literals) = {}
  BY SourceIs DEF Intact
<1>4. Len(g) # 0
  BY <1>1, <1>2, <1>3
<1> QED BY <1>1, <1>2, <1>3, <1>4

\* The lines of a file that is cut off by no more than its last one.
LEMMA LaidOutFile ==
  ASSUME source \in Written, Intact, NEW f \in 1..Len(source), NEW l \in Seq(Lines),
         Len(l) \in {Len(File(source[f], header)) - 1, Len(File(source[f], header))},
         \A i \in 1..Len(l) : l[i] = File(source[f], header)[i]
  PROVE  \E at : LaidOut(l, source[f], at)
<1>1. header = "documented"
  BY DEF Intact
<1>2. source[f] \in Seq(WrittenFunction)
  BY SourceIs
<1>3. \A k \in 1..Len(source[f]) : Multiline \intersect ToSet(source[f][k].literals) = {}
  BY IntactFile
<1> QED BY <1>1, <1>2, <1>3, FileLayout

LEMMA ReadInvInit == ReadInit => ReadInv
<1> SUFFICES ASSUME ReadInit, Intact PROVE ReadInv
  <2>1. ReadInit => source \in Written
    BY DEF ReadInit
  <2> QED BY <2>1 DEF ReadInv
<1>1. source \in Written /\ phase = "open" /\ files = << >> /\ functions = << >>
  BY DEF ReadInit
<1>2. PICK n \in Nat : n = Len(source) /\ n # 0 /\ DOMAIN source = 1..n
  BY <1>1, SourceIs
<1> DEFINE all == [f \in DOMAIN source |-> File(source[f], header)]
<1>3. PICK m : /\ m \in 1..Len(all[1]) /\ whole = (m >= Len(all[1]) - 1)
               /\ unread = [all EXCEPT ![1] = SubSeq(@, 1, m)]
  BY DEF ReadInit
<1>4. \A f \in 1..n : all[f] = File(source[f], header) /\ all[f] \in Seq(Lines)
  <2>1. ASSUME NEW f \in 1..n PROVE File(source[f], header) \in Seq(Lines)
    <3>1. header = "documented" /\ source[f] \in Seq(WrittenFunction)
      BY <1>1, <1>2, SourceIs DEF Intact
    <3>2. \A k \in 1..Len(source[f]) : Multiline \intersect ToSet(source[f][k].literals) = {}
      BY <1>1, <1>2, IntactFile
    <3> QED BY <3>1, <3>2, FileLayout
  <2> QED BY <1>2, <2>1
<1>5. all = [f \in 1..n |-> all[f]]
  BY <1>2
<1> HIDE DEF all
<1>6. 1 \in 1..n /\ all[1] \in Seq(Lines) /\ Len(all[1]) \in Nat
  <2>1. 1 \in 1..n
    BY <1>2
  <2>2. all[1] \in Seq(Lines)
    BY <1>4, <2>1
  <2> QED BY <2>1, <2>2, SeqIs
<1>7. m >= Len(all[1]) - 1
  BY <1>3 DEF Intact
<1>8. PICK l \in Seq(Lines) : /\ l = SubSeq(all[1], 1, m) /\ Len(l) = m /\ \A i \in 1..m : l[i] = all[1][i]
  <2>1. PICK s \in Seq(Lines), z \in Nat : s = all[1] /\ z = Len(s)
    BY <1>6
  <2>2. m \in 1..z
    BY <1>3, <2>1
  <2>3. SubSeq(s, 1, m) \in Seq(Lines) /\ Len(SubSeq(s, 1, m)) = m
        /\ \A i \in 1..m : SubSeq(s, 1, m)[i] = s[i]
    BY <2>1, <2>2
  <2> QED BY <2>1, <2>3
<1>9. /\ unread = [f \in 1..n |-> unread[f]] /\ unread[1] = l
      /\ \A f \in 2..n : unread[f] = all[f]
  <2>1. unread = [all EXCEPT ![1] = l]
    BY <1>3, <1>8
  <2>2. DOMAIN all = 1..n
    BY <1>5
  <2>3. \A f \in 2..n : f \in 1..n /\ f # 1
    BY <1>2
  <2> QED BY <1>6, <2>1, <2>2, <2>3
<1>10. ASSUME NEW f \in 1..n PROVE unread[f] \in Seq(Lines) /\ \E at : LaidOut(unread[f], source[f], at)
  <2>1. CASE f = 1
    <3>1. Len(l) \in {Len(all[1]) - 1, Len(all[1])}
      BY <1>3, <1>6, <1>7, <1>8
    <3>2. /\ Len(l) \in {Len(File(source[1], header)) - 1, Len(File(source[1], header))}
          /\ \A i \in 1..Len(l) : l[i] = File(source[1], header)[i]
      BY <1>4, <1>6, <1>8, <3>1
    <3>3. \E at : LaidOut(l, source[1], at)
      BY <1>1, <1>2, <1>6, <3>2, LaidOutFile
    <3> QED BY <1>9, <2>1, <3>3
  <2>2. CASE f # 1
    <3>1. f \in 2..n
      BY <1>2, <2>2
    <3>2. unread[f] = File(source[f], header) /\ unread[f] \in Seq(Lines)
      BY <1>4, <1>9, <3>1
    <3>3. Len(unread[f]) \in {Len(File(source[f], header)) - 1, Len(File(source[f], header))}
      BY <3>2
    <3>4. \E at : LaidOut(unread[f], source[f], at)
      BY <1>1, <1>2, <3>2, <3>3, LaidOutFile
    <3> QED BY <3>2, <3>4
  <2> QED BY <2>1, <2>2
<1>11. unread \in Seq(Seq(Lines)) /\ Len(unread) = n
  BY <1>9, <1>10, ListIs
<1>12. Ahead
  <2>1. Len(files) = 0 /\ \A f \in 1..n : 0 + f = f
    BY <1>1, <1>2
  <2>2. n + 0 = n
    BY <1>2
  <2> QED BY <1>2, <1>10, <1>11, <2>1, <2>2 DEF Ahead
<1>13. ~ InFile
  BY <1>1 DEF InFile
<1>14. Behind
  <2>1. Closed = 0 /\ DOMAIN functions = {} /\ 1..0 = {}
    BY <1>1, <1>13 DEF Closed
  <2> QED BY <2>1 DEF Behind
<1> QED BY <1>1, <1>12, <1>13, <1>14 DEF ReadInv, Here
------------------------------------------------------------------------------
(***************************************************************************)
(* Where in its file a function is                                         *)
(***************************************************************************)
\* The functions g of the n-th file are being read, and their lines begin where at says.
Reading(n, g, at) ==
    /\ n = Len(files) /\ n \in 1..Len(source) /\ n \in Nat
    /\ g = source[n] /\ g \in Seq(WrittenFunction) /\ Len(g) \in Nat /\ Len(g) # 0
    /\ lines \in Seq(Lines) /\ LaidOut(lines, g, at) /\ Progress(files[n], g, at)

LEMMA InTheFile ==
  ASSUME FilesOK, ReadInv, Intact, InFile
  PROVE  \E n, g, at : Reading(n, g, at)
<1>1. source \in Written /\ Ahead /\ Here
  BY DEF ReadInv
<1>2. PICK n \in Nat : n = Len(files) /\ n # 0
  BY DEF FilesOK, InFile
<1>3. n \in 1..Len(source)
  <2>1. PICK u \in Nat : u = Len(unread)
    BY <1>1 DEF Ahead
  <2> QED BY <1>1, <1>2, <2>1, SourceIs DEF Ahead
<1>4. PICK g \in Seq(WrittenFunction) : g = source[n] /\ Len(g) \in Nat
  BY <1>1, <1>3, SourceIs, SeqIs
<1>5. Len(g) # 0
  BY <1>1, <1>3, <1>4, IntactFile
<1>6. lines \in Seq(Lines) /\ \E at : LaidOut(lines, g, at) /\ Progress(files[n], g, at)
  BY <1>1, <1>2, <1>4 DEF Here
<1> QED BY <1>2, <1>3, <1>4, <1>5, <1>6 DEF Reading

\* fn has x literals and y cells, and its lines come after the first p of l.
Place(l, fn, p, x, y) ==
    /\ p \in Nat /\ x \in Nat /\ y \in Nat /\ x = Len(fn.literals) /\ y = Len(fn.code)
    /\ fn \in WrittenFunction
    /\ p + 2 + x + y <= Len(l)
    /\ l[p + 1].first = "_" /\ l[p + 1].text = fn.name /\ Scanned(l[p + 2]) = <<x, y>>
    /\ \A i \in 1..x : l[p + 2 + i].text = fn.literals[i]
    /\ \A i \in 1..y : l[p + 2 + x + i].ints = <<fn.code[i]>>

\* The functions of g end after e of the z lines, and at most one is left.
End(l, g, at, e, z) ==
    /\ e \in Nat /\ e = at[Len(g) + 1]
    /\ z \in Nat /\ z = Len(l)
    /\ z = e \/ (z = e + 1 /\ l[e + 1].first # "_")

LEMMA EndIs ==
  ASSUME NEW l \in Seq(Lines), NEW g \in Seq(WrittenFunction), NEW at, LaidOut(l, g, at)
  PROVE  \E e, z : End(l, g, at, e, z)
<1>1. PICK n \in Nat : n = Len(g)
  BY SeqIs
<1>2. PICK z \in Nat : z = Len(l)
  BY SeqIs
<1>3. n + 1 \in 1..n + 1
  OBVIOUS
<1>4. PICK e \in Nat : e = at[n + 1]
  BY <1>1, <1>3 DEF LaidOut
<1>5. z = e \/ (z = e + 1 /\ l[z].first # "_")
  BY <1>1, <1>2, <1>4 DEF LaidOut
<1>6. End(l, g, at, e, z)
  BY <1>1, <1>2, <1>4, <1>5 DEF End
<1> QED BY <1>6

LEMMA PlaceIs ==
  ASSUME NEW l \in Seq(Lines), NEW g \in Seq(WrittenFunction), NEW at, LaidOut(l, g, at),
         NEW k \in 1..Len(g)
  PROVE  /\ \E p, x, y \in Nat : Place(l, g[k], p, x, y) /\ p = at[k] /\ at[k + 1] = p + 2 + x + y
         /\ at[k + 1] \in Nat
<1>1. g[k] \in WrittenFunction
  BY SeqIs
<1>2. PICK x, y \in Nat : x = Len(g[k].literals) /\ y = Len(g[k].code) /\ Size(g[k]) = 2 + x + y
  BY <1>1, WrittenIs DEF Size
<1>3. PICK e, z \in Nat : e = at[Len(g) + 1] /\ z = Len(l) /\ e <= z
  <2>1. PICK e, z : End(l, g, at, e, z)
    BY EndIs
  <2>2. e \in Nat /\ z \in Nat /\ (z = e \/ z = e + 1)
    BY <2>1 DEF End
  <2>3. e <= z
    BY <2>2
  <2>4. e = at[Len(g) + 1] /\ z = Len(l)
    BY <2>1 DEF End
  <2> QED BY <2>2, <2>3, <2>4
<1>4. PICK p, q \in Nat : p = at[k] /\ q = at[k + 1]
  <2>1. PICK n \in Nat : n = Len(g) /\ k \in 1..n
    BY SeqIs
  <2>2. k \in 1..n + 1 /\ k + 1 \in 1..n + 1
    BY <2>1
  <2> QED BY <2>1, <2>2 DEF LaidOut
<1>5. at[k + 1] = at[k] + Size(g[k]) /\ at[k + 1] <= at[Len(g) + 1] /\ IsAt(l, at[k], g[k])
  BY DEF LaidOut
<1>6. q = p + (2 + x + y) /\ q <= e /\ IsAt(l, p, g[k])
  BY <1>2, <1>3, <1>4, <1>5
<1>7. p + 2 + x + y <= Len(l)
  BY <1>3, <1>6
<1>8. /\ l[p + 1].first = "_" /\ l[p + 1].text = g[k].name /\ Scanned(l[p + 2]) = <<x, y>>
      /\ \A i \in 1..x : l[p + 2 + i].text = g[k].literals[i]
      /\ \A i \in 1..y : l[p + 2 + x + i].ints = <<g[k].code[i]>>
  BY <1>2, <1>6 DEF IsAt
<1>9. Place(l, g[k], p, x, y)
  BY <1>1, <1>2, <1>7, <1>8 DEF Place
<1> QED BY <1>4, <1>6, <1>9

\* What is left to load stays so.
LEMMA AheadStays ==
  ASSUME Ahead, unread' = unread, source' = source, Len(files') = Len(files)
  PROVE  Ahead'
BY DEF Ahead

LEMMA BehindStays ==
  ASSUME Behind, Closed' = Closed, source' = source, functions' = functions,
         \A f \in 1..Closed : files'[f] = files[f]
  PROVE  Behind'
<1>1. \A f, k : Registers(f, k)' <=> Registers(f, k)
  BY DEF Registers
<1> QED BY <1>1 DEF Behind, ReadTo, AsWritten

LEMMA HereFollows ==
  ASSUME NEW n, NEW g, NEW at, Reading(n, g, at), source' = source, lines' = lines,
         Len(files') = Len(files), Progress(files[n], g, at)'
  PROVE  Here'
<1>1. LaidOut(lines, g, at)' /\ Len(files)' = n /\ source'[n] = g /\ lines' \in Seq(Lines)
  BY DEF Reading, LaidOut
<1> QED BY <1>1 DEF Here

\* A step inside of a file.
LEMMA InsideStep ==
  ASSUME ReadInv, Intact, NEW n, NEW g, NEW at, Reading(n, g, at), InFile, InFile',
         source' = source, header' = header, whole' = whole, lines' = lines, unread' = unread,
         functions' = functions, Len(files') = Len(files),
         \A f \in 1..Len(files) - 1 : files'[f] = files[f], Progress(files[n], g, at)'
  PROVE  ReadInv'
<1>1. source' \in Written /\ phase' # "ready"
  BY DEF ReadInv, InFile
<1>2. Closed = Len(files) - 1 /\ Closed' = Closed
  BY DEF Closed
<1>3. Behind'
  BY <1>2, BehindStays DEF ReadInv
<1>4. Ahead' /\ Here'
  BY AheadStays, HereFollows DEF ReadInv
<1> QED BY <1>1, <1>3, <1>4 DEF ReadInv

LEMMA NoOverrun ==
  ASSUME FilesOK, ReadInv, Intact, Overrun
  PROVE  FALSE
<1>1. InFile /\ phase \in {"name", "literals", "cells"}
  BY DEF InFile, Overrun
<1>2. PICK n, g, at : Reading(n, g, at)
  BY <1>1, InTheFile
<1>3. /\ Progress(files[n], g, at) /\ LaidOut(lines, g, at)
      /\ lines \in Seq(Lines) /\ g \in Seq(WrittenFunction) /\ Len(g) \in Nat
  BY <1>2 DEF Reading
<1>4. PICK k \in 0..Len(g) : k = Len(files[n])
  BY <1>3 DEF Progress
<1>a. PICK e, z : End(lines, g, at, e, z)
  BY <1>3, EndIs
<1>5. e \in Nat /\ z \in Nat /\ e = at[Len(g) + 1] /\ z = Len(lines)
  BY <1>a DEF End
<1>6. \A i : Beyond(i) <=> cnt + i > z
  BY <1>5 DEF Beyond
<1>7. CASE phase = "name"
  <2>1. cnt = at[k + 1] /\ (k = Len(g) => Len(lines) = cnt + 1)
    BY <1>3, <1>4, <1>7 DEF Progress
  <2>2. CASE k = Len(g)
    <3>1. at[k + 1] = at[Len(g) + 1] /\ Len(lines) = cnt + 1
      BY <2>1, <2>2
    <3>2. cnt = e /\ z = e + 1
      BY <1>5, <2>1, <3>1
    <3>3. lines[e + 1].first # "_"
      <4>1. z # e
        BY <1>5, <3>2
      <4> QED BY <1>a, <4>1 DEF End
    <3>4. ~ (cnt + 1 > z)
      BY <1>5, <3>2
    <3>5. ThisLine.first # "_"
      BY <3>2, <3>3 DEF ThisLine
    <3> QED BY <1>6, <1>7, <3>4, <3>5 DEF Overrun
  <2>3. CASE k # Len(g)
    <3>1. PICK j \in 1..Len(g) : j = k + 1
      BY <1>3, <2>3
    <3>2. PICK p, x, y \in Nat : Place(lines, g[j], p, x, y) /\ p = at[j]
      BY <1>3, PlaceIs
    <3>3. p + 2 + x + y <= z /\ cnt = p
      BY <1>5, <2>1, <3>1, <3>2 DEF Place
    <3>4. ~ (p + 1 > z) /\ ~ (p + 2 > z)
      <4>1. z \in Nat /\ p + 2 + x + y <= z
        BY <1>5, <3>3
      <4> QED BY <4>1
    <3> QED BY <1>6, <1>7, <3>3, <3>4 DEF Overrun
  <2> QED BY <2>2, <2>3
<1>8. CASE phase \in {"literals", "cells"}
  <2>1. k \in 1..Len(g)
    BY <1>3, <1>4, <1>8 DEF Progress
  <2>2. PICK p, x, y \in Nat : Place(lines, g[k], p, x, y) /\ p = at[k]
    BY <1>3, <2>1, PlaceIs
  <2>3. p + 2 + x + y <= z /\ x = Len(g[k].literals) /\ y = Len(g[k].code)
    BY <1>5, <2>2 DEF Place
  <2>a. z \in Nat /\ p + 2 + x + y <= z
    BY <1>5, <2>3
  <2>4. CASE phase = "literals"
    <3>1. PICK a \in 0..x : cnt = p + 2 + a /\ left = <<x - a, y>> /\ left[1] # 0
      BY <1>3, <1>4, <2>2, <2>3, <2>4 DEF Progress
    <3>2. a # x
      BY <3>1
    <3>3. ~ (p + 2 + a + 1 > z)
      BY <2>a, <3>2
    <3> QED BY <1>6, <2>4, <3>1, <3>3 DEF Overrun
  <2>5. CASE phase = "cells"
    <3>1. PICK c \in 0..y : cnt = p + 2 + x + c /\ left = <<0, y - c>>
      BY <1>3, <1>4, <2>2, <2>3, <2>5 DEF Progress
    <3>2. CASE c # y
      <4>1. ~ (p + 2 + x + c + 1 > z)
        BY <2>a, <3>2
      <4> QED BY <1>6, <2>5, <3>1, <4>1 DEF Overrun
    <3>3. CASE c = y
      <4>1. left[2] = 0
        BY <3>1, <3>3
      <4> QED BY <2>5, <4>1 DEF Overrun
    <3> QED BY <3>2, <3>3
  <2> QED BY <1>8, <2>4, <2>5
<1> QED BY <1>1, <1>7, <1>8

\* k functions of the file have been read, and the lines of the next come after p.
NextAt(n, g, at, k, p, x, y) ==
    /\ k \in Nat /\ k = Len(files[n]) /\ k + 1 \in 1..Len(g) /\ cnt = p
    /\ Place(lines, g[k + 1], p, x, y) /\ p = at[k + 1] /\ at[k + 2] = p + 2 + x + y

More(n, g) == ThisLine.first = "_" \/ Len(files[n]) # Len(g)

\* The line that comes next is that of a function, or ends the functions of the file.
LEMMA NextLine ==
  ASSUME NEW n, NEW g, NEW at, Reading(n, g, at), phase = "name", More(n, g)
  PROVE  \E k, p, x, y : NextAt(n, g, at, k, p, x, y)
<1>1. /\ Progress(files[n], g, at) /\ LaidOut(lines, g, at)
      /\ lines \in Seq(Lines) /\ g \in Seq(WrittenFunction) /\ Len(g) \in Nat
  BY DEF Reading
<1>a. PICK m \in Nat : m = Len(g)
  BY <1>1
<1>2. PICK k \in 0..m : k = Len(files[n])
  BY <1>1, <1>a DEF Progress
<1>3. cnt = at[k + 1] /\ (k = m => Len(lines) = cnt + 1)
  BY <1>1, <1>a, <1>2 DEF Progress
<1>4. k # m
  <2> SUFFICES ASSUME k = m PROVE ThisLine.first # "_"
    BY <1>a, <1>2 DEF More
  <2>1. PICK e, z : End(lines, g, at, e, z)
    BY <1>1, EndIs
  <2>2. e \in Nat /\ z \in Nat /\ e = at[m + 1] /\ z = Len(lines)
    BY <1>a, <2>1 DEF End
  <2>3. cnt = e /\ z = e + 1
    BY <1>3, <2>2
  <2>4. z # e
    <3>1. z = e + 1 /\ e \in Nat
      BY <2>2, <2>3
    <3> QED BY <3>1
  <2>5. lines[e + 1].first # "_"
    BY <2>1, <2>4 DEF End
  <2> QED BY <2>3, <2>5 DEF ThisLine
<1>5. PICK j \in Nat : j = k + 1 /\ j + 1 = k + 2 /\ j \in 1..m
  BY <1>4
<1>6. PICK p, x, y \in Nat : Place(lines, g[j], p, x, y) /\ p = at[j] /\ at[j + 1] = p + 2 + x + y
  <2>1. j \in 1..Len(g)
    BY <1>a, <1>5
  <2> QED BY <1>1, <2>1, PlaceIs
<1>7. NextAt(n, g, at, k, p, x, y)
  BY <1>a, <1>2, <1>3, <1>5, <1>6 DEF NextAt
<1> QED BY <1>7

LEMMA NoFunctionReads ==
  ASSUME FilesOK, ReadInv, Intact, NoFunction
  PROVE  ReadInv'
<1>1. InFile /\ phase = "name" /\ InFile' /\ phase' = "register"
  BY DEF InFile, NoFunction
<1>2. PICK n, g, at : Reading(n, g, at)
  BY <1>1, InTheFile
<1>4. Len(files[n]) = Len(g)
  <2>1. ThisLine.first # "_"
    BY DEF NoFunction
  <2> SUFFICES ASSUME Len(files[n]) # Len(g) PROVE FALSE
    OBVIOUS
  <2>2. PICK k, p, x, y : NextAt(n, g, at, k, p, x, y)
    BY <1>1, <1>2, NextLine DEF More
  <2> QED BY <2>1, <2>2 DEF NextAt, Place, ThisLine
<1>5. /\ source' = source /\ header' = header /\ whole' = whole /\ lines' = lines
      /\ unread' = unread /\ functions' = functions /\ files' = files
  BY DEF NoFunction, reading
<1>6. Progress(files[n], g, at)'
  <2>1. Progress(files[n], g, at)
    BY <1>2 DEF Reading
  <2>2. Len(g) \in 0..Len(g) /\ ReadTo(files[n], g, Len(g))
    BY <1>1, <1>4, <2>1 DEF Progress
  <2>3. files'[n] = files[n]
    BY <1>5
  <2> QED BY <1>1, <1>4, <2>2, <2>3 DEF Progress, ReadTo
<1> QED BY <1>1, <1>2, <1>5, <1>6, InsideStep

\* When the last cell of a function has been read, it is as it was written.
LEMMA WholeFunction ==
  ASSUME NEW fn \in WrittenFunction, NEW x, NEW y, x = Len(fn.literals), y = Len(fn.code)
  PROVE  Partly(fn, x, y) = AsWritten(fn)
<1>1. PICK s \in Seq(STRING), t \in Seq(Nat) : s = fn.literals /\ t = fn.code
  BY WrittenIs
<1>2. s = [i \in 1..Len(s) |-> s[i]]
  OBVIOUS
<1>3. t = [i \in 1..Len(t) |-> t[i]]
  OBVIOUS
<1>4. [i \in 1..Len(t) |-> IF i <= Len(t) THEN t[i] ELSE 0] = t
  <2>1. \A i \in 1..Len(t) : i <= Len(t)
    OBVIOUS
  <2> QED BY <1>3, <2>1
<1> QED BY <1>1, <1>2, <1>4 DEF Partly, AsWritten
------------------------------------------------------------------------------
(***************************************************************************)
(* Literals                                                                *)
(***************************************************************************)
LEMMA PartlyIs ==
  ASSUME NEW fn \in WrittenFunction, NEW a, a \in 0..Len(fn.literals), NEW c
  PROVE  \E U : Partly(fn, a, c) \in Functions(U)
<1>1. PICK x \in Nat, s \in Seq(STRING) : s = fn.literals /\ x = Len(s)
  BY WrittenIs
<1>2. a \in 0..x
  BY <1>1
<1> DEFINE q == Partly(fn, a, c)
           l == [i \in 1..a |-> fn.literals[i]]
           U == STRING \union {q.name, q.code}
<1>3. l \in Seq(U)
  <2>1. \A i \in 1..a : l[i] \in U
    <3>1. \A i \in 1..a : i \in 1..x
      BY <1>2
    <3>2. \A i \in 1..x : s[i] \in STRING
      BY <1>1
    <3> QED BY <1>1, <3>1, <3>2
  <2>2. l = [i \in 1..a |-> l[i]] /\ a \in Nat
    BY <1>2
  <2> HIDE DEF l, U
  <2> QED BY <2>1, <2>2, ListIs
<1>4. q = [name |-> q.name, literals |-> l, code |-> q.code]
  BY DEF Partly
<1>5. q.name \in U /\ q.code \in U
  OBVIOUS
<1> HIDE DEF q, l, U
<1>6. q \in Functions(U)
  BY <1>3, <1>4, <1>5 DEF Functions
<1> QED BY <1>6 DEF q

LEMMA OneLiteralMore ==
  ASSUME NEW fn \in WrittenFunction, NEW a \in Nat
  PROVE  [Partly(fn, a, 0) EXCEPT !.literals = Append(Partly(fn, a, 0).literals, fn.literals[a + 1])]
           = Partly(fn, a + 1, 0)
<1> DEFINE l == [i \in 1..a |-> fn.literals[i]]
           m == [i \in 1..a + 1 |-> fn.literals[i]]
<1>1. Append(l, fn.literals[a + 1]) = m
  OBVIOUS
<1>2. PICK z : z = [i \in 1..Len(fn.code) |-> IF i <= 0 THEN fn.code[i] ELSE 0]
  OBVIOUS
<1>3. /\ Partly(fn, a, 0) = [name |-> fn.name, literals |-> l, code |-> z]
      /\ Partly(fn, a + 1, 0) = [name |-> fn.name, literals |-> m, code |-> z]
  BY <1>2 DEF Partly
<1> HIDE DEF l, m
<1>4. Partly(fn, a, 0).literals = l
  BY <1>3
<1>5. [Partly(fn, a, 0) EXCEPT !.literals = m] = Partly(fn, a + 1, 0)
  BY <1>3
<1> QED BY <1>1, <1>4, <1>5

LEMMA OneCellMore ==
  ASSUME NEW fn \in WrittenFunction, NEW x, NEW c \in Nat
  PROVE  [Partly(fn, x, c) EXCEPT !.code = [@ EXCEPT ![c + 1] = fn.code[c + 1]]]
           = Partly(fn, x, c + 1)
<1>0. PICK y \in Nat : y = Len(fn.code)
  BY WrittenIs
<1> DEFINE d == [i \in 1..y |-> IF i <= c THEN fn.code[i] ELSE 0]
           e == [i \in 1..y |-> IF i <= c + 1 THEN fn.code[i] ELSE 0]
<1>1. [d EXCEPT ![c + 1] = fn.code[c + 1]] = e
  <2>1. ASSUME NEW i \in 1..y
        PROVE  [d EXCEPT ![c + 1] = fn.code[c + 1]][i] = e[i]
    <3>1. CASE i = c + 1
      BY <3>1
    <3>2. CASE i # c + 1
      <4>1. i <= c <=> i <= c + 1
        BY <3>2
      <4> QED BY <3>2, <4>1
    <3> QED BY <3>1, <3>2
  <2> QED BY <2>1
<1>2. PICK z : z = [i \in 1..x |-> fn.literals[i]]
  OBVIOUS
<1>3. /\ Partly(fn, x, c) = [name |-> fn.name, literals |-> z, code |-> d]
      /\ Partly(fn, x, c + 1) = [name |-> fn.name, literals |-> z, code |-> e]
  BY <1>0, <1>2 DEF Partly
<1> HIDE DEF d, e
<1>4. Partly(fn, x, c).code = d
  BY <1>3
<1>5. [Partly(fn, x, c) EXCEPT !.code = e] = Partly(fn, x, c + 1)
  BY <1>3
<1> QED BY <1>1, <1>4, <1>5

\* What changes when the function that is being read does.
LEMMA BecomesAt ==
  ASSUME FilesOK, phase \in {"literals", "cells"}, NEW fn, NEW U, fn \in Functions(U), Becomes(fn)
  PROVE  /\ Len(files') = Len(files)
         /\ \A f \in 1..Len(files) - 1 : files'[f] = files[f]
         /\ Len(files'[Len(files)]) = Len(files[Len(files)])
         /\ \A k \in 1..Len(files[Len(files)]) - 1 :
              files'[Len(files)][k] = files[Len(files)][k]
         /\ files'[Len(files)][Len(files[Len(files)])] = fn
<1>1. PICK T : files \in Seq(Seq(Functions(T)))
  BY DEF FilesOK
<1>2. PICK W : W = T \union U
  OBVIOUS
<1>3. T \subseteq W /\ U \subseteq W
  BY <1>2
<1>4. files \in Seq(Seq(Functions(W)))
  BY <1>1, <1>3, MoreFunctions
<1>5. Functions(U) \subseteq Functions(W)
  <2>1. Seq(U) \subseteq Seq(W)
    BY <1>3
  <2> QED BY <1>3, <2>1 DEF Functions
<1>6. fn \in Functions(W) /\ files # << >> /\ Last(files) # << >>
  BY <1>5 DEF FilesOK, Last
<1> QED BY <1>4, <1>6, BecomesOK

\* The k-th function of the file is being read; its lines come after the first p.
Inside(n, g, at, k, p, x, y) ==
    /\ k \in Nat /\ k # 0 /\ k = Len(files[n]) /\ k \in 1..Len(g)
    /\ Place(lines, g[k], p, x, y) /\ p = at[k] /\ at[k + 1] = p + 2 + x + y
    /\ ReadTo(files[n], g, k - 1) /\ ThisFunction = files[n][k]

LEMMA InsideIs ==
  ASSUME NEW n, NEW g, NEW at, Reading(n, g, at), phase \in {"literals", "cells"}
  PROVE  \E k, p, x, y : Inside(n, g, at, k, p, x, y)
<1>1. /\ Progress(files[n], g, at) /\ LaidOut(lines, g, at) /\ n = Len(files)
      /\ lines \in Seq(Lines) /\ g \in Seq(WrittenFunction) /\ Len(g) \in Nat
  BY DEF Reading
<1>a. PICK m \in Nat : m = Len(g)
  BY <1>1
<1>2. PICK k \in 0..m : k = Len(files[n])
  BY <1>1, <1>a DEF Progress
<1>3. k # 0 /\ ReadTo(files[n], g, k - 1)
  BY <1>1, <1>2 DEF Progress
<1>4. k \in 1..Len(g)
  BY <1>a, <1>3
<1>5. PICK p, x, y \in Nat : Place(lines, g[k], p, x, y) /\ p = at[k] /\ at[k + 1] = p + 2 + x + y
  BY <1>1, <1>4, PlaceIs
<1>6. ThisFunction = files[n][k]
  BY <1>1, <1>2 DEF ThisFunction, Last
<1>7. Inside(n, g, at, k, p, x, y)
  BY <1>2, <1>3, <1>4, <1>5, <1>6 DEF Inside
<1> QED BY <1>7

LEMMA LiteralReads ==
  ASSUME FilesOK, ReadInv, Intact, ReadLiteral
  PROVE  ReadInv'
<1>1. InFile /\ phase = "literals" /\ InFile' /\ phase' \in {"literals", "cells"}
  BY DEF InFile, ReadLiteral
<1>2. PICK n, g, at : Reading(n, g, at)
  BY <1>1, InTheFile
<1>3. PICK k, p, x, y : Inside(n, g, at, k, p, x, y)
  BY <1>1, <1>2, InsideIs
<1>4. /\ k \in Nat /\ k # 0 /\ k = Len(files[n]) /\ k \in 1..Len(g)
      /\ Place(lines, g[k], p, x, y) /\ p = at[k]
      /\ ReadTo(files[n], g, k - 1) /\ ThisFunction = files[n][k]
  BY <1>3 DEF Inside
<1>5. /\ p \in Nat /\ x \in Nat /\ y \in Nat /\ x = Len(g[k].literals) /\ y = Len(g[k].code)
      /\ g[k] \in WrittenFunction /\ \A i \in 1..x : lines[p + 2 + i].text = g[k].literals[i]
  BY <1>4 DEF Place
<1>6. PICK a \in 0..x : /\ files[n][k] = Partly(g[k], a, 0) /\ cnt = p + 2 + a
                       /\ left = <<x - a, y>> /\ left[1] # 0
  <2>1. Progress(files[n], g, at)
    BY <1>2 DEF Reading
  <2> QED BY <1>1, <1>4, <1>5, <2>1 DEF Progress
<1>7. a # x /\ a + 1 \in 0..x /\ a + 1 \in 1..x /\ a \in Nat
  <2>1. a # x
    BY <1>5, <1>6
  <2> QED BY <1>5, <2>1
<1>8. ThisLine.text = g[k].literals[a + 1]
  <2>1. cnt + 1 = p + 2 + (a + 1)
    BY <1>5, <1>6, <1>7
  <2> QED BY <1>5, <1>7, <2>1 DEF ThisLine
<1>9. Becomes(Partly(g[k], a + 1, 0))
  <2>1. Becomes([ThisFunction EXCEPT !.literals = Append(ThisFunction.literals, ThisLine.text)])
    BY DEF ReadLiteral
  <2>2. Becomes([Partly(g[k], a, 0) EXCEPT
                   !.literals = Append(Partly(g[k], a, 0).literals, g[k].literals[a + 1])])
    BY <1>4, <1>6, <1>8, <2>1
  <2>3. [Partly(g[k], a, 0) EXCEPT
           !.literals = Append(Partly(g[k], a, 0).literals, g[k].literals[a + 1])]
          = Partly(g[k], a + 1, 0)
    BY <1>5, <1>7, OneLiteralMore
  <2> QED BY <2>2, <2>3
<1>10. /\ Len(files') = Len(files) /\ \A f \in 1..Len(files) - 1 : files'[f] = files[f]
       /\ Len(files'[n]) = k /\ \A j \in 1..k - 1 : files'[n][j] = files[n][j]
       /\ files'[n][k] = Partly(g[k], a + 1, 0)
  <2>1. PICK U : Partly(g[k], a + 1, 0) \in Functions(U)
    BY <1>5, <1>7, PartlyIs
  <2>2. n = Len(files)
    BY <1>2 DEF Reading
  <2> QED BY <1>1, <1>4, <1>9, <2>1, <2>2, BecomesAt
<1>11. /\ source' = source /\ header' = header /\ whole' = whole /\ lines' = lines
       /\ unread' = unread /\ functions' = functions
  BY DEF ReadLiteral
<1>12. /\ cnt' = p + 2 + (a + 1) /\ left' = <<x - (a + 1), y>>
       /\ phase' = IF left[1] = 1 THEN "cells" ELSE "literals"
  <2>1. left[1] = x - a /\ left[2] = y
    BY <1>6
  <2>2. cnt' = cnt + 1 /\ left' = <<left[1] - 1, left[2]>>
    BY DEF ReadLiteral
  <2>3. cnt + 1 = p + 2 + (a + 1)
    BY <1>5, <1>6, <1>7
  <2>4. x - a - 1 = x - (a + 1)
    BY <1>5, <1>7
  <2> QED BY <2>1, <2>2, <2>3, <2>4 DEF ReadLiteral
<1>13. ReadTo(files'[n], g, k - 1)
  BY <1>4, <1>10 DEF ReadTo
<1>14. Progress(files[n], g, at)'
  <2>1. k \in 0..Len(g)
    BY <1>4
  <2>2. CASE left[1] = 1
    <3>1. phase' = "cells" /\ a + 1 = x
      <4>1. left[1] = x - a
        BY <1>6
      <4>2. a + 1 = x
        BY <1>5, <1>7, <2>2, <4>1
      <4> QED BY <1>12, <2>2, <4>2
    <3>2. /\ 0 \in 0..y /\ files'[n][k] = Partly(g[k], x, 0) /\ cnt' = p + 2 + x + 0
          /\ left' = <<0, y - 0>>
      <4>1. 0 \in 0..y /\ p + 2 + x = p + 2 + x + 0 /\ x - x = 0 /\ y - 0 = y
        BY <1>5
      <4> QED BY <1>10, <1>12, <3>1, <4>1
    <3>3. \E c \in 0..y : /\ files'[n][k] = Partly(g[k], x, c)
                          /\ cnt' = p + 2 + x + c /\ left' = <<0, y - c>>
      BY <3>2
    <3> QED BY <1>4, <1>5, <1>10, <1>13, <2>1, <3>1, <3>3 DEF Progress, ReadTo
  <2>3. CASE left[1] # 1
    <3>1. phase' = "literals" /\ left'[1] # 0
      <4>1. left[1] = x - a /\ left'[1] = x - (a + 1)
        BY <1>6, <1>12
      <4> QED BY <1>5, <1>7, <1>12, <2>3, <4>1
    <3>2. \E b \in 0..x : /\ files'[n][k] = Partly(g[k], b, 0) /\ cnt' = p + 2 + b
                          /\ left' = <<x - b, y>> /\ left'[1] # 0
      BY <1>7, <1>10, <1>12, <3>1
    <3> QED BY <1>4, <1>5, <1>10, <1>13, <2>1, <3>1, <3>2 DEF Progress, ReadTo
  <2> QED BY <2>2, <2>3
<1> QED BY <1>1, <1>2, <1>10, <1>11, <1>14, InsideStep
------------------------------------------------------------------------------
(***************************************************************************)
(* Cells, and the beginning and the end of a function                      *)
(***************************************************************************)
LEMMA Larger ==
  ASSUME NEW T, NEW U, T \subseteq U, NEW s \in Seq(T)
  PROVE  s \in Seq(U)
OBVIOUS

LEMMA Appended ==
  ASSUME NEW T, NEW s \in Seq(T), NEW e \in T
  PROVE  /\ Append(s, e) \in Seq(T) /\ Len(Append(s, e)) = Len(s) + 1
         /\ Append(s, e)[Len(s) + 1] = e
         /\ \A i \in 1..Len(s) : Append(s, e)[i] = s[i]
OBVIOUS

LEMMA CellReads ==
  ASSUME FilesOK, ReadInv, Intact, ReadCell
  PROVE  ReadInv'
<1>1. InFile /\ phase = "cells" /\ InFile' /\ phase' = "cells"
  BY DEF InFile, ReadCell
<1>2. PICK n, g, at : Reading(n, g, at)
  BY <1>1, InTheFile
<1>3. PICK k, p, x, y : Inside(n, g, at, k, p, x, y)
  BY <1>1, <1>2, InsideIs
<1>4. /\ k \in Nat /\ k # 0 /\ k = Len(files[n]) /\ k \in 1..Len(g)
      /\ Place(lines, g[k], p, x, y) /\ p = at[k]
      /\ ReadTo(files[n], g, k - 1) /\ ThisFunction = files[n][k]
  BY <1>3 DEF Inside
<1>5. /\ p \in Nat /\ x \in Nat /\ y \in Nat /\ x = Len(g[k].literals) /\ y = Len(g[k].code)
      /\ g[k] \in WrittenFunction /\ \A i \in 1..y : lines[p + 2 + x + i].ints = <<g[k].code[i]>>
  BY <1>4 DEF Place
<1>6. PICK c \in 0..y : /\ files[n][k] = Partly(g[k], x, c) /\ cnt = p + 2 + x + c
                       /\ left = <<0, y - c>>
  <2>1. Progress(files[n], g, at)
    BY <1>2 DEF Reading
  <2> QED BY <1>1, <1>4, <1>5, <2>1 DEF Progress
<1>7. c # y /\ c + 1 \in 0..y /\ c + 1 \in 1..y /\ c \in Nat /\ left[2] = y - c
  <2>1. left[2] = y - c
    BY <1>6
  <2>2. c # y
    BY <1>5, <2>1 DEF ReadCell
  <2> QED BY <1>5, <2>1, <2>2
<1>8. ThisLine.ints = <<g[k].code[c + 1]>>
  <2>1. cnt + 1 = p + 2 + x + (c + 1)
    <3>1. p \in Nat /\ x \in Nat /\ c \in Nat
      BY <1>5, <1>7
    <3>2. p + 2 + x + c + 1 = p + 2 + x + (c + 1)
      BY <3>1
    <3>3. cnt = p + 2 + x + c
      BY <1>6
    <3> QED BY <3>2, <3>3
  <2> QED BY <1>5, <1>7, <2>1 DEF ThisLine
<1>9. Becomes(Partly(g[k], x, c + 1))
  <2>1. ThisLine.ints # << >> /\ ThisLine.ints[1] = g[k].code[c + 1]
    BY <1>8
  <2>2. PICK i : /\ i = Len(ThisFunction.code) - left[2] + 1
                 /\ Becomes([ThisFunction EXCEPT !.code = [@ EXCEPT ![i] = ThisLine.ints[1]]])
    BY <2>1 DEF ReadCell
  <2>3. i = c + 1
    <3>1. ThisFunction.code = [j \in 1..y |-> IF j <= c THEN g[k].code[j] ELSE 0]
      BY <1>4, <1>5, <1>6 DEF Partly
    <3>2. PICK d : d = ThisFunction.code /\ d = [j \in 1..y |-> d[j]]
      BY <3>1
    <3>3. \A j \in 1..y : d[j] \in {g[k].code[j], 0}
      BY <3>1, <3>2
    <3>4. \A j \in 1..y : d[j] \in {g[k].code[h] : h \in 1..y} \union {0}
      BY <3>3
    <3>5. Len(d) = y
      BY <1>5, <3>2, <3>4, ListIs
    <3>6. i = y - (y - c) + 1
      BY <1>7, <2>2, <3>2, <3>5
    <3> QED BY <1>5, <1>7, <3>6
  <2>4. Becomes([Partly(g[k], x, c) EXCEPT !.code = [@ EXCEPT ![c + 1] = g[k].code[c + 1]]])
    BY <1>4, <1>6, <2>1, <2>2, <2>3
  <2>5. [Partly(g[k], x, c) EXCEPT !.code = [@ EXCEPT ![c + 1] = g[k].code[c + 1]]]
          = Partly(g[k], x, c + 1)
    <3>1. c \in Nat /\ g[k] \in WrittenFunction
      BY <1>5, <1>7
    <3> QED BY <3>1, OneCellMore, Zenon
  <2> QED BY <2>4, <2>5
<1>10. /\ Len(files') = Len(files) /\ \A f \in 1..Len(files) - 1 : files'[f] = files[f]
       /\ Len(files'[n]) = k /\ \A j \in 1..k - 1 : files'[n][j] = files[n][j]
       /\ files'[n][k] = Partly(g[k], x, c + 1)
  <2>1. PICK U : Partly(g[k], x, c + 1) \in Functions(U)
    <3>1. x \in 0..Len(g[k].literals)
      BY <1>5
    <3> QED BY <1>5, <3>1, PartlyIs
  <2>2. n = Len(files)
    BY <1>2 DEF Reading
  <2> QED BY <1>1, <1>4, <1>9, <2>1, <2>2, BecomesAt
<1>11. /\ source' = source /\ header' = header /\ whole' = whole /\ lines' = lines
       /\ unread' = unread /\ functions' = functions
  BY DEF ReadCell
<1>12. cnt' = p + 2 + x + (c + 1) /\ left' = <<0, y - (c + 1)>>
  <2>1. left[1] = 0 /\ left[2] = y - c
    BY <1>6
  <2>2. cnt' = cnt + 1 /\ left' = <<left[1], left[2] - 1>>
    BY DEF ReadCell
  <2>3. cnt + 1 = p + 2 + x + (c + 1)
    <3>1. p \in Nat /\ x \in Nat /\ c \in Nat
      BY <1>5, <1>7
    <3>2. p + 2 + x + c + 1 = p + 2 + x + (c + 1)
      BY <3>1
    <3>3. cnt = p + 2 + x + c
      BY <1>6
    <3> QED BY <3>2, <3>3
  <2>4. y - c - 1 = y - (c + 1)
    BY <1>5, <1>7
  <2> QED BY <2>1, <2>2, <2>3, <2>4
<1>13. ReadTo(files'[n], g, k - 1)
  BY <1>4, <1>10 DEF ReadTo
<1>14. Progress(files[n], g, at)'
  <2>1. k \in 0..Len(g)
    BY <1>4
  <2>2. \E d \in 0..y : /\ files'[n][k] = Partly(g[k], x, d)
                        /\ cnt' = p + 2 + x + d /\ left' = <<0, y - d>>
    BY <1>7, <1>10, <1>12
  <2> QED BY <1>1, <1>4, <1>5, <1>10, <1>13, <2>1, <2>2 DEF Progress, ReadTo
<1> QED BY <1>1, <1>2, <1>10, <1>11, <1>14, InsideStep

LEMMA FunctionIsRead ==
  ASSUME FilesOK, ReadInv, Intact, FunctionRead
  PROVE  ReadInv'
<1>1. InFile /\ phase = "cells" /\ InFile' /\ phase' = IF cnt >= Len(lines) THEN "register" ELSE "name"
  BY DEF InFile, FunctionRead
<1>2. PICK n, g, at : Reading(n, g, at)
  BY <1>1, InTheFile
<1>3. PICK k, p, x, y : Inside(n, g, at, k, p, x, y)
  BY <1>1, <1>2, InsideIs
<1>4. /\ k \in Nat /\ k # 0 /\ k = Len(files[n]) /\ k \in 1..Len(g)
      /\ Place(lines, g[k], p, x, y) /\ p = at[k] /\ at[k + 1] = p + 2 + x + y
      /\ ReadTo(files[n], g, k - 1) /\ ThisFunction = files[n][k]
  BY <1>3 DEF Inside
<1>5. /\ p \in Nat /\ x \in Nat /\ y \in Nat /\ x = Len(g[k].literals) /\ y = Len(g[k].code)
      /\ g[k] \in WrittenFunction
  BY <1>4 DEF Place
<1>a. /\ Progress(files[n], g, at) /\ LaidOut(lines, g, at)
      /\ lines \in Seq(Lines) /\ g \in Seq(WrittenFunction) /\ Len(g) \in Nat
  BY <1>2 DEF Reading
<1>6. PICK c \in 0..y : /\ files[n][k] = Partly(g[k], x, c) /\ cnt = p + 2 + x + c
                       /\ left = <<0, y - c>>
  BY <1>1, <1>4, <1>5, <1>a DEF Progress
<1>7. c = y
  <2>1. y - c = 0
    BY <1>6 DEF FunctionRead
  <2> QED BY <1>5, <2>1
<1>8. ReadTo(files[n], g, k)
  <2>1. files[n][k] = AsWritten(g[k])
    BY <1>5, <1>6, <1>7, WholeFunction
  <2>2. \A j \in 1..k : j = k \/ j \in 1..k - 1
    BY <1>4
  <2> QED BY <1>4, <2>1, <2>2 DEF ReadTo
<1>9. PICK e, z : End(lines, g, at, e, z)
  BY <1>a, EndIs
<1>10. e \in Nat /\ z \in Nat /\ e = at[Len(g) + 1] /\ z = Len(lines) /\ (z = e \/ z = e + 1)
  BY <1>9 DEF End
<1>11. PICK q \in Nat : q = at[k + 1] /\ cnt = q
  <2>1. p \in Nat /\ x \in Nat /\ y \in Nat
    BY <1>5
  <2>2. p + 2 + x + y \in Nat
    BY <2>1
  <2>3. cnt = p + 2 + x + y /\ at[k + 1] = p + 2 + x + y
    BY <1>4, <1>6, <1>7
  <2> QED BY <2>2, <2>3
<1>12. k # Len(g) => q + 1 <= z
  <2> SUFFICES ASSUME k # Len(g) PROVE q + 1 <= z
    OBVIOUS
  <2>1. PICK j \in 1..Len(g) : j = k + 1
    BY <1>4, <1>a
  <2>2. PICK r, s, t \in Nat : Place(lines, g[j], r, s, t) /\ r = at[j]
    BY <1>a, PlaceIs
  <2>3. r + 2 + s + t <= z /\ r = q
    BY <1>10, <1>11, <2>1, <2>2 DEF Place
  <2> QED BY <1>10, <2>3
<1>13. k = Len(g) => q = e
  BY <1>10, <1>11
<1>14. /\ source' = source /\ header' = header /\ whole' = whole /\ lines' = lines
       /\ unread' = unread /\ functions' = functions /\ files' = files /\ cnt' = cnt
  BY DEF FunctionRead, reading
<1>15. Progress(files[n], g, at)'
  <2>1. k \in 0..Len(g) /\ k = Len(files'[n]) /\ ReadTo(files'[n], g, k)
    BY <1>4, <1>8, <1>14
  <2>2. CASE cnt >= Len(lines)
    <3>1. k = Len(g)
      BY <1>10, <1>11, <1>12, <2>2
    <3> QED BY <1>1, <2>1, <2>2, <3>1 DEF Progress, ReadTo
  <2>3. CASE ~ cnt >= Len(lines)
    <3>1. k = Len(g) => Len(lines') = cnt' + 1
      <4> SUFFICES ASSUME k = Len(g) PROVE z = q + 1
        BY <1>10, <1>11, <1>14
      <4>1. q = e /\ ~ q >= z
        BY <1>10, <1>11, <1>13, <2>3
      <4> QED BY <1>10, <4>1
    <3>2. cnt' = at[k + 1] /\ phase' = "name"
      BY <1>1, <1>11, <1>14, <2>3
    <3> QED BY <2>1, <3>1, <3>2 DEF Progress, ReadTo
  <2> QED BY <2>2, <2>3
<1> QED BY <1>1, <1>2, <1>14, <1>15, InsideStep

LEMMA FunctionBegins ==
  ASSUME FilesOK, ReadInv, Intact, ReadFunction
  PROVE  ReadInv'
<1>1. InFile /\ phase = "name" /\ InFile' /\ ThisLine.first = "_"
  BY DEF InFile, ReadFunction
<1>2. PICK n, g, at : Reading(n, g, at)
  BY <1>1, InTheFile
<1>3. PICK k, p, x, y : NextAt(n, g, at, k, p, x, y)
  BY <1>1, <1>2, NextLine DEF More
<1>4. PICK j \in Nat : j = k + 1
  BY <1>3 DEF NextAt
<1>5. /\ k \in Nat /\ k = Len(files[n]) /\ j \in 1..Len(g) /\ cnt = p
      /\ Place(lines, g[j], p, x, y) /\ p = at[j]
  BY <1>3, <1>4 DEF NextAt
<1>6. /\ p \in Nat /\ x \in Nat /\ y \in Nat /\ x = Len(g[j].literals) /\ y = Len(g[j].code)
      /\ g[j] \in WrittenFunction /\ lines[p + 1].text = g[j].name
      /\ Scanned(lines[p + 2]) = <<x, y>>
  BY <1>5 DEF Place
<1>7. ReadTo(files[n], g, k)
  <2>1. Progress(files[n], g, at)
    BY <1>2 DEF Reading
  <2> QED BY <1>1, <1>5, <2>1 DEF Progress
<1>8. left' = <<x, y>> /\ left'[1] = x /\ left'[2] = y
  <2>1. left' = <<x, y>>
    BY <1>5, <1>6 DEF ReadFunction
  <2> QED BY <2>1
<1>9. n = Len(files) /\ n \in Nat
  BY <1>2 DEF Reading
<1>10. files' = [files EXCEPT ![n] = Append(files[n], Partly(g[j], 0, 0))]
  <2>1. [i \in 1..left'[2] |-> 0] = [i \in 1..Len(g[j].code) |-> IF i <= 0 THEN g[j].code[i] ELSE 0]
    <3>1. left'[2] = Len(g[j].code)
      BY <1>6, <1>8
    <3>2. \A i \in 1..y : ~ i <= 0
      BY <1>6
    <3> QED BY <1>6, <1>8, <3>2
  <2>2. << >> = [i \in 1..0 |-> g[j].literals[i]]
    OBVIOUS
  <2>3. ThisLine.text = g[j].name
    BY <1>5, <1>6 DEF ThisLine
  <2>4. PICK rec : /\ rec = [name |-> ThisLine.text, literals |-> << >>, code |-> [i \in 1..left'[2] |-> 0]]
                   /\ files' = [files EXCEPT ![Len(files)] = Append(@, rec)]
    BY DEF ReadFunction
  <2>5. rec = Partly(g[j], 0, 0)
    BY <2>1, <2>2, <2>3, <2>4 DEF Partly
  <2> QED BY <1>9, <2>4, <2>5
<1>11. /\ Len(files') = Len(files) /\ \A f \in 1..Len(files) - 1 : files'[f] = files[f]
       /\ Len(files'[n]) = j /\ \A i \in 1..k : files'[n][i] = files[n][i]
       /\ files'[n][j] = Partly(g[j], 0, 0)
  <2>1. PICK T : files \in Seq(Seq(T))
    BY DEF FilesOK
  <2>2. n \in 1..n
    BY <1>2, <1>9 DEF Reading
  <2>3. PICK s \in Seq(T) : s = files[n]
    BY <1>9, <2>1, <2>2
  <2>4. PICK fn : fn = Partly(g[j], 0, 0)
    OBVIOUS
  <2>5. PICK t : t = Append(s, fn)
    OBVIOUS
  <2>6. PICK m \in Nat : m = Len(s) /\ m = k
    BY <1>5, <2>3
  <2>7. Len(t) = m + 1 /\ t[m + 1] = fn /\ \A i \in 1..m : t[i] = s[i]
    <3>1. PICK U : U = T \union {fn}
      OBVIOUS
    <3>2. s \in Seq(U) /\ fn \in U
      BY <2>3, <3>1, Larger
    <3>3. /\ Len(Append(s, fn)) = Len(s) + 1 /\ Append(s, fn)[Len(s) + 1] = fn
          /\ \A i \in 1..Len(s) : Append(s, fn)[i] = s[i]
      BY <3>2, Appended
    <3>4. m = Len(s)
      BY <2>6
    <3> QED BY <2>5, <3>3, <3>4, Zenon
  <2>8. files' = [files EXCEPT ![n] = t]
    BY <1>10, <2>3, <2>4, <2>5
  <2>9. DOMAIN files = 1..n /\ files' = [f \in 1..n |-> IF f = n THEN t ELSE files[f]]
    <3>1. DOMAIN files = 1..n
      BY <1>9, <2>1
    <3> QED BY <2>8, <3>1
  <2>10. files'[n] = t /\ \A f \in 1..n - 1 : files'[f] = files[f]
    <3>1. \A f \in 1..n - 1 : f \in 1..n /\ f # n
      BY <1>9
    <3> QED BY <2>2, <2>9, <3>1
  <2>11. Len(files') = n
    BY <1>9, <2>9
  <2> QED BY <1>4, <1>9, <2>3, <2>4, <2>6, <2>7, <2>10, <2>11
<1>12. /\ source' = source /\ header' = header /\ whole' = whole /\ lines' = lines
       /\ unread' = unread /\ functions' = functions /\ cnt' = p + 2
       /\ phase' = IF x > 0 THEN "literals" ELSE "cells"
  BY <1>5, <1>8 DEF ReadFunction
<1>13. ReadTo(files'[n], g, j - 1)
  <2>1. j - 1 = k
    BY <1>4, <1>5
  <2> QED BY <1>7, <1>11, <2>1 DEF ReadTo
<1>14. Progress(files[n], g, at)'
  <2>1. j \in 0..Len(g) /\ j # 0
    BY <1>5
  <2>2. 0 \in 0..x /\ 0 \in 0..y /\ x - 0 = x /\ y - 0 = y /\ p + 2 + 0 = p + 2
    BY <1>6
  <2>3. CASE x > 0
    <3>1. phase' = "literals" /\ left'[1] # 0
      BY <1>6, <1>8, <1>12, <2>3
    <3>2. \E b \in 0..x : /\ files'[n][j] = Partly(g[j], b, 0) /\ cnt' = p + 2 + b
                          /\ left' = <<x - b, y>> /\ left'[1] # 0
      BY <1>8, <1>11, <1>12, <2>2, <3>1
    <3> QED BY <1>5, <1>6, <1>11, <1>13, <2>1, <3>1, <3>2 DEF Progress, ReadTo
  <2>4. CASE ~ x > 0
    <3>1. phase' = "cells" /\ x = 0
      BY <1>6, <1>12, <2>4
    <3>2. p + 2 + x + 0 = p + 2
      BY <1>6, <3>1
    <3>3. \E c \in 0..y : /\ files'[n][j] = Partly(g[j], x, c)
                          /\ cnt' = p + 2 + x + c /\ left' = <<0, y - c>>
      BY <1>8, <1>11, <1>12, <2>2, <3>1, <3>2
    <3> QED BY <1>5, <1>6, <1>11, <1>13, <2>1, <3>1, <3>3 DEF Progress, ReadTo
  <2> QED BY <2>3, <2>4
<1> QED BY <1>1, <1>2, <1>11, <1>12, <1>14, InsideStep
------------------------------------------------------------------------------
(***************************************************************************)
(* Files                                                                   *)
(***************************************************************************)
LEMMA Rest ==
  ASSUME NEW T, NEW s \in Seq(T), s # << >>
  PROVE  /\ Tail(s) \in Seq(T) /\ Len(Tail(s)) = Len(s) - 1
         /\ \A i \in 1..Len(s) - 1 : Tail(s)[i] = s[i + 1]
         /\ Head(s) = s[1] /\ s[1] \in T
OBVIOUS

LEMMA FileOpens ==
  ASSUME FilesOK, ReadInv, Intact, OpenFile
  PROVE  ReadInv'
<1>1. /\ ~ InFile /\ InFile' /\ phase' = "name" /\ source' = source /\ functions' = functions
      /\ files' = Append(files, << >>) /\ lines' = Head(unread) /\ unread' = Tail(unread)
      /\ cnt' = 1
  BY DEF InFile, OpenFile
<1>2. source \in Written /\ Ahead /\ Behind
  BY DEF ReadInv
<1>3. PICK n, z \in Nat : n = Len(files) /\ z = Len(unread)
  BY <1>2 DEF FilesOK, Ahead
<1>4. PICK j \in Nat : j = n + 1
  BY <1>3
<1>5. /\ Len(files') = j /\ files'[j] = << >>
      /\ \A f \in 1..n : files'[f] = files[f]
  <2>1. PICK T : files \in Seq(Seq(Functions(T)))
    BY DEF FilesOK
  <2>2. << >> \in Seq(Functions(T))
    OBVIOUS
  <2> HIDE DEF Functions
  <2>3. /\ Len(Append(files, << >>)) = Len(files) + 1 /\ Append(files, << >>)[Len(files) + 1] = << >>
        /\ \A i \in 1..Len(files) : Append(files, << >>)[i] = files[i]
    BY <2>1, <2>2, Appended
  <2> QED BY <1>1, <1>3, <1>4, <2>3, Zenon
<1>6. /\ z # 0 /\ unread' \in Seq(Seq(Lines)) /\ Len(unread') = z - 1
      /\ \A f \in 1..z - 1 : unread'[f] = unread[f + 1]
      /\ lines' = unread[1] /\ unread[1] \in Seq(Lines)
  <2>1. unread \in Seq(Seq(Lines)) /\ unread # << >>
    BY <1>2 DEF Ahead, OpenFile
  <2>2. z # 0
    BY <1>3, <2>1
  <2>3. PICK T : T = Seq(Lines)
    OBVIOUS
  <2>4. /\ Tail(unread) \in Seq(T) /\ Len(Tail(unread)) = Len(unread) - 1
        /\ \A i \in 1..Len(unread) - 1 : Tail(unread)[i] = unread[i + 1]
        /\ Head(unread) = unread[1] /\ unread[1] \in T
    BY <2>1, <2>3, Rest
  <2> QED BY <1>1, <1>3, <2>2, <2>3, <2>4
<1>7. z + n = Len(source) /\ \A f \in 1..z : \E at : LaidOut(unread[f], source[n + f], at)
  BY <1>2, <1>3 DEF Ahead
<1>8. Ahead'
  <2>1. (z - 1) + j = Len(source)
    <3>1. (z - 1) + j = z + n
      BY <1>3, <1>4
    <3> QED BY <1>7, <3>1
  <2>2. ASSUME NEW f \in 1..z - 1
        PROVE  \E at : LaidOut(unread'[f], source[j + f], at)
    <3>1. PICK h \in 1..z : h = f + 1 /\ n + h = j + f
      BY <1>3, <1>4
    <3> QED BY <1>6, <1>7, <3>1
  <2> QED BY <1>1, <1>5, <1>6, <2>1, <2>2 DEF Ahead
<1>9. j \in 1..Len(source)
  <2>1. j \in 1..z + n
    BY <1>3, <1>4, <1>6
  <2> QED BY <1>7, <2>1
<1>10. PICK at : LaidOut(lines', source[j], at)
  <2>1. 1 \in 1..z
    BY <1>3, <1>6
  <2> QED BY <1>4, <1>6, <1>7, <2>1
<1>11. Progress(<< >>, source[j], at)'
  <2>1. PICK m \in Nat : m = Len(source[j]) /\ m # 0
    <3>1. source[j] \in Seq(WrittenFunction)
      BY <1>2, <1>9, SourceIs
    <3> QED BY <1>2, <1>9, <3>1, SeqIs, IntactFile
  <2>2. 0 \in 0..m /\ 1..0 = {} /\ 0 + 1 = 1
    BY <2>1
  <2>3. at[1] = 1
    BY <1>10 DEF LaidOut
  <2>4. Len(<< >>) = 0
    OBVIOUS
  <2> QED BY <1>1, <2>1, <2>2, <2>3, <2>4 DEF Progress, ReadTo
<1>12. Here'
  <2>1. Progress(files[j], source[j], at)'
    BY <1>1, <1>5, <1>11 DEF Progress, ReadTo
  <2> QED BY <1>1, <1>5, <1>6, <1>10, <2>1 DEF Here
<1>13. Behind'
  <2>1. Closed = n /\ Closed' = n
    <3>1. j - 1 = n
      BY <1>3, <1>4
    <3> QED BY <1>1, <1>3, <1>5, <3>1 DEF Closed
  <2> QED BY <1>1, <1>2, <1>5, <2>1, BehindStays
<1> QED BY <1>1, <1>2, <1>8, <1>12, <1>13 DEF ReadInv

LEMMA NameIsItsFirst ==
  ASSUME Intact, NEW n \in DOMAIN source, NEW g, g = source[n], DOMAIN g = 1..Len(g),
         NEW file, Len(file) \in Nat, Len(file) = Len(g), ReadTo(file, g, Len(g)),
         NEW k \in 1..Len(g)
  PROVE  Named(file, g[k].name) = k
<1>1. PICK m \in Nat : m = Len(file) /\ m = Len(g) /\ DOMAIN g = 1..m
  OBVIOUS
<1>2. \A j \in 1..m : file[j].name = g[j].name
  <2>1. ReadTo(file, g, m)
    BY <1>1
  <2>2. \A j \in 1..m : file[j] = AsWritten(g[j])
    BY <2>1 DEF ReadTo
  <2>3. \A fn : AsWritten(fn).name = fn.name
    BY DEF AsWritten
  <2> QED BY <2>2, <2>3
<1>3. ASSUME NEW j \in 1..k - 1 PROVE file[j].name # file[k].name
  <2>1. j \in 1..m /\ k \in 1..m /\ j # k
    BY <1>1
  <2>2. g[j].name # g[k].name
    BY <1>1, <2>1 DEF Intact, NamesDiffer
  <2> QED BY <1>2, <2>1, <2>2
<1>4. k = Named(file, file[k].name)
  BY <1>3, NamedIs
<1> QED BY <1>1, <1>2, <1>4

LEMMA FileRegisters ==
  ASSUME FilesOK, ReadInv, Intact, Register
  PROVE  ReadInv'
<1>1. /\ InFile /\ phase = "register" /\ source' = source /\ unread' = unread /\ files' = files
  BY DEF InFile, Register
<1>2. PICK n, g, at : Reading(n, g, at)
  BY <1>1, InTheFile
<1>3. /\ n \in 1..Len(source) /\ n \in Nat /\ n = Len(files) /\ g = source[n]
      /\ g \in Seq(WrittenFunction) /\ Progress(files[n], g, at)
  BY <1>2 DEF Reading
<1>4. source \in Written /\ Ahead /\ Behind
  BY DEF ReadInv
<1>5. PICK m \in Nat : m = Len(g) /\ DOMAIN g = 1..m /\ m # 0
  BY <1>3, <1>4, SeqIs, IntactFile
<1>6. PICK file : file = files[n] /\ file = Last(files)
  BY <1>3 DEF Last
<1>7. DOMAIN file = 1..m /\ Len(file) = m /\ ReadTo(file, g, m)
  <2>1. Len(file) = m /\ ReadTo(file, g, m)
    BY <1>1, <1>3, <1>5, <1>6 DEF Progress
  <2>2. PICK T : files \in Seq(Seq(T))
    BY DEF FilesOK
  <2>3. n \in 1..Len(files)
    BY <1>3
  <2>4. PICK s \in Seq(T) : s = files[n]
    BY <2>2, <2>3
  <2>5. file \in Seq(T)
    BY <1>6, <2>4
  <2> QED BY <2>1, <2>5, SeqIs
<1>8. \A k \in 1..m : file[k] = AsWritten(g[k]) /\ file[k].name = g[k].name
  BY <1>7 DEF ReadTo, AsWritten
<1>9. \A k \in 1..m : Named(file, g[k].name) = k
  <2>1. n \in DOMAIN source
    BY <1>3, <1>4, SourceIs
  <2> QED BY <1>3, <1>5, <1>7, <2>1, NameIsItsFirst
<1> DEFINE names == {file[k].name : k \in DOMAIN file}
           new == IF Len(files) = 1 THEN names ELSE names \ {Main}
<1>10. /\ functions' = [x \in DOMAIN functions \union new |->
                            IF x \in DOMAIN functions THEN functions[x] ELSE file[Named(file, x)]]
       /\ phase' = IF Main \notin names THEN "no main"
                   ELSE IF unread = << >> THEN "ready" ELSE "open"
  BY <1>6 DEF Register
<1>11. \A x : x \in names <=> \E k \in 1..m : g[k].name = x
  BY <1>7, <1>8
<1>a. new = IF n = 1 THEN names ELSE names \ {Main}
  BY <1>3
<1> HIDE DEF names, new
<1>12. Main \in names
  <2>1. \E k \in 1..m : g[k].name = Main
    BY <1>3, <1>4, <1>5, IntactFile
  <2> QED BY <1>11, <2>1
<1>13. /\ ~ InFile' /\ phase' \in {"open", "ready"} /\ (phase' = "ready" => unread' = << >>)
  BY <1>1, <1>10, <1>12 DEF InFile
<1>14. Closed = n - 1 /\ Closed' = n
  BY <1>1, <1>3, <1>13 DEF Closed
<1>15. ASSUME NEW k \in 1..m
       PROVE  Registers(n, k) <=> g[k].name \in new
  BY <1>3, <1>a, <1>11 DEF Registers
<1>16. /\ DOMAIN functions' = DOMAIN functions \union new
       /\ \A x \in DOMAIN functions : functions'[x] = functions[x]
       /\ \A x \in new : x \notin DOMAIN functions => functions'[x] = file[Named(file, x)]
  BY <1>10
<1>17. \A f \in 1..n : f = n \/ f \in 1..n - 1
  BY <1>3
<1>18. /\ \A f \in 1..n - 1 :
            /\ Len(files[f]) = Len(source[f]) /\ ReadTo(files[f], source[f], Len(source[f]))
            /\ \A k \in DOMAIN source[f] :
                 Registers(f, k) => source[f][k].name \in DOMAIN functions
       /\ \A x \in DOMAIN functions :
            \E f \in 1..n - 1 : \E k \in DOMAIN source[f] :
               /\ Registers(f, k) /\ source[f][k].name = x
               /\ functions[x] = AsWritten(source[f][k])
  BY <1>4, <1>14 DEF Behind
<1>19. ASSUME NEW f \in 1..n
       PROVE  /\ Len(files[f]) = Len(source[f]) /\ ReadTo(files[f], source[f], Len(source[f]))
              /\ \A k \in DOMAIN source[f] :
                   Registers(f, k) => source[f][k].name \in DOMAIN functions'
  <2>1. CASE f = n
    <3>1. ASSUME NEW k \in DOMAIN source[f], Registers(f, k)
          PROVE  source[f][k].name \in DOMAIN functions'
      <4>1. k \in 1..m
        BY <1>3, <1>5, <2>1
      <4>2. g[k].name \in new
        BY <1>15, <2>1, <3>1, <4>1
      <4> QED BY <1>3, <1>16, <2>1, <4>2
    <3> QED BY <1>3, <1>5, <1>6, <1>7, <2>1, <3>1
  <2>2. CASE f \in 1..n - 1
    BY <1>16, <1>18, <2>2
  <2> QED BY <1>17, <2>1, <2>2
<1>20. ASSUME NEW x \in DOMAIN functions'
       PROVE  \E f \in 1..n : \E k \in DOMAIN source[f] :
                 /\ Registers(f, k) /\ source[f][k].name = x
                 /\ functions'[x] = AsWritten(source[f][k])
  <2>1. CASE x \in DOMAIN functions
    <3>1. PICK f \in 1..n - 1 : \E k \in DOMAIN source[f] :
               /\ Registers(f, k) /\ source[f][k].name = x
               /\ functions[x] = AsWritten(source[f][k])
      BY <1>18, <2>1
    <3>2. f \in 1..n
      BY <1>3
    <3> QED BY <1>16, <2>1, <3>1, <3>2
  <2>2. CASE x \notin DOMAIN functions
    <3>1. x \in new
      BY <1>16, <2>2
    <3>2. PICK k \in 1..m : g[k].name = x
      BY <1>a, <1>11, <3>1
    <3>3. functions'[x] = AsWritten(g[k])
      BY <1>8, <1>9, <1>16, <2>2, <3>1, <3>2
    <3>4. Registers(n, k)
      BY <1>15, <3>1, <3>2
    <3>5. n \in 1..n /\ k \in DOMAIN source[n]
      BY <1>3, <1>5
    <3> QED BY <1>3, <3>2, <3>3, <3>4, <3>5
  <2> QED BY <2>1, <2>2
<1>21. Behind'
  <2>1. \A f, k : Registers(f, k)' <=> Registers(f, k)
    BY <1>1 DEF Registers
  <2>2. \A f : ReadTo(files[f], source[f], Len(source[f]))'
                 <=> ReadTo(files[f], source[f], Len(source[f]))
    BY <1>1 DEF ReadTo, AsWritten
  <2>3. \A f, k : AsWritten(source[f][k])' = AsWritten(source[f][k])
    BY <1>1 DEF AsWritten
  <2> QED BY <1>1, <1>14, <1>19, <1>20, <2>1, <2>2, <2>3 DEF Behind
<1>22. Ahead' /\ Here'
  BY <1>1, <1>4, <1>13, AheadStays DEF Here
<1> QED BY <1>1, <1>4, <1>13, <1>21, <1>22 DEF ReadInv

LEMMA ReadInvNext == FilesOK /\ ReadInv /\ [Read \/ Loaded]_readerVars => ReadInv'
<1> SUFFICES ASSUME FilesOK, ReadInv, [Read \/ Loaded]_readerVars PROVE ReadInv'
  OBVIOUS
<1>1. source' = source /\ header' = header /\ whole' = whole
  BY DEF Read, OpenFile, Overrun, ReadFunction, NoFunction, ReadLiteral, ReadCell, FunctionRead,
         Register, Loaded, readerVars
<1>2. Intact' <=> Intact
  BY <1>1 DEF Intact, NamesDiffer
<1>3. CASE ~ Intact
  BY <1>1, <1>2, <1>3 DEF ReadInv
<1>4. CASE Intact
  <2>1. CASE Overrun
    BY <1>4, <2>1, NoOverrun
  <2>2. CASE Loaded \/ UNCHANGED readerVars
    <3>1. UNCHANGED <<source, header, whole, unread, lines, cnt, files, left, functions, phase>>
      BY <2>2 DEF Loaded, readerVars, reading
    <3>2. \A file, fns, at : Progress(file, fns, at)' <=> Progress(file, fns, at)
      BY <3>1 DEF Progress, ReadTo
    <3>3. (InFile' <=> InFile) /\ Closed' = Closed
      BY <3>1 DEF InFile, Closed
    <3>4. Ahead' <=> Ahead
      BY <3>1 DEF Ahead
    <3>5. Here => Here'
      BY <3>1, <3>2, <3>3 DEF Here
    <3>6. Behind => Behind'
      BY <3>1, <3>3, BehindStays
    <3> QED BY <1>2, <3>1, <3>3, <3>4, <3>5, <3>6 DEF ReadInv
  <2> QED BY <1>4, <2>1, <2>2, FileOpens, FunctionBegins, NoFunctionReads, LiteralReads,
             CellReads, FunctionIsRead, FileRegisters DEF Read
<1> QED BY <1>3, <1>4

LEMMA ReadInvIsRoundTrip == FilesOK /\ ReadInv => RoundTrip
<1> SUFFICES ASSUME FilesOK, ReadInv, Intact
             PROVE  /\ phase \notin {"overrun", "no main"}
                    /\ phase = "ready" => ReadAsWritten
  BY DEF RoundTrip
<1>1. InFile \/ phase \in {"open", "ready"}
  BY DEF ReadInv
<1>2. phase \notin {"overrun", "no main"}
  BY <1>1 DEF InFile
<1> SUFFICES ASSUME phase = "ready" PROVE ReadAsWritten
  BY <1>2
<1>3. source \in Written /\ Ahead /\ Behind /\ unread = << >>
  BY DEF ReadInv
<1>4. PICK n \in Nat : n = Len(source) /\ DOMAIN source = 1..n
  BY <1>3, SourceIs
<1>5. PICK T : files \in Seq(Seq(Functions(T)))
  BY DEF FilesOK
<1> HIDE DEF Functions
<1>6. Len(files) = n /\ DOMAIN files = 1..n /\ \A f \in 1..n : files[f] \in Seq(Functions(T))
  <2>1. PICK m \in Nat : m = Len(files)
    BY <1>5
  <2>2. 0 + m = n
    BY <1>3, <1>4, <2>1 DEF Ahead
  <2> QED BY <1>5, <2>1, <2>2
<1>7. Closed = n
  BY <1>6 DEF Closed, InFile
<1>8. ASSUME NEW f \in 1..n
      PROVE  /\ DOMAIN files[f] = DOMAIN source[f]
             /\ \A k \in DOMAIN source[f] : files[f][k] = AsWritten(source[f][k])
  <2>1. PICK s, t : s = files[f] /\ t = source[f]
    OBVIOUS
  <2>2. s \in Seq(Functions(T)) /\ t \in Seq(WrittenFunction)
    BY <1>3, <1>4, <1>6, <2>1, SourceIs
  <2>3. Len(s) = Len(t) /\ ReadTo(s, t, Len(t))
    BY <1>3, <1>7, <2>1 DEF Behind
  <2>4. DOMAIN s = 1..Len(s) /\ DOMAIN t = 1..Len(t)
    BY <2>2, SeqIs
  <2> QED BY <2>1, <2>3, <2>4 DEF ReadTo
<1>9. ASSUME NEW f \in 1..n, NEW k \in DOMAIN source[f], Registers(f, k)
      PROVE  /\ source[f][k].name \in DOMAIN functions
             /\ functions[source[f][k].name] = AsWritten(source[f][k])
  <2>1. PICK x : x = source[f][k].name
    OBVIOUS
  <2>2. x \in DOMAIN functions
    BY <1>3, <1>7, <1>9, <2>1 DEF Behind
  <2>3. PICK h \in 1..n : \E l \in DOMAIN source[h] :
          Registers(h, l) /\ source[h][l].name = x /\ functions[x] = AsWritten(source[h][l])
    BY <1>3, <1>7, <2>2 DEF Behind
  <2>4. PICK l \in DOMAIN source[h] :
          Registers(h, l) /\ source[h][l].name = x /\ functions[x] = AsWritten(source[h][l])
    BY <2>3
  <2>5. (f = h /\ k = l) \/ (f # h /\ x = Main)
    BY <1>4, <2>1, <2>4 DEF Intact, NamesDiffer
  <2>6. ~ (f # h /\ x = Main)
    BY <1>9, <2>1, <2>4 DEF Registers
  <2> QED BY <2>1, <2>2, <2>4, <2>5, <2>6
<1>10. ASSUME NEW f \in DOMAIN source, NEW k \in DOMAIN source[f],
              f = 1 \/ AsWritten(source[f][k]).name # Main
       PROVE  /\ AsWritten(source[f][k]).name \in DOMAIN functions
              /\ functions[AsWritten(source[f][k]).name] = AsWritten(source[f][k])
  <2>1. AsWritten(source[f][k]).name = source[f][k].name
    BY DEF AsWritten
  <2>2. Registers(f, k) /\ f \in 1..n
    BY <1>4, <1>10, <2>1 DEF Registers
  <2> QED BY <1>9, <2>1, <2>2
<1> QED BY <1>4, <1>6, <1>8, <1>10 DEF ReadAsWritten

\* input_reader.c, vm.c:61 and primitives.c:136: if the header of the functions is as README
\* describes it, no more than the last line is cut off, each file has a main function, no two
\* of the others share a name and no literal takes two lines (Intact), then the reading never
\* leaves the lines of a file, and when it has come to its end each function of each file
\* has the literals and the code that were written, and is found under its name.
THEOREM FilesAreReadBack == ReadSpec => []RoundTrip
<1> QED BY FilesOKInit, FilesOKNext, ReadInvInit, ReadInvNext, ReadInvIsRoundTrip, PTL DEF ReadSpec
==============================================================================
