----------------------------- MODULE FramesProofs -----------------------------
(***************************************************************************)
(* What holds of the lifetime of call frames for every number of frames,   *)
(* closures and functions.                                                 *)
(***************************************************************************)
EXTENDS Frames, FiniteSetTheorems, SequenceTheorems, WellFoundedInduction, TLAPS

\* No step takes a variable of Frames out of its type.
LEMMA TypeStep == TypeOK /\ [Next]_vars => TypeOK'
<1> SUFFICES ASSUME TypeOK, [Next]_vars PROVE TypeOK'
  OBVIOUS
<1> USE FrameAssumption, FunctionAssumption DEF TypeOK
<1>a. Running => Current \in Frame
  BY DEF Running, Current
<1>1. ASSUME NEW F \in Function, NEW c \in Closure, Defn(F, c) PROVE TypeOK'
  BY <1>1, <1>a DEF Defn
<1>2. ASSUME NEW c \in Closure, NEW g \in Frame, Call(c, g) PROVE TypeOK'
  BY <1>2 DEF Call, PushFrame
<1>3. ASSUME NEW c \in Closure, CallFreedScope(c) PROVE TypeOK'
  BY <1>3 DEF CallFreedScope, Fail
<1>4. ASSUME NEW g \in Frame, Require(g) PROVE TypeOK'
  BY <1>4 DEF Require, PushFrame
<1>5. CASE CurrentFreed
  BY <1>5 DEF CurrentFreed, Fail
<1>b. frames # <<>> => SubSeq(frames, 1, Len(frames) - 1) \in Seq(Frame)
  OBVIOUS
<1>c. ASSUME NEW f \in Frame, Free(f)
      PROVE  /\ live' \subseteq Frame
             /\ releasing' \in Frame \union {NULL}
             /\ parent' \in [Frame -> Frame \union {NULL}]
             /\ code' \in [Frame -> Function \union {NULL}]
             /\ refcount' \in [Frame -> Int]
  BY <1>c DEF Free
<1>6. CASE RetCaptured
  BY <1>6, <1>b DEF RetCaptured, PopFrame, Running
<1>7. CASE Ret
  BY <1>7, <1>a, <1>b, <1>c DEF Ret, PopFrame, Running
<1>8. CASE Release
  <2>1. CASE refcount[releasing] = 1
    BY <1>8, <2>1, <1>c DEF Release
  <2>2. CASE refcount[releasing] # 1
    BY <1>8, <2>2 DEF Release
  <2> QED
    BY <2>1, <2>2
<1>9. CASE ReleaseFreed
  BY <1>9 DEF ReleaseFreed, Fail
<1>10. ASSUME NEW S \in SUBSET Closure, Collect(S) PROVE TypeOK'
  BY <1>10 DEF Collect, Collectable
<1>11. CASE CollectFreed
  BY <1>11 DEF CollectFreed, Fail
<1>12. ASSUME NEW c \in Closure, Sweep(c) PROVE TypeOK'
  BY <1>12 DEF Sweep
<1>13. CASE Exit
  BY <1>13 DEF Exit
<1>14. CASE ExitDone
  BY <1>14 DEF ExitDone
<1>15. CASE UNCHANGED vars
  BY <1>15 DEF vars
<1>16. CASE Halted
  BY <1>16, <1>15 DEF Halted
<1> QED
  BY <1>1, <1>2, <1>3, <1>4, <1>5, <1>6, <1>7, <1>8, <1>9, <1>10, <1>11,
     <1>12, <1>13, <1>14, <1>15, <1>16 DEF Next

\* The variables of Frames always have the values declared by TypeOK.
THEOREM TypeCorrect == Spec => []TypeOK
<1>1. Init => TypeOK
  BY FrameAssumption DEF Init, TypeOK
<1> QED
  BY <1>1, TypeStep, PTL DEF Spec
-------------------------------------------------------------------------------
\* The holders of a frame are finitely many.
LEMMA FiniteHolders ==
  ASSUME TypeOK, NEW f
  PROVE  /\ IsFiniteSet(ClosuresOf(f)) /\ Cardinality(ClosuresOf(f)) \in Nat
         /\ IsFiniteSet(NestedIn(f)) /\ Cardinality(NestedIn(f)) \in Nat
         /\ Cardinality(ClosuresOf(f)) = 0 <=> ClosuresOf(f) = {}
         /\ Cardinality(NestedIn(f)) = 0 <=> NestedIn(f) = {}
<1>1. ClosuresOf(f) \subseteq Closure
  BY DEF ClosuresOf
<1>2. NestedIn(f) \subseteq Frame
  BY DEF NestedIn, TypeOK
<1>3. IsFiniteSet(ClosuresOf(f)) /\ IsFiniteSet(NestedIn(f))
  BY <1>1, <1>2, FrameAssumption, ClosureAssumption, FS_Subset
<1> QED
  BY <1>3, FS_CardinalityType, FS_EmptySet

\* The inductive invariant behind the counts.
CountInv == TypeOK /\ ScopeIsHome /\ Counted

\* Freeing a frame whose count came down to its last holder keeps the counts exact:
\* the frame it was nested in loses that frame and gains a pending release.
LEMMA FreeKeepsCounts ==
  ASSUME TypeOK, Counted, fault = "none", NEW f \in live, Free(f),
         ClosuresOf(f) = {}, NestedIn(f) = {},
         releasing \in {NULL, f},
         UNCHANGED <<made, home>>
  PROVE  Counted'
<1> SUFFICES ASSUME NEW g \in live'
             PROVE  refcount'[g] = Cardinality(ClosuresOf(g)') + Cardinality(NestedIn(g)')
                                     + Pending(g)'
  BY DEF Counted
<1>1. g \in live /\ g # f /\ g \in Frame /\ f \in Frame /\ f # NULL /\ g # NULL
  BY FrameAssumption DEF Free, TypeOK
<1>2. refcount'[g] = refcount[g] /\ ClosuresOf(g)' = ClosuresOf(g)
  BY <1>1 DEF Free, TypeOK, ClosuresOf
<1>3. Pending(g) = 0
  BY <1>1 DEF Pending
<1>4. refcount[g] = Cardinality(ClosuresOf(g)) + Cardinality(NestedIn(g))
  BY <1>1, <1>3, FiniteHolders DEF Counted
<1>5. CASE parent[f] = g
  <2>1. NestedIn(g)' = NestedIn(g) \ {f} /\ f \in NestedIn(g)
    BY <1>1, <1>5 DEF Free, TypeOK, NestedIn
  <2>2. Pending(g)' = 1
    BY <1>5 DEF Free, Pending
  <2>3. Cardinality(NestedIn(g)') = Cardinality(NestedIn(g)) - 1
    BY <2>1, FiniteHolders, FS_RemoveElement
  <2> QED
    BY <1>2, <1>4, <2>2, <2>3, FiniteHolders
<1>6. CASE parent[f] # g
  <2>1. NestedIn(g)' = NestedIn(g)
    BY <1>1, <1>6 DEF Free, TypeOK, NestedIn
  <2>2. Pending(g)' = 0
    BY <1>6 DEF Free, Pending
  <2> QED
    BY <1>2, <1>4, <2>1, <2>2, FiniteHolders
<1> QED
  BY <1>5, <1>6

\* What the release of a frame's last holder leaves: nobody.
LEMMA LastHolder ==
  ASSUME TypeOK, Counted, fault = "none", NEW f \in live,
         refcount[f] <= Pending(f)
  PROVE  ClosuresOf(f) = {} /\ NestedIn(f) = {}
<1>1. refcount[f] = Cardinality(ClosuresOf(f)) + Cardinality(NestedIn(f)) + Pending(f)
  BY DEF Counted
<1>2. Pending(f) \in Int /\ refcount[f] \in Int
  BY DEF Pending, TypeOK
<1> QED
  BY <1>1, <1>2, FiniteHolders

LEMMA CountInvStep ==
  ASSUME ~ Redefinition, CountInv, [Next]_vars, TypeOK'
  PROVE  CountInv'
<1> USE DEF CountInv
<1>f. ASSUME fault = "none", UNCHANGED <<live, refcount, parent, made, home, releasing, scope>>
      PROVE  CountInv'
  <2>1. ScopeIsHome'
    BY <1>f DEF ScopeIsHome
  <2>2. \A g : /\ ClosuresOf(g)' = ClosuresOf(g)
               /\ NestedIn(g)' = NestedIn(g)
               /\ Pending(g)' = Pending(g)
    BY <1>f DEF ClosuresOf, NestedIn, Pending
  <2> QED
    BY <1>f, <2>1, <2>2 DEF Counted
<1>1. ASSUME NEW F \in Function, NEW c \in Closure, Defn(F, c) PROVE CountInv'
  <2>0. PICK f \in live : f = Current
    BY <1>1 DEF Defn
  <2>1. f \in Frame /\ f # NULL /\ fault = "none" /\ releasing = NULL
    BY <1>1, <2>0, FrameAssumption DEF Defn, Running, TypeOK
  <2>2. ScopeIsHome'
    <3> SUFFICES ASSUME NEW d \in Closure, made'[d] # NULL
                 PROVE  scope'[made'[d]] = home'[d]
      BY DEF ScopeIsHome
    <3>1. CASE d = c
      BY <1>1, <3>1 DEF Defn, TypeOK
    <3>2. CASE d # c
      <4>1. made'[d] = made[d] /\ home'[d] = home[d] /\ made[d] \in Function
        BY <1>1, <3>2 DEF Defn, TypeOK
      <4>2. scope[made[d]] = home[d]
        BY <4>1 DEF ScopeIsHome
      <4>3. made[d] = F => home[d] = Current
        BY <1>1 DEF Defn, BelongsHere
      <4>4. scope' = [scope EXCEPT ![F] = Current]
        BY <1>1 DEF Defn
      <4> QED
        BY <4>1, <4>2, <4>3, <4>4 DEF TypeOK
    <3> QED
      BY <3>1, <3>2
  <2>3. ClosuresOf(f)' = ClosuresOf(f) \union {c} /\ c \notin ClosuresOf(f)
    BY <1>1, <2>0, <2>1, FunctionAssumption DEF Defn, ClosuresOf, TypeOK
  <2>4. Cardinality(ClosuresOf(f)') = Cardinality(ClosuresOf(f)) + 1
    BY <2>3, FiniteHolders, FS_AddElement
  <2>5. ASSUME NEW g, g # f PROVE ClosuresOf(g)' = ClosuresOf(g)
    BY <1>1, <2>0, <2>1, <2>5, FunctionAssumption DEF Defn, ClosuresOf, TypeOK
  <2>6. \A g : NestedIn(g)' = NestedIn(g) /\ Pending(g)' = Pending(g)
    BY <1>1 DEF Defn, NestedIn, Pending
  <2>7. ASSUME NEW g \in live'
        PROVE  refcount'[g] = Cardinality(ClosuresOf(g)') + Cardinality(NestedIn(g)')
                                + Pending(g)'
    <3>1. g \in live /\ g \in Frame
      BY <1>1 DEF Defn, TypeOK
    <3>2. refcount'[g] = IF g = f THEN refcount[g] + 1 ELSE refcount[g]
      BY <1>1, <3>1, <2>0, <2>1 DEF Defn, TypeOK
    <3>3. refcount[g] = Cardinality(ClosuresOf(g)) + Cardinality(NestedIn(g)) + Pending(g)
      BY <3>1, <2>1 DEF Counted
    <3> QED
      BY <3>2, <3>3, <2>4, <2>5, <2>6, FiniteHolders DEF Pending
  <2> QED
    BY <2>2, <2>7 DEF Counted
<1>2. ASSUME NEW g \in Frame, NEW F, NEW p, PushFrame(g, F, p),
             p \in live \union {NULL}, fault = "none",
             refcount' = IF p = NULL THEN [refcount EXCEPT ![g] = 0]
                         ELSE [refcount EXCEPT ![g] = 0, ![p] = @ + 1],
             UNCHANGED <<scope, made, home, releasing>>
      PROVE  CountInv'
  <2>1. ScopeIsHome'
    BY <1>2 DEF ScopeIsHome
  <2>2. g \notin live /\ p # g /\ g # NULL
    BY <1>2, FrameAssumption DEF PushFrame, Fresh
  <2>3. \A h : ClosuresOf(h)' = ClosuresOf(h) /\ Pending(h)' = Pending(h)
    BY <1>2 DEF ClosuresOf, Pending
  <2>4. ASSUME NEW h, h # p PROVE NestedIn(h)' = NestedIn(h)
    BY <1>2, <2>2, <2>4 DEF PushFrame, NestedIn, TypeOK
  <2>5. ASSUME p # NULL PROVE Cardinality(NestedIn(p)') = Cardinality(NestedIn(p)) + 1
    <3>1. NestedIn(p)' = NestedIn(p) \union {g} /\ g \notin NestedIn(p)
      BY <1>2, <2>2 DEF PushFrame, NestedIn, TypeOK
    <3> QED
      BY <3>1, FiniteHolders, FS_AddElement
  <2>6. ClosuresOf(g) = {} /\ NestedIn(g) = {} /\ Pending(g) = 0
    BY <1>2 DEF PushFrame, Fresh, ClosuresOf, NestedIn, Pending
  <2>7. ASSUME NEW h \in live'
        PROVE  refcount'[h] = Cardinality(ClosuresOf(h)') + Cardinality(NestedIn(h)')
                                + Pending(h)'
    <3>1. CASE h = g
      <4>1. refcount'[h] = 0
        BY <1>2, <3>1, <2>2 DEF TypeOK
      <4> QED
        BY <4>1, <3>1, <2>2, <2>3, <2>4, <2>6, FS_EmptySet
    <3>2. CASE h # g
      <4>1. h \in live /\ h \in Frame /\ h # NULL
        BY <1>2, <3>2, FrameAssumption DEF PushFrame, TypeOK
      <4>2. refcount'[h] = IF h = p THEN refcount[h] + 1 ELSE refcount[h]
        BY <1>2, <3>2, <4>1 DEF TypeOK
      <4>3. refcount[h] = Cardinality(ClosuresOf(h)) + Cardinality(NestedIn(h)) + Pending(h)
        BY <4>1, <1>2 DEF Counted
      <4> QED
        BY <4>1, <4>2, <4>3, <2>3, <2>4, <2>5, FiniteHolders DEF Pending
    <3> QED
      BY <3>1, <3>2
  <2> QED
    BY <2>1, <2>7 DEF Counted
<1>3. ASSUME NEW c \in Closure, NEW g \in Frame, Call(c, g) PROVE CountInv'
  <2>1. scope[made[c]] # NULL
    BY <1>3, FrameAssumption DEF Call, TypeOK
  <2> QED
    BY <1>3, <2>1, <1>2 DEF Call, Running
<1>4. ASSUME NEW g \in Frame, Require(g) PROVE CountInv'
  BY <1>4, <1>2 DEF Require, Running
<1>5. ASSUME NEW w, Fail(w), w # "none" PROVE CountInv'
  <2>1. ScopeIsHome'
    BY <1>5 DEF Fail, ScopeIsHome
  <2> QED
    BY <1>5, <2>1 DEF Fail, Counted
<1>6. CASE RetCaptured
  BY <1>6, <1>f DEF RetCaptured, Running
<1>7. CASE Ret
  <2>1. Current \in live /\ fault = "none" /\ releasing = NULL /\ Free(Current)
    BY <1>7 DEF Ret, Running
  <2>2. Pending(Current) = 0
    BY <2>1, FrameAssumption DEF Pending, TypeOK
  <2>3. ClosuresOf(Current) = {} /\ NestedIn(Current) = {}
    BY <1>7, <2>1, <2>2, LastHolder DEF Ret
  <2>4. UNCHANGED <<made, home, scope>>
    BY <1>7 DEF Ret
  <2>5. Counted'
    BY <2>1, <2>3, <2>4, FreeKeepsCounts
  <2> QED
    BY <2>4, <2>5 DEF ScopeIsHome
<1>8. CASE Release
  <2> DEFINE r == releasing
  <2>1. r \in live /\ fault = "none" /\ UNCHANGED <<made, home, scope>> /\ r \in Frame
    BY <1>8 DEF Release, TypeOK
  <2>2. ScopeIsHome'
    BY <2>1 DEF ScopeIsHome
  <2>3. CASE refcount[r] = 1
    <3>1. ClosuresOf(r) = {} /\ NestedIn(r) = {}
      BY <2>1, <2>3, LastHolder DEF Pending
    <3>2. Free(r)
      BY <1>8, <2>3 DEF Release
    <3>3. Counted'
      BY <2>1, <3>1, <3>2, FreeKeepsCounts
    <3> QED
      BY <3>3, <2>2
  <2>4. CASE refcount[r] # 1
    <3>1. /\ refcount' = [refcount EXCEPT ![r] = @ - 1]
          /\ releasing' = NULL
          /\ UNCHANGED <<live, parent>>
      BY <1>8, <2>4 DEF Release
    <3>2. \A g : ClosuresOf(g)' = ClosuresOf(g) /\ NestedIn(g)' = NestedIn(g)
      BY <2>1, <3>1 DEF ClosuresOf, NestedIn
    <3>3. ASSUME NEW g \in live'
          PROVE  refcount'[g] = Cardinality(ClosuresOf(g)') + Cardinality(NestedIn(g)')
                                  + Pending(g)'
      <4>1. g \in live /\ g \in Frame /\ g # NULL
        BY <3>1, FrameAssumption DEF TypeOK
      <4>2. refcount[g] = Cardinality(ClosuresOf(g)) + Cardinality(NestedIn(g)) + Pending(g)
        BY <4>1, <2>1 DEF Counted
      <4>3. Pending(g)' = 0 /\ Pending(g) = IF g = r THEN 1 ELSE 0
        BY <3>1, <4>1 DEF Pending
      <4>4. refcount'[g] = IF g = r THEN refcount[g] - 1 ELSE refcount[g]
        BY <3>1, <4>1, <2>1 DEF TypeOK
      <4> QED
        BY <4>2, <4>3, <4>4, <3>2, FiniteHolders
    <3> QED
      BY <2>2, <3>3 DEF Counted
  <2> QED
    BY <2>3, <2>4
<1>9. ASSUME NEW S \in SUBSET Closure, Collect(S) PROVE CountInv'
  BY <1>9, <1>f DEF Collect, Running
<1>10. ASSUME NEW c \in Closure, Sweep(c) PROVE CountInv'
  <2> DEFINE f == home[c]
  <2>1. fault = "none" /\ releasing = NULL /\ made[c] # NULL /\ f = scope[made[c]]
    BY <1>10 DEF Sweep, TypeOK, ScopeIsHome
  <2>2. ScopeIsHome'
    BY <1>10 DEF Sweep, ScopeIsHome, TypeOK
  <2>3. releasing' = f /\ UNCHANGED <<live, refcount, parent>>
    BY <1>10, <2>1 DEF Sweep
  <2>4. \A g : NestedIn(g)' = NestedIn(g)
    BY <2>3 DEF NestedIn
  <2>5. ASSUME NEW g \in live'
        PROVE  refcount'[g] = Cardinality(ClosuresOf(g)') + Cardinality(NestedIn(g)')
                                + Pending(g)'
    <3>1. g \in live /\ g # NULL
      BY <2>3, FrameAssumption DEF TypeOK
    <3>2. refcount[g] = Cardinality(ClosuresOf(g)) + Cardinality(NestedIn(g)) + Pending(g)
      BY <3>1, <2>1 DEF Counted
    <3>3. Pending(g) = 0 /\ Pending(g)' = IF g = f THEN 1 ELSE 0
      BY <2>1, <2>3, <3>1 DEF Pending
    <3>4. CASE g = f
      <4>1. ClosuresOf(g)' = ClosuresOf(g) \ {c} /\ c \in ClosuresOf(g)
        BY <1>10, <2>1, <3>1, <3>4 DEF Sweep, ClosuresOf, TypeOK
      <4>2. Cardinality(ClosuresOf(g)') = Cardinality(ClosuresOf(g)) - 1
        BY <4>1, FiniteHolders, FS_RemoveElement
      <4> QED
        BY <2>3, <2>4, <3>2, <3>3, <3>4, <4>2, FiniteHolders
    <3>5. CASE g # f
      <4>1. ClosuresOf(g)' = ClosuresOf(g)
        BY <1>10, <2>1, <3>1, <3>5 DEF Sweep, ClosuresOf, TypeOK
      <4> QED
        BY <2>3, <2>4, <3>2, <3>3, <3>5, <4>1, FiniteHolders
    <3> QED
      BY <3>4, <3>5
  <2> QED
    BY <2>2, <2>5 DEF Counted
<1>11. CASE Exit
  BY <1>11, <1>f DEF Exit
<1>12. CASE ExitDone
  BY <1>12, <1>f DEF ExitDone
<1>13. CASE UNCHANGED vars
  BY <1>13 DEF vars, Counted, ScopeIsHome, ClosuresOf, NestedIn, Pending
<1>14. CASE Next
  <2>1. CASE \E c \in Closure : CallFreedScope(c)
    BY <2>1, <1>5 DEF CallFreedScope
  <2>2. CASE CurrentFreed \/ ReleaseFreed \/ CollectFreed
    BY <2>2, <1>5 DEF CurrentFreed, ReleaseFreed, CollectFreed
  <2>3. CASE Halted
    BY <2>3, <1>13 DEF Halted
  <2> QED
    BY <1>1, <1>3, <1>4, <1>6, <1>7, <1>8, <1>9, <1>10, <1>11, <1>12, <1>14,
       <2>1, <2>2, <2>3 DEF Next
<1> QED
  BY <1>13, <1>14

LEMMA CountInvInit == Init => CountInv
<1>1. Init => TypeOK
  BY FrameAssumption DEF Init, TypeOK
<1>2. Init => ScopeIsHome
  BY DEF Init, ScopeIsHome
<1>3. Init => Counted
  <2> SUFFICES ASSUME Init PROVE Counted
    OBVIOUS
  <2>1. ClosuresOf(Top) = {} /\ NestedIn(Top) = {} /\ Pending(Top) = 0
    BY FrameAssumption DEF Init, ClosuresOf, NestedIn, Pending
  <2> QED
    BY <2>1, FS_EmptySet, FrameAssumption DEF Init, Counted
<1> QED
  BY <1>1, <1>2, <1>3 DEF CountInv

LEMMA CountInvHolds == ~ Redefinition => (Spec => []CountInv)
<1> SUFFICES ASSUME ~ Redefinition PROVE Spec => []CountInv
  OBVIOUS
<1>1. Init => CountInv
  BY CountInvInit
<1>2. CountInv /\ TypeOK' /\ [Next]_vars => CountInv'
  BY CountInvStep
<1>3. Spec => []TypeOK
  BY TypeCorrect
<1> QED
  BY <1>1, <1>2, <1>3, PTL DEF Spec

\* call_frame.h: while no DEFN takes a function over, the reference count of every
\* frame is the number of its holders, whatever the collector destroys.
THEOREM ReferenceCounts == ~ Redefinition => (Spec => []Counted)
<1>1. CountInv => Counted
  BY DEF CountInv
<1> QED
  BY <1>1, CountInvHolds, PTL

\* value.c: under the same condition the scope that Value_destroy releases and that
\* Function_call retains is the frame in which that very closure was made.
THEOREM SharedScope == ~ Redefinition => (Spec => []ScopeIsHome)
<1>1. CountInv => ScopeIsHome
  BY DEF CountInv
<1> QED
  BY <1>1, CountInvHolds, PTL
-------------------------------------------------------------------------------
\* call_frame.c: under the same condition CallFrame_destroy frees a captured frame only
\* when the last closure made in it and the last frame nested in it are gone.
THEOREM FreesUnheld == ~ Redefinition => (Spec => FreedIsUnheld)
<1> SUFFICES ASSUME ~ Redefinition PROVE Spec => FreedIsUnheld
  OBVIOUS
<1> DEFINE Unheld == \A f \in live : f \notin live' => ClosuresOf(f)' = {} /\ NestedIn(f)' = {}
<1>1. ASSUME CountInv, [Next]_vars PROVE [Unheld]_vars
  <2>1. ASSUME NEW f \in live, Free(f), ClosuresOf(f) = {}, NestedIn(f) = {},
               UNCHANGED <<made, home>>
        PROVE  Unheld
    <3>1. ClosuresOf(f)' = {} /\ NestedIn(f)' = {}
      BY <1>1, <2>1 DEF CountInv, TypeOK, Free, ClosuresOf, NestedIn
    <3> QED
      BY <3>1, <2>1 DEF Free
  <2>2. CASE Ret
    <3>1. Current \in live /\ fault = "none" /\ releasing = NULL /\ Free(Current)
      BY <2>2 DEF Ret, Running
    <3>2. Pending(Current) = 0 /\ refcount[Current] <= 0
      BY <1>1, <2>2, <3>1, FrameAssumption DEF Pending, CountInv, TypeOK, Ret
    <3>3. ClosuresOf(Current) = {} /\ NestedIn(Current) = {}
      BY <1>1, <3>1, <3>2, LastHolder DEF CountInv
    <3> QED
      BY <2>1, <2>2, <3>1, <3>3 DEF Ret
  <2>3. CASE Release
    <3>1. CASE refcount[releasing] = 1
      <4>1. releasing \in live /\ fault = "none" /\ Free(releasing) /\ UNCHANGED <<made, home>>
        BY <2>3, <3>1 DEF Release
      <4>2. ClosuresOf(releasing) = {} /\ NestedIn(releasing) = {}
        BY <1>1, <3>1, <4>1, LastHolder DEF Pending, CountInv
      <4> QED
        BY <2>1, <4>1, <4>2
    <3>2. CASE refcount[releasing] # 1
      BY <2>3, <3>2 DEF Release
    <3> QED
      BY <3>1, <3>2
  <2>4. CASE Next /\ ~ Ret /\ ~ Release
    <3>1. live \subseteq live'
      BY <2>4 DEF Next, Defn, Call, PushFrame, CallFreedScope, Fail, Require, CurrentFreed,
         RetCaptured, ReleaseFreed, Collect, CollectFreed, Sweep, Exit, ExitDone, Halted, vars
    <3> QED
      BY <3>1
  <2> QED
    BY <1>1, <2>2, <2>3, <2>4
<1>2. Spec => []CountInv
  BY CountInvHolds
<1>3. FreedIsUnheld <=> [][Unheld]_vars
  BY DEF FreedIsUnheld
<1> QED
  BY <1>1, <1>2, <1>3, PTL DEF Spec
-------------------------------------------------------------------------------
(***************************************************************************)
(* No access to freed memory, when a collection destroys no closure of a   *)
(* frame that is running.                                                  *)
(***************************************************************************)
\* What makes the safety of frames inductive: no frame is on FRAMES twice, only the first has
\* no function of its own, a function that is running still has the scope it was called in,
\* and what is being collected has returned.
SafeFrames ==
    /\ \A i, j \in 1..Len(frames) : frames[i] = frames[j] => i = j
    /\ \A i \in 2..Len(frames) : code[frames[i]] # NULL
    /\ \A f \in Active : code[f] # NULL => scope[code[f]] = parent[f]
    /\ \A c \in condemned : home[c] \notin Active
    /\ phase # "running" => frames = <<>>

SafeInv == CountInv /\ NoFault /\ NoDangling /\ Anchored /\ SafeFrames

LEMMA PushActive ==
  ASSUME TypeOK, NEW g \in Frame, g \notin Active, frames' = Append(frames, g),
         \A i, j \in 1..Len(frames) : frames[i] = frames[j] => i = j
  PROVE  /\ Active' = Active \union {g}
         /\ \A i, j \in 1..Len(frames') : frames'[i] = frames'[j] => i = j
         /\ Len(frames') = Len(frames) + 1 /\ frames'[Len(frames')] = g
         /\ \A i \in 1..Len(frames) : frames'[i] = frames[i]
         /\ Len(frames) \in Nat
<1>1. /\ Len(frames') = Len(frames) + 1 /\ frames'[Len(frames')] = g
      /\ \A i \in 1..Len(frames) : frames'[i] = frames[i]
      /\ Len(frames) \in Nat
  BY DEF TypeOK
<1>2. \A i \in 1..Len(frames') : i \in 1..Len(frames) \/ i = Len(frames')
  BY <1>1
<1>3. \A i \in 1..Len(frames) : frames[i] \in Active
  BY DEF Active
<1> QED
  BY <1>1, <1>2, <1>3 DEF Active

\* What PopFrame does to a stack.
LEMMA PopSequence ==
  ASSUME NEW S, NEW s \in Seq(S), Len(s) \in Nat \ {0}
  PROVE  /\ Len(SubSeq(s, 1, Len(s) - 1)) = Len(s) - 1
         /\ \A i \in 1..(Len(s) - 1) : SubSeq(s, 1, Len(s) - 1)[i] = s[i]
<1> DEFINE n == Len(s) - 1
<1>1. n \in Nat /\ \A i \in 1..n : s[i] \in S
  OBVIOUS
<1> HIDE DEF n
<1>2. /\ Len(SubSeq(s, 1, n)) = IF 1 <= n THEN n - 1 + 1 ELSE 0
      /\ \A i \in 1..(n - 1 + 1) : SubSeq(s, 1, n)[i] = s[1 + i - 1]
  BY <1>1, SubSeqProperties
<1>3. Len(SubSeq(s, 1, n)) = n
  BY <1>1, <1>2
<1>4. ASSUME NEW i \in 1..n PROVE SubSeq(s, 1, n)[i] = s[i]
  <2>1. i \in 1..(n - 1 + 1) /\ 1 + i - 1 = i
    BY <1>1
  <2>2. SubSeq(s, 1, n)[i] = s[1 + i - 1]
    BY <1>2, <2>1
  <2> QED
    BY <2>1, <2>2
<1> QED
  BY <1>3, <1>4 DEF n

LEMMA PopActive ==
  ASSUME TypeOK, frames # <<>>, PopFrame,
         \A i, j \in 1..Len(frames) : frames[i] = frames[j] => i = j
  PROVE  /\ Active' = Active \ {Current}
         /\ \A i, j \in 1..Len(frames') : frames'[i] = frames'[j] => i = j
         /\ Len(frames') = Len(frames) - 1
         /\ \A i \in 1..Len(frames') : frames'[i] = frames[i]
         /\ Current \in Active /\ Len(frames) \in Nat \ {0}
<1>1. /\ Len(frames) \in Nat \ {0} /\ Len(frames') = Len(frames) - 1
      /\ \A i \in 1..Len(frames') : frames'[i] = frames[i]
  <2>1. frames \in Seq(Frame)
    BY DEF TypeOK
  <2>2. Len(frames) \in Nat \ {0}
    BY <2>1
  <2>3. frames' = SubSeq(frames, 1, Len(frames) - 1)
    BY DEF PopFrame
  <2>4. Len(frames') = Len(frames) - 1 /\ \A i \in 1..(Len(frames) - 1) : frames'[i] = frames[i]
    BY <2>1, <2>2, <2>3, PopSequence
  <2> QED
    BY <2>2, <2>4
<1>2. \A i \in 1..Len(frames) : i \in 1..Len(frames') \/ i = Len(frames)
  BY <1>1
<1>3. \A i \in 1..Len(frames') : i \in 1..Len(frames) /\ i # Len(frames)
  BY <1>1
<1>4. Len(frames) \in 1..Len(frames)
  BY <1>1
<1>5. Active' \subseteq Active \ {Current}
  <2> SUFFICES ASSUME NEW f \in Active' PROVE f \in Active /\ f # Current
    OBVIOUS
  <2>1. PICK i \in 1..Len(frames') : f = frames'[i]
    BY DEF Active
  <2>2. f = frames[i] /\ i \in 1..Len(frames) /\ i # Len(frames)
    BY <1>1, <1>3, <2>1
  <2> QED
    BY <1>4, <2>2 DEF Active, Current
<1>6. Active \ {Current} \subseteq Active'
  <2> SUFFICES ASSUME NEW f \in Active, f # Current PROVE f \in Active'
    OBVIOUS
  <2>1. PICK i \in 1..Len(frames) : f = frames[i]
    BY DEF Active
  <2>2. i \in 1..Len(frames')
    BY <1>2, <2>1 DEF Current
  <2> QED
    BY <1>1, <2>1, <2>2 DEF Active
<1>7. \A i, j \in 1..Len(frames') : frames'[i] = frames'[j] => i = j
  BY <1>1, <1>3
<1>8. Current \in Active
  BY <1>4 DEF Active, Current
<1> QED
  BY <1>1, <1>5, <1>6, <1>7, <1>8

\* Freeing a frame that is not on FRAMES and that nobody holds leaves no pointer to it.
LEMMA FreeKeepsSafe ==
  ASSUME SafeInv, CountInv', NEW f \in live, Free(f), ClosuresOf(f) = {}, NestedIn(f) = {},
         Active' \subseteq Active, f \notin Active', frames' = frames \/ condemned = {},
         UNCHANGED <<scope, made, home, condemned>>
  PROVE  /\ NoDangling' /\ Anchored'
         /\ \A g \in Active' : code'[g] = code[g] /\ parent'[g] = parent[g]
<1> USE DEF SafeInv, CountInv, TypeOK
<1>1. \A g \in live : g # f => parent[g] # f
  BY DEF NestedIn
<1>2. \A c \in Closure : made[c] # NULL => scope[made[c]] # f
  BY DEF ScopeIsHome, ClosuresOf
<1>3. parent[f] # f /\ parent[f] \in live \union {NULL}
  BY DEF NestedIn, NoDangling
<1>4. \A g : ClosuresOf(g)' = ClosuresOf(g)
  BY DEF ClosuresOf
<1>5. NoDangling'
  BY <1>1, <1>2, <1>3 DEF Free, NoDangling
<1>6. Anchored'
  BY <1>4 DEF Free, NoDangling, Anchored
<1>7. \A g \in Active' : code'[g] = code[g] /\ parent'[g] = parent[g]
  BY DEF Free, NoDangling
<1> QED
  BY <1>5, <1>6, <1>7

LEMMA SafeInvStep ==
  ASSUME ~ Redefinition, ~ Requires, Collection # "any", SafeInv, [Next]_vars, CountInv'
  PROVE  SafeInv'
<1> USE DEF SafeInv
<1>0. TypeOK /\ TypeOK' /\ fault = "none"
  BY DEF CountInv, NoFault
<1>a. Running => Current \in Active
  BY <1>0 DEF Running, TypeOK, Current, Active
<1>1. ASSUME NEW F \in Function, NEW c \in Closure, Defn(F, c) PROVE SafeInv'
  <2>1. UNCHANGED <<frames, live, parent, code, releasing, condemned, phase, fault>>
        /\ Current \in live /\ condemned = {} /\ made[c] = NULL /\ Current \in Frame
        /\ made' = [made EXCEPT ![c] = F] /\ home' = [home EXCEPT ![c] = Current]
        /\ scope' = [scope EXCEPT ![F] = Current]
        /\ refcount' = [refcount EXCEPT ![Current] = @ + 1]
    BY <1>1, <1>0 DEF Defn, Running, TypeOK
  <2>2. Active' = Active
    BY <2>1 DEF Active
  <2>3. NoDangling'
    <3>1. ASSUME NEW d \in Closure, made'[d] # NULL PROVE scope'[made'[d]] \in live'
      BY <1>0, <2>1, <3>1 DEF NoDangling, TypeOK
    <3> QED
      BY <2>1, <2>2, <3>1 DEF NoDangling
  <2>4. Anchored'
    <3> SUFFICES ASSUME NEW f \in Active \intersect live, refcount'[f] > 0
                 PROVE  ClosuresOf(f)' # {}
      BY <2>1, <2>2 DEF Anchored
    <3>1. CASE f = Current
      <4>1. made'[c] # NULL /\ home'[c] = f
        BY <2>1, <1>0, <3>1, FunctionAssumption DEF TypeOK
      <4> QED
        BY <4>1 DEF ClosuresOf
    <3>2. CASE f # Current
      <4>1. refcount'[f] = refcount[f]
        BY <2>1, <1>0, <3>2 DEF TypeOK
      <4>2. PICK d \in Closure : made[d] # NULL /\ home[d] = f
        BY <3>2, <4>1 DEF Anchored, ClosuresOf
      <4>3. made'[d] # NULL /\ home'[d] = f
        BY <2>1, <1>0, <4>2 DEF TypeOK
      <4> QED
        BY <4>3 DEF ClosuresOf
    <3> QED
      BY <3>1, <3>2
  <2>5. \A f \in Active : code[f] = F => parent[f] = Current
    BY <1>1 DEF Defn, BelongsHere
  <2>6. SafeFrames'
    BY <2>1, <2>2, <2>5, <1>0 DEF SafeFrames, TypeOK, NoDangling
  <2> QED
    BY <2>1, <2>3, <2>4, <2>6 DEF NoFault
<1>2. ASSUME NEW c \in Closure, NEW g \in Frame, Call(c, g) PROVE SafeInv'
  <2> DEFINE F == made[c]
  <2> DEFINE p == scope[made[c]]
  <2>1. /\ UNCHANGED <<scope, made, home, releasing, condemned, phase, fault>>
        /\ condemned = {} /\ phase = "running" /\ F \in Function /\ p \in live /\ p # g
        /\ g \notin live /\ g \notin Active /\ p \in Frame /\ F # NULL
        /\ \A h \in live : parent[h] # g
        /\ \A d \in Closure : home[d] # g
        /\ frames' = Append(frames, g) /\ live' = live \union {g}
        /\ parent' = [parent EXCEPT ![g] = p] /\ code' = [code EXCEPT ![g] = F]
        /\ refcount' = [refcount EXCEPT ![g] = 0, ![p] = @ + 1]
    BY <1>2, <1>0 DEF Call, Running, PushFrame, Fresh, TypeOK
  <2>2. Active' = Active \union {g}
    BY <2>1, <1>0, PushActive DEF SafeFrames
  <2>3. NoDangling'
    BY <2>1, <2>2, <1>0 DEF NoDangling, TypeOK
  <2>4. Anchored'
    <3> SUFFICES ASSUME NEW f \in Active' \intersect live', refcount'[f] > 0
                 PROVE  ClosuresOf(f)' # {}
      BY DEF Anchored
    <3>1. f # g /\ f \in Active \intersect live
      BY <2>1, <2>2, <1>0 DEF TypeOK
    <3>2. CASE f = p
      BY <2>1, <3>2, <1>0 DEF ClosuresOf, CountInv, ScopeIsHome
    <3>3. CASE f # p
      <4>1. refcount'[f] = refcount[f]
        BY <2>1, <3>1, <3>3, <1>0 DEF TypeOK
      <4> QED
        BY <2>1, <3>1, <4>1 DEF Anchored, ClosuresOf
    <3> QED
      BY <3>2, <3>3
  <2>5. SafeFrames'
    <3>1. /\ \A i, j \in 1..Len(frames') : frames'[i] = frames'[j] => i = j
          /\ Len(frames') = Len(frames) + 1 /\ frames'[Len(frames')] = g
          /\ \A i \in 1..Len(frames) : frames'[i] = frames[i]
          /\ Len(frames) \in Nat
      BY <2>1, <1>0, PushActive DEF SafeFrames
    <3>2. ASSUME NEW i \in 2..Len(frames') PROVE code'[frames'[i]] # NULL
      <4>1. CASE i = Len(frames')
        BY <2>1, <3>1, <4>1, <1>0 DEF TypeOK
      <4>2. CASE i # Len(frames')
        <5>1. i \in 2..Len(frames) /\ i \in 1..Len(frames) /\ frames'[i] = frames[i]
          BY <3>1, <4>2
        <5>2. frames[i] \in Active /\ frames[i] # g
          BY <5>1, <2>1 DEF Active
        <5> QED
          BY <2>1, <5>1, <5>2, <1>0 DEF TypeOK, SafeFrames
      <4> QED
        BY <4>1, <4>2
    <3>3. \A f \in Active' : code'[f] # NULL => scope'[code'[f]] = parent'[f]
      BY <2>1, <2>2, <1>0 DEF SafeFrames, TypeOK, NoDangling
    <3> QED
      BY <2>1, <3>1, <3>2, <3>3 DEF SafeFrames
  <2> QED
    BY <2>1, <2>3, <2>4, <2>5 DEF NoFault
<1>3. ~ \E c \in Closure : CallFreedScope(c)
  BY DEF CallFreedScope, NoDangling
<1>4. ~ \E g \in Frame : Require(g)
  BY DEF Require
<1>5. ~ CurrentFreed
  BY <1>a DEF CurrentFreed, NoDangling
<1>6. CASE RetCaptured
  <2>1. /\ UNCHANGED <<live, refcount, parent, code, scope, made, home, releasing,
                        condemned, phase, fault>>
        /\ PopFrame /\ frames # <<>> /\ phase = "running"
    BY <1>6 DEF RetCaptured, Running
  <2>2. /\ Active' = Active \ {Current}
        /\ \A i, j \in 1..Len(frames') : frames'[i] = frames'[j] => i = j
        /\ Len(frames') = Len(frames) - 1 /\ Len(frames) \in Nat \ {0}
        /\ \A i \in 1..Len(frames') : frames'[i] = frames[i]
    BY <2>1, <1>0, PopActive DEF SafeFrames
  <2>3. SafeFrames'
    <3>1. \A i \in 2..Len(frames') : i \in 2..Len(frames) /\ frames'[i] = frames[i]
      BY <2>2
    <3> QED
      BY <2>1, <2>2, <3>1 DEF SafeFrames
  <2> QED
    BY <2>1, <2>2, <2>3 DEF NoDangling, Anchored, NoFault, ClosuresOf
<1>7. CASE Ret
  <2>1. /\ UNCHANGED <<scope, made, home, condemned, phase>>
        /\ PopFrame /\ frames # <<>> /\ phase = "running" /\ condemned = {}
        /\ Current \in live /\ Free(Current) /\ releasing = NULL
        /\ refcount[Current] <= 0
    BY <1>7 DEF Ret, Running
  <2>2. /\ Active' = Active \ {Current}
        /\ \A i, j \in 1..Len(frames') : frames'[i] = frames'[j] => i = j
        /\ Len(frames') = Len(frames) - 1 /\ Len(frames) \in Nat \ {0}
        /\ \A i \in 1..Len(frames') : frames'[i] = frames[i]
    BY <2>1, <1>0, PopActive DEF SafeFrames
  <2>3. Pending(Current) = 0
    BY <2>1, <1>0, FrameAssumption DEF Pending, TypeOK
  <2>4. ClosuresOf(Current) = {} /\ NestedIn(Current) = {}
    BY <2>1, <2>3, <1>0, LastHolder DEF CountInv
  <2>5. /\ NoDangling' /\ Anchored'
        /\ \A g \in Active' : code'[g] = code[g] /\ parent'[g] = parent[g]
    BY <2>1, <2>2, <2>4, FreeKeepsSafe
  <2>6. ~ Required(Current)
    <3>1. Len(frames) = 1 \/ Len(frames) \in 2..Len(frames)
      BY <2>2
    <3> QED
      BY <3>1 DEF SafeFrames, Required, Current
  <2>7. NoFault'
    BY <1>7, <2>6 DEF Ret, NoFault
  <2>8. SafeFrames'
    <3>1. \A i \in 2..Len(frames') : /\ i \in 2..Len(frames) /\ frames'[i] = frames[i]
                                     /\ frames'[i] \in Active'
      BY <2>2 DEF Active
    <3>2. Active' \subseteq Active
      BY <2>2
    <3> QED
      BY <2>1, <2>2, <2>5, <3>1, <3>2 DEF SafeFrames
  <2> QED
    BY <2>5, <2>7, <2>8
<1>8. CASE Release
  <2>1. /\ UNCHANGED <<frames, scope, made, home, condemned, phase, fault>>
        /\ releasing \in live
    BY <1>8 DEF Release
  <2>2. Active' = Active /\ \A g : ClosuresOf(g)' = ClosuresOf(g)
    BY <2>1 DEF Active, ClosuresOf
  <2>3. CASE refcount[releasing] = 1
    <3>1. Free(releasing)
      BY <1>8, <2>3 DEF Release
    <3>2. ClosuresOf(releasing) = {} /\ NestedIn(releasing) = {}
      BY <2>1, <2>3, <1>0, LastHolder DEF Pending, CountInv
    <3>3. releasing \notin Active
      BY <2>1, <2>3, <3>2 DEF Anchored
    <3>4. /\ NoDangling' /\ Anchored'
          /\ \A g \in Active' : code'[g] = code[g] /\ parent'[g] = parent[g]
      BY <2>1, <2>2, <3>1, <3>2, <3>3, FreeKeepsSafe
    <3>5. SafeFrames'
      <4>1. \A i \in 2..Len(frames) : frames[i] \in Active
        BY DEF Active
      <4> QED
        BY <2>1, <2>2, <3>4, <4>1 DEF SafeFrames
    <3> QED
      BY <2>1, <3>4, <3>5 DEF NoFault
  <2>4. CASE refcount[releasing] # 1
    <3>1. /\ refcount' = [refcount EXCEPT ![releasing] = @ - 1]
          /\ releasing' = NULL
          /\ UNCHANGED <<live, parent, code>>
      BY <1>8, <2>4 DEF Release
    <3>2. Anchored'
      <4> SUFFICES ASSUME NEW f \in Active \intersect live, refcount'[f] > 0
                   PROVE  ClosuresOf(f) # {}
        BY <2>2, <3>1 DEF Anchored
      <4>1. refcount[f] > 0
        BY <1>0, <3>1 DEF TypeOK
      <4> QED
        BY <4>1 DEF Anchored
    <3>3. NoDangling' /\ SafeFrames'
      BY <2>1, <2>2, <3>1 DEF NoDangling, SafeFrames
    <3> QED
      BY <2>1, <3>2, <3>3 DEF NoFault
  <2> QED
    BY <2>3, <2>4
<1>9. ~ ReleaseFreed
  BY DEF ReleaseFreed, NoDangling
<1>10. ASSUME NEW S \in SUBSET Closure, Collect(S) PROVE SafeInv'
  <2>1. /\ UNCHANGED <<frames, live, refcount, parent, code, scope, made, home,
                        releasing, phase, fault>>
        /\ condemned' = S /\ \A c \in S : home[c] \notin Active
    BY <1>10, EnvironmentAssumption DEF Collect, Collectable
  <2>2. Active' = Active /\ \A g : ClosuresOf(g)' = ClosuresOf(g)
    BY <2>1 DEF Active, ClosuresOf
  <2> QED
    BY <2>1, <2>2 DEF NoFault, NoDangling, Anchored, SafeFrames
<1>11. ~ CollectFreed
  <2>1. ~ RootsFreed
    BY DEF RootsFreed, NoDangling, SafeFrames
  <2> QED
    BY <2>1 DEF CollectFreed
<1>12. ASSUME NEW c \in Closure, Sweep(c) PROVE SafeInv'
  <2>1. /\ UNCHANGED <<frames, live, refcount, parent, code, scope, phase, fault>>
        /\ c \in condemned /\ condemned' = condemned \ {c}
        /\ made[c] # NULL /\ releasing' = scope[made[c]]
        /\ made' = [made EXCEPT ![c] = NULL] /\ home' = [home EXCEPT ![c] = NULL]
    BY <1>12, <1>0 DEF Sweep, TypeOK
  <2>2. Active' = Active /\ home[c] \notin Active
    BY <2>1 DEF Active, SafeFrames
  <2>3. NoDangling'
    BY <2>1, <2>2, <1>0 DEF NoDangling, TypeOK
  <2>4. Anchored'
    <3> SUFFICES ASSUME NEW f \in Active \intersect live, refcount[f] > 0
                 PROVE  ClosuresOf(f)' # {}
      BY <2>1, <2>2 DEF Anchored
    <3>1. PICK d \in Closure : made[d] # NULL /\ home[d] = f
      BY DEF Anchored, ClosuresOf
    <3>2. d # c
      BY <2>2, <3>1
    <3>3. made'[d] # NULL /\ home'[d] = f
      BY <2>1, <3>1, <3>2, <1>0 DEF TypeOK
    <3> QED
      BY <3>3 DEF ClosuresOf
  <2>5. SafeFrames'
    <3>1. \A d \in condemned' : home'[d] = home[d]
      BY <2>1, <1>0 DEF TypeOK
    <3> QED
      BY <2>1, <2>2, <3>1 DEF SafeFrames
  <2> QED
    BY <2>1, <2>3, <2>4, <2>5 DEF NoFault
<1>13. CASE Exit
  <2>1. /\ UNCHANGED <<frames, live, refcount, parent, code, scope, made, home,
                        releasing, fault>>
        /\ frames = <<>>
    BY <1>13 DEF Exit
  <2>2. Active = {} /\ Active' = {} /\ \A g : ClosuresOf(g)' = ClosuresOf(g)
    BY <2>1 DEF Active, ClosuresOf
  <2> QED
    BY <2>1, <2>2 DEF NoFault, NoDangling, Anchored, SafeFrames
<1>14. ASSUME UNCHANGED <<frames, live, refcount, parent, code, scope, made, home,
                           releasing, condemned, fault>>, phase' = phase \/ ExitDone
       PROVE  SafeInv'
  <2>1. Active' = Active /\ \A g : ClosuresOf(g)' = ClosuresOf(g)
    BY <1>14 DEF Active, ClosuresOf
  <2>2. phase' # "running" => frames = <<>>
    BY <1>14 DEF ExitDone, SafeFrames
  <2> QED
    BY <1>14, <2>1, <2>2 DEF NoFault, NoDangling, Anchored, SafeFrames
<1>15. CASE ExitDone
  BY <1>14, <1>15 DEF ExitDone
<1>16. CASE UNCHANGED vars \/ Halted
  BY <1>14, <1>16 DEF vars, Halted
<1> QED
  BY <1>1, <1>2, <1>3, <1>4, <1>5, <1>6, <1>7, <1>8, <1>9, <1>10, <1>11, <1>12, <1>13,
     <1>15, <1>16 DEF Next

LEMMA SafeInvInit == Init => SafeInv
<1> SUFFICES ASSUME Init PROVE CountInv /\ NoFault /\ NoDangling /\ Anchored /\ SafeFrames
  BY DEF SafeInv
<1>1. Len(frames) = 1 /\ frames[1] = Top /\ Active = {Top}
  BY DEF Init, Active
<1>2. CountInv
  BY CountInvInit
<1> QED
  BY <1>1, <1>2, FrameAssumption DEF Init, NoFault, NoDangling, Anchored, SafeFrames

LEMMA SafeInvNext ==
  ~ Redefinition /\ ~ Requires /\ Collection # "any" => (SafeInv /\ [Next]_vars => SafeInv')
<1> SUFFICES ASSUME ~ Redefinition, ~ Requires, Collection # "any", SafeInv, [Next]_vars
             PROVE  SafeInv'
  OBVIOUS
<1>1. TypeOK'
  BY TypeStep DEF SafeInv, CountInv
<1>2. CountInv'
  BY <1>1, CountInvStep DEF SafeInv
<1> QED
  BY <1>2, SafeInvStep

LEMMA SafeInvHolds ==
  ~ Redefinition /\ ~ Requires /\ Collection # "any" => (Spec => []SafeInv)
<1> SUFFICES ASSUME ~ Redefinition, ~ Requires, Collection # "any"
             PROVE  Spec => []SafeInv
  OBVIOUS
<1>1. SafeInv /\ [Next]_vars => SafeInv'
  BY SafeInvNext
<1> QED
  BY <1>1, SafeInvInit, PTL DEF Spec

\* The hazards of call_frame.c, function.c, value.c and gc.c that this module is about
\* do not come true as long as no DEFN takes a function over, no file is required, and
\* collections spare the closures of running frames: memory is never accessed after it
\* was freed, whatever the program does, and no return of a nested frame or release that a
\* collection starts frees a frame to which a call has still to return.
THEOREM FramesSafe ==
  ~ Redefinition /\ ~ Requires /\ Collection # "any" =>
    (Spec => [](NoFault /\ NoDangling /\ Anchored))
<1>1. SafeInv => NoFault /\ NoDangling /\ Anchored
  BY DEF SafeInv
<1> QED
  BY <1>1, SafeInvHolds, PTL
------------------------------------------------------------------------------
(***************************************************************************)
(* More of call frames, for every number of frames, closures and functions *)
(* and in more environments than FramesSafe: what is captured is counted,  *)
(* nothing is left when the process ends, and the counts implement the     *)
(* lifetimes of Lifetimes.                                                 *)
(***************************************************************************)

\* What may still be released has been retained: the scope of a function, the parent of a
\* frame, what is about to be released, and a frame that has returned.
Captured ==
    /\ \A f \in live : refcount[f] >= 0
    /\ \A F \in Function : scope[F] \in live => refcount[scope[F]] >= 1
    /\ \A g \in live : parent[g] \in live => refcount[parent[g]] >= 1
    /\ releasing \in live => refcount[releasing] >= 1
    /\ \A f \in live : f \notin Active => refcount[f] >= 1

\* State_destroy is called when FRAMES is empty, and condemns every closure.
Exiting ==
    /\ phase # "running" => frames = << >> /\ {c \in Closure : made[c] # NULL} \subseteq condemned
    /\ phase = "done" => condemned = {} /\ releasing = NULL /\ fault = "none"

\* A cell that holds no closure belongs to no frame.
Homeless == \A c \in Closure : made[c] = NULL => home[c] = NULL

EnvInv == TypeOK /\ Captured /\ Exiting /\ Homeless
------------------------------------------------------------------------------
LEMMA PushKeeps ==
  ASSUME TypeOK, NEW g, frames' = Append(frames, g)
  PROVE  Active' = Active \union {g}
<1>1. /\ Len(frames') = Len(frames) + 1 /\ frames'[Len(frames')] = g
      /\ \A i \in 1..Len(frames) : frames'[i] = frames[i]
      /\ Len(frames) \in Nat
  BY DEF TypeOK
<1>2. \A i \in 1..Len(frames') : i \in 1..Len(frames) \/ i = Len(frames')
  BY <1>1
<1>3. \A i \in 1..Len(frames) : i \in 1..Len(frames')
  BY <1>1
<1>4. Len(frames') \in 1..Len(frames')
  BY <1>1
<1> QED BY <1>1, <1>2, <1>3, <1>4 DEF Active

LEMMA PopLeaves ==
  ASSUME TypeOK, frames # << >>, PopFrame
  PROVE  Active \ {Current} \subseteq Active'
<1>1. Len(frames) \in Nat \ {0}
  BY DEF TypeOK
<1>2. Len(frames') = Len(frames) - 1 /\ \A i \in 1..(Len(frames) - 1) : frames'[i] = frames[i]
  BY <1>1, PopSequence DEF PopFrame, TypeOK
<1>3. \A i \in 1..Len(frames) : i = Len(frames) \/ i \in 1..Len(frames')
  BY <1>1, <1>2
<1>4. \A i \in 1..Len(frames') : frames'[i] = frames[i]
  BY <1>1, <1>2
<1> QED BY <1>3, <1>4 DEF Active, Current

\* Neither Ret nor Release frees a frame that somebody may still release.
LEMMA FreeKeepsCaptured ==
  ASSUME TypeOK, Captured, NEW f \in live, Free(f), Active \ {f} \subseteq Active', UNCHANGED scope
  PROVE  Captured'
<1>1. /\ live' = live \ {f} /\ releasing' = parent[f]
      /\ \A g \in live' : g \in live /\ refcount'[g] = refcount[g] /\ parent'[g] = parent[g]
  BY DEF Free, TypeOK
<1>2. \A g \in live' : g \notin Active' => g \notin Active
  BY <1>1
<1> QED BY <1>1, <1>2 DEF Captured

LEMMA PushKeepsCaptured ==
  ASSUME TypeOK, Captured, NEW g \in Frame, NEW F, NEW p \in live \union {NULL},
         PushFrame(g, F, p), UNCHANGED <<scope, releasing>>,
         refcount' = IF p = NULL THEN [refcount EXCEPT ![g] = 0]
                     ELSE [refcount EXCEPT ![g] = 0, ![p] = @ + 1]
  PROVE  Captured'
<1>1. /\ Active' = Active \union {g} /\ live' = live \union {g} /\ g \notin live /\ p # g
      /\ g # releasing /\ \A h \in live : parent[h] # g
      /\ \A G \in Function : scope[G] # g
  BY PushKeeps, FrameAssumption DEF PushFrame, Fresh
<1>2. /\ parent'[g] = p /\ refcount'[g] = 0
      /\ \A h \in live : parent'[h] = parent[h]
      /\ \A h \in live : refcount'[h] = IF h = p THEN refcount[h] + 1 ELSE refcount[h]
  BY <1>1, FrameAssumption DEF PushFrame, TypeOK
<1>3. \A h \in live : /\ refcount[h] >= 0 => refcount'[h] >= 0
                      /\ refcount[h] >= 1 => refcount'[h] >= 1
  BY <1>2 DEF TypeOK
<1>4. p \in live => refcount'[p] >= 1
  BY <1>2 DEF Captured, TypeOK
<1>5. p # NULL => p \in live
  OBVIOUS
<1>6. \A f \in live' : refcount'[f] >= 0 /\ (f \notin Active' => refcount'[f] >= 1)
  <2>1. \A f \in live : refcount'[f] >= 0 /\ (f \notin Active => refcount'[f] >= 1)
    BY <1>3 DEF Captured
  <2>2. refcount'[g] >= 0 /\ g \in Active'
    BY <1>1, <1>2
  <2> QED BY <1>1, <2>1, <2>2
<1>7. \A G \in Function : scope'[G] \in live' => refcount'[scope'[G]] >= 1
  BY <1>1, <1>3 DEF Captured
<1>8. \A h \in live' : parent'[h] \in live' => refcount'[parent'[h]] >= 1
  <2> SUFFICES ASSUME NEW h \in live', parent'[h] \in live' PROVE refcount'[parent'[h]] >= 1
    OBVIOUS
  <2>1. CASE h = g
    BY <1>1, <1>2, <1>4, <2>1
  <2>2. CASE h # g
    BY <1>1, <1>2, <1>3, <2>2 DEF Captured
  <2> QED BY <2>1, <2>2
<1>9. releasing' \in live' => refcount'[releasing'] >= 1
  BY <1>1, <1>3 DEF Captured
<1> QED BY <1>6, <1>7, <1>8, <1>9 DEF Captured

LEMMA CapturedStep ==
  ASSUME TypeOK, Captured, [Next]_vars
  PROVE  Captured'
<1>u. ASSUME UNCHANGED <<frames, live, refcount, parent, scope, releasing>> PROVE Captured'
  BY <1>u DEF Captured, Active
<1>1. ASSUME NEW F \in Function, NEW c \in Closure, Defn(F, c) PROVE Captured'
  <2>1. /\ Current \in live /\ UNCHANGED <<frames, live, parent, releasing>>
        /\ scope' = [scope EXCEPT ![F] = Current]
        /\ refcount' = [refcount EXCEPT ![Current] = @ + 1]
    BY <1>1 DEF Defn
  <2>2. \A f \in live : /\ refcount[f] \in Int
                        /\ refcount'[f] = IF f = Current THEN refcount[f] + 1 ELSE refcount[f]
    BY <2>1 DEF TypeOK
  <2>3. \A G \in Function : scope'[G] = IF G = F THEN Current ELSE scope[G]
    BY <2>1 DEF TypeOK
  <2>4. Active' = Active
    BY <2>1 DEF Active
  <2> QED BY <2>1, <2>2, <2>3, <2>4 DEF Captured
<1>2. ASSUME NEW c \in Closure, NEW g \in Frame, Call(c, g) PROVE Captured'
  <2>1. scope[made[c]] \in live /\ scope[made[c]] # NULL
    BY <1>2, FrameAssumption DEF Call, TypeOK
  <2> QED BY <1>2, <2>1, PushKeepsCaptured DEF Call
<1>3. ASSUME NEW g \in Frame, Require(g) PROVE Captured'
  BY <1>3, PushKeepsCaptured DEF Require
<1>4. CASE RetCaptured
  <2>1. /\ frames # << >> /\ PopFrame /\ Current \in live /\ refcount[Current] > 0
        /\ UNCHANGED <<live, refcount, parent, scope, releasing>>
    BY <1>4 DEF RetCaptured, Running
  <2>2. Active \ {Current} \subseteq Active'
    BY <2>1, PopLeaves
  <2>3. refcount[Current] >= 1
    BY <2>1 DEF TypeOK
  <2> QED BY <2>1, <2>2, <2>3 DEF Captured
<1>5. CASE Ret
  <2>1. frames # << >> /\ PopFrame /\ Current \in live /\ Free(Current) /\ UNCHANGED scope
    BY <1>5 DEF Ret, Running
  <2> QED BY <2>1, PopLeaves, FreeKeepsCaptured
<1>6. CASE Release
  <2>1. releasing \in live /\ UNCHANGED <<frames, scope>> /\ Active' = Active
    BY <1>6 DEF Release, Active
  <2>2. CASE refcount[releasing] = 1
    BY <1>6, <2>1, <2>2, FreeKeepsCaptured DEF Release
  <2>3. CASE refcount[releasing] # 1
    <3>1. /\ refcount' = [refcount EXCEPT ![releasing] = @ - 1]
          /\ releasing' = NULL /\ UNCHANGED <<live, parent>>
      BY <1>6, <2>3 DEF Release
    <3>2. refcount[releasing] \in Int /\ refcount[releasing] >= 2
      BY <2>1, <2>3 DEF Captured, TypeOK
    <3>3. \A f \in live : refcount'[f] = IF f = releasing THEN refcount[f] - 1 ELSE refcount[f]
      BY <3>1 DEF TypeOK
    <3>4. \A f \in live : /\ refcount[f] >= 0 => refcount'[f] >= 0
                          /\ refcount[f] >= 1 => refcount'[f] >= 1
      BY <2>1, <3>2, <3>3
    <3>5. NULL \notin live
      BY FrameAssumption DEF TypeOK
    <3> QED BY <2>1, <3>1, <3>4, <3>5 DEF Captured
  <2> QED BY <2>2, <2>3
<1>7. ASSUME NEW c \in Closure, Sweep(c) PROVE Captured'
  <2>1. made[c] \in Function /\ releasing' = scope[made[c]]
        /\ UNCHANGED <<frames, live, refcount, parent, scope>>
    BY <1>7 DEF Sweep, TypeOK
  <2> QED BY <2>1 DEF Captured, Active
<1>8. ASSUME NEW w, Fail(w) PROVE Captured'
  BY <1>8, <1>u DEF Fail
<1>9. CASE Next /\ ~ Ret
  <2>1. CASE (\E c \in Closure : CallFreedScope(c)) \/ CurrentFreed \/ ReleaseFreed \/ CollectFreed
    BY <2>1, <1>8 DEF CallFreedScope, CurrentFreed, ReleaseFreed, CollectFreed
  <2>2. CASE (\E S \in SUBSET Closure : Collect(S)) \/ Exit \/ ExitDone \/ Halted
    BY <2>2, <1>u DEF Collect, Exit, ExitDone, Halted, vars
  <2> QED BY <1>9, <1>1, <1>2, <1>3, <1>4, <1>6, <1>7, <2>1, <2>2 DEF Next
<1> QED BY <1>5, <1>9, <1>u DEF vars

LEMMA ExitingStep ==
  ASSUME TypeOK, Exiting, Homeless, [Next]_vars
  PROVE  Exiting' /\ Homeless'
<1> USE DEF Exiting, Homeless
<1>1. CASE \/ \E F \in Function, c \in Closure : Defn(F, c)
           \/ \E c \in Closure, g \in Frame : Call(c, g)
           \/ \E g \in Frame : Require(g)
           \/ RetCaptured \/ Ret
  <2>1. phase = "running" /\ phase' = "running"
    BY <1>1 DEF Defn, Call, Require, RetCaptured, Ret, Running
  <2>2. Homeless'
    BY <1>1, FunctionAssumption DEF Defn, Call, Require, RetCaptured, Ret, TypeOK
  <2> QED BY <2>1, <2>2
<1>2. CASE Release
  BY <1>2, FrameAssumption DEF Release, Free, TypeOK
<1>3. ASSUME NEW w, Fail(w), fault = "none", releasing # NULL \/ phase = "running" PROVE Exiting' /\ Homeless'
  BY <1>3 DEF Fail
<1>4. CASE (\E c \in Closure : CallFreedScope(c)) \/ CurrentFreed \/ ReleaseFreed \/ CollectFreed
  BY <1>4, <1>3 DEF CallFreedScope, CurrentFreed, ReleaseFreed, CollectFreed, Running
<1>5. CASE \E S \in SUBSET Closure : Collect(S)
  BY <1>5 DEF Collect, Running
<1>6. ASSUME NEW c \in Closure, Sweep(c) PROVE Exiting' /\ Homeless'
  BY <1>6 DEF Sweep, TypeOK
<1>7. CASE Exit
  BY <1>7 DEF Exit
<1>8. CASE ExitDone
  BY <1>8 DEF ExitDone
<1>9. CASE Halted \/ UNCHANGED vars
  BY <1>9 DEF Halted, vars
<1> QED BY <1>1, <1>2, <1>4, <1>5, <1>6, <1>7, <1>8, <1>9 DEF Next

LEMMA EnvInvHolds == Spec => []EnvInv
<1>1. Init => Captured /\ Exiting /\ Homeless
  <2> SUFFICES ASSUME Init PROVE Captured /\ Exiting /\ Homeless
    OBVIOUS
  <2>1. Active = {Top}
    BY DEF Init, Active
  <2> QED BY <2>1, FrameAssumption DEF Init, Captured, Exiting, Homeless
<1>2. TypeOK /\ Captured /\ Exiting /\ Homeless /\ [Next]_vars => Captured' /\ Exiting' /\ Homeless'
  BY CapturedStep, ExitingStep
<1> QED BY <1>1, <1>2, TypeCorrect, PTL DEF Spec, EnvInv

\* fn->scope, in every environment: a frame that a function still has as its scope, and that
\* was not freed, is counted.
THEOREM ScopesAreCounted == Spec => []ScopeCounted
<1>1. EnvInv => ScopeCounted
  BY DEF EnvInv, Captured, ScopeCounted
<1> QED BY <1>1, EnvInvHolds, PTL

\* README, PUSHLOCALDEPTH: while no DEFN takes a function over, the frame of a call is
\* nested in the frame in which the closure that is called was made.
THEOREM NestedWhereMade == ~ Redefinition => (Spec => LexicalScope)
<1> SUFFICES ASSUME ~ Redefinition PROVE Spec => LexicalScope
  OBVIOUS
<1>1. CountInv /\ [Next]_vars =>
        [\A c \in Closure, g \in Frame : Call(c, g) => parent'[g] = home[c]]_vars
  BY DEF CountInv, TypeOK, ScopeIsHome, Call, PushFrame
<1> QED BY <1>1, CountInvHolds, PTL DEF Spec, LexicalScope
------------------------------------------------------------------------------
(***************************************************************************)
(* NoLeak.  Parents have no cycle: a new frame is given rank 0, below that *)
(* of its parent, and every other frame moves up.  When the process ends   *)
(* a frame of least rank would have no holder.                             *)
(***************************************************************************)
Ranks(rank) ==
    /\ rank \in [Frame -> Nat]
    /\ \A g \in live : parent[g] # NULL => rank[g] < rank[parent[g]]

Acyclic == \E rank : Ranks(rank)

LEMMA PushKeepsAcyclic ==
  ASSUME TypeOK, Acyclic, NEW g \in Frame, NEW F, NEW p \in live \union {NULL}, PushFrame(g, F, p)
  PROVE  Acyclic'
<1>1. PICK rank : Ranks(rank)
  BY DEF Acyclic
<1> DEFINE next == [f \in Frame |-> IF f = g THEN 0 ELSE rank[f] + 1]
<1>2. /\ live' = live \union {g} /\ g \notin live /\ p # g
      /\ parent'[g] = p /\ \A h \in live : parent'[h] = parent[h] /\ parent[h] # g
  BY FrameAssumption DEF PushFrame, Fresh, TypeOK
<1>3. \A f \in Frame : rank[f] \in Nat
  BY <1>1 DEF Ranks
<1>4. next \in [Frame -> Nat]
  BY <1>3
<1>5. ASSUME NEW h \in live', parent'[h] # NULL PROVE next[h] < next[parent'[h]]
  <2>1. CASE h = g
    <3>1. p \in Frame /\ p # g
      BY <1>2, <1>5, <2>1 DEF TypeOK
    <3> QED BY <1>2, <1>3, <2>1, <3>1
  <2>2. CASE h # g
    <3>1. h \in live /\ h \in Frame /\ parent[h] \in Frame /\ parent[h] # g /\ parent'[h] = parent[h]
      BY <1>2, <1>5, <2>2 DEF TypeOK
    <3>2. rank[h] < rank[parent[h]]
      BY <1>1, <1>5, <3>1 DEF Ranks
    <3> QED BY <1>3, <2>2, <3>1, <3>2
  <2> QED BY <2>1, <2>2
<1> HIDE DEF next
<1> QED BY <1>4, <1>5 DEF Acyclic, Ranks

LEMMA AcyclicStep ==
  ASSUME TypeOK, Acyclic, [Next]_vars
  PROVE  Acyclic'
<1>1. ASSUME live' \subseteq live, \A f \in live' : parent'[f] = parent[f] PROVE Acyclic'
  BY <1>1 DEF Acyclic, Ranks
<1>2. ASSUME NEW c \in Closure, NEW g \in Frame, Call(c, g) PROVE Acyclic'
  BY <1>2, PushKeepsAcyclic DEF Call
<1>3. ASSUME NEW g \in Frame, Require(g) PROVE Acyclic'
  BY <1>3, PushKeepsAcyclic DEF Require
<1>4. ASSUME NEW f, Free(f) PROVE Acyclic'
  BY <1>4, <1>1 DEF Free, TypeOK
<1>5. CASE Ret \/ Release
  BY <1>5, <1>1, <1>4 DEF Ret, Release
<1>6. CASE UNCHANGED <<live, parent>>
  BY <1>6, <1>1
<1> QED
  BY <1>2, <1>3, <1>5, <1>6 DEF Next, Defn, CallFreedScope, Fail, CurrentFreed, RetCaptured,
     ReleaseFreed, Collect, CollectFreed, Sweep, Exit, ExitDone, Halted, vars

\* State_destroy: when the process ends every frame has been freed, whatever was collected
\* or required before, while no DEFN takes a function over.
THEOREM NothingLeaks == ~ Redefinition => (Spec => []NoLeak)
<1> SUFFICES ASSUME ~ Redefinition PROVE Spec => []NoLeak
  OBVIOUS
<1>1. Init => Acyclic
  <2> SUFFICES ASSUME Init PROVE Ranks([f \in Frame |-> 0])
    BY DEF Acyclic
  <2> QED BY FrameAssumption DEF Init, Ranks
<1>2. TypeOK /\ Acyclic /\ [Next]_vars => Acyclic'
  BY AcyclicStep
<1>3. ASSUME EnvInv, CountInv, Acyclic, phase = "done", live # {} PROVE FALSE
  <2>1. PICK rank : Ranks(rank)
    BY <1>3 DEF Acyclic
  <2>2. /\ frames = << >> /\ {c \in Closure : made[c] # NULL} = {}
        /\ releasing = NULL /\ fault = "none"
    BY <1>3 DEF EnvInv, Exiting
  <2>3. ASSUME NEW f \in live PROVE \E g \in live : rank[g] < rank[f]
    <3>1. f \in Frame /\ f # NULL /\ f \notin Active
      BY <1>3, <2>2, FrameAssumption DEF EnvInv, TypeOK, Active
    <3>2. refcount[f] >= 1
      BY <1>3, <3>1 DEF EnvInv, Captured
    <3>3. refcount[f] = Cardinality(ClosuresOf(f)) + Cardinality(NestedIn(f)) + Pending(f)
      BY <1>3, <2>2 DEF CountInv, Counted
    <3>4. ClosuresOf(f) = {} /\ Pending(f) = 0
      BY <2>2, <3>1 DEF ClosuresOf, Pending
    <3>5. NestedIn(f) # {}
      BY <1>3, <3>2, <3>3, <3>4, FiniteHolders DEF CountInv
    <3>6. PICK g \in live : parent[g] = f
      BY <3>5 DEF NestedIn
    <3> QED BY <2>1, <3>1, <3>6 DEF Ranks
  <2> DEFINE used == {rank[f] : f \in live}
  <2>4. used \subseteq Nat /\ used # {}
    BY <1>3, <2>1 DEF Ranks, EnvInv, TypeOK
  <2>5. PICK n \in used : \A m \in used : ~ (<<m, n>> \in OpToRel(<, Nat))
    BY <2>4, NatLessThanWellFounded, WFMin
  <2>6. \A m \in used : ~ (m < n)
    BY <2>4, <2>5 DEF OpToRel
  <2> QED BY <2>3, <2>6
<1>4. EnvInv /\ CountInv /\ Acyclic => NoLeak
  BY <1>3 DEF NoLeak
<1> QED BY <1>1, <1>2, <1>4, EnvInvHolds, CountInvHolds, TypeCorrect, PTL DEF Spec
------------------------------------------------------------------------------
(***************************************************************************)
(* The counts implement Lifetimes, in the environment of FramesSafe.  Its  *)
(* fairness is left to the runs.                                           *)
(***************************************************************************)
\* Closures are held for Lifetimes exactly when they exist, and only a frame is held.
LEMMA HomesAgree ==
  ASSUME SafeInv, Homeless
  PROVE  /\ \A c \in Closure : home[c] = NULL <=> made[c] = NULL
         /\ \A f \in Frame : Abstract!Held(f) <=> ClosuresOf(f) # {} \/ NestedIn(f) # {}
<1>1. \A c \in Closure : made[c] # NULL => home[c] \in live
  BY DEF SafeInv, CountInv, ScopeIsHome, NoDangling
<1>2. \A c \in Closure : home[c] = NULL <=> made[c] = NULL
  BY <1>1, FrameAssumption DEF SafeInv, CountInv, TypeOK, Homeless
<1>3. \A f \in Frame : Abstract!Held(f) <=> ClosuresOf(f) # {} \/ NestedIn(f) # {}
  BY <1>2, FrameAssumption DEF Abstract!Held, ClosuresOf, NestedIn
<1> QED BY <1>2, <1>3

LEMMA LifetimesStep ==
  ASSUME ~ Redefinition, ~ Requires, SafeInv, SafeInv', Homeless, [Next]_vars
  PROVE  [Abstract!Next]_(Abstract!vars)
<1> USE DEF SafeInv, CountInv
<1>s. ASSUME UNCHANGED <<frames, live, home, parent>> PROVE [Abstract!Next]_(Abstract!vars)
  BY <1>s DEF Abstract!vars
<1>h. /\ \A c \in Closure : home[c] = NULL <=> made[c] = NULL
      /\ \A f \in Frame : Abstract!Held(f) <=> ClosuresOf(f) # {} \/ NestedIn(f) # {}
  BY HomesAgree
<1>a. Abstract!OnStack = Active /\ Abstract!Current = Current
  BY DEF Abstract!OnStack, Abstract!Current, Active, Current
<1>1. ASSUME NEW F \in Function, NEW c \in Closure, Defn(F, c) PROVE Abstract!Next
  <2>1. Abstract!Create(c)
    BY <1>1, <1>h, <1>a DEF Defn, Running, Abstract!Create
  <2> QED BY <2>1 DEF Abstract!Next
<1>2. ASSUME NEW c \in Closure, NEW g \in Frame, Call(c, g) PROVE Abstract!Next
  <2>1. scope[made[c]] = home[c] /\ home[c] # NULL
    BY <1>2, <1>h DEF Call, ScopeIsHome
  <2>2. Abstract!Call(c, g)
    BY <1>2, <2>1 DEF Call, Running, PushFrame, Fresh, Abstract!Call, Abstract!Enter
  <2> QED BY <2>2 DEF Abstract!Next
<1>3. CASE RetCaptured
  <2>1. Abstract!Leave
    BY <1>3 DEF RetCaptured, Running, PopFrame, Abstract!Leave
  <2> QED BY <2>1 DEF Abstract!Next
<1>4. CASE Ret
  <2>1. /\ fault = "none" /\ releasing = NULL /\ Current \in live /\ Current \in Frame
        /\ Current # NULL /\ refcount[Current] <= 0
    BY <1>4, FrameAssumption DEF Ret, Running, TypeOK
  <2>2. ClosuresOf(Current) = {} /\ NestedIn(Current) = {}
    BY <2>1, LastHolder DEF Pending
  <2>3. ~ Abstract!Held(Current)
    BY <1>h, <2>1, <2>2
  <2>4. Abstract!Leave
    BY <1>4, <1>a, <2>3 DEF Ret, Running, PopFrame, Free, Abstract!Leave
  <2> QED BY <2>4 DEF Abstract!Next
<1>5. CASE Release
  <2>1. releasing \in live /\ releasing \in Frame /\ fault = "none" /\ UNCHANGED <<frames, home>>
    BY <1>5 DEF Release, TypeOK
  <2>2. CASE refcount[releasing] = 1
    <3>1. ClosuresOf(releasing) = {} /\ NestedIn(releasing) = {}
      BY <2>1, <2>2, LastHolder DEF Pending
    <3>2. ~ Abstract!Needed(releasing)
      BY <1>a, <1>h, <2>1, <2>2, <3>1 DEF Anchored, Abstract!Needed
    <3>3. Abstract!Reclaim(releasing)
      BY <1>5, <2>1, <2>2, <3>2 DEF Release, Free, Abstract!Reclaim
    <3> QED BY <2>1, <3>3 DEF Abstract!Next
  <2>3. CASE refcount[releasing] # 1
    BY <1>5, <1>s, <2>1, <2>3 DEF Release
  <2> QED BY <2>2, <2>3
<1>6. ASSUME NEW c \in Closure, Sweep(c) PROVE Abstract!Next
  <2>1. made[c] # NULL
    BY <1>6 DEF Sweep, TypeOK
  <2>2. Abstract!Drop(c)
    BY <1>6, <1>h, <2>1 DEF Sweep, Abstract!Drop
  <2> QED BY <2>2 DEF Abstract!Next
<1>7. CASE \/ \E S \in SUBSET Closure : Collect(S)
           \/ Exit \/ ExitDone \/ Halted \/ UNCHANGED vars
  BY <1>7, <1>s DEF Collect, Exit, ExitDone, Halted, vars
<1>8. \A w : Fail(w) => w = "none"
  BY DEF Fail, NoFault
<1>9. CASE \/ \E c \in Closure : CallFreedScope(c)
           \/ CurrentFreed \/ ReleaseFreed \/ CollectFreed
  BY <1>8, <1>9 DEF CallFreedScope, CurrentFreed, ReleaseFreed, CollectFreed
<1>10. ~ \E g \in Frame : Require(g)
  BY DEF Require
<1> QED BY <1>1, <1>2, <1>3, <1>4, <1>5, <1>6, <1>7, <1>9, <1>10 DEF Next

\* call_frame.h, against what the counts are for: a frame is kept while it is on FRAMES, a
\* closure made in it exists or a frame nested in it is kept, and freed only after that.
THEOREM CountsImplementLifetimes ==
  ~ Redefinition /\ ~ Requires /\ Collection # "any" => (Spec => Abstract!Safety)
<1> SUFFICES ASSUME ~ Redefinition, ~ Requires, Collection # "any"
             PROVE  Spec => Abstract!Safety
  OBVIOUS
<1>1. Init => Abstract!Init
  BY DEF Init, Abstract!Init
<1>2. SafeInv /\ SafeInv' /\ EnvInv /\ [Next]_vars => [Abstract!Next]_(Abstract!vars)
  BY LifetimesStep DEF EnvInv
<1>3. Spec => []SafeInv
  BY SafeInvHolds
<1> QED BY <1>1, <1>2, <1>3, EnvInvHolds, PTL DEF Spec, Abstract!Safety
==============================================================================
