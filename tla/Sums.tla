--------------------------------- MODULE Sums ---------------------------------
(* Sums of a function over finite sets: what the proofs about the ledger,  *)
(* the rewards and the spending of customers need of SumFunctionOnSet.     *)
(* The library defines it by recursion over subsets; what is recursive is  *)
(* recovered here by looking at a smallest set that would be an exception. *)
EXTENDS Integers, FiniteSets, Functions, FiniteSetTheorems, WellFoundedInduction, TLAPS

(* A nonempty collection of subsets of a finite set has a smallest member. *)
LEMMA SmallestSet ==
  ASSUME NEW S, IsFiniteSet(S), NEW Bad \in SUBSET (SUBSET S), Bad # {}
  PROVE  \E s \in Bad : \A t \in Bad : t \subseteq s => t = s
<1>1. FiniteSubsetsOf(S) = SUBSET S
  BY FS_FiniteSubsetsOfFinite
<1>2. IsWellFoundedOn(StrictSubsetOrdering(S), SUBSET S)
  BY <1>1, FS_StrictSubsetOrderingWellFounded
<1>3. PICK s \in Bad : \A t \in Bad : <<t, s>> \notin StrictSubsetOrdering(S)
  BY <1>2, WFMin
<1>4. ASSUME NEW t \in Bad, t \subseteq s PROVE t = s
  BY <1>3, <1>4 DEF StrictSubsetOrdering
<1> QED BY <1>4

(* The recursion SumFunctionOnSet unfolds to.                              *)
Partial(f, S, g) ==
  g = [s \in SUBSET S |-> IF s = {} THEN 0
                          ELSE LET x == CHOOSE x \in s : TRUE IN f[x] + g[s \ {x}]]

LEMMA SumUnfold ==
  ASSUME NEW f, NEW S
  PROVE  SumFunctionOnSet(f, S) = (CHOOSE g : Partial(f, S, g))[S]
BY DEF SumFunctionOnSet, FoldFunctionOnSet, MapThenFoldSet, Partial

First(s) == CHOOSE x \in s : TRUE

LEMMA FirstIn == ASSUME NEW s, s # {} PROVE First(s) \in s
BY DEF First

LEMMA PartialFunction ==
  ASSUME NEW f, NEW S, NEW g, Partial(f, S, g)
  PROVE  g = [s \in SUBSET S |-> g[s]]
BY DEF Partial

LEMMA PartialStep ==
  ASSUME NEW f, NEW S, NEW g, Partial(f, S, g), NEW s \in SUBSET S
  PROVE  g[s] = IF s = {} THEN 0 ELSE f[First(s)] + g[s \ {First(s)}]
BY DEF Partial, First

LEMMA PartialBuild ==
  ASSUME NEW f, NEW S, NEW g, g = [s \in SUBSET S |-> g[s]],
         \A s \in SUBSET S : g[s] = IF s = {} THEN 0 ELSE f[First(s)] + g[s \ {First(s)}]
  PROVE  Partial(f, S, g)
<1> DEFINE h == [s \in SUBSET S |-> IF s = {} THEN 0 ELSE f[First(s)] + g[s \ {First(s)}]]
<1>1. g = h
  OBVIOUS
<1> QED BY <1>1 DEF Partial, First

LEMMA PartialUnique ==
  ASSUME NEW f, NEW S, IsFiniteSet(S), NEW g, NEW h, Partial(f, S, g), Partial(f, S, h)
  PROVE  g = h
<1> DEFINE Bad == {s \in SUBSET S : g[s] # h[s]}
<1>1. ASSUME Bad # {} PROVE FALSE
  <2>0. Bad \in SUBSET (SUBSET S)
    OBVIOUS
  <2>1. PICK s \in Bad : \A t \in Bad : t \subseteq s => t = s
    <3> HIDE DEF Bad
    <3> QED BY <1>1, <2>0, SmallestSet
  <2>2. s \in SUBSET S /\ g[s] # h[s]
    OBVIOUS
  <2>3. s # {}
    BY <2>2, PartialStep
  <2>4. First(s) \in s
    BY <2>3, FirstIn
  <2>5. s \ {First(s)} \notin Bad /\ s \ {First(s)} \in SUBSET S
    BY <2>1, <2>4
  <2>6. g[s \ {First(s)}] = h[s \ {First(s)}]
    BY <2>5
  <2> HIDE DEF Bad
  <2> QED BY <2>2, <2>3, <2>6, PartialStep
<1>2. \A s \in SUBSET S : g[s] = h[s]
  BY <1>1
<1> HIDE DEF Bad
<1>3. g = [s \in SUBSET S |-> g[s]] /\ h = [s \in SUBSET S |-> h[s]]
  BY PartialFunction
<1> QED BY <1>2, <1>3

LEMMA PartialRestrict ==
  ASSUME NEW f, NEW S, NEW g, Partial(f, S, g), NEW T \in SUBSET S
  PROVE  Partial(f, T, [s \in SUBSET T |-> g[s]])
<1> DEFINE h == [s \in SUBSET T |-> g[s]]
<1>1. \A s \in SUBSET T : s \in SUBSET S /\ s \ {First(s)} \in SUBSET T
  OBVIOUS
<1>2. \A s \in SUBSET T : h[s] = IF s = {} THEN 0 ELSE f[First(s)] + h[s \ {First(s)}]
  BY <1>1, PartialStep
<1>3. h = [s \in SUBSET T |-> h[s]]
  OBVIOUS
<1> HIDE DEF h
<1>4. Partial(f, T, h)
  BY <1>2, <1>3, PartialBuild
<1> QED BY <1>4 DEF h

LEMMA PartialValue ==
  ASSUME NEW f, NEW S, IsFiniteSet(S), NEW g, Partial(f, S, g), NEW T \in SUBSET S
  PROVE  SumFunctionOnSet(f, T) = g[T]
<1> DEFINE h == [s \in SUBSET T |-> g[s]]
<1>1. Partial(f, T, h) /\ IsFiniteSet(T)
  <2>1. Partial(f, T, h)
    BY PartialRestrict
  <2>2. IsFiniteSet(T)
    BY FS_Subset
  <2> QED BY <2>1, <2>2
<1>2. h[T] = g[T]
  OBVIOUS
<1> HIDE DEF h
<1>3. Partial(f, T, CHOOSE k : Partial(f, T, k))
  BY <1>1
<1>4. (CHOOSE k : Partial(f, T, k)) = h
  BY <1>1, <1>3, PartialUnique
<1> QED BY <1>2, <1>4, SumUnfold

LEMMA PartialExists ==
  ASSUME NEW f, NEW S, IsFiniteSet(S)
  PROVE  \E g : Partial(f, S, g)
<1> DEFINE Bad == {s \in SUBSET S : ~ \E g : Partial(f, s, g)}
<1>1. ASSUME Bad # {} PROVE FALSE
  <2>0. Bad \in SUBSET (SUBSET S)
    OBVIOUS
  <2>1. PICK s \in Bad : \A t \in Bad : t \subseteq s => t = s
    <3> HIDE DEF Bad
    <3> QED BY <1>1, <2>0, SmallestSet
  <2>2. s \in SUBSET S /\ ~ \E g : Partial(f, s, g)
    OBVIOUS
  <2>3. \A t \in SUBSET s : t # s => \E g : Partial(f, t, g)
    BY <2>1
  <2> HIDE DEF Bad
  <2>4. \A t \in SUBSET s : IsFiniteSet(t)
    BY <2>2, FS_Subset
  <2> DEFINE h == [t \in SUBSET s |->
                     IF t = {} THEN 0
                     ELSE f[First(t)] + SumFunctionOnSet(f, t \ {First(t)})]
  <2>5. ASSUME NEW t \in SUBSET s, t # s PROVE SumFunctionOnSet(f, t) = h[t]
    <3>1. PICK g : Partial(f, t, g)
      BY <2>3, <2>5
    <3>2. SumFunctionOnSet(f, t) = g[t]
      BY <2>4, <3>1, PartialValue
    <3>3. t # {} => t \ {First(t)} \in SUBSET t
                    /\ SumFunctionOnSet(f, t \ {First(t)}) = g[t \ {First(t)}]
      BY <2>4, <3>1, PartialValue
    <3>4. g[t] = IF t = {} THEN 0 ELSE f[First(t)] + g[t \ {First(t)}]
      BY <3>1, PartialStep
    <3> QED BY <3>2, <3>3, <3>4
  <2>6. \A t \in SUBSET s : h[t] = IF t = {} THEN 0 ELSE f[First(t)] + h[t \ {First(t)}]
    <3> SUFFICES ASSUME NEW t \in SUBSET s, t # {}
                 PROVE  h[t] = f[First(t)] + h[t \ {First(t)}]
      OBVIOUS
    <3>1. t \ {First(t)} \in SUBSET s /\ t \ {First(t)} # s
      BY FirstIn
    <3>2. SumFunctionOnSet(f, t \ {First(t)}) = h[t \ {First(t)}]
      BY <2>5, <3>1
    <3> QED BY <3>2
  <2>7. h = [t \in SUBSET s |-> h[t]]
    OBVIOUS
  <2> HIDE DEF h
  <2>8. Partial(f, s, h)
    BY <2>6, <2>7, PartialBuild
  <2> QED BY <2>2, <2>8
<1>2. S \notin Bad
  BY <1>1
<1> QED BY <1>2

LEMMA SumStep ==
  ASSUME NEW f, NEW S, IsFiniteSet(S)
  PROVE  SumFunctionOnSet(f, S) =
           IF S = {} THEN 0 ELSE f[First(S)] + SumFunctionOnSet(f, S \ {First(S)})
<1>1. PICK g : Partial(f, S, g)
  BY PartialExists
<1>2. S \in SUBSET S /\ S \ {First(S)} \in SUBSET S
  OBVIOUS
<1>3. SumFunctionOnSet(f, S) = g[S]
      /\ SumFunctionOnSet(f, S \ {First(S)}) = g[S \ {First(S)}]
  BY <1>1, <1>2, PartialValue
<1>4. g[S] = IF S = {} THEN 0 ELSE f[First(S)] + g[S \ {First(S)}]
  BY <1>1, <1>2, PartialStep
<1> QED BY <1>3, <1>4

-----------------------------------------------------------------------------
(* What the other proofs cite.                                             *)

LEMMA SumEmpty == ASSUME NEW f PROVE SumFunctionOnSet(f, {}) = 0
BY SumStep, FS_EmptySet

LEMMA SumInt ==
  ASSUME NEW f, NEW S, IsFiniteSet(S), \A x \in S : f[x] \in Int
  PROVE  SumFunctionOnSet(f, S) \in Int
<1> DEFINE Bad == {s \in SUBSET S : SumFunctionOnSet(f, s) \notin Int}
<1>1. ASSUME Bad # {} PROVE FALSE
  <2>0. Bad \in SUBSET (SUBSET S)
    OBVIOUS
  <2>1. PICK s \in Bad : \A t \in Bad : t \subseteq s => t = s
    <3> HIDE DEF Bad
    <3> QED BY <1>1, <2>0, SmallestSet
  <2>2. s \in SUBSET S /\ SumFunctionOnSet(f, s) \notin Int /\ IsFiniteSet(s)
    BY FS_Subset
  <2>3. s # {}
    BY <2>2, SumEmpty
  <2>4. First(s) \in s /\ f[First(s)] \in Int
    BY <2>2, <2>3, FirstIn
  <2>5. SumFunctionOnSet(f, s \ {First(s)}) \in Int
    BY <2>1, <2>2, <2>4
  <2> HIDE DEF Bad
  <2>6. SumFunctionOnSet(f, s) = f[First(s)] + SumFunctionOnSet(f, s \ {First(s)})
    BY <2>2, <2>3, SumStep
  <2> QED BY <2>2, <2>4, <2>5, <2>6
<1>2. S \notin Bad
  BY <1>1
<1> QED BY <1>2

(* Any element can be taken out.                                           *)
LEMMA SumRemove ==
  ASSUME NEW f, NEW S, IsFiniteSet(S), \A x \in S : f[x] \in Int, NEW e \in S
  PROVE  SumFunctionOnSet(f, S) = f[e] + SumFunctionOnSet(f, S \ {e})
<1> DEFINE Out(s, y) == SumFunctionOnSet(f, s) = f[y] + SumFunctionOnSet(f, s \ {y})
           Bad == {s \in SUBSET S : \E y \in s : ~Out(s, y)}
<1>1. ASSUME Bad # {} PROVE FALSE
  <2>0. Bad \in SUBSET (SUBSET S)
    OBVIOUS
  <2>1. PICK s \in Bad : \A t \in Bad : t \subseteq s => t = s
    <3> HIDE DEF Bad
    <3> QED BY <1>1, <2>0, SmallestSet
  <2>2. s \in SUBSET S /\ IsFiniteSet(s)
    BY FS_Subset
  <2>3. PICK y \in s : ~Out(s, y)
    OBVIOUS
  <2> DEFINE c == First(s)
  <2>4. c \in s
    BY <2>3, FirstIn
  <2>5. Out(s, c)
    BY <2>2, <2>3, SumStep
  <2>6. c # y
    BY <2>3, <2>5
  <2>7. \A t \in SUBSET s : t # s => \A x \in t : Out(t, x)
    BY <2>1, <2>2
  <2> HIDE DEF Bad, c
  <2>8. Out(s \ {c}, y) /\ Out(s \ {y}, c)
    <3>1. s \ {c} \in SUBSET s /\ s \ {c} # s /\ y \in s \ {c}
      BY <2>3, <2>4, <2>6
    <3>2. s \ {y} \in SUBSET s /\ s \ {y} # s /\ c \in s \ {y}
      BY <2>3, <2>4, <2>6
    <3> HIDE DEF Out
    <3> QED BY <2>7, <3>1, <3>2
  <2>9. (s \ {c}) \ {y} = (s \ {y}) \ {c}
    OBVIOUS
  <2>10. SumFunctionOnSet(f, (s \ {c}) \ {y}) \in Int
    <3>1. IsFiniteSet((s \ {c}) \ {y}) /\ \A x \in (s \ {c}) \ {y} : f[x] \in Int
      BY <2>2, FS_Subset
    <3> QED BY <3>1, SumInt
  <2>11. f[c] \in Int /\ f[y] \in Int
    BY <2>2, <2>3, <2>4
  <2>12. PICK k \in Int : /\ k = SumFunctionOnSet(f, (s \ {c}) \ {y})
                         /\ k = SumFunctionOnSet(f, (s \ {y}) \ {c})
    BY <2>9, <2>10
  <2>13. /\ SumFunctionOnSet(f, s) = f[c] + SumFunctionOnSet(f, s \ {c})
         /\ SumFunctionOnSet(f, s \ {c}) = f[y] + k
         /\ SumFunctionOnSet(f, s \ {y}) = f[c] + k
    BY <2>5, <2>8, <2>12
  <2>14. SumFunctionOnSet(f, s) = f[y] + SumFunctionOnSet(f, s \ {y})
    BY <2>11, <2>13
  <2> QED BY <2>3, <2>14
<1>2. S \notin Bad
  BY <1>1
<1> QED BY <1>2

(* A new element adds its value.                                           *)
LEMMA SumAdd ==
  ASSUME NEW f, NEW S, IsFiniteSet(S), NEW e, e \notin S, \A x \in S \cup {e} : f[x] \in Int
  PROVE  SumFunctionOnSet(f, S \cup {e}) = f[e] + SumFunctionOnSet(f, S)
<1>1. IsFiniteSet(S \cup {e}) /\ e \in S \cup {e} /\ (S \cup {e}) \ {e} = S
  BY FS_AddElement
<1> QED BY <1>1, SumRemove

LEMMA SumSame ==
  ASSUME NEW f, NEW g, NEW S, IsFiniteSet(S), \A x \in S : f[x] = g[x]
  PROVE  SumFunctionOnSet(f, S) = SumFunctionOnSet(g, S)
<1> DEFINE Bad == {s \in SUBSET S : SumFunctionOnSet(f, s) # SumFunctionOnSet(g, s)}
<1>1. ASSUME Bad # {} PROVE FALSE
  <2>0. Bad \in SUBSET (SUBSET S)
    OBVIOUS
  <2>1. PICK s \in Bad : \A t \in Bad : t \subseteq s => t = s
    <3> HIDE DEF Bad
    <3> QED BY <1>1, <2>0, SmallestSet
  <2>2. s \in SUBSET S /\ SumFunctionOnSet(f, s) # SumFunctionOnSet(g, s) /\ IsFiniteSet(s)
    BY FS_Subset
  <2>3. s # {}
    BY <2>2, SumEmpty
  <2>4. First(s) \in s
    BY <2>3, FirstIn
  <2>5. s \ {First(s)} \notin Bad /\ s \ {First(s)} \in SUBSET S
    BY <2>1, <2>2, <2>4
  <2>6. SumFunctionOnSet(f, s \ {First(s)}) = SumFunctionOnSet(g, s \ {First(s)})
    BY <2>5
  <2> HIDE DEF Bad
  <2>7. f[First(s)] = g[First(s)]
    BY <2>2, <2>4
  <2> QED BY <2>2, <2>3, <2>6, <2>7, SumStep
<1>2. S \notin Bad
  BY <1>1
<1> QED BY <1>2

(* One value changes: the sum changes with it.                             *)
LEMMA SumChange ==
  ASSUME NEW f, NEW g, NEW S, IsFiniteSet(S), NEW e \in S,
         \A x \in S : f[x] \in Int /\ g[x] \in Int,
         \A x \in S \ {e} : f[x] = g[x]
  PROVE  SumFunctionOnSet(g, S) = SumFunctionOnSet(f, S) - f[e] + g[e]
<1>1. IsFiniteSet(S \ {e})
  BY FS_Subset
<1>2. SumFunctionOnSet(f, S \ {e}) = SumFunctionOnSet(g, S \ {e})
  BY <1>1, SumSame
<1>3. SumFunctionOnSet(f, S \ {e}) \in Int
  BY <1>1, SumInt
<1>4. /\ SumFunctionOnSet(f, S) = f[e] + SumFunctionOnSet(f, S \ {e})
      /\ SumFunctionOnSet(g, S) = g[e] + SumFunctionOnSet(g, S \ {e})
  BY SumRemove
<1> QED BY <1>2, <1>3, <1>4

LEMMA SumNat ==
  ASSUME NEW f, NEW S, IsFiniteSet(S), \A x \in S : f[x] \in Nat
  PROVE  SumFunctionOnSet(f, S) \in Nat
<1> DEFINE Bad == {s \in SUBSET S : SumFunctionOnSet(f, s) \notin Nat}
<1>1. ASSUME Bad # {} PROVE FALSE
  <2>0. Bad \in SUBSET (SUBSET S)
    OBVIOUS
  <2>1. PICK s \in Bad : \A t \in Bad : t \subseteq s => t = s
    <3> HIDE DEF Bad
    <3> QED BY <1>1, <2>0, SmallestSet
  <2>2. s \in SUBSET S /\ SumFunctionOnSet(f, s) \notin Nat /\ IsFiniteSet(s)
    BY FS_Subset
  <2>3. s # {}
    BY <2>2, SumEmpty
  <2>4. First(s) \in s /\ f[First(s)] \in Nat
    BY <2>2, <2>3, FirstIn
  <2>5. SumFunctionOnSet(f, s \ {First(s)}) \in Nat
    BY <2>1, <2>2, <2>4
  <2> HIDE DEF Bad
  <2>6. SumFunctionOnSet(f, s) = f[First(s)] + SumFunctionOnSet(f, s \ {First(s)})
    BY <2>2, <2>3, SumStep
  <2> QED BY <2>2, <2>4, <2>5, <2>6
<1>2. S \notin Bad
  BY <1>1
<1> QED BY <1>2

(* A part of a sum of positive values is smaller unless it is all of it.   *)
LEMMA SumPart ==
  ASSUME NEW f, NEW S, IsFiniteSet(S), \A x \in S : f[x] \in Nat, NEW e \in S
  PROVE  f[e] <= SumFunctionOnSet(f, S)
<1>1. IsFiniteSet(S \ {e})
  BY FS_Subset
<1>2. SumFunctionOnSet(f, S \ {e}) \in Nat
  BY <1>1, SumNat
<1>3. SumFunctionOnSet(f, S) = f[e] + SumFunctionOnSet(f, S \ {e})
  BY SumRemove
<1> QED BY <1>2, <1>3

(* The same where the element may lie outside the set.                     *)
LEMMA SumChangeIf ==
  ASSUME NEW f, NEW g, NEW S, IsFiniteSet(S), NEW e,
         \A x \in S : f[x] \in Int /\ g[x] \in Int,
         \A x \in S \ {e} : f[x] = g[x]
  PROVE  SumFunctionOnSet(g, S) =
           SumFunctionOnSet(f, S) + (IF e \in S THEN g[e] - f[e] ELSE 0)
<1>1. SumFunctionOnSet(f, S) \in Int
  BY SumInt
<1>2. CASE e \in S
  <2>1. SumFunctionOnSet(g, S) = SumFunctionOnSet(f, S) - f[e] + g[e]
    BY <1>2, SumChange
  <2>2. f[e] \in Int /\ g[e] \in Int
    BY <1>2
  <2> QED BY <1>1, <1>2, <2>1, <2>2
<1>3. CASE e \notin S
  <2>1. \A x \in S : f[x] = g[x]
    BY <1>3
  <2>2. SumFunctionOnSet(f, S) = SumFunctionOnSet(g, S)
    BY <2>1, SumSame
  <2> QED BY <1>1, <1>3, <2>2
<1> QED BY <1>2, <1>3

(* Elements of value zero do not count.                                    *)
LEMMA SumZeros ==
  ASSUME NEW f, NEW T, IsFiniteSet(T), NEW S \in SUBSET T, \A x \in T : f[x] \in Int,
         \A x \in T \ S : f[x] = 0
  PROVE  SumFunctionOnSet(f, T) = SumFunctionOnSet(f, S)
<1> DEFINE Bad == {s \in SUBSET T : S \subseteq s /\ SumFunctionOnSet(f, s) # SumFunctionOnSet(f, S)}
<1>1. ASSUME Bad # {} PROVE FALSE
  <2>0. Bad \in SUBSET (SUBSET T)
    OBVIOUS
  <2>1. PICK s \in Bad : \A t \in Bad : t \subseteq s => t = s
    <3> HIDE DEF Bad
    <3> QED BY <1>1, <2>0, SmallestSet
  <2>2. /\ s \in SUBSET T /\ S \subseteq s /\ IsFiniteSet(s)
        /\ SumFunctionOnSet(f, s) # SumFunctionOnSet(f, S)
    BY FS_Subset
  <2>3. PICK y \in s : y \notin S
    BY <2>2
  <2>4. s \ {y} \in SUBSET T /\ S \subseteq s \ {y} /\ s \ {y} \notin Bad
    BY <2>1, <2>2, <2>3
  <2>5. SumFunctionOnSet(f, s \ {y}) = SumFunctionOnSet(f, S)
    BY <2>4
  <2> HIDE DEF Bad
  <2>6. SumFunctionOnSet(f, s) = f[y] + SumFunctionOnSet(f, s \ {y})
    BY <2>2, <2>3, SumRemove
  <2>7. f[y] = 0
    BY <2>2, <2>3
  <2>8. SumFunctionOnSet(f, S) \in Int
    <3>1. IsFiniteSet(S) /\ \A x \in S : f[x] \in Int
      BY FS_Subset
    <3> QED BY <3>1, SumInt
  <2> QED BY <2>2, <2>5, <2>6, <2>7, <2>8
<1>2. T \notin Bad
  BY <1>1
<1> QED BY <1>2

=============================================================================
