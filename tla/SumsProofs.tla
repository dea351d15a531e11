----------------------------- MODULE SumsProofs -----------------------------
(***************************************************************************)
(* What the proofs about money need of a sum over a finite set: it is a    *)
(* number, it does not depend on the order, it changes with one summand    *)
(* by what that summand changes, it is monotone, and the sum over two      *)
(* disjoint sets is the sum of their sums.                                 *)
(*                                                                         *)
(* MapThenSumSet chooses a function that is defined by itself on the       *)
(* subsets of S.  That such a function exists, and every fact about it, is *)
(* shown by induction along the strict subset relation, which is           *)
(* well-founded on a finite set: the set of subsets that violate the claim *)
(* would have a minimal element.                                           *)
(***************************************************************************)
EXTENDS Sums, FiniteSetTheorems, WellFoundedInduction, TLAPS

Pick(s) == CHOOSE x \in s : TRUE

Body(f, s, g) == IF s = {} THEN 0 ELSE f[Pick(s)] + g[s \ {Pick(s)}]
IsIter(f, S, g) == g = [s \in SUBSET S |-> Body(f, s, g)]
Iter(f, S) == CHOOSE g : IsIter(f, S, g)

\* A sum is the value of its iteration at the whole set.
LEMMA TotalIsIter == ASSUME NEW f, NEW S PROVE Total(f, S) = Iter(f, S)[S]
  BY DEF Total, MapThenSumSet, MapThenFoldSet, Iter, IsIter, Body, Pick

\* A family of subsets that contains every set all of whose proper subsets it contains.
LEMMA SubsetInduction ==
    ASSUME NEW S, IsFiniteSet(S), NEW G,
           \A T \in SUBSET S : (\A U \in SUBSET T : U # T => U \in G) => T \in G
    PROVE  SUBSET S \subseteq G
<1>. DEFINE R == StrictSubsetOrdering(S)
            Bad == (SUBSET S) \ G
<1>. SUFFICES ASSUME Bad # {} PROVE FALSE
  OBVIOUS
<1>1. IsWellFoundedOn(R, SUBSET S)
  <2>1. IsWellFoundedOn(R, FiniteSubsetsOf(S))
    BY FS_StrictSubsetOrderingWellFounded
  <2>2. FiniteSubsetsOf(S) = SUBSET S
    BY FS_FiniteSubsetsOfFinite
  <2>. QED BY <2>1, <2>2
<1>2. PICK T \in Bad : \A U \in Bad : <<U, T>> \notin R
  <2>1. Bad \subseteq SUBSET S
    OBVIOUS
  <2>. HIDE DEF R, Bad
  <2>. QED BY <1>1, <2>1, WFMin
<1>3. ASSUME NEW U \in SUBSET T, U # T PROVE U \in G
  <2>1. <<U, T>> \in R
    BY <1>3 DEF StrictSubsetOrdering
  <2>. QED BY <1>2, <2>1
<1>. QED BY <1>2, <1>3

\* What is picked from a set is in it.
LEMMA PickIn == \A s : s # {} => Pick(s) \in s
  BY DEF Pick

\* Two iterations agree where both are defined.
LEMMA IterAgree ==
    ASSUME NEW f, NEW S, IsFiniteSet(S), NEW T, S \subseteq T, NEW g, NEW h,
           IsIter(f, S, g), IsIter(f, T, h)
    PROVE  \A s \in SUBSET S : g[s] = h[s]
<1>. DEFINE G == {s \in SUBSET S : g[s] = h[s]}
<1>1. ASSUME NEW s \in SUBSET S, \A u \in SUBSET s : u # s => u \in G
      PROVE  s \in G
  <2>1. g[s] = Body(f, s, g) /\ h[s] = Body(f, s, h)
    BY DEF IsIter
  <2>2. CASE s = {}
    BY <2>1, <2>2 DEF Body
  <2>3. CASE s # {}
    <3>1. s \ {Pick(s)} \in G
      BY <1>1, <2>3, PickIn
    <3>. QED BY <2>1, <2>3, <3>1 DEF Body
  <2>. QED BY <2>2, <2>3
<1>2. SUBSET S \subseteq G
  <2>. HIDE DEF G
  <2>. QED BY <1>1, SubsetInduction
<1>. QED BY <1>2

\* The iteration over a finite set exists.
LEMMA IterExists ==
    ASSUME NEW f, NEW S, IsFiniteSet(S)
    PROVE  IsIter(f, S, Iter(f, S))
<1>. DEFINE G == {s \in SUBSET S : IsIter(f, s, Iter(f, s))}
<1>1. ASSUME NEW T \in SUBSET S, \A U \in SUBSET T : U # T => U \in G
      PROVE  T \in G
  <2>. DEFINE v(s) == Iter(f, s)[s]
              g == [s \in SUBSET T |-> IF s = T THEN Body(f, T, [u \in SUBSET T |-> v(u)])
                                       ELSE v(s)]
  <2>1. ASSUME NEW s \in SUBSET T PROVE g[s] = Body(f, s, g)
    <3>1. CASE s = {}
      <4>1. CASE T = {}
        BY <3>1, <4>1 DEF Body
      <4>2. CASE T # {}
        <5>1. IsIter(f, s, Iter(f, s))
          BY <1>1, <3>1, <4>2
        <5>2. Iter(f, s)[s] = Body(f, s, Iter(f, s))
          BY <5>1 DEF IsIter
        <5>. QED BY <3>1, <4>2, <5>2 DEF Body
      <4>. QED BY <4>1, <4>2
    <3>2. CASE s # {}
      <4>. DEFINE u == s \ {Pick(s)}
      <4>1. u \in SUBSET T /\ u # T /\ u # s /\ u \subseteq s
        BY <3>2, PickIn
      <4>2. g[u] = v(u)
        BY <4>1
      <4>3. CASE s = T
        BY <3>2, <4>1, <4>2, <4>3 DEF Body
      <4>4. CASE s # T
        <5>1. IsIter(f, s, Iter(f, s)) /\ IsIter(f, u, Iter(f, u))
          BY <1>1, <4>1, <4>4
        <5>2. IsFiniteSet(u)
          BY <4>1, FS_Subset
        <5>3. Iter(f, u)[u] = Iter(f, s)[u]
          BY <5>1, <5>2, <4>1, IterAgree
        <5>4. Iter(f, s)[s] = f[Pick(s)] + Iter(f, s)[u]
          BY <5>1, <3>2 DEF IsIter, Body
        <5>. QED BY <5>3, <5>4, <4>2, <4>4, <3>2 DEF Body
      <4>. QED BY <4>3, <4>4
    <3>. QED BY <3>1, <3>2
  <2>2. IsIter(f, T, g)
    <3>1. g = [s \in SUBSET T |-> g[s]]
      OBVIOUS
    <3>. HIDE DEF g
    <3>2. g = [s \in SUBSET T |-> Body(f, s, g)]
      BY <2>1, <3>1
    <3>. QED BY <3>2 DEF IsIter
  <2>3. IsIter(f, T, Iter(f, T))
    <3>. HIDE DEF g
    <3>. QED BY <2>2 DEF Iter
  <2>. QED BY <2>3
<1>2. SUBSET S \subseteq G
  <2>. HIDE DEF G
  <2>. QED BY <1>1, SubsetInduction
<1>. QED BY <1>2

\* The defining equation of a sum.
LEMMA TotalDef ==
    ASSUME NEW f, NEW S, IsFiniteSet(S)
    PROVE  Total(f, S) = IF S = {} THEN 0 ELSE f[Pick(S)] + Total(f, S \ {Pick(S)})
<1>1. IsIter(f, S, Iter(f, S))
  BY IterExists
<1>2. Iter(f, S)[S] = Body(f, S, Iter(f, S))
  BY <1>1 DEF IsIter
<1>3. CASE S = {}
  BY <1>2, <1>3, TotalIsIter DEF Body
<1>4. CASE S # {}
  <2>. DEFINE u == S \ {Pick(S)}
  <2>1. IsFiniteSet(u) /\ u \subseteq S
    BY FS_RemoveElement
  <2>2. IsIter(f, u, Iter(f, u))
    BY <2>1, IterExists
  <2>3. Iter(f, u)[u] = Iter(f, S)[u]
    <3>. HIDE DEF u
    <3>. QED BY <1>1, <2>1, <2>2, IterAgree
  <2>. QED BY <1>2, <1>4, <2>3, TotalIsIter DEF Body
<1>. QED BY <1>3, <1>4

\* A sum is the element and the sum of the others, whichever element is taken first.
LEMMA TotalElement ==
    ASSUME NEW f, NEW S, IsFiniteSet(S), \A x \in S : f[x] \in Int
    PROVE  /\ Total(f, S) \in Int
           /\ \A x \in S : Total(f, S) = f[x] + Total(f, S \ {x})
<1>. DEFINE Good(T) == /\ Total(f, T) \in Int
                       /\ \A x \in T : Total(f, T) = f[x] + Total(f, T \ {x})
            G == {T \in SUBSET S : Good(T)}
<1>1. ASSUME NEW T \in SUBSET S, \A U \in SUBSET T : U # T => U \in G
      PROVE  T \in G
  <2>. DEFINE p == Pick(T)
  <2>1. Total(f, T) = IF T = {} THEN 0 ELSE f[p] + Total(f, T \ {p})
    <3>1. IsFiniteSet(T)
      BY FS_Subset
    <3>. QED BY <3>1, TotalDef
  <2>2. CASE T = {}
    BY <2>1, <2>2
  <2>3. CASE T # {}
    <3>1. p \in T /\ T \ {p} \in G
      BY <1>1, <2>3, PickIn
    <3>2. Total(f, T) = f[p] + Total(f, T \ {p}) /\ Total(f, T) \in Int
      BY <2>1, <2>3, <3>1
    <3>3. ASSUME NEW x \in T PROVE Total(f, T) = f[x] + Total(f, T \ {x})
      <4>. HIDE DEF p
      <4>1. CASE x = p
        BY <3>2, <4>1
      <4>2. CASE x # p
        <5>1. T \ {x} \in G
          BY <1>1
        <5>2. Total(f, T \ {p}) = f[x] + Total(f, (T \ {p}) \ {x})
          BY <3>1, <4>2
        <5>3. Total(f, T \ {x}) = f[p] + Total(f, (T \ {x}) \ {p})
          BY <3>1, <4>2, <5>1
        <5>4. (T \ {p}) \ {x} = (T \ {x}) \ {p}
          OBVIOUS
        <5>5. (T \ {p}) \ {x} \in G
          BY <1>1, <3>1
        <5>6. /\ f[x] \in Int /\ f[p] \in Int
              /\ Total(f, (T \ {x}) \ {p}) \in Int
          BY <3>1, <5>4, <5>5
        <5>7. Total(f, T) = f[p] + (f[x] + Total(f, (T \ {x}) \ {p}))
          BY <3>2, <5>2, <5>4
        <5>8. f[p] + (f[x] + Total(f, (T \ {x}) \ {p})) = f[x] + (f[p] + Total(f, (T \ {x}) \ {p}))
          <6>. DEFINE a == f[x]  b == f[p]  c == Total(f, (T \ {x}) \ {p})
          <6>1. a \in Int /\ b \in Int /\ c \in Int
            BY <5>6
          <6>. HIDE DEF a, b, c
          <6>2. b + (a + c) = a + (b + c)
            BY <6>1
          <6>. QED BY <6>2 DEF a, b, c
        <5>. QED BY <5>3, <5>7, <5>8
      <4>. QED BY <4>1, <4>2
    <3>. QED BY <3>2, <3>3
  <2>. QED BY <2>2, <2>3
<1>2. SUBSET S \subseteq G
  <2>. HIDE DEF G
  <2>. QED BY <1>1, SubsetInduction
<1>3. Good(S)
  BY <1>2
<1>. QED BY <1>3

\* The sum over nothing.
LEMMA TotalEmpty == \A f : Total(f, {}) = 0
  BY TotalDef, FS_EmptySet

\* The sum over one element.
LEMMA TotalOne ==
    ASSUME NEW f, NEW e, f[e] \in Int
    PROVE  Total(f, {e}) = f[e]
<1>1. IsFiniteSet({e}) /\ {e} \ {e} = {}
  BY FS_Singleton
<1>2. Total(f, {e}) = f[e] + Total(f, {e} \ {e})
  BY <1>1, TotalElement
<1>. QED BY <1>1, <1>2, TotalEmpty

\* One more element adds its summand, whichever element the sum picks first.
LEMMA TotalAdd ==
    ASSUME NEW f, NEW S, IsFiniteSet(S), NEW e, e \notin S, \A x \in S \cup {e} : f[x] \in Int
    PROVE  Total(f, S \cup {e}) = f[e] + Total(f, S)
<1>. DEFINE T == S \cup {e}
<1>1. IsFiniteSet(T)
  BY FS_AddElement
<1>2. Total(f, T) = f[e] + Total(f, T \ {e})
  <2>1. e \in T /\ \A x \in T : f[x] \in Int
    OBVIOUS
  <2>. HIDE DEF T
  <2>. QED BY <1>1, <2>1, TotalElement
<1>3. T \ {e} = S
  OBVIOUS
<1>. QED BY <1>2, <1>3

\* Induction over the subsets of a finite set, one element at a time.
LEMMA ElementInduction ==
    ASSUME NEW S, IsFiniteSet(S), NEW G, {} \in G,
           \A T \in SUBSET S : \A e \in T : T \ {e} \in G => T \in G
    PROVE  SUBSET S \subseteq G
<1>1. ASSUME NEW T \in SUBSET S, \A U \in SUBSET T : U # T => U \in G
      PROVE  T \in G
  <2>1. CASE T = {}
    BY <2>1
  <2>2. CASE T # {}
    <3>1. PICK e \in T : TRUE
      BY <2>2
    <3>2. T \ {e} \in G
      BY <1>1
    <3>. QED BY <3>2
  <2>. QED BY <2>1, <2>2
<1>. QED BY <1>1, SubsetInduction

\* Sums of natural numbers are natural numbers and grow with every summand.
LEMMA TotalMonotone ==
    ASSUME NEW f, NEW g, NEW S, IsFiniteSet(S),
           \A x \in S : f[x] \in Int /\ g[x] \in Int /\ f[x] <= g[x]
    PROVE  Total(f, S) <= Total(g, S)
<1>. DEFINE G == {T \in SUBSET S : Total(f, T) <= Total(g, T)}
<1>1. {} \in G
  BY TotalEmpty
<1>2. ASSUME NEW T \in SUBSET S, NEW e \in T, T \ {e} \in G
      PROVE  T \in G
  <2>1. IsFiniteSet(T) /\ IsFiniteSet(T \ {e})
    BY FS_Subset
  <2>2. /\ Total(f, T) = f[e] + Total(f, T \ {e}) /\ Total(g, T) = g[e] + Total(g, T \ {e})
        /\ Total(f, T \ {e}) \in Int /\ Total(g, T \ {e}) \in Int
    BY <2>1, TotalElement
  <2>. QED BY <1>2, <2>2
<1>3. SUBSET S \subseteq G
  <2>. HIDE DEF G
  <2>. QED BY <1>1, <1>2, ElementInduction
<1>. QED BY <1>3

\* Summands that are equal on S have equal sums.
LEMMA TotalEqual ==
    ASSUME NEW f, NEW g, NEW S, IsFiniteSet(S), \A x \in S : f[x] = g[x]
    PROVE  Total(f, S) = Total(g, S)
<1>. DEFINE G == {T \in SUBSET S : Total(f, T) = Total(g, T)}
<1>1. ASSUME NEW T \in SUBSET S, \A U \in SUBSET T : U # T => U \in G
      PROVE  T \in G
  <2>1. IsFiniteSet(T)
    BY FS_Subset
  <2>2. CASE T = {}
    BY <2>2, TotalEmpty
  <2>3. CASE T # {}
    <3>1. T \ {Pick(T)} \in G /\ f[Pick(T)] = g[Pick(T)]
      BY <1>1, <2>3, PickIn
    <3>2. /\ Total(f, T) = f[Pick(T)] + Total(f, T \ {Pick(T)})
          /\ Total(g, T) = g[Pick(T)] + Total(g, T \ {Pick(T)})
      BY <2>1, <2>3, TotalDef
    <3>. QED BY <3>1, <3>2
  <2>. QED BY <2>2, <2>3
<1>2. SUBSET S \subseteq G
  <2>. HIDE DEF G
  <2>. QED BY <1>1, SubsetInduction
<1>. QED BY <1>2

\* Nothing adds up to nothing.
LEMMA TotalZero ==
    ASSUME NEW f, NEW S, IsFiniteSet(S), \A x \in S : f[x] = 0
    PROVE  Total(f, S) = 0
<1>. DEFINE G == {T \in SUBSET S : Total(f, T) = 0}
<1>1. {} \in G
  BY TotalEmpty
<1>2. ASSUME NEW T \in SUBSET S, NEW e \in T, T \ {e} \in G
      PROVE  T \in G
  <2>1. IsFiniteSet(T)
    BY FS_Subset
  <2>2. Total(f, T) = f[e] + Total(f, T \ {e})
    BY <2>1, TotalElement
  <2>. QED BY <1>2, <2>2
<1>3. SUBSET S \subseteq G
  <2>. HIDE DEF G
  <2>. QED BY <1>1, <1>2, ElementInduction
<1>. QED BY <1>3

\* Natural numbers add up to a natural number.
LEMMA TotalNat ==
    ASSUME NEW f, NEW S, IsFiniteSet(S), \A x \in S : f[x] \in Nat
    PROVE  Total(f, S) \in Nat
<1>. DEFINE G == {T \in SUBSET S : Total(f, T) \in Nat}
<1>1. {} \in G
  BY TotalEmpty
<1>2. ASSUME NEW T \in SUBSET S, NEW e \in T, T \ {e} \in G
      PROVE  T \in G
  <2>1. IsFiniteSet(T)
    BY FS_Subset
  <2>2. Total(f, T) = f[e] + Total(f, T \ {e})
    BY <2>1, TotalElement
  <2>. QED BY <1>2, <2>2
<1>3. SUBSET S \subseteq G
  <2>. HIDE DEF G
  <2>. QED BY <1>1, <1>2, ElementInduction
<1>. QED BY <1>3

\* One summand changes.
LEMMA TotalUpdate ==
    ASSUME NEW f, NEW g, NEW S, IsFiniteSet(S), NEW e \in S,
           \A x \in S : f[x] \in Int /\ g[x] \in Int,
           \A x \in S : x # e => f[x] = g[x]
    PROVE  Total(g, S) = Total(f, S) - f[e] + g[e]
<1>. DEFINE T == S \ {e}
<1>1. IsFiniteSet(T)
  BY FS_RemoveElement
<1>2. Total(f, S) = f[e] + Total(f, T) /\ Total(g, S) = g[e] + Total(g, T)
  BY TotalElement
<1>3. Total(f, T) = Total(g, T) /\ Total(f, T) \in Int
  <2>1. \A x \in T : f[x] = g[x] /\ f[x] \in Int
    OBVIOUS
  <2>. HIDE DEF T
  <2>. QED BY <1>1, <2>1, TotalEqual, TotalElement
<1>. QED BY <1>2, <1>3

\* A sum over two disjoint sets.
LEMMA TotalUnion ==
    ASSUME NEW f, NEW S, NEW U, IsFiniteSet(S), IsFiniteSet(U), S \cap U = {},
           \A x \in S \cup U : f[x] \in Int
    PROVE  Total(f, S \cup U) = Total(f, S) + Total(f, U)
<1>. DEFINE G == {T \in SUBSET U : Total(f, S \cup T) = Total(f, S) + Total(f, T)}
<1>0. Total(f, S) \in Int
  BY TotalElement
<1>1. {} \in G
  BY <1>0, TotalEmpty
<1>2. ASSUME NEW T \in SUBSET U, NEW e \in T, T \ {e} \in G
      PROVE  T \in G
  <2>. DEFINE V == T \ {e}  W == S \cup V
  <2>1. IsFiniteSet(T) /\ IsFiniteSet(V) /\ IsFiniteSet(W)
    <3>1. IsFiniteSet(T) /\ IsFiniteSet(V)
      BY FS_Subset
    <3>2. IsFiniteSet(W)
      BY <3>1, FS_Union
    <3>. QED BY <3>1, <3>2
  <2>2. Total(f, W \cup {e}) = f[e] + Total(f, W)
    <3>1. e \notin W /\ \A x \in W \cup {e} : f[x] \in Int
      OBVIOUS
    <3>. HIDE DEF W
    <3>. QED BY <2>1, <3>1, TotalAdd
  <2>3. W \cup {e} = S \cup T
    OBVIOUS
  <2>4. Total(f, T) = f[e] + Total(f, V)
    BY <2>1, TotalElement
  <2>5. Total(f, V) \in Int /\ f[e] \in Int
    BY <2>1, TotalElement
  <2>6. Total(f, W) = Total(f, S) + Total(f, V)
    BY <1>2
  <2>7. Total(f, S \cup T) = f[e] + Total(f, W)
    BY <2>2, <2>3
  <2>. HIDE DEF V, W
  <2>. QED BY <1>0, <2>4, <2>5, <2>6, <2>7
<1>3. SUBSET U \subseteq G
  <2>. HIDE DEF G
  <2>. QED BY <1>1, <1>2, ElementInduction
<1>. QED BY <1>3

\* A set may be extended by elements that add nothing.
LEMMA TotalExtend ==
    ASSUME NEW f, NEW S, IsFiniteSet(S), NEW T, T \subseteq S,
           \A x \in T : f[x] \in Int, \A x \in S \ T : f[x] = 0
    PROVE  Total(f, S) = Total(f, T)
<1>. DEFINE U == S \ T
<1>1. IsFiniteSet(T) /\ IsFiniteSet(U)
  BY FS_Subset
<1>2. T \cap U = {} /\ T \cup U = S /\ \A x \in T \cup U : f[x] \in Int
  OBVIOUS
<1>3. \A x \in U : f[x] = 0
  OBVIOUS
<1>. HIDE DEF U
<1>4. Total(f, T \cup U) = Total(f, T) + Total(f, U)
  BY <1>1, <1>2, TotalUnion
<1>5. Total(f, U) = 0 /\ Total(f, T) \in Int
  BY <1>1, <1>3, TotalZero, TotalElement
<1>6. Total(f, S) = Total(f, T) + Total(f, U)
  BY <1>2, <1>4
<1>. QED BY <1>5, <1>6

\* Changing the function on T changes the sum by what it changes on T.
LEMMA TotalReplace ==
    ASSUME NEW f, NEW g, NEW S, IsFiniteSet(S), NEW T, T \subseteq S,
           \A x \in S : f[x] \in Int /\ g[x] \in Int,
           \A x \in S \ T : f[x] = g[x]
    PROVE  Total(g, S) = Total(f, S) - Total(f, T) + Total(g, T)
<1>. DEFINE U == S \ T
<1>1. IsFiniteSet(T) /\ IsFiniteSet(U)
  BY FS_Subset
<1>2. /\ T \cap U = {} /\ T \cup U = S
      /\ \A x \in T \cup U : f[x] \in Int /\ g[x] \in Int
  OBVIOUS
<1>3. \A x \in U : f[x] = g[x]
  OBVIOUS
<1>. HIDE DEF U
<1>4. Total(f, T \cup U) = Total(f, T) + Total(f, U)
  BY <1>1, <1>2, TotalUnion
<1>5. Total(g, T \cup U) = Total(g, T) + Total(g, U)
  BY <1>1, <1>2, TotalUnion
<1>6. Total(f, U) = Total(g, U)
  BY <1>1, <1>3, TotalEqual
<1>7. /\ Total(f, T) \in Int /\ Total(g, T) \in Int
      /\ Total(f, U) \in Int /\ Total(g, U) \in Int
  BY <1>1, <1>2, TotalElement
<1>8. Total(f, S) = Total(f, T) + Total(f, U) /\ Total(g, S) = Total(g, T) + Total(g, U)
  BY <1>2, <1>4, <1>5
<1>. QED BY <1>6, <1>7, <1>8
=============================================================================
