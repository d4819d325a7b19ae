---------------------------- MODULE SumTheorems ----------------------------
(***************************************************************************)
(* What SumFunction, by which the models add up pixels, requests, failures *)
(* and the cells of runs, computes.  The community modules define it by a  *)
(* recursive function over the subsets of the domain, that is, as a value  *)
(* CHOSEN among those that satisfy an equation.  The induction principles  *)
(* of the library take an operator as a parameter, so the inductions here  *)
(* are stated the other way round: the set of the counterexamples, if it   *)
(* were not empty, would have a least element.                             *)
(***************************************************************************)
EXTENDS Integers, FiniteSets, Functions, FiniteSetTheorems,
        WellFoundedInduction, TLAPS

----------------------------------------------------------------------------
(* Least counterexamples. *)

(* A set of natural numbers that is not empty has a least element. *)
LEMMA LeastNumber ==
    ASSUME NEW T \in SUBSET Nat, T # {}
    PROVE  \E n \in T : \A m \in T : n <= m
<1> DEFINE less == OpToRel(<, Nat)
<1>1. IsWellFoundedOn(less, Nat)
  BY NatLessThanWellFounded
<1>2. PICK n \in T : \A m \in T : ~(<<m, n>> \in less)
  <2> HIDE DEF less
  <2>1. QED  BY <1>1, WFMin
<1>3. \A m \in T : ~(m < n)
  BY <1>2 DEF OpToRel
<1>4. QED  BY <1>3

(* A set of subsets of a finite set has an element that contains no other. *)
LEMMA LeastSubset ==
    ASSUME NEW S, IsFiniteSet(S), NEW F \in SUBSET (SUBSET S), F # {}
    PROVE  \E s \in F : \A r \in F : r \subseteq s => r = s
<1> DEFINE sizes == {Cardinality(s) : s \in F}
<1>1. \A s \in F : IsFiniteSet(s) /\ Cardinality(s) \in Nat
  BY FS_Subset, FS_CardinalityType
<1>2. sizes \in SUBSET Nat /\ sizes # {}
  BY <1>1
<1>3. PICK n \in sizes : \A m \in sizes : n <= m
  <2> HIDE DEF sizes
  <2>1. QED  BY <1>2, LeastNumber
<1>4. PICK s \in F : Cardinality(s) = n
  OBVIOUS
<1>5. ASSUME NEW r \in F, r \subseteq s  PROVE r = s
  <2>1. Cardinality(s) <= Cardinality(r)
    BY <1>3, <1>4
  <2>2. Cardinality(r) <= Cardinality(s) /\ (Cardinality(s) = Cardinality(r) => s = r)
    BY <1>1, <1>5, FS_Subset
  <2>3. QED  BY <2>1, <2>2, <1>1
<1>6. QED  BY <1>5

----------------------------------------------------------------------------
(* The recursive function that SumFunction chooses. *)

Picked(s) == CHOOSE x \in s : TRUE

SumStep(f, g, s) ==
    IF s = {} THEN 0 ELSE f[Picked(s)] + g[s \ {Picked(s)}]

(* g adds up f over every subset of S. *)
AddsUp(f, g, S) == g = [s \in SUBSET S |-> SumStep(f, g, s)]

(* SumFunction is the chosen solution of its equation, at the domain. *)
LEMMA SumUnfolded ==
    ASSUME NEW f
    PROVE  SumFunction(f) = (CHOOSE g : AddsUp(f, g, DOMAIN f))[DOMAIN f]
BY DEF SumFunction, SumFunctionOnSet, FoldFunctionOnSet, MapThenFoldSet,
       AddsUp, SumStep, Picked

(* There is a solution: the one for the sets of at most n elements extends *)
(* to the sets of n + 1.                                                   *)
LEMMA SumExists ==
    ASSUME NEW S, IsFiniteSet(S), NEW f
    PROVE  \E g : AddsUp(f, g, S)
<1> DEFINE upTo(n, g) == \A s \in SUBSET S :
                            Cardinality(s) <= n => g[s] = SumStep(f, g, s)
           missing == {n \in Nat : ~ \E g : upTo(n, g)}
<1>1. \A s \in SUBSET S : IsFiniteSet(s) /\ Cardinality(s) \in Nat
  BY FS_Subset, FS_CardinalityType
<1>2. missing = {}
  <2> SUFFICES ASSUME missing # {} PROVE FALSE
    OBVIOUS
  <2>1. PICK n \in missing : \A m \in missing : n <= m
    <3>1. missing \in SUBSET Nat
      OBVIOUS
    <3> HIDE DEF missing
    <3>2. QED  BY <3>1, LeastNumber
  <2>2. CASE n = 0
    <3> DEFINE g == [s \in SUBSET S |-> 0]
    <3>1. \A s \in SUBSET S : Cardinality(s) <= 0 => s = {}
      BY <1>1, FS_EmptySet
    <3>2. upTo(0, g)
      BY <3>1 DEF SumStep
    <3>3. QED  BY <2>2, <3>2
  <2>3. CASE n # 0
    <3>1. n - 1 \in Nat /\ n - 1 \notin missing
      BY <2>1, <2>3
    <3>2. PICK g : upTo(n - 1, g)
      BY <3>1
    <3> DEFINE h == [s \in SUBSET S |-> SumStep(f, g, s)]
    <3>3. ASSUME NEW s \in SUBSET S, Cardinality(s) <= n  PROVE h[s] = SumStep(f, h, s)
      <4>1. CASE s = {}
        BY <4>1 DEF SumStep
      <4>2. CASE s # {}
        <5> DEFINE rest == s \ {Picked(s)}
        <5>1. Picked(s) \in s
          BY <4>2 DEF Picked
        <5>2. rest \in SUBSET S /\ Cardinality(rest) = Cardinality(s) - 1
          BY <1>1, <5>1, FS_RemoveElement
        <5>3. Cardinality(rest) <= n - 1
          BY <1>1, <3>3, <5>2
        <5>4. g[rest] = SumStep(f, g, rest)
          BY <3>2, <5>2, <5>3
        <5>5. h[rest] = g[rest]
          BY <5>2, <5>4
        <5>6. h[s] = SumStep(f, g, s)
          OBVIOUS
        <5> HIDE DEF h
        <5>7. QED  BY <4>2, <5>5, <5>6 DEF SumStep
      <4>3. QED  BY <4>1, <4>2
    <3>4. upTo(n, h)
      BY <3>3
    <3>5. QED  BY <3>4
  <2>4. QED  BY <2>2, <2>3
<1>3. PICK g : upTo(Cardinality(S), g)
  BY <1>1, <1>2
<1>4. \A s \in SUBSET S : g[s] = SumStep(f, g, s)
  BY <1>3, FS_Subset
<1> DEFINE h == [s \in SUBSET S |-> g[s]]
<1>5. \A s \in SUBSET S : SumStep(f, h, s) = SumStep(f, g, s)
  <2>1. ASSUME NEW s \in SUBSET S, s # {}  PROVE s \ {Picked(s)} \in SUBSET S
    OBVIOUS
  <2>2. QED  BY <2>1 DEF SumStep
<1>6. AddsUp(f, h, S)
  <2>1. h = [s \in SUBSET S |-> SumStep(f, g, s)]
    BY <1>4
  <2> HIDE DEF h
  <2>2. QED  BY <1>5, <2>1 DEF AddsUp
<1>7. QED  BY <1>6

(* The solutions are determined: two of them agree on every set where the  *)
(* functions agree, whatever their domains.                                *)
LEMMA SumUnique ==
    ASSUME NEW S, NEW T, NEW f, NEW k, NEW g, NEW h,
           AddsUp(f, g, S), AddsUp(k, h, T),
           NEW U, IsFiniteSet(U), U \subseteq S, U \subseteq T,
           \A x \in U : f[x] = k[x]
    PROVE  g[U] = h[U]
<1> DEFINE differ == {s \in SUBSET U : g[s] # h[s]}
<1>1. differ = {}
  <2> SUFFICES ASSUME differ # {} PROVE FALSE
    OBVIOUS
  <2>1. PICK s \in differ : \A r \in differ : r \subseteq s => r = s
    <3>1. differ \in SUBSET (SUBSET U)
      OBVIOUS
    <3> HIDE DEF differ
    <3>2. QED  BY <3>1, LeastSubset
  <2>2. g[s] = SumStep(f, g, s) /\ h[s] = SumStep(k, h, s)
    <3>1. s \in SUBSET S /\ s \in SUBSET T
      OBVIOUS
    <3>2. QED  BY <3>1 DEF AddsUp
  <2>3. s # {}
    BY <2>2 DEF SumStep
  <2>4. Picked(s) \in s
    BY <2>3 DEF Picked
  <2>5. g[s \ {Picked(s)}] = h[s \ {Picked(s)}]
    BY <2>1, <2>4
  <2>6. QED  BY <2>2, <2>3, <2>4, <2>5 DEF SumStep
<1>2. QED  BY <1>1

(* A solution does not depend on the order in which it picks. *)
LEMMA SumAnyOrder ==
    ASSUME NEW S, IsFiniteSet(S), NEW f, \A x \in S : f[x] \in Int,
           NEW g, AddsUp(f, g, S)
    PROVE  \A s \in SUBSET S : /\ g[s] \in Int
                               /\ \A x \in s : g[s] = f[x] + g[s \ {x}]
<1> DEFINE right(s) == g[s] \in Int /\ \A x \in s : g[s] = f[x] + g[s \ {x}]
           wrong == {s \in SUBSET S : ~right(s)}
<1>1. wrong = {}
  <2> SUFFICES ASSUME wrong # {} PROVE FALSE
    OBVIOUS
  <2>1. PICK s \in wrong : \A r \in wrong : r \subseteq s => r = s
    <3>1. wrong \in SUBSET (SUBSET S)
      OBVIOUS
    <3> HIDE DEF wrong
    <3>2. QED  BY <3>1, LeastSubset
  <2>2. g[s] = SumStep(f, g, s)
    BY DEF AddsUp
  <2>3. s # {}
    BY <2>2 DEF SumStep
  <2> DEFINE p == Picked(s)
             rest == s \ {p}
  <2>4. p \in s /\ f[p] \in Int
    BY <2>3 DEF Picked
  <2>5. right(rest)
    BY <2>1, <2>4
  <2>6. g[s] = f[p] + g[rest]
    BY <2>2, <2>3 DEF SumStep
  <2>7. g[s] \in Int
    BY <2>4, <2>5, <2>6
  <2>8. ASSUME NEW x \in s  PROVE g[s] = f[x] + g[s \ {x}]
    <3>1. CASE x = p
      BY <2>6, <3>1
    <3>2. CASE x # p
      <4> DEFINE both == s \ {x, p}
      <4>1. right(both) /\ right(s \ {x})
        <5>1. both \in SUBSET S /\ both \subseteq s /\ both # s
          BY <2>4
        <5>2. s \ {x} \in SUBSET S /\ s \ {x} \subseteq s /\ s \ {x} # s
          OBVIOUS
        <5>3. both \notin wrong /\ s \ {x} \notin wrong
          <6> HIDE DEF wrong, both
          <6>1. QED  BY <2>1, <5>1, <5>2
        <5> HIDE DEF both
        <5>4. QED  BY <5>1, <5>2, <5>3
      <4>2. g[rest] = f[x] + g[both]
        <5>1. x \in rest /\ rest \ {x} = both
          BY <3>2
        <5>2. QED  BY <2>5, <5>1
      <4>3. g[s \ {x}] = f[p] + g[both]
        <5>1. p \in s \ {x} /\ (s \ {x}) \ {p} = both
          BY <2>4, <3>2
        <5>2. QED  BY <4>1, <5>1
      <4>4. f[x] \in Int /\ g[both] \in Int
        BY <4>1
      <4> HIDE DEF both, rest, p
      <4>5. QED  BY <2>4, <2>6, <4>2, <4>3, <4>4
    <3>3. QED  BY <3>1, <3>2
  <2>9. QED  BY <2>7, <2>8
<1>2. QED  BY <1>1

----------------------------------------------------------------------------
(* Sums over a set of indices: the form in which the models use them. *)

SumOver(f, S) == SumFunction([x \in S |-> f[x]])

(* The sum over S is what any solution for a larger set gives at S. *)
LEMMA SumIsSolution ==
    ASSUME NEW T, IsFiniteSet(T), NEW S \in SUBSET T, NEW f, NEW g, AddsUp(f, g, T)
    PROVE  SumOver(f, S) = g[S]
<1> DEFINE k == [x \in S |-> f[x]]
           h == CHOOSE h : AddsUp(k, h, S)
<1>1. IsFiniteSet(S)
  BY FS_Subset
<1>2. AddsUp(k, h, S)
  <2>1. \E solution : AddsUp(k, solution, S)
    <3> HIDE DEF k
    <3>1. QED  BY <1>1, SumExists
  <2> HIDE DEF k
  <2>2. QED  BY <2>1
<1>3. SumOver(f, S) = h[S]
  <2>1. DOMAIN k = S
    OBVIOUS
  <2> HIDE DEF k
  <2>2. SumFunction(k) = h[S]
    BY <2>1, SumUnfolded
  <2> USE DEF k
  <2>3. QED  BY <2>2 DEF SumOver
<1>4. h[S] = g[S]
  <2>1. \A x \in S : k[x] = f[x]
    OBVIOUS
  <2> HIDE DEF k, h
  <2>2. QED  BY <1>1, <1>2, <2>1, SumUnique
<1>5. QED  BY <1>3, <1>4

(* The sum over no index is zero. *)
LEMMA SumOverEmpty ==
    ASSUME NEW f  PROVE SumOver(f, {}) = 0
<1>1. PICK g : AddsUp(f, g, {})
  BY SumExists, FS_EmptySet
<1>2. SumOver(f, {}) = g[{}]
  BY <1>1, SumIsSolution, FS_EmptySet
<1>3. g[{}] = 0
  BY <1>1 DEF AddsUp, SumStep
<1>4. QED  BY <1>2, <1>3

(* A sum of integers is an integer, and any index can be taken out of it. *)
LEMMA SumOverRemove ==
    ASSUME NEW S, IsFiniteSet(S), NEW f, \A x \in S : f[x] \in Int
    PROVE  /\ SumOver(f, S) \in Int
           /\ \A x \in S : SumOver(f, S) = f[x] + SumOver(f, S \ {x})
<1>1. PICK g : AddsUp(f, g, S)
  BY SumExists
<1>2. \A s \in SUBSET S : SumOver(f, s) = g[s]
  BY <1>1, SumIsSolution
<1>3. \A s \in SUBSET S : g[s] \in Int /\ \A x \in s : g[s] = f[x] + g[s \ {x}]
  BY <1>1, SumAnyOrder
<1>4. \A x \in S : S \ {x} \in SUBSET S
  OBVIOUS
<1>5. S \in SUBSET S
  OBVIOUS
<1>6. QED  BY <1>2, <1>3, <1>4, <1>5

(* An index that is added to a set adds its value. *)
LEMMA SumOverAdd ==
    ASSUME NEW S, IsFiniteSet(S), NEW x, x \notin S,
           NEW f, \A y \in S \cup {x} : f[y] \in Int
    PROVE  SumOver(f, S \cup {x}) = SumOver(f, S) + f[x]
<1>1. IsFiniteSet(S \cup {x})
  BY FS_AddElement
<1>2. SumOver(f, S \cup {x}) = f[x] + SumOver(f, (S \cup {x}) \ {x})
  <2> DEFINE T == S \cup {x}
  <2>1. \A y \in T : f[y] \in Int
    OBVIOUS
  <2>2. x \in T
    OBVIOUS
  <2> HIDE DEF T
  <2>3. SumOver(f, T) = f[x] + SumOver(f, T \ {x})
    BY <1>1, <2>1, <2>2, SumOverRemove DEF T
  <2>4. QED  BY <2>3 DEF T
<1>3. (S \cup {x}) \ {x} = S
  OBVIOUS
<1>4. SumOver(f, S) \in Int /\ f[x] \in Int
  BY SumOverRemove
<1>5. SumOver(f, S \cup {x}) = f[x] + SumOver(f, S)
  BY <1>2, <1>3
<1>6. QED  BY <1>4, <1>5

(* Functions that agree on the indices have the same sum. *)
LEMMA SumOverSame ==
    ASSUME NEW S, NEW f, NEW g, \A x \in S : f[x] = g[x]
    PROVE  SumOver(f, S) = SumOver(g, S)
<1>1. [x \in S |-> f[x]] = [x \in S |-> g[x]]
  OBVIOUS
<1>2. QED  BY <1>1 DEF SumOver

(* A sum is monotonic in its terms. *)
LEMMA SumOverMonotonic ==
    ASSUME NEW S, IsFiniteSet(S), NEW f, NEW g,
           \A x \in S : f[x] \in Int /\ g[x] \in Int /\ f[x] <= g[x]
    PROVE  SumOver(f, S) <= SumOver(g, S)
<1> DEFINE wrong == {s \in SUBSET S : ~(SumOver(f, s) <= SumOver(g, s))}
<1>1. wrong = {}
  <2> SUFFICES ASSUME wrong # {} PROVE FALSE
    OBVIOUS
  <2>1. PICK s \in wrong : \A r \in wrong : r \subseteq s => r = s
    <3>1. wrong \in SUBSET (SUBSET S)
      OBVIOUS
    <3> HIDE DEF wrong
    <3>2. QED  BY <3>1, LeastSubset
  <2>2. s # {}
    BY SumOverEmpty
  <2>3. PICK x \in s : TRUE
    BY <2>2
  <2>4. SumOver(f, s \ {x}) <= SumOver(g, s \ {x})
    BY <2>1, <2>3
  <2>5. IsFiniteSet(s) /\ IsFiniteSet(s \ {x})
    BY FS_Subset
  <2>6. /\ SumOver(f, s) = f[x] + SumOver(f, s \ {x})
        /\ SumOver(g, s) = g[x] + SumOver(g, s \ {x})
    BY <2>3, <2>5, SumOverRemove
  <2>7. SumOver(f, s \ {x}) \in Int /\ SumOver(g, s \ {x}) \in Int
    BY <2>5, SumOverRemove
  <2>8. f[x] \in Int /\ g[x] \in Int /\ f[x] <= g[x]
    BY <2>3
  <2>9. SumOver(f, s) <= SumOver(g, s)
    BY <2>4, <2>6, <2>7, <2>8
  <2>10. QED  BY <2>9
<1>2. QED  BY <1>1

(* A sum of zeros is zero. *)
LEMMA SumOverZero ==
    ASSUME NEW S, IsFiniteSet(S), NEW f, \A x \in S : f[x] = 0
    PROVE  SumOver(f, S) = 0
<1> DEFINE wrong == {s \in SUBSET S : SumOver(f, s) # 0}
<1>1. wrong = {}
  <2> SUFFICES ASSUME wrong # {} PROVE FALSE
    OBVIOUS
  <2>1. PICK s \in wrong : \A r \in wrong : r \subseteq s => r = s
    <3>1. wrong \in SUBSET (SUBSET S)
      OBVIOUS
    <3> HIDE DEF wrong
    <3>2. QED  BY <3>1, LeastSubset
  <2>2. PICK x \in s : TRUE
    BY SumOverEmpty
  <2>3. SumOver(f, s \ {x}) = 0
    BY <2>1, <2>2
  <2>4. IsFiniteSet(s)
    BY FS_Subset
  <2>5. SumOver(f, s) = f[x] + SumOver(f, s \ {x})
    BY <2>2, <2>4, SumOverRemove
  <2>6. QED  BY <2>2, <2>3, <2>5
<1>2. QED  BY <1>1

(* A sum of natural numbers is one, and grows with the set of indices. *)
LEMMA SumOverSubset ==
    ASSUME NEW S, IsFiniteSet(S), NEW f, \A x \in S : f[x] \in Nat,
           NEW U \in SUBSET S
    PROVE  SumOver(f, U) \in Nat /\ SumOver(f, U) <= SumOver(f, S)
<1> DEFINE zero == [x \in S |-> 0]
<1>1. \A s \in SUBSET S : IsFiniteSet(s)
  BY FS_Subset
<1>2. SumOver(f, U) \in Nat
  <2>1. SumOver(zero, U) <= SumOver(f, U)
    <3>1. \A x \in U : zero[x] \in Int /\ f[x] \in Int /\ zero[x] <= f[x]
      OBVIOUS
    <3> HIDE DEF zero
    <3>2. QED  BY <1>1, <3>1, SumOverMonotonic
  <2>2. SumOver(zero, U) = 0
    <3>1. \A x \in U : zero[x] = 0
      OBVIOUS
    <3> HIDE DEF zero
    <3>2. QED  BY <1>1, <3>1, SumOverZero
  <2>3. SumOver(f, U) \in Int
    BY <1>1, SumOverRemove
  <2>4. QED  BY <2>1, <2>2, <2>3
<1>3. SumOver(f, U) <= SumOver(f, S)
  <2> DEFINE wrong == {s \in SUBSET S : U \subseteq s /\ ~(SumOver(f, U) <= SumOver(f, s))}
  <2> SUFFICES ASSUME wrong # {} PROVE FALSE
    OBVIOUS
  <2>1. PICK s \in wrong : \A r \in wrong : r \subseteq s => r = s
    <3>1. wrong \in SUBSET (SUBSET S)
      OBVIOUS
    <3> HIDE DEF wrong
    <3>2. QED  BY <3>1, LeastSubset
  <2>2. s # U
    BY <1>2
  <2>3. PICK x \in s : x \notin U
    BY <2>2
  <2>4. SumOver(f, U) <= SumOver(f, s \ {x})
    BY <2>1, <2>3
  <2>5. SumOver(f, s) = f[x] + SumOver(f, s \ {x})
    <3>1. IsFiniteSet(s) /\ \A y \in s : f[y] \in Int
      BY <1>1
    <3>2. QED  BY <2>3, <3>1, SumOverRemove
  <2>6. SumOver(f, s \ {x}) \in Int
    <3>1. IsFiniteSet(s \ {x}) /\ \A y \in s \ {x} : f[y] \in Int
      BY <1>1
    <3>2. QED  BY <3>1, SumOverRemove
  <2>7. f[x] \in Nat
    BY <2>3
  <2>8. SumOver(f, U) <= SumOver(f, s)
    BY <1>2, <2>4, <2>5, <2>6, <2>7
  <2>9. QED  BY <2>8
<1>4. QED  BY <1>2, <1>3

(* One more at an index is one more in every sum over it, and in no other. *)
LEMMA SumOverOneMore ==
    ASSUME NEW S, IsFiniteSet(S), NEW f, \A x \in S : f[x] \in Int,
           NEW x, NEW g, x \in S => g[x] = f[x] + 1,
           \A y \in S \ {x} : g[y] = f[y]
    PROVE  SumOver(g, S) = IF x \in S THEN SumOver(f, S) + 1 ELSE SumOver(f, S)
<1>1. SumOver(g, S \ {x}) = SumOver(f, S \ {x})
  BY SumOverSame
<1>2. CASE x \notin S
  <2>1. S \ {x} = S
    BY <1>2
  <2>2. QED  BY <1>1, <1>2, <2>1
<1>3. CASE x \in S
  <2>1. \A y \in S : g[y] \in Int
    BY <1>3
  <2>2. /\ SumOver(g, S) = g[x] + SumOver(g, S \ {x})
        /\ SumOver(f, S) = f[x] + SumOver(f, S \ {x})
    BY <1>3, <2>1, SumOverRemove
  <2>3. SumOver(f, S \ {x}) \in Int
    BY FS_RemoveElement, SumOverRemove
  <2>4. QED  BY <1>1, <1>3, <2>2, <2>3
<1>4. QED  BY <1>2, <1>3

(* Indices at which the function is zero can be left out of a sum. *)
LEMMA SumOverNonZero ==
    ASSUME NEW S, IsFiniteSet(S), NEW f, \A x \in S : f[x] \in Int,
           NEW U \in SUBSET S, \A x \in S \ U : f[x] = 0
    PROVE  SumOver(f, S) = SumOver(f, U)
<1> DEFINE wrong == {s \in SUBSET S : U \subseteq s /\ SumOver(f, s) # SumOver(f, U)}
<1>1. wrong = {}
  <2> SUFFICES ASSUME wrong # {} PROVE FALSE
    OBVIOUS
  <2>1. PICK s \in wrong : \A r \in wrong : r \subseteq s => r = s
    <3>1. wrong \in SUBSET (SUBSET S)
      OBVIOUS
    <3> HIDE DEF wrong
    <3>2. QED  BY <3>1, LeastSubset
  <2>2. PICK x \in s : x \notin U
    OBVIOUS
  <2>3. SumOver(f, s \ {x}) = SumOver(f, U)
    BY <2>1, <2>2
  <2>4. SumOver(f, s) = f[x] + SumOver(f, s \ {x})
    <3>1. IsFiniteSet(s) /\ \A y \in s : f[y] \in Int
      BY FS_Subset
    <3>2. QED  BY <2>2, <3>1, SumOverRemove
  <2>5. SumOver(f, s \ {x}) \in Int
    <3>1. IsFiniteSet(s \ {x}) /\ \A y \in s \ {x} : f[y] \in Int
      BY FS_Subset
    <3>2. QED  BY <3>1, SumOverRemove
  <2>6. f[x] = 0
    BY <2>2
  <2>7. SumOver(f, s) = SumOver(f, U)
    BY <2>3, <2>4, <2>5, <2>6
  <2>8. QED  BY <2>7
<1>2. S \notin wrong
  BY <1>1
<1>3. QED  BY <1>2

============================================================================
