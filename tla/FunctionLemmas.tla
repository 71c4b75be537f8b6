---------------------------- MODULE FunctionLemmas ----------------------------
(***************************************************************************)
(* Lemmas about functions that are defined by recursion.                   *)
(*                                                                         *)
(* SumFunctionOnSet of the module Functions is the sum of the values a     *)
(* function has on a finite set: quantities of lots, allocations of a      *)
(* plan, amounts consumed by executions.  The library takes some element   *)
(* out at each step; what a model relies on is that it does not matter     *)
(* which.                                                                  *)
(*                                                                         *)
(* A recursive definition whose every step goes to a smaller measure       *)
(* defines one function: encodings and decodings of column pages.          *)
(***************************************************************************)
EXTENDS Integers, Functions, FiniteSetTheorems, TLAPS

-----------------------------------------------------------------------------
(* Induction over the subsets of a finite set, as a least counterexample.  *)

\* Among subsets of a finite set there is one no other of which is inside it.
LEMMA LeastSubset ==
    ASSUME NEW S, IsFiniteSet(S), NEW Bad, Bad \subseteq SUBSET S, Bad # {}
    PROVE  \E X \in Bad : \A Y \in Bad : Y \subseteq X => Y = X
<1>1. IsWellFoundedOn(StrictSubsetOrdering(S), SUBSET S)
    BY FS_StrictSubsetOrderingWellFounded, FS_FiniteSubsetsOfFinite
<1>2. PICK X \in Bad : \A Y \in Bad : <<Y, X>> \notin StrictSubsetOrdering(S)
    BY <1>1, WFMin
<1>3. ASSUME NEW Y \in Bad, Y \subseteq X
      PROVE  Y = X
  <2>1. Y \in SUBSET S /\ X \in SUBSET S
    OBVIOUS
  <2>2. Y # X => <<Y, X>> \in StrictSubsetOrdering(S)
    BY <1>3, <2>1 DEF StrictSubsetOrdering
  <2> QED
    BY <1>2, <2>2
<1> QED
    BY <1>2, <1>3

-----------------------------------------------------------------------------
(* The recursive function behind a sum.                                    *)

Chosen(T) == CHOOSE x \in T : TRUE
Rest(T) == T \ {Chosen(T)}
Added(f, T, rest) == IF T = {} THEN 0 ELSE f[Chosen(T)] + rest

\* g gives every subset of S the sum of f on it.
Sums(g, f, S) == g = [T \in SUBSET S |-> Added(f, T, g[Rest(T)])]

LEMMA SumOfLibrary ==
    ASSUME NEW f, NEW S
    PROVE  SumFunctionOnSet(f, S) = (CHOOSE g : Sums(g, f, S))[S]
BY DEF SumFunctionOnSet, FoldFunctionOnSet, MapThenFoldSet, Sums, Added, Rest, Chosen

\* What is left of a set is smaller.
LEMMA RestIsSmaller ==
    ASSUME NEW T, T # {}
    PROVE  Chosen(T) \in T /\ Rest(T) \subseteq T /\ Rest(T) # T
BY DEF Chosen, Rest

\* Two such functions agree wherever both are defined.
LEMMA SumsAgree ==
    ASSUME NEW f, NEW S, IsFiniteSet(S), NEW U, NEW g, NEW h, Sums(g, f, S), Sums(h, f, U),
           NEW T, T \subseteq S, T \subseteq U
    PROVE  g[T] = h[T]
<1> DEFINE Bad == {X \in SUBSET T : g[X] # h[X]}
<1>1. IsFiniteSet(T)
    BY FS_Subset
<1> SUFFICES ASSUME Bad # {}
             PROVE  FALSE
    OBVIOUS
<1>2. Bad \subseteq SUBSET T
    OBVIOUS
<1> HIDE DEF Bad
<1>3. PICK X \in Bad : \A Y \in Bad : Y \subseteq X => Y = X
    BY <1>1, <1>2, LeastSubset
<1>4. X \subseteq T /\ g[X] # h[X]
    BY <1>3 DEF Bad
<1>5. g[X] = Added(f, X, g[Rest(X)]) /\ h[X] = Added(f, X, h[Rest(X)])
    BY <1>4 DEF Sums
<1>6. X # {}
    BY <1>4, <1>5 DEF Added
<1>7. Rest(X) \notin Bad
    BY <1>3, <1>6, RestIsSmaller
<1>8. Rest(X) \subseteq T
    BY <1>4, <1>6, RestIsSmaller
<1>9. g[Rest(X)] = h[Rest(X)]
    BY <1>7, <1>8 DEF Bad
<1> QED
    BY <1>4, <1>5, <1>9

\* Every finite set has such a function.
LEMMA SumsExist ==
    ASSUME NEW f, NEW S, IsFiniteSet(S)
    PROVE  \E g : Sums(g, f, S)
<1> DEFINE Bad == {X \in SUBSET S : ~ \E g : Sums(g, f, X)}
<1> SUFFICES ASSUME Bad # {}
             PROVE  FALSE
    OBVIOUS
<1>1. Bad \subseteq SUBSET S
    OBVIOUS
<1> HIDE DEF Bad
<1>2. PICK X \in Bad : \A Y \in Bad : Y \subseteq X => Y = X
    BY <1>1, LeastSubset
<1>3. X \subseteq S /\ ~ \E g : Sums(g, f, X)
    BY <1>2 DEF Bad
<1> DEFINE V(T) == (CHOOSE g : Sums(g, f, T))[T]
           h == [T \in SUBSET X |-> Added(f, T, V(Rest(T)))]
<1>4. ASSUME NEW U, U \subseteq X, U # X
      PROVE  V(U) = Added(f, U, V(Rest(U)))
  <2>1. IsFiniteSet(U) /\ U \subseteq S
    BY <1>3, <1>4, FS_Subset
  <2>2. \E g : Sums(g, f, U)
    BY <1>2, <1>4, <2>1 DEF Bad
  <2> DEFINE g == CHOOSE k : Sums(k, f, U)
  <2>3. Sums(g, f, U) /\ V(U) = g[U]
    BY <2>2
  <2> HIDE DEF g
  <2>4. g[U] = Added(f, U, g[Rest(U)])
    BY <2>3 DEF Sums
  <2>5. CASE U = {}
    BY <2>3, <2>4, <2>5 DEF Added
  <2>6. CASE U # {}
    <3>1. Rest(U) \subseteq U /\ Rest(U) # U
      BY <2>6, RestIsSmaller
    <3>2. Rest(U) \subseteq X /\ Rest(U) # X /\ Rest(U) \subseteq S /\ IsFiniteSet(Rest(U))
      BY <1>4, <2>1, <3>1, FS_Subset
    <3>3. \E k : Sums(k, f, Rest(U))
      BY <1>2, <3>2 DEF Bad
    <3> DEFINE k == CHOOSE j : Sums(j, f, Rest(U))
    <3>4. Sums(k, f, Rest(U)) /\ V(Rest(U)) = k[Rest(U)]
      BY <3>3
    <3> HIDE DEF k
    <3>5. g[Rest(U)] = k[Rest(U)]
      BY <2>1, <2>3, <3>1, <3>4, SumsAgree
    <3> QED
      BY <2>3, <2>4, <3>4, <3>5
  <2> QED
    BY <2>5, <2>6
<1> HIDE DEF V
<1>5. ASSUME NEW T, T \subseteq X
      PROVE  Added(f, T, V(Rest(T))) = Added(f, T, h[Rest(T)])
  <2>1. CASE T = {}
    BY <2>1 DEF Added
  <2>2. CASE T # {}
    <3>1. Rest(T) \subseteq X /\ Rest(T) # X
      BY <1>5, <2>2, RestIsSmaller
    <3>2. V(Rest(T)) = Added(f, Rest(T), V(Rest(Rest(T))))
      BY <1>4, <3>1
    <3>3. h[Rest(T)] = Added(f, Rest(T), V(Rest(Rest(T))))
      BY <3>1
    <3> QED
      BY <3>2, <3>3
  <2> QED
    BY <2>1, <2>2
<1>6. h = [T \in SUBSET X |-> Added(f, T, h[Rest(T)])]
  <2>1. \A T \in SUBSET X : h[T] = Added(f, T, h[Rest(T)])
    BY <1>5
  <2>2. h = [T \in SUBSET X |-> h[T]]
    OBVIOUS
  <2> HIDE DEF h
  <2> QED
    BY <2>1, <2>2
<1>7. Sums(h, f, X)
    BY <1>6 DEF Sums
<1> QED
    BY <1>3, <1>7

\* The library's sum, one element taken out: the one it chooses.
LEMMA SumStep ==
    ASSUME NEW f, NEW S, IsFiniteSet(S)
    PROVE  SumFunctionOnSet(f, S) = Added(f, S, SumFunctionOnSet(f, Rest(S)))
<1> DEFINE g == CHOOSE k : Sums(k, f, S)
<1>1. Sums(g, f, S) /\ SumFunctionOnSet(f, S) = g[S]
    BY SumsExist, SumOfLibrary
<1> HIDE DEF g
<1>2. g[S] = Added(f, S, g[Rest(S)])
    BY <1>1 DEF Sums
<1>3. CASE S = {}
    BY <1>1, <1>2, <1>3 DEF Added
<1>4. CASE S # {}
  <2>1. Rest(S) \subseteq S /\ IsFiniteSet(Rest(S))
    BY <1>4, RestIsSmaller, FS_Subset
  <2> DEFINE k == CHOOSE j : Sums(j, f, Rest(S))
  <2>2. Sums(k, f, Rest(S)) /\ SumFunctionOnSet(f, Rest(S)) = k[Rest(S)]
    BY <2>1, SumsExist, SumOfLibrary
  <2> HIDE DEF k
  <2>3. g[Rest(S)] = k[Rest(S)]
    BY <1>1, <2>1, <2>2, SumsAgree
  <2> QED
    BY <1>1, <1>2, <2>2, <2>3
<1> QED
    BY <1>3, <1>4

-----------------------------------------------------------------------------
(* What a sum of natural numbers does.                                     *)

NaturalOn(f, S) == \A x \in S : f[x] \in Nat

\* The sum over nothing.
LEMMA SumEmpty == \A f : SumFunctionOnSet(f, {}) = 0
BY SumStep, FS_EmptySet DEF Added

\* A sum of natural numbers is one.
LEMMA SumIsNatural ==
    ASSUME NEW f, NEW S, IsFiniteSet(S), NaturalOn(f, S)
    PROVE  SumFunctionOnSet(f, S) \in Nat
<1> DEFINE Bad == {X \in SUBSET S : SumFunctionOnSet(f, X) \notin Nat}
<1> SUFFICES ASSUME Bad # {}
             PROVE  FALSE
    OBVIOUS
<1>1. Bad \subseteq SUBSET S
    OBVIOUS
<1> HIDE DEF Bad
<1>2. PICK X \in Bad : \A Y \in Bad : Y \subseteq X => Y = X
    BY <1>1, LeastSubset
<1>3. X \subseteq S /\ IsFiniteSet(X) /\ SumFunctionOnSet(f, X) \notin Nat
    BY <1>2, FS_Subset DEF Bad
<1>4. X # {}
    BY <1>3, SumEmpty
<1>5. Chosen(X) \in S /\ Rest(X) \subseteq S /\ Rest(X) \notin Bad
    BY <1>2, <1>3, <1>4, RestIsSmaller
<1>6. SumFunctionOnSet(f, Rest(X)) \in Nat /\ f[Chosen(X)] \in Nat
    BY <1>5 DEF Bad, NaturalOn
<1>7. SumFunctionOnSet(f, X) = f[Chosen(X)] + SumFunctionOnSet(f, Rest(X))
    BY <1>3, <1>4, SumStep DEF Added
<1> QED
    BY <1>3, <1>6, <1>7

\* Any element may be the one taken out.
LEMMA SumWithout ==
    ASSUME NEW f, NEW S, IsFiniteSet(S), NaturalOn(f, S), NEW x \in S
    PROVE  /\ SumFunctionOnSet(f, S) = f[x] + SumFunctionOnSet(f, S \ {x})
           /\ SumFunctionOnSet(f, S \ {x}) \in Nat /\ SumFunctionOnSet(f, S) \in Nat
<1> DEFINE Splits(X, y) == SumFunctionOnSet(f, X) = f[y] + SumFunctionOnSet(f, X \ {y})
           Bad == {X \in SUBSET S : ~ \A y \in X : Splits(X, y)}
<1>1. Bad = {}
  <2> SUFFICES ASSUME Bad # {}
               PROVE  FALSE
      OBVIOUS
  <2>1. Bad \subseteq SUBSET S
      OBVIOUS
  <2> HIDE DEF Bad
  <2>2. PICK X \in Bad : \A Y \in Bad : Y \subseteq X => Y = X
      BY <2>1, LeastSubset
  <2> USE DEF Bad
  <2>3. PICK y \in X : ~Splits(X, y)
    BY <2>2
  <2> DEFINE c == Chosen(X)
             Both == X \ {c, y}
  <2> HIDE DEF Splits
  <2>4. X \subseteq S /\ c \in X
    BY <2>2, <2>3, RestIsSmaller
  <2>5. IsFiniteSet(X) /\ X # {} /\ Rest(X) = X \ {c}
    BY <2>3, <2>4, FS_Subset DEF Rest
  <2>6. Splits(X, c)
    BY <2>5, SumStep DEF Added, Splits
  <2>7. c # y
    BY <2>3, <2>6
  <2>8. Splits(X \ {c}, y) /\ Splits(X \ {y}, c)
    <3>1. X \ {c} \subseteq X /\ X \ {c} # X /\ X \ {y} \subseteq X /\ X \ {y} # X
      BY <2>3, <2>4
    <3>2. X \ {c} \notin Bad /\ X \ {y} \notin Bad
      BY <2>2, <3>1
    <3>3. y \in X \ {c} /\ c \in X \ {y}
      BY <2>3, <2>4, <2>7
    <3> QED
      BY <2>4, <3>1, <3>2, <3>3
  <2>9. (X \ {c}) \ {y} = Both /\ (X \ {y}) \ {c} = Both
    OBVIOUS
  <2>10. f[c] \in Nat /\ f[y] \in Nat /\ SumFunctionOnSet(f, Both) \in Nat
    <3>1. Both \subseteq S /\ IsFiniteSet(Both)
      BY <2>4, FS_Subset
    <3> QED
      BY <2>3, <2>4, <3>1, SumIsNatural DEF NaturalOn
  <2> HIDE DEF c, Both, Bad
  <2>11. SumFunctionOnSet(f, X) = f[c] + (f[y] + SumFunctionOnSet(f, Both))
    BY <2>6, <2>8, <2>9 DEF Splits
  <2>12. SumFunctionOnSet(f, X \ {y}) = f[c] + SumFunctionOnSet(f, Both)
    BY <2>8, <2>9 DEF Splits
  <2>13. Splits(X, y)
    BY <2>10, <2>11, <2>12 DEF Splits
  <2> QED
    BY <2>3, <2>13
<1>2. Splits(S, x)
  BY <1>1
<1>3. IsFiniteSet(S \ {x}) /\ NaturalOn(f, S \ {x})
  BY FS_Subset DEF NaturalOn
<1> QED
  BY <1>2, <1>3, SumIsNatural

\* A new element adds its value.
LEMMA SumWith ==
    ASSUME NEW f, NEW S, IsFiniteSet(S), NEW x, x \notin S, NaturalOn(f, S \cup {x})
    PROVE  SumFunctionOnSet(f, S \cup {x}) = f[x] + SumFunctionOnSet(f, S)
<1>1. IsFiniteSet(S \cup {x}) /\ x \in S \cup {x} /\ (S \cup {x}) \ {x} = S
    BY FS_AddElement
<1> QED
    BY <1>1, SumWithout

\* Only the values on the set count.
LEMMA SumOfSameValues ==
    ASSUME NEW f, NEW g, NEW S, IsFiniteSet(S), \A x \in S : f[x] = g[x]
    PROVE  SumFunctionOnSet(f, S) = SumFunctionOnSet(g, S)
<1> DEFINE Bad == {X \in SUBSET S : SumFunctionOnSet(f, X) # SumFunctionOnSet(g, X)}
<1> SUFFICES ASSUME Bad # {}
             PROVE  FALSE
    OBVIOUS
<1>1. Bad \subseteq SUBSET S
    OBVIOUS
<1> HIDE DEF Bad
<1>2. PICK X \in Bad : \A Y \in Bad : Y \subseteq X => Y = X
    BY <1>1, LeastSubset
<1>3. X \subseteq S /\ IsFiniteSet(X) /\ SumFunctionOnSet(f, X) # SumFunctionOnSet(g, X)
    BY <1>2, FS_Subset DEF Bad
<1>4. X # {}
    BY <1>3, SumEmpty
<1>5. Chosen(X) \in S /\ Rest(X) \subseteq S /\ Rest(X) \notin Bad
    BY <1>2, <1>3, <1>4, RestIsSmaller
<1>6. SumFunctionOnSet(f, Rest(X)) = SumFunctionOnSet(g, Rest(X)) /\ f[Chosen(X)] = g[Chosen(X)]
    BY <1>5 DEF Bad
<1>7. /\ SumFunctionOnSet(f, X) = f[Chosen(X)] + SumFunctionOnSet(f, Rest(X))
      /\ SumFunctionOnSet(g, X) = g[Chosen(X)] + SumFunctionOnSet(g, Rest(X))
    BY <1>3, <1>4, SumStep DEF Added
<1> QED
    BY <1>3, <1>6, <1>7

\* Changing one value changes the sum by as much.
LEMMA SumChanged ==
    ASSUME NEW f, NEW g, NEW S, IsFiniteSet(S), NaturalOn(f, S), NaturalOn(g, S), NEW x \in S,
           \A y \in S \ {x} : f[y] = g[y]
    PROVE  SumFunctionOnSet(g, S) + f[x] = SumFunctionOnSet(f, S) + g[x]
<1>1. SumFunctionOnSet(f, S \ {x}) = SumFunctionOnSet(g, S \ {x})
    BY SumOfSameValues, FS_Subset
<1>2. /\ SumFunctionOnSet(f, S) = f[x] + SumFunctionOnSet(f, S \ {x})
      /\ SumFunctionOnSet(f, S \ {x}) \in Nat
    BY SumWithout
<1>3. SumFunctionOnSet(g, S) = g[x] + SumFunctionOnSet(g, S \ {x})
    BY SumWithout
<1>4. f[x] \in Nat /\ g[x] \in Nat
    BY DEF NaturalOn
<1> QED
    BY <1>1, <1>2, <1>3, <1>4

\* The sums of two parts make the sum of the whole.
LEMMA SumOfParts ==
    ASSUME NEW f, NEW S, IsFiniteSet(S), NaturalOn(f, S), NEW T, T \subseteq S
    PROVE  /\ SumFunctionOnSet(f, S) = SumFunctionOnSet(f, T) + SumFunctionOnSet(f, S \ T)
           /\ SumFunctionOnSet(f, T) \in Nat /\ SumFunctionOnSet(f, S \ T) \in Nat
<1> DEFINE Whole(X) == SumFunctionOnSet(f, S) = SumFunctionOnSet(f, X) + SumFunctionOnSet(f, S \ X)
           Bad == {X \in SUBSET S : ~Whole(X)}
<1>1. \A X \in SUBSET S : IsFiniteSet(X) /\ NaturalOn(f, X) /\ SumFunctionOnSet(f, X) \in Nat
    BY FS_Subset, SumIsNatural DEF NaturalOn
<1>2. Bad = {}
  <2> SUFFICES ASSUME Bad # {}
               PROVE  FALSE
      OBVIOUS
  <2>1. Bad \subseteq SUBSET S
      OBVIOUS
  <2> HIDE DEF Bad
  <2>2. PICK X \in Bad : \A Y \in Bad : Y \subseteq X => Y = X
      BY <2>1, LeastSubset
  <2>3. X \subseteq S /\ ~Whole(X)
    BY <2>2 DEF Bad
  <2>4. X # {}
    <3>1. Whole({})
      BY <1>1, SumEmpty
    <3> QED
      BY <2>3, <3>1
  <2>5. PICK x \in X : TRUE
    BY <2>4
  <2> DEFINE Y == X \ {x}
  <2>6. Y \subseteq X /\ Y # X /\ Y \subseteq S
    BY <2>3, <2>5
  <2>7. Whole(Y)
    BY <2>2, <2>6 DEF Bad
  <2>8. /\ SumFunctionOnSet(f, X) = f[x] + SumFunctionOnSet(f, Y)
        /\ SumFunctionOnSet(f, Y) \in Nat /\ f[x] \in Nat
    BY <1>1, <2>3, <2>5, <2>6, SumWithout DEF NaturalOn
  <2>9. S \ Y \in SUBSET S /\ x \in S \ Y /\ (S \ Y) \ {x} = S \ X
    BY <2>3, <2>5
  <2>10. /\ SumFunctionOnSet(f, S \ Y) = f[x] + SumFunctionOnSet(f, S \ X)
         /\ SumFunctionOnSet(f, S \ X) \in Nat
    <3> DEFINE Z == S \ Y
    <3>1. IsFiniteSet(Z) /\ NaturalOn(f, Z) /\ x \in Z /\ Z \ {x} = S \ X
      BY <1>1, <2>9
    <3> HIDE DEF Z
    <3>2. SumFunctionOnSet(f, Z) = f[x] + SumFunctionOnSet(f, Z \ {x})
      BY <3>1, SumWithout
    <3> QED
      BY <1>1, <3>1, <3>2 DEF Z
  <2> HIDE DEF Y
  <2>11. Whole(X)
    BY <2>7, <2>8, <2>10
  <2> QED
    BY <2>3, <2>11
<1>3. Whole(T)
    BY <1>2
<1> QED
    BY <1>1, <1>3

\* Scaling the values scales the sum.
LEMMA SumScaled ==
    ASSUME NEW f, NEW g, NEW S, IsFiniteSet(S), NaturalOn(f, S), NEW n \in Nat,
           \A x \in S : g[x] = n * f[x]
    PROVE  SumFunctionOnSet(g, S) = n * SumFunctionOnSet(f, S)
<1> DEFINE Bad == {X \in SUBSET S : SumFunctionOnSet(g, X) # n * SumFunctionOnSet(f, X)}
<1> SUFFICES ASSUME Bad # {}
             PROVE  FALSE
    OBVIOUS
<1>1. Bad \subseteq SUBSET S
    OBVIOUS
<1> HIDE DEF Bad
<1>2. PICK X \in Bad : \A Y \in Bad : Y \subseteq X => Y = X
    BY <1>1, LeastSubset
<1>3. X \subseteq S /\ IsFiniteSet(X) /\ SumFunctionOnSet(g, X) # n * SumFunctionOnSet(f, X)
    BY <1>2, FS_Subset DEF Bad
<1>4. X # {}
    BY <1>3, SumEmpty
<1>5. Chosen(X) \in S /\ Rest(X) \subseteq S /\ Rest(X) \notin Bad
    BY <1>2, <1>3, <1>4, RestIsSmaller
<1>6. /\ SumFunctionOnSet(g, Rest(X)) = n * SumFunctionOnSet(f, Rest(X))
      /\ g[Chosen(X)] = n * f[Chosen(X)] /\ f[Chosen(X)] \in Nat
    BY <1>5 DEF Bad, NaturalOn
<1>7. SumFunctionOnSet(f, Rest(X)) \in Nat
    BY <1>5, SumIsNatural, FS_Subset DEF NaturalOn
<1>8. /\ SumFunctionOnSet(f, X) = f[Chosen(X)] + SumFunctionOnSet(f, Rest(X))
      /\ SumFunctionOnSet(g, X) = g[Chosen(X)] + SumFunctionOnSet(g, Rest(X))
    BY <1>3, <1>4, SumStep DEF Added
<1>9. \A a, b \in Nat : n * (a + b) = n * a + n * b
    OBVIOUS
<1> QED
    BY <1>3, <1>6, <1>7, <1>8, <1>9

\* A sum of zeros.
LEMMA SumOfZeros ==
    ASSUME NEW f, NEW S, IsFiniteSet(S), \A x \in S : f[x] = 0
    PROVE  SumFunctionOnSet(f, S) = 0
<1>1. NaturalOn(f, S) /\ \A x \in S : f[x] = 0 * f[x]
    BY DEF NaturalOn
<1>2. SumFunctionOnSet(f, S) = 0 * SumFunctionOnSet(f, S) /\ SumFunctionOnSet(f, S) \in Nat
    BY <1>1, SumScaled, SumIsNatural
<1> QED
    BY <1>2

-----------------------------------------------------------------------------
(***************************************************************************)
(* Recursive definitions.  Induction is by a least counterexample, which the*)
(* least of the intervals up to the measures of the counterexamples gives. *)
(***************************************************************************)
\* Of the elements of a set some has the least measure.
LEMMA LeastMeasure ==
    ASSUME NEW D, NEW m \in [D -> Nat], NEW Bad, Bad \subseteq D, Bad # {}
    PROVE  \E x \in Bad : \A y \in Bad : m[x] <= m[y]
<1>1. PICK z \in Bad : TRUE
    OBVIOUS
<1> DEFINE Below == {0..m[x] : x \in {y \in Bad : m[y] <= m[z]}}
           all == 0..m[z]
<1>2. Below \subseteq SUBSET all /\ Below # {}
    OBVIOUS
<1>3. IsFiniteSet(all)
    BY FS_Interval
<1> HIDE DEF Below, all
<1>4. PICK X \in Below : \A Y \in Below : Y \subseteq X => Y = X
    BY <1>2, <1>3, LeastSubset
<1>5. PICK x \in Bad : m[x] <= m[z] /\ X = 0..m[x]
    BY DEF Below
<1>6. ASSUME NEW y \in Bad, m[y] < m[x]
      PROVE  FALSE
  <2>1. 0..m[y] \in Below
    BY <1>5, <1>6 DEF Below
  <2>2. m[x] \in 0..m[x] /\ m[x] \notin 0..m[y] /\ 0..m[y] \subseteq 0..m[x]
    BY <1>6
  <2> QED
    BY <1>4, <1>5, <2>1, <2>2
<1> QED
    BY <1>6

\* Induction on a measure: S is everything if it has whatever has everything before it.
LEMMA MeasureInduction ==
    ASSUME NEW D, NEW m \in [D -> Nat], NEW S, S \subseteq D,
           \A x \in D : (\A y \in D : m[y] < m[x] => y \in S) => x \in S
    PROVE  S = D
<1> DEFINE Bad == D \ S
<1> SUFFICES ASSUME Bad # {}
             PROVE  FALSE
    OBVIOUS
<1>1. PICK x \in Bad : \A y \in Bad : m[x] <= m[y]
    BY LeastMeasure
<1>2. ASSUME NEW y \in D, m[y] < m[x]
      PROVE  y \in S
    BY <1>1, <1>2
<1> QED
    BY <1>1, <1>2

\* A set of numbers with 0, and with the successor of each of its numbers, is all of them.
LEMMA NaturalInduction ==
    ASSUME NEW S, S \subseteq Nat, 0 \in S, \A n \in S : n + 1 \in S
    PROVE  S = Nat
<1> DEFINE m == [n \in Nat |-> n]
<1>1. ASSUME NEW x \in Nat, \A y \in Nat : m[y] < m[x] => y \in S
      PROVE  x \in S
  <2>1. CASE x = 0
    BY <2>1
  <2>2. CASE x # 0
    <3>1. x - 1 \in Nat /\ m[x - 1] < m[x]
      BY <2>2
    <3>2. x - 1 \in S
      BY <1>1, <3>1
    <3> QED
      BY <3>2
  <2> QED
    BY <2>1, <2>2
<1>2. m \in [Nat -> Nat]
    OBVIOUS
<1> HIDE DEF m
<1> QED
    BY <1>1, <1>2, MeasureInduction

\* One step of a recursive definition on D: b on Base, elsewhere step on what pred has.
Unfold(D, Base, b, pred, step, f) ==
    [x \in D |-> IF x \in Base THEN b[x] ELSE step[x][f[pred[x]]]]

\* f satisfies the definition where the measure m is below k.
Good(D, Base, b, pred, step, m, f, k) ==
    \A x \in D : m[x] < k => f[x] = Unfold(D, Base, b, pred, step, f)[x]

\* Two functions are equal that agree at each place where they agree one step before.
AgreeStepwise(D, m, Base, pred, f, g) ==
    /\ m \in [D -> Nat] /\ pred \in [D \ Base -> D] /\ \A x \in D \ Base : m[pred[x]] < m[x]
    /\ f = [x \in D |-> f[x]] /\ g = [x \in D |-> g[x]]
    /\ \A x \in Base : x \in D => f[x] = g[x]
    /\ \A x \in D \ Base : f[pred[x]] = g[pred[x]] => f[x] = g[x]

\* Functions that agree stepwise are equal: where they first differed they would agree one
\* step before.
LEMMA RecursionUnique ==
    ASSUME NEW D, NEW m, NEW Base, NEW pred, NEW f, NEW g, AgreeStepwise(D, m, Base, pred, f, g)
    PROVE  f = g
<1> USE DEF AgreeStepwise
<1> DEFINE Bad == {x \in D : f[x] # g[x]}
<1>1. CASE Bad = {}
    BY <1>1
<1>2. CASE Bad # {}
  <2>1. Bad \subseteq D
    OBVIOUS
  <2>2. \A x \in D : x \in Bad <=> f[x] # g[x]
    OBVIOUS
  <2> HIDE DEF Bad
  <2>3. PICK x \in Bad : \A y \in Bad : m[x] <= m[y]
    BY <1>2, <2>1, LeastMeasure
  <2>4. x \in D /\ x \notin Base
    BY <2>1, <2>2
  <2>5. pred[x] \in D /\ m[pred[x]] < m[x]
    BY <2>4
  <2>6. pred[x] \notin Bad
    BY <2>3, <2>4, <2>5
  <2> QED
    BY <2>2, <2>4, <2>5, <2>6
<1> QED
    BY <1>1, <1>2

\* A recursive definition whose every step goes to a smaller measure defines a function.
IsRecursion(D, V, v, m, Base, b, pred, step) ==
    /\ v \in V /\ m \in [D -> Nat] /\ Base \subseteq D
    /\ b \in [Base -> V] /\ pred \in [D \ Base -> D] /\ step \in [D -> [V -> V]]
    /\ \A x \in D \ Base : m[pred[x]] < m[x]

\* f satisfies the definition everywhere.
Satisfies(D, Base, b, pred, step, f) ==
    \A x \in D : f[x] = IF x \in Base THEN b[x] ELSE step[x][f[pred[x]]]

\* Such a function exists: for each k one satisfies the definition below k, any two agree
\* where both do, and the value at x of the one for x's measure serves.
LEMMA RecursionExists ==
    ASSUME NEW D, NEW V, NEW v, NEW m, NEW Base, NEW b, NEW pred, NEW step,
           IsRecursion(D, V, v, m, Base, b, pred, step)
    PROVE  \E f \in [D -> V] : Satisfies(D, Base, b, pred, step, f)
<1> SUFFICES ASSUME v \in V, m \in [D -> Nat], Base \subseteq D,
                    b \in [Base -> V], pred \in [D \ Base -> D], step \in [D -> [V -> V]],
                    \A x \in D \ Base : m[pred[x]] < m[x]
             PROVE  \E f \in [D -> V] :
                        \A x \in D : f[x] = IF x \in Base THEN b[x] ELSE step[x][f[pred[x]]]
    BY DEF IsRecursion, Satisfies
<1> DEFINE U(f) == Unfold(D, Base, b, pred, step, f)
           G(f, k) == Good(D, Base, b, pred, step, m, f, k)
           S == {k \in Nat : \E f \in [D -> V] : G(f, k)}
<1>0. ASSUME NEW e, NEW f, NEW k \in Nat, NEW j \in Nat, G(e, k), G(f, j),
             NEW x \in D, m[x] < k, m[x] < j
      PROVE  e[x] = f[x]
  <2> DEFINE T == {y \in D : m[y] < k /\ m[y] < j => e[y] = f[y]}
  <2>1. ASSUME NEW y \in D, \A z \in D : m[z] < m[y] => z \in T, m[y] < k, m[y] < j
        PROVE  e[y] = f[y]
    <3>1. e[y] = U(e)[y] /\ f[y] = U(f)[y]
      BY <1>0, <2>1 DEF Good
    <3>2. CASE y \in Base
      BY <3>1, <3>2 DEF Unfold
    <3>3. CASE y \notin Base
      <4>1. pred[y] \in D /\ m[pred[y]] < m[y]
        BY <3>3
      <4>2. m[pred[y]] < k /\ m[pred[y]] < j
        BY <2>1, <4>1
      <4>3. e[pred[y]] = f[pred[y]]
        BY <2>1, <4>1, <4>2
      <4> QED
        BY <3>1, <3>3, <4>3 DEF Unfold
    <3> QED
      BY <3>2, <3>3
  <2>2. T \subseteq D
    OBVIOUS
  <2>3. \A y \in D : (\A z \in D : m[z] < m[y] => z \in T) => y \in T
    BY <2>1
  <2> DEFINE Bad == D \ T
  <2>4. CASE Bad = {}
    BY <1>0, <2>4
  <2>5. CASE Bad # {}
    <3>1. Bad \subseteq D
      OBVIOUS
    <3>2. \A y \in D : y \notin T => y \in Bad
      OBVIOUS
    <3>3. \A y \in Bad : y \in D /\ y \notin T
      OBVIOUS
    <3> HIDE DEF Bad, T
    <3>4. PICK y \in Bad : \A z \in Bad : m[y] <= m[z]
      BY <2>5, <3>1, LeastMeasure
    <3>5. \A z \in D : m[z] < m[y] => z \in T
      BY <3>2, <3>3, <3>4
    <3> QED
      BY <2>3, <3>3, <3>4, <3>5
  <2> QED
    BY <2>4, <2>5
<1>1. S = Nat
  <2>1. 0 \in S
    <3>1. [x \in D |-> v] \in [D -> V] /\ G([x \in D |-> v], 0)
      BY DEF Good
    <3> QED
      BY <3>1
  <2>2. ASSUME NEW k \in S
        PROVE  k + 1 \in S
    <3>1. PICK f \in [D -> V] : G(f, k)
      OBVIOUS
    <3>2. U(f) \in [D -> V]
      BY DEF Unfold
    <3>3. ASSUME NEW x \in D, m[x] < k + 1
          PROVE  U(f)[x] = U(U(f))[x]
      <4>1. CASE x \in Base
        BY <4>1 DEF Unfold
      <4>2. CASE x \notin Base
        <5>1. pred[x] \in D /\ m[pred[x]] < m[x]
          BY <4>2
        <5>2. m[pred[x]] < k
          BY <3>3, <5>1
        <5>3. f[pred[x]] = U(f)[pred[x]]
          BY <3>1, <5>1, <5>2 DEF Good
        <5> QED
          BY <4>2, <5>3 DEF Unfold
      <4> QED
        BY <4>1, <4>2
    <3>4. G(U(f), k + 1)
      BY <3>3 DEF Good
    <3> QED
      BY <3>2, <3>4
  <2>3. S \subseteq Nat
    OBVIOUS
  <2> HIDE DEF S
  <2> QED
    BY <2>1, <2>2, <2>3, NaturalInduction
<1> DEFINE g(k) == CHOOSE f \in [D -> V] : G(f, k)
<1>2. ASSUME NEW k \in Nat
      PROVE  g(k) \in [D -> V] /\ G(g(k), k)
  <2>1. \E f \in [D -> V] : G(f, k)
    BY <1>1
  <2> QED
    BY <2>1
<1> HIDE DEF g
<1> DEFINE h == [x \in D |-> g(m[x] + 1)[x]]
<1>3. h \in [D -> V]
    BY <1>2
<1>4. ASSUME NEW x \in D
      PROVE  h[x] = IF x \in Base THEN b[x] ELSE step[x][h[pred[x]]]
  <2>1. G(g(m[x] + 1), m[x] + 1)
    BY <1>2
  <2>2. h[x] = U(g(m[x] + 1))[x]
    BY <2>1 DEF Good
  <2>3. CASE x \in Base
    BY <2>2, <2>3 DEF Unfold
  <2>4. CASE x \notin Base
    <3>1. pred[x] \in D /\ m[pred[x]] < m[x]
      BY <2>4
    <3>2. G(g(m[pred[x]] + 1), m[pred[x]] + 1)
      BY <1>2, <3>1
    <3>3. m[x] + 1 \in Nat /\ m[pred[x]] + 1 \in Nat /\ m[pred[x]] < m[x] + 1
          /\ m[pred[x]] < m[pred[x]] + 1
      BY <3>1
    <3>4. g(m[x] + 1)[pred[x]] = g(m[pred[x]] + 1)[pred[x]]
      <4> DEFINE f1 == g(m[x] + 1)
                 f2 == g(m[pred[x]] + 1)
                 k1 == m[x] + 1
                 k2 == m[pred[x]] + 1
                 y == pred[x]
      <4>1. Good(D, Base, b, pred, step, m, f1, k1) /\ Good(D, Base, b, pred, step, m, f2, k2)
        BY <2>1, <3>2
      <4>2. y \in D /\ k1 \in Nat /\ k2 \in Nat /\ m[y] < k1 /\ m[y] < k2
        BY <3>1, <3>3
      <4> HIDE DEF f1, f2, k1, k2, y
      <4>3. f1[y] = f2[y]
        BY <4>1, <4>2, <1>0
      <4> QED
        BY <4>3 DEF f1, f2, y
    <3>5. h[pred[x]] = g(m[pred[x]] + 1)[pred[x]]
      BY <3>1
    <3> QED
      BY <2>2, <2>4, <3>4, <3>5 DEF Unfold
  <2> QED
    BY <2>3, <2>4
<1> QED
    BY <1>3, <1>4
===============================================================================
