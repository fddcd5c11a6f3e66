----------------------------- MODULE SumLemmas -----------------------------
(***************************************************************************)
(* Sums of a function over a finite set, for the invariants that compare a *)
(* column of one table with a SUM over another.  The sums themselves are   *)
(* MapThenSumSet's, which picks one element after the other; the lemmas    *)
(* say that the order does not matter.  Every induction is by the smallest *)
(* subset for which a claim fails, since an induction rule would take the  *)
(* claim as a parameter.                                                   *)
(***************************************************************************)
EXTENDS FiniteSetsExt, FiniteSetTheorems, WellFoundedInduction, TLAPS

Total(f, S) == MapThenSumSet(LAMBDA x : f[x], S)

Pick(S) == CHOOSE x \in S : TRUE

\* The function that MapThenSumSet defines to be applied to T.
Sums(g, f, T) ==
  g = [s \in SUBSET T |-> IF s = {} THEN 0
                          ELSE f[Pick(s)] + g[s \ {Pick(s)}]]

LEMMA TotalOfSums ==
  ASSUME NEW f, NEW T
  PROVE  Total(f, T) = (CHOOSE g : Sums(g, f, T))[T]
BY DEF Total, MapThenSumSet, MapThenFoldSet, Sums, Pick

LEMMA PickIn ==
  ASSUME NEW S, S # {}
  PROVE  Pick(S) \in S
BY DEF Pick

(* Of the subsets of a finite set that have a property, one is smallest.   *)
LEMMA SmallestSubset ==
  ASSUME NEW S, IsFiniteSet(S), NEW W \in SUBSET SUBSET S, W # {}
  PROVE  \E T \in W : \A U \in W : U \subseteq T => U = T
<1>1. IsWellFoundedOn(StrictSubsetOrdering(S), SUBSET S)
  BY FS_StrictSubsetOrderingWellFounded, FS_FiniteSubsetsOfFinite
<1>2. PICK T \in W : \A U \in W : <<U, T>> \notin StrictSubsetOrdering(S)
  <2>1. \E T \in W : \A U \in W : ~(<<U, T>> \in StrictSubsetOrdering(S))
    BY <1>1, WFMin
  <2> QED
    BY <2>1
<1>3. ASSUME NEW U \in W, U \subseteq T PROVE U = T
  BY <1>2, <1>3 DEF StrictSubsetOrdering
<1> QED
  BY <1>2, <1>3

(* Two such functions agree where both are defined.                        *)
LEMMA SumsAgree ==
  ASSUME NEW S, IsFiniteSet(S), NEW f,
         NEW T \in SUBSET S, NEW g, Sums(g, f, T),
         NEW U \in SUBSET S, NEW h, Sums(h, f, U),
         NEW V \in SUBSET (T \cap U)
  PROVE  g[V] = h[V]
<1> DEFINE W == {X \in SUBSET (T \cap U) : g[X] # h[X]}
<1> SUFFICES ASSUME W # {} PROVE FALSE
  OBVIOUS
<1>1. PICK X \in W : \A Y \in W : Y \subseteq X => Y = X
  <2>1. W \in SUBSET SUBSET S
    OBVIOUS
  <2> HIDE DEF W
  <2> QED
    BY <2>1, SmallestSubset
<1>2. CASE X = {}
  BY <1>2 DEF Sums
<1>3. CASE X # {}
  <2> DEFINE Y == X \ {Pick(X)}
  <2>1. Pick(X) \in X
    BY <1>3, PickIn
  <2>2. g[Y] = h[Y]
    BY <1>1, <2>1
  <2>3. g[X] = f[Pick(X)] + g[Y] /\ h[X] = f[Pick(X)] + h[Y]
    BY <1>3 DEF Sums
  <2> QED
    BY <2>2, <2>3
<1> QED
  BY <1>2, <1>3

LEMMA SumsExist ==
  ASSUME NEW S, IsFiniteSet(S), NEW f
  PROVE  \E g : Sums(g, f, S)
<1> DEFINE W == {T \in SUBSET S : ~ \E g : Sums(g, f, T)}
<1> SUFFICES ASSUME W # {} PROVE FALSE
  OBVIOUS
<1>1. PICK T \in W : \A U \in W : U \subseteq T => U = T
  <2>1. W \in SUBSET SUBSET S
    OBVIOUS
  <2> HIDE DEF W
  <2> QED
    BY <2>1, SmallestSubset
<1> DEFINE of(U) == CHOOSE g : Sums(g, f, U)
<1>2. ASSUME NEW U \in SUBSET T, U # T PROVE Sums(of(U), f, U)
  BY <1>1, <1>2
<1> DEFINE rest(s) == s \ {Pick(s)}
<1> DEFINE h == [s \in SUBSET T |->
                   IF s = {} THEN 0 ELSE f[Pick(s)] + of(rest(s))[rest(s)]]
<1>3. ASSUME NEW s \in SUBSET T, s # {} PROVE h[rest(s)] = of(rest(s))[rest(s)]
  <2> DEFINE U == rest(s)
  <2>1. Pick(s) \in s
    BY <1>3, PickIn
  <2>2. U \in SUBSET T /\ U # T
    BY <2>1
  <2>3. Sums(of(U), f, U)
    BY <2>2, <1>2
  <2> HIDE DEF of
  <2>4. CASE U = {}
    BY <2>3, <2>4 DEF Sums
  <2>5. CASE U # {}
    <3>1. Pick(U) \in U
      BY <2>5, PickIn
    <3>2. rest(U) \in SUBSET T /\ rest(U) # T /\ rest(U) \in SUBSET U
      BY <2>2, <3>1
    <3>3. Sums(of(rest(U)), f, rest(U))
      BY <3>2, <1>2
    <3>4. of(U)[U] = f[Pick(U)] + of(U)[rest(U)]
      BY <2>3, <2>5 DEF Sums
    <3>5. of(U)[rest(U)] = of(rest(U))[rest(U)]
      <4>1. U \in SUBSET S /\ rest(U) \in SUBSET S
        BY <2>2, <3>2
      <4>2. rest(U) \in SUBSET (U \cap rest(U))
        BY <3>2
      <4> HIDE DEF rest, U
      <4> QED
        BY <4>1, <4>2, <2>3, <3>3, SumsAgree
    <3>6. h[U] = f[Pick(U)] + of(rest(U))[rest(U)]
      BY <2>2, <2>5
    <3> QED
      BY <3>4, <3>5, <3>6
  <2> QED
    BY <2>4, <2>5
<1>4. Sums(h, f, T)
  <2>1. ASSUME NEW s \in SUBSET T
        PROVE  (IF s = {} THEN 0 ELSE f[Pick(s)] + of(rest(s))[rest(s)])
                 = IF s = {} THEN 0 ELSE f[Pick(s)] + h[rest(s)]
    <3> HIDE DEF h, of, rest
    <3> QED
      BY <1>3
  <2>2. h = [s \in SUBSET T |-> IF s = {} THEN 0 ELSE f[Pick(s)] + h[rest(s)]]
    <3> DEFINE a(s) == IF s = {} THEN 0 ELSE f[Pick(s)] + of(rest(s))[rest(s)]
               b(s) == IF s = {} THEN 0 ELSE f[Pick(s)] + h[rest(s)]
    <3>1. \A s \in SUBSET T : a(s) = b(s)
      BY <2>1
    <3>2. h = [s \in SUBSET T |-> a(s)]
      OBVIOUS
    <3> HIDE DEF a, b
    <3>3. [s \in SUBSET T |-> a(s)] = [s \in SUBSET T |-> b(s)]
      BY <3>1
    <3> QED
      BY <3>2, <3>3 DEF b
  <2> QED
    BY <2>2 DEF Sums
<1> QED
  BY <1>1, <1>4

(* The equation of the sum, for the element it picks.                      *)
LEMMA TotalOfPick ==
  ASSUME NEW S, IsFiniteSet(S), NEW f
  PROVE  Total(f, S) = IF S = {} THEN 0
                       ELSE f[Pick(S)] + Total(f, S \ {Pick(S)})
<1> DEFINE R == S \ {Pick(S)}
<1> DEFINE g == CHOOSE g : Sums(g, f, S)
<1> DEFINE h == CHOOSE h : Sums(h, f, R)
<1>1. Sums(g, f, S)
  BY SumsExist
<1>2. Sums(h, f, R)
  <2>1. IsFiniteSet(R)
    BY FS_Subset
  <2> QED
    BY <2>1, SumsExist
<1>3. g[R] = h[R]
  <2> HIDE DEF g, h
  <2> QED
    BY <1>1, <1>2, SumsAgree
<1>4. Total(f, S) = g[S] /\ Total(f, R) = h[R]
  BY TotalOfSums
<1> HIDE DEF g, h
<1>5. g[S] = IF S = {} THEN 0 ELSE f[Pick(S)] + g[R]
  BY <1>1 DEF Sums
<1> QED
  BY <1>3, <1>4, <1>5

LEMMA TotalOfNone ==
  ASSUME NEW f
  PROVE  Total(f, {}) = 0
BY TotalOfPick, FS_EmptySet

LEMMA TotalInt ==
  ASSUME NEW S, IsFiniteSet(S), NEW f, \A x \in S : f[x] \in Int
  PROVE  Total(f, S) \in Int
<1> DEFINE W == {T \in SUBSET S : Total(f, T) \notin Int}
<1> SUFFICES ASSUME W # {} PROVE FALSE
  OBVIOUS
<1>1. PICK T \in W : \A U \in W : U \subseteq T => U = T
  <2>1. W \in SUBSET SUBSET S
    OBVIOUS
  <2> HIDE DEF W
  <2> QED
    BY <2>1, SmallestSubset
<1>2. IsFiniteSet(T)
  BY FS_Subset
<1>3. CASE T = {}
  BY <1>3, TotalOfNone
<1>4. CASE T # {}
  <2>1. Pick(T) \in T
    BY <1>4, PickIn
  <2>2. Total(f, T \ {Pick(T)}) \in Int
    BY <1>1, <2>1
  <2>3. Total(f, T) = f[Pick(T)] + Total(f, T \ {Pick(T)})
    BY <1>2, <1>4, TotalOfPick
  <2> QED
    BY <2>1, <2>2, <2>3
<1> QED
  BY <1>3, <1>4

(* Any element may be taken first.                                         *)
LEMMA TotalWithout ==
  ASSUME NEW S, IsFiniteSet(S), NEW f, \A x \in S : f[x] \in Int, NEW x \in S
  PROVE  Total(f, S) = f[x] + Total(f, S \ {x})
<1> DEFINE W == {T \in SUBSET S :
                   \E y \in T : Total(f, T) # f[y] + Total(f, T \ {y})}
<1> SUFFICES ASSUME W # {} PROVE FALSE
  BY S \in SUBSET S
<1>1. PICK T \in W : \A U \in W : U \subseteq T => U = T
  <2>1. W \in SUBSET SUBSET S
    OBVIOUS
  <2> HIDE DEF W
  <2> QED
    BY <2>1, SmallestSubset
<1>2. PICK y \in T : Total(f, T) # f[y] + Total(f, T \ {y})
  BY <1>1
<1> DEFINE z == Pick(T)
<1>3. z \in T /\ Total(f, T) = f[z] + Total(f, T \ {z})
  <2>1. IsFiniteSet(T) /\ T # {}
    BY FS_Subset
  <2> QED
    BY <2>1, PickIn, TotalOfPick
<1> HIDE DEF z
<1>4. z # y
  BY <1>2, <1>3
<1>5. Total(f, T \ {z}) = f[y] + Total(f, (T \ {z}) \ {y})
  BY <1>1, <1>3, <1>4
<1>6. Total(f, T \ {y}) = f[z] + Total(f, (T \ {y}) \ {z})
  BY <1>1, <1>3, <1>4
<1>7. (T \ {z}) \ {y} = (T \ {y}) \ {z}
  OBVIOUS
<1>8. Total(f, (T \ {y}) \ {z}) \in Int /\ f[y] \in Int /\ f[z] \in Int
  <2>1. (T \ {y}) \ {z} \in SUBSET S
    OBVIOUS
  <2>2. IsFiniteSet((T \ {y}) \ {z})
    BY <2>1, FS_Subset
  <2>3. \A v \in (T \ {y}) \ {z} : f[v] \in Int
    BY <2>1
  <2> QED
    BY <2>2, <2>3, <1>3, TotalInt
<1> HIDE DEF W
<1> DEFINE rest == Total(f, (T \ {y}) \ {z})
<1>9. Total(f, T) = f[z] + (f[y] + rest)
  BY <1>3, <1>5, <1>7
<1>10. Total(f, T) # f[y] + (f[z] + rest)
  BY <1>2, <1>6
<1>11. rest \in Int
  BY <1>8
<1> HIDE DEF rest
<1> QED
  BY <1>8, <1>9, <1>10, <1>11

LEMMA TotalWith ==
  ASSUME NEW S, IsFiniteSet(S), NEW f, \A y \in S : f[y] \in Int,
         NEW x, x \notin S, f[x] \in Int
  PROVE  Total(f, S \cup {x}) = Total(f, S) + f[x]
<1>1. IsFiniteSet(S \cup {x})
  BY FS_AddElement
<1>2. Total(f, S \cup {x}) = f[x] + Total(f, (S \cup {x}) \ {x})
  <2>1. \A y \in S \cup {x} : f[y] \in Int
    OBVIOUS
  <2> QED
    BY <1>1, <2>1, TotalWithout
<1>3. (S \cup {x}) \ {x} = S
  OBVIOUS
<1>4. Total(f, S) \in Int
  BY TotalInt
<1>5. Total(f, S \cup {x}) = f[x] + Total(f, S)
  BY <1>2, <1>3
<1> HIDE DEF Total
<1> QED
  BY <1>4, <1>5

(* Only the values on the set count.                                       *)
LEMMA TotalSame ==
  ASSUME NEW S, IsFiniteSet(S), NEW f, NEW g, \A x \in S : f[x] = g[x]
  PROVE  Total(f, S) = Total(g, S)
<1> DEFINE W == {T \in SUBSET S : Total(f, T) # Total(g, T)}
<1> SUFFICES ASSUME W # {} PROVE FALSE
  OBVIOUS
<1>1. PICK T \in W : \A U \in W : U \subseteq T => U = T
  <2>1. W \in SUBSET SUBSET S
    OBVIOUS
  <2> HIDE DEF W
  <2> QED
    BY <2>1, SmallestSubset
<1>2. IsFiniteSet(T)
  BY FS_Subset
<1>3. CASE T = {}
  BY <1>3, TotalOfNone
<1>4. CASE T # {}
  <2>1. Pick(T) \in T
    BY <1>4, PickIn
  <2>2. Total(f, T \ {Pick(T)}) = Total(g, T \ {Pick(T)})
    BY <1>1, <2>1
  <2>3. /\ Total(f, T) = f[Pick(T)] + Total(f, T \ {Pick(T)})
        /\ Total(g, T) = g[Pick(T)] + Total(g, T \ {Pick(T)})
    BY <1>2, <1>4, TotalOfPick
  <2> QED
    BY <2>1, <2>2, <2>3
<1> QED
  BY <1>3, <1>4

LEMMA TotalNat ==
  ASSUME NEW S, IsFiniteSet(S), NEW f, \A x \in S : f[x] \in Nat
  PROVE  Total(f, S) \in Nat
<1> DEFINE W == {T \in SUBSET S : Total(f, T) \notin Nat}
<1> SUFFICES ASSUME W # {} PROVE FALSE
  OBVIOUS
<1>1. PICK T \in W : \A U \in W : U \subseteq T => U = T
  <2>1. W \in SUBSET SUBSET S
    OBVIOUS
  <2> HIDE DEF W
  <2> QED
    BY <2>1, SmallestSubset
<1>2. IsFiniteSet(T)
  BY FS_Subset
<1>3. CASE T = {}
  BY <1>3, TotalOfNone
<1>4. CASE T # {}
  <2>1. Pick(T) \in T
    BY <1>4, PickIn
  <2>2. Total(f, T \ {Pick(T)}) \in Nat
    BY <1>1, <2>1
  <2>3. Total(f, T) = f[Pick(T)] + Total(f, T \ {Pick(T)})
    BY <1>2, <1>4, TotalOfPick
  <2> QED
    BY <2>1, <2>2, <2>3
<1> QED
  BY <1>3, <1>4
(* One more element, and the values of the others as they were. *)
LEMMA TotalGrows ==
  ASSUME NEW S, IsFiniteSet(S), NEW f, NEW g,
         \A y \in S : f[y] \in Int /\ g[y] = f[y],
         NEW x, x \notin S, g[x] \in Int
  PROVE  Total(g, S \cup {x}) = Total(f, S) + g[x]
<1>1. Total(g, S) = Total(f, S)
  BY TotalSame
<1>2. Total(g, S \cup {x}) = Total(g, S) + g[x]
  BY TotalWith
<1> QED
  BY <1>1, <1>2

(* One element less. *)
LEMMA TotalShrinks ==
  ASSUME NEW S, IsFiniteSet(S), NEW f, NEW g, NEW x \in S,
         \A y \in S : f[y] \in Int, \A y \in S \ {x} : g[y] = f[y]
  PROVE  Total(g, S \ {x}) = Total(f, S) - f[x]
<1>1. IsFiniteSet(S \ {x})
  BY FS_Subset
<1>2. Total(g, S \ {x}) = Total(f, S \ {x})
  BY <1>1, TotalSame
<1>3. Total(f, S) = f[x] + Total(f, S \ {x})
  BY TotalWithout
<1>4. Total(f, S \ {x}) \in Int
  BY <1>1, TotalInt
<1> HIDE DEF Total
<1> QED
  BY <1>2, <1>3, <1>4

(* What one element contributes, whether it is there or not. *)
LEMMA TotalApart ==
  ASSUME NEW S, IsFiniteSet(S), NEW f, \A y \in S : f[y] \in Int, NEW x
  PROVE  Total(f, S) = Total(f, S \ {x}) + IF x \in S THEN f[x] ELSE 0
<1>1. Total(f, S) \in Int /\ Total(f, S \ {x}) \in Int
  <2>1. IsFiniteSet(S \ {x})
    BY FS_Subset
  <2> QED
    BY <2>1, TotalInt
<1>2. CASE x \in S
  <2>1. Total(f, S) = f[x] + Total(f, S \ {x})
    BY <1>2, TotalWithout
  <2> HIDE DEF Total
  <2> QED
    BY <1>1, <1>2, <2>1
<1>3. CASE x \notin S
  <2>1. S \ {x} = S
    BY <1>3
  <2>2. Total(f, S \ {x}) = Total(f, S)
    BY <2>1
  <2> HIDE DEF Total
  <2> QED
    BY <1>1, <1>3, <2>2
<1> QED
  BY <1>2, <1>3
=============================================================================
