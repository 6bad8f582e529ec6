------------------------------ MODULE SumTheorems ------------------------------
(*****************************************************************************)
(* Facts about SumFunctionOnSet, the sum of f[x] for x in a finite set.  The *)
(* operator is a function defined by recursion on subsets.  Induction is by  *)
(* a smallest counterexample: a set of sets that is not empty has a member   *)
(* of which no other member is a subset.                                     *)
(*****************************************************************************)
EXTENDS Functions, FiniteSetTheorems, TLAPS

Pick(S) == CHOOSE x \in S : TRUE

\* What g has to be for the sum to be g[S].
IsSum(f, S, g) ==
    g = [s \in SUBSET S |-> IF s = {} THEN 0 ELSE f[Pick(s)] + g[s \ {Pick(s)}]]

LEMMA SumUnfolds ==
    ASSUME NEW f, NEW S
    PROVE  SumFunctionOnSet(f, S) = (CHOOSE g : IsSum(f, S, g))[S]
  BY DEF SumFunctionOnSet, FoldFunctionOnSet, MapThenFoldSet, IsSum, Pick

LEMMA SmallestSet ==
    ASSUME NEW S, IsFiniteSet(S), NEW B \in SUBSET SUBSET S, B # {}
    PROVE  \E T \in B : IsFiniteSet(T) /\ \A U \in B : U \subseteq T => U = T
<1>1. B \subseteq FiniteSubsetsOf(S)
  BY FS_FiniteSubsetsOfFinite
<1>2. PICK T \in B : \A U \in B : ~ (<<U, T>> \in StrictSubsetOrdering(S))
  BY <1>1, FS_StrictSubsetOrderingWellFounded, WFMin
<1>3. QED
  BY <1>2, FS_Subset DEF StrictSubsetOrdering

-----------------------------------------------------------------------------
(* The recursion has a solution, and only one *)

LEMMA PickIn == ASSUME NEW S, S # {} PROVE Pick(S) \in S
  BY DEF Pick

LEMMA IterAt ==
    ASSUME NEW f, NEW S, NEW g, IsSum(f, S, g), NEW s \in SUBSET S
    PROVE  g[s] = IF s = {} THEN 0 ELSE f[Pick(s)] + g[s \ {Pick(s)}]
  BY DEF IsSum

\* Where two solutions are both defined they agree.
LEMMA IterUnique ==
    ASSUME NEW f, NEW S, IsFiniteSet(S), NEW T, NEW g, NEW h, IsSum(f, S, g), IsSum(f, T, h)
    PROVE  \A s \in SUBSET S : s \in SUBSET T => g[s] = h[s]
<1> DEFINE B == {s \in SUBSET S : s \in SUBSET T /\ g[s] # h[s]}
<1>1. SUFFICES ASSUME B # {} PROVE FALSE
  OBVIOUS
<1>2. PICK s \in B : \A u \in B : u \subseteq s => u = s
  <2>1. B \in SUBSET SUBSET S
    OBVIOUS
  <2> HIDE DEF B
  <2>2. QED
    BY <1>1, <2>1, SmallestSet
<1>3. g[s] = (IF s = {} THEN 0 ELSE f[Pick(s)] + g[s \ {Pick(s)}])
  BY IterAt
<1>4. h[s] = (IF s = {} THEN 0 ELSE f[Pick(s)] + h[s \ {Pick(s)}])
  BY IterAt
<1>5. s # {}
  BY <1>3, <1>4
<1>6. Pick(s) \in s
  BY <1>5, PickIn
<1>7. s \ {Pick(s)} \notin B
  BY <1>2, <1>6
<1>8. g[s \ {Pick(s)}] = h[s \ {Pick(s)}]
  BY <1>7
<1>9. QED
  BY <1>3, <1>4, <1>8

LEMMA IterExists ==
    ASSUME NEW f, NEW S, IsFiniteSet(S)
    PROVE  \E g : IsSum(f, S, g)
<1> DEFINE B == {T \in SUBSET S : ~ \E g : IsSum(f, T, g)}
<1>1. SUFFICES ASSUME B # {} PROVE FALSE
  OBVIOUS
<1>2. PICK T \in B : IsFiniteSet(T) /\ \A U \in B : U \subseteq T => U = T
  <2>1. B \in SUBSET SUBSET S
    OBVIOUS
  <2> HIDE DEF B
  <2>2. QED
    BY <1>1, <2>1, SmallestSet
<1> DEFINE Sub(U) == CHOOSE g : IsSum(f, U, g)
           Value(s) == IF s = {} THEN 0
                       ELSE f[Pick(s)] + Sub(s \ {Pick(s)})[s \ {Pick(s)}]
           G == [s \in SUBSET T |-> Value(s)]
<1>3. ASSUME NEW U \in SUBSET T, U # T PROVE IsSum(f, U, Sub(U))
  <2>1. \E g : IsSum(f, U, g)
    BY <1>2, <1>3
  <2>2. QED
    BY <2>1
<1>4. ASSUME NEW s \in SUBSET T, s # {} PROVE G[s \ {Pick(s)}] = Sub(s \ {Pick(s)})[s \ {Pick(s)}]
  <2> DEFINE r == s \ {Pick(s)}
  <2>1. Pick(s) \in s
    BY <1>4, PickIn
  <2>2. r \in SUBSET T /\ r # T /\ r \in SUBSET r
    BY <2>1
  <2>3. IsSum(f, r, Sub(r))
    BY <2>2, <1>3
  <2>4. Sub(r)[r] = IF r = {} THEN 0 ELSE f[Pick(r)] + Sub(r)[r \ {Pick(r)}]
    <3> HIDE DEF Sub, r
    <3>1. QED
      BY <2>2, <2>3, IterAt
  <2>5. CASE r = {}
    BY <2>2, <2>4, <2>5
  <2>6. CASE r # {}
    <3> DEFINE q == r \ {Pick(r)}
    <3>1. Pick(r) \in r
      BY <2>6, PickIn
    <3>2. q \in SUBSET T /\ q # T /\ q \in SUBSET r /\ q \in SUBSET q
      BY <2>2, <3>1
    <3>3. IsSum(f, q, Sub(q))
      BY <3>2, <1>3
    <3>4. IsFiniteSet(q)
      BY <1>2, <3>2, FS_Subset
    <3>5. Sub(q)[q] = Sub(r)[q]
      <4> HIDE DEF Sub, r, q
      <4>1. QED
        BY <2>3, <3>2, <3>3, <3>4, IterUnique
    <3>6. G[r] = f[Pick(r)] + Sub(q)[q]
      BY <2>2, <2>6
    <3>7. QED
      BY <2>4, <2>6, <3>5, <3>6
  <2>7. QED
    BY <2>5, <2>6
<1>5. IsSum(f, T, G)
  <2>1. \A s \in SUBSET T : G[s] = Value(s)
    OBVIOUS
  <2>2. \A s \in SUBSET T : G[s] = IF s = {} THEN 0 ELSE f[Pick(s)] + G[s \ {Pick(s)}]
    <3> HIDE DEF G, Sub
    <3>1. QED
      BY <1>4, <2>1
  <2>3. G = [s \in SUBSET T |-> G[s]]
    OBVIOUS
  <2> HIDE DEF G
  <2>4. QED
    BY <2>2, <2>3 DEF IsSum
<1>6. QED
  BY <1>2, <1>5

\* Its value at a subset does not depend on the set it was made for.
LEMMA SumAt ==
    ASSUME NEW f, NEW S, IsFiniteSet(S), NEW g, IsSum(f, S, g), NEW T \in SUBSET S
    PROVE  SumFunctionOnSet(f, T) = g[T]
<1>1. IsFiniteSet(T)
  BY FS_Subset
<1>2. \E h : IsSum(f, T, h)
  BY <1>1, IterExists
<1>3. PICK h : h = (CHOOSE k : IsSum(f, T, k))
  OBVIOUS
<1>4. IsSum(f, T, h)
  BY <1>2, <1>3
<1>5. SumFunctionOnSet(f, T) = h[T]
  BY <1>3, SumUnfolds
<1>6. h[T] = g[T]
  BY <1>1, <1>4, IterUnique
<1>7. QED
  BY <1>5, <1>6

\* The recursion, read off the operator itself.
LEMMA SumStep ==
    ASSUME NEW f, NEW S, IsFiniteSet(S)
    PROVE  SumFunctionOnSet(f, S) =
             IF S = {} THEN 0 ELSE f[Pick(S)] + SumFunctionOnSet(f, S \ {Pick(S)})
<1>1. PICK g : IsSum(f, S, g)
  BY IterExists
<1>2. S \in SUBSET S /\ S \ {Pick(S)} \in SUBSET S
  OBVIOUS
<1>3. SumFunctionOnSet(f, S) = g[S]
  BY <1>1, <1>2, SumAt
<1>4. SumFunctionOnSet(f, S \ {Pick(S)}) = g[S \ {Pick(S)}]
  BY <1>1, <1>2, SumAt
<1>5. g[S] = IF S = {} THEN 0 ELSE f[Pick(S)] + g[S \ {Pick(S)}]
  BY <1>1, <1>2, IterAt
<1>6. QED
  BY <1>3, <1>4, <1>5

-----------------------------------------------------------------------------
(* What a sum is and how it changes *)

LEMMA SumEmpty == ASSUME NEW f PROVE SumFunctionOnSet(f, {}) = 0
  BY SumStep, FS_EmptySet

\* The sum of integers is one.
LEMMA SumIsInt ==
    ASSUME NEW S, IsFiniteSet(S), NEW f, \A x \in S : f[x] \in Int
    PROVE  SumFunctionOnSet(f, S) \in Int
<1> DEFINE B == {T \in SUBSET S : SumFunctionOnSet(f, T) \notin Int}
<1>1. SUFFICES ASSUME B # {} PROVE FALSE
  OBVIOUS
<1>2. PICK T \in B : IsFiniteSet(T) /\ \A U \in B : U \subseteq T => U = T
  <2>1. B \in SUBSET SUBSET S
    OBVIOUS
  <2> HIDE DEF B
  <2>2. QED
    BY <1>1, <2>1, SmallestSet
<1>3. T # {}
  BY SumEmpty
<1>4. Pick(T) \in T
  BY <1>3, PickIn
<1>5. SumFunctionOnSet(f, T \ {Pick(T)}) \in Int
  BY <1>2, <1>4
<1>6. SumFunctionOnSet(f, T) = f[Pick(T)] + SumFunctionOnSet(f, T \ {Pick(T)})
  BY <1>2, <1>3, SumStep
<1>7. QED
  BY <1>4, <1>5, <1>6

\* Any element can be taken out first.
LEMMA SumRemove ==
    ASSUME NEW S, IsFiniteSet(S), NEW f, \A x \in S : f[x] \in Int, NEW x \in S
    PROVE  SumFunctionOnSet(f, S) = f[x] + SumFunctionOnSet(f, S \ {x})
<1> DEFINE Sum(T) == SumFunctionOnSet(f, T)
           B == {T \in SUBSET S : \E y \in T : Sum(T) # f[y] + Sum(T \ {y})}
<1>1. SUFFICES ASSUME B # {} PROVE FALSE
  OBVIOUS
<1>2. PICK T \in B : IsFiniteSet(T) /\ \A U \in B : U \subseteq T => U = T
  <2>1. B \in SUBSET SUBSET S
    OBVIOUS
  <2> HIDE DEF B
  <2>2. QED
    BY <1>1, <2>1, SmallestSet
<1>3. PICK y \in T : Sum(T) # f[y] + Sum(T \ {y})
  OBVIOUS
<1> DEFINE p == Pick(T)
<1>4. p \in T
  BY <1>3, PickIn
<1>5. Sum(T) = f[p] + Sum(T \ {p})
  BY <1>2, <1>3, SumStep
<1>6. y # p
  BY <1>3, <1>5
<1>7. T \ {p} \notin B /\ T \ {y} \notin B
  BY <1>2, <1>3, <1>4
<1>8. Sum(T \ {p}) = f[y] + Sum((T \ {p}) \ {y})
  BY <1>3, <1>6, <1>7
<1>9. Sum(T \ {y}) = f[p] + Sum((T \ {y}) \ {p})
  BY <1>4, <1>6, <1>7
<1>10. Sum((T \ {p}) \ {y}) = Sum((T \ {y}) \ {p})
  <2>1. (T \ {p}) \ {y} = (T \ {y}) \ {p}
    OBVIOUS
  <2>2. QED
    BY <2>1
<1>11. f[p] \in Int /\ f[y] \in Int /\ Sum((T \ {p}) \ {y}) \in Int
  <2>1. IsFiniteSet((T \ {p}) \ {y})
    BY <1>2, FS_RemoveElement
  <2>2. QED
    BY <1>3, <1>4, <2>1, SumIsInt
<1> DEFINE rest == Sum((T \ {p}) \ {y})
<1> HIDE DEF Sum, p, B, rest
<1>12. Sum(T) = f[p] + (f[y] + rest) /\ Sum(T \ {y}) = f[p] + rest /\ rest \in Int
  BY <1>5, <1>8, <1>9, <1>10, <1>11 DEF rest
<1>13. Sum(T) = f[y] + Sum(T \ {y})
  BY <1>11, <1>12
<1>14. QED
  BY <1>3, <1>13

LEMMA SumAdd ==
    ASSUME NEW S, IsFiniteSet(S), NEW x, x \notin S, NEW f, \A y \in S \cup {x} : f[y] \in Int
    PROVE  SumFunctionOnSet(f, S \cup {x}) = SumFunctionOnSet(f, S) + f[x]
<1>1. IsFiniteSet(S \cup {x})
  BY FS_AddElement
<1>2. SumFunctionOnSet(f, S \cup {x}) = f[x] + SumFunctionOnSet(f, (S \cup {x}) \ {x})
  BY <1>1, SumRemove
<1>3. (S \cup {x}) \ {x} = S
  OBVIOUS
<1> DEFINE sum == SumFunctionOnSet(f, S)
           total == SumFunctionOnSet(f, S \cup {x})
<1>4. total = f[x] + sum
  BY <1>2, <1>3, Zenon
<1>5. sum \in Int /\ f[x] \in Int
  BY SumIsInt
<1> HIDE DEF sum, total
<1>6. total = sum + f[x]
  BY <1>4, <1>5
<1>7. QED
  BY <1>6 DEF sum, total

\* Only the values at the elements count.
LEMMA SumSame ==
    ASSUME NEW S, IsFiniteSet(S), NEW f, NEW g, \A x \in S : f[x] = g[x]
    PROVE  SumFunctionOnSet(f, S) = SumFunctionOnSet(g, S)
<1> DEFINE B == {T \in SUBSET S : SumFunctionOnSet(f, T) # SumFunctionOnSet(g, T)}
<1>1. SUFFICES ASSUME B # {} PROVE FALSE
  OBVIOUS
<1>2. PICK T \in B : IsFiniteSet(T) /\ \A U \in B : U \subseteq T => U = T
  <2>1. B \in SUBSET SUBSET S
    OBVIOUS
  <2> HIDE DEF B
  <2>2. QED
    BY <1>1, <2>1, SmallestSet
<1>3. T # {}
  BY SumEmpty
<1>4. Pick(T) \in T
  BY <1>3, PickIn
<1>5. SumFunctionOnSet(f, T \ {Pick(T)}) = SumFunctionOnSet(g, T \ {Pick(T)})
  BY <1>2, <1>4
<1>6. SumFunctionOnSet(f, T) = f[Pick(T)] + SumFunctionOnSet(f, T \ {Pick(T)})
  BY <1>2, <1>3, SumStep
<1>7. SumFunctionOnSet(g, T) = g[Pick(T)] + SumFunctionOnSet(g, T \ {Pick(T)})
  BY <1>2, <1>3, SumStep
<1>8. QED
  BY <1>4, <1>5, <1>6, <1>7

\* A sum changes by what one of its summands changes by.
LEMMA SumChanged ==
    ASSUME NEW S, IsFiniteSet(S), NEW x \in S, NEW f, NEW g,
           \A y \in S : f[y] \in Int /\ g[y] \in Int,
           \A y \in S \ {x} : g[y] = f[y]
    PROVE  SumFunctionOnSet(g, S) = SumFunctionOnSet(f, S) + (g[x] - f[x])
<1>1. IsFiniteSet(S \ {x})
  BY FS_RemoveElement
<1>2. SumFunctionOnSet(g, S) = g[x] + SumFunctionOnSet(g, S \ {x})
  BY SumRemove
<1>3. SumFunctionOnSet(f, S) = f[x] + SumFunctionOnSet(f, S \ {x})
  BY SumRemove
<1>4. SumFunctionOnSet(g, S \ {x}) = SumFunctionOnSet(f, S \ {x})
  BY <1>1, SumSame
<1>5. SumFunctionOnSet(f, S \ {x}) \in Int
  BY <1>1, SumIsInt
<1>6. QED
  BY <1>2, <1>3, <1>4, <1>5

LEMMA SumZero ==
    ASSUME NEW S, IsFiniteSet(S), NEW f, \A x \in S : f[x] = 0
    PROVE  SumFunctionOnSet(f, S) = 0
<1> DEFINE B == {T \in SUBSET S : SumFunctionOnSet(f, T) # 0}
<1>1. SUFFICES ASSUME B # {} PROVE FALSE
  BY Zenon
<1>2. PICK T \in B : IsFiniteSet(T) /\ \A U \in B : U \subseteq T => U = T
  <2>1. B \in SUBSET SUBSET S
    OBVIOUS
  <2> HIDE DEF B
  <2>2. QED
    BY <1>1, <2>1, SmallestSet
<1>3. T # {}
  BY SumEmpty
<1>4. Pick(T) \in T
  BY <1>3, PickIn
<1>5. SumFunctionOnSet(f, T \ {Pick(T)}) = 0
  BY <1>2, <1>4
<1>6. SumFunctionOnSet(f, T) = f[Pick(T)] + SumFunctionOnSet(f, T \ {Pick(T)})
  BY <1>2, <1>3, SumStep
<1>7. QED
  BY <1>4, <1>5, <1>6

\* A table that gets an entry, new or not: the sum of the other entries stays.
LEMMA SumUpdated ==
    ASSUME NEW S, IsFiniteSet(S), NEW x, NEW T, T = S \cup {x}, NEW f, NEW g,
           \A y \in S : f[y] \in Int,
           \A y \in T : g[y] \in Int,
           \A y \in S \ {x} : g[y] = f[y]
    PROVE  /\ x \in S => SumFunctionOnSet(g, T) = SumFunctionOnSet(f, S) + (g[x] - f[x])
           /\ x \notin S => SumFunctionOnSet(g, T) = SumFunctionOnSet(f, S) + g[x]
<1>1. CASE x \in S
  <2>1. S = T
    BY <1>1
  <2>2. \A y \in S : f[y] \in Int /\ g[y] \in Int
    OBVIOUS
  <2>3. SumFunctionOnSet(g, S) = SumFunctionOnSet(f, S) + (g[x] - f[x])
    BY <1>1, <2>2, SumChanged
  <2>4. QED
    BY <1>1, <2>1, <2>3
<1>2. CASE x \notin S
  <2>1. \A y \in S \cup {x} : g[y] \in Int
    OBVIOUS
  <2>2. SumFunctionOnSet(g, S \cup {x}) = SumFunctionOnSet(g, S) + g[x]
    BY <1>2, <2>1, SumAdd
  <2>3. \A y \in S : f[y] = g[y]
    BY <1>2
  <2>4. SumFunctionOnSet(f, S) = SumFunctionOnSet(g, S)
    BY <2>3, SumSame
  <2>5. QED
    BY <1>2, <2>2, <2>4
<1>3. QED
  BY <1>1, <1>2

\* The table g is the table f with an entry for x, which f may have had or not.
Updates(f, g, S, x) ==
    /\ IsFiniteSet(S)
    /\ DOMAIN f = S
    /\ DOMAIN g = S \cup {x}
    /\ \A y \in S : f[y] \in Int
    /\ \A y \in S \cup {x} : g[y] \in Int
    /\ \A y \in S \ {x} : g[y] = f[y]

LEMMA TableUpdated ==
    ASSUME NEW S, NEW x, NEW f, NEW g, Updates(f, g, S, x)
    PROVE  /\ x \in S => SumFunction(g) = SumFunction(f) + (g[x] - f[x])
           /\ x \notin S => SumFunction(g) = SumFunction(f) + g[x]
  BY SumUpdated DEF SumFunction, Updates

\* The sum of naturals is one.
LEMMA SumIsNat ==
    ASSUME NEW S, IsFiniteSet(S), NEW f, \A x \in S : f[x] \in Nat
    PROVE  SumFunctionOnSet(f, S) \in Nat
<1> DEFINE B == {T \in SUBSET S : SumFunctionOnSet(f, T) \notin Nat}
<1>1. SUFFICES ASSUME B # {} PROVE FALSE
  OBVIOUS
<1>2. PICK T \in B : IsFiniteSet(T) /\ \A U \in B : U \subseteq T => U = T
  <2>1. B \in SUBSET SUBSET S
    OBVIOUS
  <2> HIDE DEF B
  <2>2. QED
    BY <1>1, <2>1, SmallestSet
<1>3. T # {}
  BY SumEmpty
<1>4. Pick(T) \in T
  BY <1>3, PickIn
<1>5. SumFunctionOnSet(f, T \ {Pick(T)}) \in Nat
  BY <1>2, <1>4
<1>6. SumFunctionOnSet(f, T) = f[Pick(T)] + SumFunctionOnSet(f, T \ {Pick(T)})
  BY <1>2, <1>3, SumStep
<1>7. QED
  BY <1>4, <1>5, <1>6

\* The sum over two sets without a common element.
LEMMA SumUnion ==
    ASSUME NEW S, IsFiniteSet(S), NEW T, IsFiniteSet(T), S \cap T = {},
           NEW f, \A x \in S \cup T : f[x] \in Int
    PROVE  SumFunctionOnSet(f, S \cup T) = SumFunctionOnSet(f, S) + SumFunctionOnSet(f, T)
<1> DEFINE Sum(U) == SumFunctionOnSet(f, U)
           B == {U \in SUBSET T : Sum(S \cup U) # Sum(S) + Sum(U)}
<1>1. SUFFICES ASSUME B # {} PROVE FALSE
  OBVIOUS
<1>2. PICK U \in B : IsFiniteSet(U) /\ \A V \in B : V \subseteq U => V = U
  <2>1. B \in SUBSET SUBSET T
    OBVIOUS
  <2> HIDE DEF B
  <2>2. QED
    BY <1>1, <2>1, SmallestSet
<1>3. Sum(S) \in Int
  BY SumIsInt
<1>4. U # {}
  <2>1. CASE U = {}
    <3>1. S \cup U = S
      BY <2>1
    <3>2. Sum(S \cup U) = Sum(S)
      BY <3>1
    <3>3. Sum(U) = 0
      BY <2>1, SumEmpty
    <3> HIDE DEF Sum
    <3>4. Sum(S \cup U) = Sum(S) + Sum(U)
      BY <1>3, <3>2, <3>3
    <3>5. QED
      BY <1>2, <3>4
  <2>2. QED
    BY <2>1
<1>5. PICK x : x \in U
  BY <1>4
<1> DEFINE V == U \ {x}
<1>6. V \notin B /\ V \in SUBSET T
  BY <1>2, <1>5
<1>7. Sum(S \cup V) = Sum(S) + Sum(V)
  BY <1>6
<1>8. IsFiniteSet(S \cup V) /\ IsFiniteSet(V) /\ x \notin S \cup V /\ f[x] \in Int
  BY <1>2, <1>5, FS_RemoveElement, FS_Union
<1>9. (S \cup V) \cup {x} = S \cup U /\ V \cup {x} = U
  BY <1>5
<1>10. Sum((S \cup V) \cup {x}) = Sum(S \cup V) + f[x]
  <2> DEFINE W == S \cup V
  <2>1. \A y \in W \cup {x} : f[y] \in Int
    BY <1>2, <1>5
  <2>2. IsFiniteSet(W) /\ x \notin W
    BY <1>8
  <2> HIDE DEF W
  <2>3. SumFunctionOnSet(f, W \cup {x}) = SumFunctionOnSet(f, W) + f[x]
    BY <2>1, <2>2, SumAdd
  <2>4. QED
    BY <2>3 DEF W
<1>11. Sum(V \cup {x}) = Sum(V) + f[x]
  <2>1. \A y \in V \cup {x} : f[y] \in Int
    BY <1>2, <1>5
  <2>2. x \notin V
    OBVIOUS
  <2> HIDE DEF V
  <2>3. QED
    BY <1>8, <2>1, <2>2, SumAdd
<1>12. Sum(V) \in Int
  BY <1>2, <1>8, SumIsInt
<1>13. Sum(S \cup U) = Sum(S \cup V) + f[x] /\ Sum(U) = Sum(V) + f[x]
  BY <1>9, <1>10, <1>11, Zenon
<1>14. f[x] \in Int
  BY <1>8
<1> HIDE DEF Sum, V, B
<1>15. Sum(S \cup U) = Sum(S) + Sum(U)
  BY <1>3, <1>7, <1>12, <1>13, <1>14
<1>16. QED
  BY <1>2, <1>15 DEF B

\* The table g is the table f with its entries under other names: those D of f
\* are the names at gives the elements of S.
Renames(f, g, S, at, D) ==
    /\ IsFiniteSet(S)
    /\ D = {at[x] : x \in S}
    /\ \A x, y \in S : at[x] = at[y] => x = y
    /\ \A x \in S : g[x] \in Int /\ g[x] = f[at[x]]

LEMMA TableRenamed ==
    ASSUME NEW S, NEW at, NEW D, NEW f, NEW g, Renames(f, g, S, at, D)
    PROVE  SumFunctionOnSet(g, S) = SumFunctionOnSet(f, D)
<1> USE DEF Renames
<1> DEFINE Image(U) == {at[x] : x \in U}
           B == {U \in SUBSET S : SumFunctionOnSet(g, U) # SumFunctionOnSet(f, Image(U))}
<1>1. SUFFICES ASSUME B # {} PROVE FALSE
  <2>1. S \in SUBSET S /\ Image(S) = D
    OBVIOUS
  <2>2. QED
    BY <2>1
<1>2. PICK U \in B : IsFiniteSet(U) /\ \A V \in B : V \subseteq U => V = U
  <2>1. B \in SUBSET SUBSET S
    OBVIOUS
  <2> HIDE DEF B
  <2>2. QED
    BY <1>1, <2>1, SmallestSet
<1>3. U # {}
  <2>1. Image({}) = {}
    OBVIOUS
  <2> HIDE DEF Image
  <2>2. SumFunctionOnSet(g, {}) = SumFunctionOnSet(f, Image({}))
    BY <2>1, SumEmpty
  <2>3. QED
    BY <1>2, <2>2
<1>4. PICK x : x \in U
  BY <1>3
<1> DEFINE V == U \ {x}
<1>5. V \notin B /\ V \in SUBSET S
  BY <1>2, <1>4
<1>6. SumFunctionOnSet(g, V) = SumFunctionOnSet(f, Image(V))
  BY <1>5
<1>7. IsFiniteSet(V) /\ IsFiniteSet(Image(V))
  <2>1. IsFiniteSet(V)
    BY <1>2, FS_RemoveElement
  <2>2. [y \in V |-> at[y]] \in Surjection(V, Image(V))
    BY DEF Surjection
  <2>3. QED
    BY <2>1, <2>2, FS_Surjection
<1>8. V \cup {x} = U /\ Image(V) \cup {at[x]} = Image(U) /\ x \notin V /\ at[x] \notin Image(V)
  BY <1>2, <1>4
<1>9. SumFunctionOnSet(g, U) = SumFunctionOnSet(g, V) + g[x]
  <2>1. \A y \in V \cup {x} : g[y] \in Int
    BY <1>2, <1>4
  <2> HIDE DEF V, Image, B, Renames
  <2>2. SumFunctionOnSet(g, V \cup {x}) = SumFunctionOnSet(g, V) + g[x]
    BY <1>7, <1>8, <2>1, SumAdd
  <2>3. QED
    BY <1>8, <2>2
<1>10. SumFunctionOnSet(f, Image(U)) = SumFunctionOnSet(f, Image(V)) + f[at[x]]
  <2> DEFINE W == Image(V)
             z == at[x]
  <2>1. \A y \in W \cup {z} : f[y] \in Int
    BY <1>2, <1>4
  <2> HIDE DEF W, z, Image, V
  <2>2. IsFiniteSet(W) /\ z \notin W /\ W \cup {z} = Image(U)
    BY <1>7, <1>8 DEF W, z
  <2>3. SumFunctionOnSet(f, W \cup {z}) = SumFunctionOnSet(f, W) + f[z]
    BY <2>1, <2>2, SumAdd, SMTT(30)
  <2>4. QED
    BY <2>2, <2>3 DEF W, z
<1>11. g[x] = f[at[x]]
  BY <1>2, <1>4
<1> HIDE DEF V, Image, B
<1>12. SumFunctionOnSet(g, U) = SumFunctionOnSet(f, Image(U))
  BY <1>6, <1>9, <1>10, <1>11
<1>13. QED
  BY <1>2, <1>12 DEF B
=============================================================================
