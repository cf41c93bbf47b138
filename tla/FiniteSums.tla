------------------------------ MODULE FiniteSums ------------------------------
(* Sums over finite sets, as SumFunctionOnSet of the community module Functions *)
(* defines them.  The library states its induction theorems for operators that  *)
(* are parameters; here induction over the subsets of a finite set is stated of *)
(* a set of subsets (SubsetInduction), which follows from the well-foundedness  *)
(* of strict inclusion, and the fold's recursive function is shown to exist and *)
(* to be unique by it.                                                          *)
EXTENDS Integers, Functions, FiniteSetsExt, FiniteSetTheorems, WellFoundedInduction, TLAPS

Some(s) == CHOOSE x \in s : TRUE

IsSum(g, f, S) ==
  g = [s \in SUBSET S |-> IF s = {} THEN 0 ELSE f[Some(s)] + g[s \ {Some(s)}]]

\* The definition of the sum, with the fold of the library expanded.
LEMMA SumIsChosen ==
  ASSUME NEW S, NEW f
  PROVE  SumFunctionOnSet(f, S) = (CHOOSE g : IsSum(g, f, S))[S]
  BY DEF SumFunctionOnSet, FoldFunctionOnSet, MapThenFoldSet, IsSum, Some

\* A set that holds every subset of S whose strict subsets it holds holds them all.
LEMMA SubsetInduction ==
  ASSUME NEW S, IsFiniteSet(S), NEW T,
         \A s \in SUBSET S : (\A r \in SUBSET s : r # s => r \in T) => s \in T
  PROVE  \A s \in SUBSET S : s \in T
  <1> DEFINE B == {s \in SUBSET S : s \notin T}
  <1> SUFFICES ASSUME B # {} PROVE FALSE
    OBVIOUS
  <1>1. IsWellFoundedOn(StrictSubsetOrdering(S), SUBSET S)
    <2>1. FiniteSubsetsOf(S) = SUBSET S
      BY FS_FiniteSubsetsOfFinite
    <2>2. IsWellFoundedOn(StrictSubsetOrdering(S), FiniteSubsetsOf(S))
      BY FS_StrictSubsetOrderingWellFounded
    <2> QED
      BY <2>1, <2>2
  <1>2. B \subseteq SUBSET S
    OBVIOUS
  <1> HIDE DEF B
  <1>3. PICK s \in B : \A r \in B : ~(<<r, s>> \in StrictSubsetOrdering(S))
    BY <1>1, <1>2, WFMin
  <1> USE DEF B
  <1>4. \A r \in SUBSET s : r # s => r \in T
    BY <1>3 DEF StrictSubsetOrdering
  <1> QED
    BY <1>3, <1>4

\* Two recursive functions that sum f agree wherever both are defined.
LEMMA SumUnique ==
  ASSUME NEW S, IsFiniteSet(S), NEW f, NEW g, IsSum(g, f, S), NEW R \in SUBSET S, NEW h, IsSum(h, f, R)
  PROVE  \A s \in SUBSET R : g[s] = h[s]
  <1> DEFINE T == {s \in SUBSET R : g[s] = h[s]}
  <1>1. IsFiniteSet(R)
    BY FS_Subset
  <1>2. ASSUME NEW s \in SUBSET R, \A r \in SUBSET s : r # s => r \in T
        PROVE  s \in T
    <2>1. /\ g[s] = IF s = {} THEN 0 ELSE f[Some(s)] + g[s \ {Some(s)}]
          /\ h[s] = IF s = {} THEN 0 ELSE f[Some(s)] + h[s \ {Some(s)}]
      BY DEF IsSum
    <2>2. CASE s = {}
      BY <2>1, <2>2
    <2>3. CASE s # {}
      <3>1. Some(s) \in s
        BY <2>3 DEF Some
      <3>2. s \ {Some(s)} \in T
        BY <1>2, <3>1
      <3> QED
        BY <2>1, <2>3, <3>2
    <2> QED
      BY <2>2, <2>3
  <1> HIDE DEF T
  <1>3. \A s \in SUBSET R : s \in T
    BY <1>1, <1>2, SubsetInduction
  <1> QED
    BY <1>3 DEF T

\* There is one for every finite set.
LEMMA SumExists ==
  ASSUME NEW S, IsFiniteSet(S), NEW f
  PROVE  \E g : IsSum(g, f, S)
  <1> DEFINE G(s) == CHOOSE g : IsSum(g, f, s)
             T == {s \in SUBSET S : IsSum(G(s), f, s)}
  <1>1. ASSUME NEW s \in SUBSET S, \A r \in SUBSET s : r # s => r \in T
        PROVE  s \in T
    <2> DEFINE g == [q \in SUBSET s |-> IF q = {} THEN 0 ELSE f[Some(q)] + G(q \ {Some(q)})[q \ {Some(q)}]]
    <2>1. ASSUME NEW q \in SUBSET s, q # s
          PROVE  g[q] = G(q)[q]
      <3>1. IsSum(G(q), f, q)
        BY <1>1, <2>1
      <3>2. G(q)[q] = IF q = {} THEN 0 ELSE f[Some(q)] + G(q)[q \ {Some(q)}]
        <4> HIDE DEF G
        <4> QED BY <3>1 DEF IsSum
      <3>3. CASE q = {}
        <4> HIDE DEF G
        <4> QED BY <3>2, <3>3
      <3>4. CASE q # {}
        <4>1. Some(q) \in q
          BY <3>4 DEF Some
        <4>2. IsSum(G(q \ {Some(q)}), f, q \ {Some(q)})
          BY <1>1, <2>1, <4>1
        <4>3. IsFiniteSet(q)
          BY FS_Subset
        <4> HIDE DEF G
        <4>4. \A r \in SUBSET (q \ {Some(q)}) : G(q)[r] = G(q \ {Some(q)})[r]
          BY <3>1, <4>2, <4>3, SumUnique
        <4> QED
          BY <3>2, <3>4, <4>4
      <3> QED
        BY <3>3, <3>4
    <2>2. IsSum(g, f, s)
      <3> SUFFICES ASSUME NEW q \in SUBSET s, q # {}
                   PROVE  g[q \ {Some(q)}] = G(q \ {Some(q)})[q \ {Some(q)}]
        <4> HIDE DEF G
        <4> QED BY DEF IsSum
      <3>1. Some(q) \in q
        BY DEF Some
      <3>2. q \ {Some(q)} \in SUBSET s /\ q \ {Some(q)} # s
        BY <3>1
      <3> QED
        BY <2>1, <3>2
    <2>3. IsSum(G(s), f, s)
      <3> HIDE DEF g
      <3> QED BY <2>2
    <2> QED
      BY <2>3
  <1> HIDE DEF T
  <1>2. \A s \in SUBSET S : s \in T
    BY <1>1, SubsetInduction
  <1> QED
    BY <1>2 DEF T

\* The sum over S is one of its values and the sum over the rest.
LEMMA SumUnfold ==
  ASSUME NEW S, IsFiniteSet(S), NEW f
  PROVE  SumFunctionOnSet(f, S) =
           IF S = {} THEN 0 ELSE f[Some(S)] + SumFunctionOnSet(f, S \ {Some(S)})
  <1> DEFINE G(s) == CHOOSE g : IsSum(g, f, s)
  <1>1. IsSum(G(S), f, S)
    BY SumExists
  <1>2. G(S)[S] = IF S = {} THEN 0 ELSE f[Some(S)] + G(S)[S \ {Some(S)}]
    <2> HIDE DEF G
    <2> QED BY <1>1 DEF IsSum
  <1>3. S # {} => G(S)[S \ {Some(S)}] = G(S \ {Some(S)})[S \ {Some(S)}]
    <2>1. IsFiniteSet(S \ {Some(S)})
      BY FS_Subset
    <2>2. IsSum(G(S \ {Some(S)}), f, S \ {Some(S)})
      BY <2>1, SumExists
    <2> HIDE DEF G
    <2> QED
      BY <1>1, <2>2, SumUnique
  <1>4. SumFunctionOnSet(f, S) = G(S)[S] /\ SumFunctionOnSet(f, S \ {Some(S)}) = G(S \ {Some(S)})[S \ {Some(S)}]
    BY SumIsChosen
  <1> HIDE DEF G
  <1> QED
    BY <1>2, <1>3, <1>4

\* Nothing sums up to 0.
LEMMA SumEmpty ==
  ASSUME NEW f
  PROVE  SumFunctionOnSet(f, {}) = 0
  BY SumUnfold, FS_EmptySet

\* A sum of integers is an integer.
LEMMA SumInt ==
  ASSUME NEW S, IsFiniteSet(S), NEW f, \A x \in S : f[x] \in Int
  PROVE  SumFunctionOnSet(f, S) \in Int
  <1> DEFINE T == {s \in SUBSET S : SumFunctionOnSet(f, s) \in Int}
  <1>1. ASSUME NEW s \in SUBSET S, \A r \in SUBSET s : r # s => r \in T
        PROVE  s \in T
    <2>1. SumFunctionOnSet(f, s) = IF s = {} THEN 0 ELSE f[Some(s)] + SumFunctionOnSet(f, s \ {Some(s)})
      BY SumUnfold, FS_Subset
    <2>2. CASE s # {}
      <3>1. Some(s) \in s
        BY <2>2 DEF Some
      <3>2. s \ {Some(s)} \in T
        BY <1>1, <3>1
      <3> QED
        BY <2>1, <2>2, <3>1, <3>2
    <2> QED
      BY <2>1, <2>2
  <1> HIDE DEF T
  <1>2. \A s \in SUBSET S : s \in T
    BY <1>1, SubsetInduction
  <1> QED
    BY <1>2 DEF T

\* It does not matter which value is taken out first.
LEMMA SumRemove ==
  ASSUME NEW S, IsFiniteSet(S), NEW f, \A x \in S : f[x] \in Int, NEW x \in S
  PROVE  SumFunctionOnSet(f, S) = f[x] + SumFunctionOnSet(f, S \ {x})
  <1> DEFINE Splits(s) == \A y \in s : SumFunctionOnSet(f, s) = f[y] + SumFunctionOnSet(f, s \ {y})
             T == {s \in SUBSET S : Splits(s)}
  <1>1. ASSUME NEW s \in SUBSET S, \A r \in SUBSET s : r # s => r \in T
        PROVE  s \in T
    <2> SUFFICES ASSUME NEW y \in s
                 PROVE  SumFunctionOnSet(f, s) = f[y] + SumFunctionOnSet(f, s \ {y})
      OBVIOUS
    <2> DEFINE c == Some(s)
    <2>1. c \in s
      BY DEF Some
    <2>2. SumFunctionOnSet(f, s) = f[c] + SumFunctionOnSet(f, s \ {c})
      BY SumUnfold, FS_Subset
    <2> HIDE DEF c
    <2>3. CASE c # y
      <3>1. s \ {c} \in T /\ s \ {y} \in T
        BY <1>1, <2>1
      <3>2. SumFunctionOnSet(f, s \ {c}) = f[y] + SumFunctionOnSet(f, (s \ {c}) \ {y})
        BY <2>3, <3>1
      <3>3. SumFunctionOnSet(f, s \ {y}) = f[c] + SumFunctionOnSet(f, (s \ {y}) \ {c})
        BY <2>1, <2>3, <3>1
      <3>4. (s \ {y}) \ {c} = (s \ {c}) \ {y}
        OBVIOUS
      <3>5. SumFunctionOnSet(f, (s \ {c}) \ {y}) \in Int
        <4>1. IsFiniteSet((s \ {c}) \ {y})
          BY FS_Subset
        <4> QED
          BY <4>1, SumInt
      <3>6. f[c] \in Int /\ f[y] \in Int
        BY <2>1
      <3>7. ASSUME NEW a \in Int, NEW b \in Int, NEW r \in Int PROVE a + (b + r) = b + (a + r)
        OBVIOUS
      <3>8. f[c] + (f[y] + SumFunctionOnSet(f, (s \ {c}) \ {y})) = f[y] + (f[c] + SumFunctionOnSet(f, (s \ {c}) \ {y}))
        BY <3>5, <3>6, <3>7
      <3> QED
        BY <2>2, <3>2, <3>3, <3>4, <3>8
    <2> QED
      BY <2>2, <2>3
  <1> HIDE DEF T
  <1>2. \A s \in SUBSET S : s \in T
    BY <1>1, SubsetInduction
  <1> QED
    BY <1>2 DEF T

\* One more value adds itself.
LEMMA SumInsert ==
  ASSUME NEW S, IsFiniteSet(S), NEW x, x \notin S, NEW f, \A y \in S \cup {x} : f[y] \in Int
  PROVE  SumFunctionOnSet(f, S \cup {x}) = SumFunctionOnSet(f, S) + f[x]
  <1>1. IsFiniteSet(S \cup {x})
    BY FS_AddElement
  <1>2. SumFunctionOnSet(f, S \cup {x}) = f[x] + SumFunctionOnSet(f, (S \cup {x}) \ {x})
    BY <1>1, SumRemove
  <1>3. (S \cup {x}) \ {x} = S
    OBVIOUS
  <1>4. SumFunctionOnSet(f, S) \in Int
    BY SumInt
  <1>5. f[x] \in Int
    OBVIOUS
  <1>6. \A a, b \in Int : a + b = b + a
    OBVIOUS
  <1>7. f[x] + SumFunctionOnSet(f, S) = SumFunctionOnSet(f, S) + f[x]
    BY <1>4, <1>5, <1>6
  <1> QED
    BY <1>2, <1>3, <1>7

\* Equal functions have equal sums.
LEMMA SumSame ==
  ASSUME NEW S, IsFiniteSet(S), NEW f, NEW g, \A x \in S : f[x] = g[x]
  PROVE  SumFunctionOnSet(f, S) = SumFunctionOnSet(g, S)
  <1> DEFINE T == {s \in SUBSET S : SumFunctionOnSet(f, s) = SumFunctionOnSet(g, s)}
  <1>1. ASSUME NEW s \in SUBSET S, \A r \in SUBSET s : r # s => r \in T
        PROVE  s \in T
    <2>1. IsFiniteSet(s)
      BY FS_Subset
    <2>2. /\ SumFunctionOnSet(f, s) = IF s = {} THEN 0 ELSE f[Some(s)] + SumFunctionOnSet(f, s \ {Some(s)})
          /\ SumFunctionOnSet(g, s) = IF s = {} THEN 0 ELSE g[Some(s)] + SumFunctionOnSet(g, s \ {Some(s)})
      BY <2>1, SumUnfold
    <2>3. CASE s # {}
      <3>1. Some(s) \in s
        BY <2>3 DEF Some
      <3>2. s \ {Some(s)} \in T
        BY <1>1, <3>1
      <3> QED
        BY <2>2, <2>3, <3>1, <3>2
    <2> QED
      BY <2>2, <2>3
  <1> HIDE DEF T
  <1>2. \A s \in SUBSET S : s \in T
    BY <1>1, SubsetInduction
  <1> QED
    BY <1>2 DEF T

\* A function changed in one place has its sum changed by the same.
LEMMA SumUpdate ==
  ASSUME NEW S, IsFiniteSet(S), NEW x \in S, NEW f, NEW g,
         \A y \in S : f[y] \in Int /\ g[y] \in Int,
         \A y \in S \ {x} : g[y] = f[y]
  PROVE  SumFunctionOnSet(g, S) = SumFunctionOnSet(f, S) + (g[x] - f[x])
  <1>1. IsFiniteSet(S \ {x})
    BY FS_Subset
  <1>2. /\ SumFunctionOnSet(f, S) = f[x] + SumFunctionOnSet(f, S \ {x})
        /\ SumFunctionOnSet(g, S) = g[x] + SumFunctionOnSet(g, S \ {x})
    BY SumRemove
  <1>3. SumFunctionOnSet(f, S \ {x}) = SumFunctionOnSet(g, S \ {x})
    BY <1>1, SumSame
  <1>4. SumFunctionOnSet(f, S \ {x}) \in Int
    BY <1>1, SumInt
  <1> QED
    BY <1>2, <1>3, <1>4

\* The sum of two functions is the sum of their sums.
LEMMA SumPlus ==
  ASSUME NEW S, IsFiniteSet(S), NEW f, NEW g, NEW h,
         \A x \in S : f[x] \in Int /\ g[x] \in Int /\ h[x] = f[x] + g[x]
  PROVE  SumFunctionOnSet(h, S) = SumFunctionOnSet(f, S) + SumFunctionOnSet(g, S)
  <1> DEFINE T == {s \in SUBSET S : SumFunctionOnSet(h, s) = SumFunctionOnSet(f, s) + SumFunctionOnSet(g, s)}
  <1>1. ASSUME NEW s \in SUBSET S, \A r \in SUBSET s : r # s => r \in T
        PROVE  s \in T
    <2>1. IsFiniteSet(s)
      BY FS_Subset
    <2>2. CASE s = {}
      BY <2>2, SumEmpty
    <2>3. CASE s # {}
      <3>1. PICK c \in s : TRUE
        BY <2>3
      <3>2. /\ SumFunctionOnSet(f, s) = f[c] + SumFunctionOnSet(f, s \ {c})
            /\ SumFunctionOnSet(g, s) = g[c] + SumFunctionOnSet(g, s \ {c})
            /\ SumFunctionOnSet(h, s) = h[c] + SumFunctionOnSet(h, s \ {c})
        BY <2>1, SumRemove
      <3>3. s \ {c} \in T
        BY <1>1
      <3>4. SumFunctionOnSet(f, s \ {c}) \in Int /\ SumFunctionOnSet(g, s \ {c}) \in Int
        <4>1. IsFiniteSet(s \ {c})
          BY <2>1, FS_Subset
        <4> QED
          BY <4>1, SumInt
      <3> QED
        BY <3>2, <3>3, <3>4
    <2> QED
      BY <2>2, <2>3
  <1> HIDE DEF T
  <1>2. \A s \in SUBSET S : s \in T
    BY <1>1, SubsetInduction
  <1> QED
    BY <1>2 DEF T

\* The sum over two sets without a common element is the sum of their sums.
LEMMA SumUnion ==
  ASSUME NEW S, IsFiniteSet(S), NEW R, IsFiniteSet(R), S \cap R = {}, NEW f, \A x \in S \cup R : f[x] \in Int
  PROVE  SumFunctionOnSet(f, S \cup R) = SumFunctionOnSet(f, S) + SumFunctionOnSet(f, R)
  <1> DEFINE T == {s \in SUBSET R : SumFunctionOnSet(f, S \cup s) = SumFunctionOnSet(f, S) + SumFunctionOnSet(f, s)}
  <1>1. SumFunctionOnSet(f, S) \in Int
    BY SumInt
  <1>2. ASSUME NEW s \in SUBSET R, \A r \in SUBSET s : r # s => r \in T
        PROVE  s \in T
    <2>1. IsFiniteSet(s)
      BY FS_Subset
    <2>2. CASE s = {}
      <3>1. SumFunctionOnSet(f, s) = 0
        BY <2>2, SumEmpty
      <3>2. S \cup s = S
        BY <2>2
      <3>3. SumFunctionOnSet(f, S \cup s) = SumFunctionOnSet(f, S)
        BY <3>2
      <3>4. SumFunctionOnSet(f, S \cup s) = SumFunctionOnSet(f, S) + SumFunctionOnSet(f, s)
        BY <1>1, <3>1, <3>3
      <3> QED
        BY <3>4
    <2>3. CASE s # {}
      <3>1. PICK d \in s : TRUE
        BY <2>3
      <3>2. PICK r : r = s \ {d}
        OBVIOUS
      <3>3. r \in SUBSET s /\ r # s /\ r \in SUBSET R /\ d \notin r /\ d \notin S \cup r /\ s = r \cup {d}
        BY <3>1, <3>2
      <3>4. IsFiniteSet(r) /\ IsFiniteSet(S \cup r)
        BY <2>1, <3>3, FS_Subset, FS_Union
      <3>5. \A y \in (S \cup r) \cup {d} : f[y] \in Int
        BY <3>3
      <3>6. SumFunctionOnSet(f, (S \cup r) \cup {d}) = SumFunctionOnSet(f, S \cup r) + f[d]
        BY <3>3, <3>4, <3>5, SumInsert
      <3>7. SumFunctionOnSet(f, r \cup {d}) = SumFunctionOnSet(f, r) + f[d]
        BY <3>3, <3>4, <3>5, SumInsert
      <3>8. (S \cup r) \cup {d} = S \cup s
        BY <3>3
      <3>9. SumFunctionOnSet(f, S \cup r) = SumFunctionOnSet(f, S) + SumFunctionOnSet(f, r)
        BY <1>2, <3>3
      <3>10. SumFunctionOnSet(f, r) \in Int /\ f[d] \in Int
        BY <3>4, <3>5, SumInt
      <3>11. PICK a \in Int, u \in Int, v \in Int :
               a = SumFunctionOnSet(f, S) /\ u = SumFunctionOnSet(f, r) /\ v = f[d]
        BY <1>1, <3>10
      <3>12. SumFunctionOnSet(f, s) = u + v
        BY <3>3, <3>7, <3>11
      <3>13. SumFunctionOnSet(f, S \cup s) = (a + u) + v
        BY <3>6, <3>8, <3>9, <3>11
      <3>14. SumFunctionOnSet(f, S \cup s) = SumFunctionOnSet(f, S) + SumFunctionOnSet(f, s)
        BY <3>11, <3>12, <3>13
      <3> QED
        BY <3>14
    <2> QED
      BY <2>2, <2>3
  <1> HIDE DEF T
  <1>3. \A s \in SUBSET R : s \in T
    BY <1>2, SubsetInduction
  <1> QED
    BY <1>3 DEF T

\* A constant factor can be taken out of a sum.
LEMMA SumScaled ==
  ASSUME NEW S, IsFiniteSet(S), NEW c \in Int, NEW f, NEW g,
         \A x \in S : f[x] \in Int /\ g[x] = c * f[x]
  PROVE  SumFunctionOnSet(g, S) = c * SumFunctionOnSet(f, S)
  <1> DEFINE T == {s \in SUBSET S : SumFunctionOnSet(g, s) = c * SumFunctionOnSet(f, s)}
  <1>1. ASSUME NEW s \in SUBSET S, \A r \in SUBSET s : r # s => r \in T
        PROVE  s \in T
    <2>1. IsFiniteSet(s)
      BY FS_Subset
    <2>2. CASE s = {}
      <3>1. c * 0 = 0
        OBVIOUS
      <3> QED
        BY <2>2, <3>1, SumEmpty
    <2>3. CASE s # {}
      <3>1. PICK d \in s : TRUE
        BY <2>3
      <3>2. \A x \in S : g[x] \in Int
        OBVIOUS
      <3>3. /\ SumFunctionOnSet(f, s) = f[d] + SumFunctionOnSet(f, s \ {d})
            /\ SumFunctionOnSet(g, s) = g[d] + SumFunctionOnSet(g, s \ {d})
        BY <2>1, <3>2, SumRemove
      <3>4. SumFunctionOnSet(g, s \ {d}) = c * SumFunctionOnSet(f, s \ {d})
        BY <1>1
      <3>5. SumFunctionOnSet(f, s \ {d}) \in Int
        <4>1. IsFiniteSet(s \ {d})
          BY <2>1, FS_Subset
        <4> QED
          BY <4>1, SumInt
      <3>6. \A a, b \in Int : c * (a + b) = c * a + c * b
        OBVIOUS
      <3>7. c * (f[d] + SumFunctionOnSet(f, s \ {d})) = c * f[d] + c * SumFunctionOnSet(f, s \ {d})
        BY <3>5, <3>6
      <3>8. SumFunctionOnSet(g, s) = c * SumFunctionOnSet(f, s)
        BY <3>3, <3>4, <3>7
      <3> QED
        BY <3>8
    <2> QED
      BY <2>2, <2>3
  <1> HIDE DEF T
  <1>2. \A s \in SUBSET S : s \in T
    BY <1>1, SubsetInduction
  <1> QED
    BY <1>2 DEF T

\* A function that is nowhere greater has no greater sum.
LEMMA SumBound ==
  ASSUME NEW S, IsFiniteSet(S), NEW f, NEW g,
         \A x \in S : f[x] \in Int /\ g[x] \in Int /\ f[x] <= g[x]
  PROVE  SumFunctionOnSet(f, S) <= SumFunctionOnSet(g, S)
  <1> DEFINE T == {s \in SUBSET S : SumFunctionOnSet(f, s) <= SumFunctionOnSet(g, s)}
  <1>1. ASSUME NEW s \in SUBSET S, \A r \in SUBSET s : r # s => r \in T
        PROVE  s \in T
    <2>1. IsFiniteSet(s)
      BY FS_Subset
    <2>2. CASE s = {}
      BY <2>2, SumEmpty
    <2>3. CASE s # {}
      <3>1. PICK c \in s : TRUE
        BY <2>3
      <3>2. /\ SumFunctionOnSet(f, s) = f[c] + SumFunctionOnSet(f, s \ {c})
            /\ SumFunctionOnSet(g, s) = g[c] + SumFunctionOnSet(g, s \ {c})
        BY <2>1, SumRemove
      <3>3. s \ {c} \in T
        BY <1>1
      <3>4. SumFunctionOnSet(f, s \ {c}) \in Int /\ SumFunctionOnSet(g, s \ {c}) \in Int
        <4>1. IsFiniteSet(s \ {c})
          BY <2>1, FS_Subset
        <4> QED
          BY <4>1, SumInt
      <3> QED
        BY <3>2, <3>3, <3>4
    <2> QED
      BY <2>2, <2>3
  <1> HIDE DEF T
  <1>2. \A s \in SUBSET S : s \in T
    BY <1>1, SubsetInduction
  <1> QED
    BY <1>2 DEF T

\* Zeros sum up to 0.
LEMMA SumZero ==
  ASSUME NEW S, IsFiniteSet(S), NEW f, \A x \in S : f[x] = 0
  PROVE  SumFunctionOnSet(f, S) = 0
  <1> DEFINE T == {s \in SUBSET S : SumFunctionOnSet(f, s) = 0}
  <1>1. ASSUME NEW s \in SUBSET S, \A r \in SUBSET s : r # s => r \in T
        PROVE  s \in T
    <2>1. SumFunctionOnSet(f, s) = IF s = {} THEN 0 ELSE f[Some(s)] + SumFunctionOnSet(f, s \ {Some(s)})
      BY SumUnfold, FS_Subset
    <2>2. CASE s # {}
      <3>1. Some(s) \in s
        BY <2>2 DEF Some
      <3>2. s \ {Some(s)} \in T
        BY <1>1, <3>1
      <3> QED
        BY <2>1, <2>2, <3>1, <3>2
    <2> QED
      BY <2>1, <2>2
  <1> HIDE DEF T
  <1>2. \A s \in SUBSET S : s \in T
    BY <1>1, SubsetInduction
  <1> QED
    BY <1>2 DEF T

\* A sum of natural numbers is one.
LEMMA SumNat ==
  ASSUME NEW S, IsFiniteSet(S), NEW f, \A x \in S : f[x] \in Nat
  PROVE  SumFunctionOnSet(f, S) \in Nat
  <1>1. SumFunctionOnSet([x \in S |-> 0], S) = 0
    BY SumZero
  <1>2. SumFunctionOnSet([x \in S |-> 0], S) <= SumFunctionOnSet(f, S)
    <2> DEFINE z == [x \in S |-> 0]
    <2>1. \A x \in S : z[x] \in Int /\ f[x] \in Int /\ z[x] <= f[x]
      OBVIOUS
    <2> HIDE DEF z
    <2>2. SumFunctionOnSet(z, S) <= SumFunctionOnSet(f, S)
      BY <2>1, SumBound
    <2> QED
      BY <2>2 DEF z
  <1>3. SumFunctionOnSet(f, S) \in Int
    BY SumInt
  <1> QED
    BY <1>1, <1>2, <1>3

\* A function that is 1 on I and 0 elsewhere counts the members of I.
LEMMA SumIndicator ==
  ASSUME NEW S, IsFiniteSet(S), NEW I, NEW f, \A x \in S : f[x] = IF x \in I THEN 1 ELSE 0
  PROVE  SumFunctionOnSet(f, S) = Cardinality(S \cap I)
  <1> DEFINE T == {s \in SUBSET S : SumFunctionOnSet(f, s) = Cardinality(s \cap I)}
  <1>1. ASSUME NEW s \in SUBSET S, \A r \in SUBSET s : r # s => r \in T
        PROVE  s \in T
    <2>1. SumFunctionOnSet(f, s) = IF s = {} THEN 0 ELSE f[Some(s)] + SumFunctionOnSet(f, s \ {Some(s)})
      BY SumUnfold, FS_Subset
    <2>2. CASE s = {}
      <3>1. s \cap I = {}
        BY <2>2
      <3> QED
        BY <2>1, <2>2, <3>1, FS_EmptySet
    <2>3. CASE s # {}
      <3> DEFINE c == Some(s)
                 r == s \ {c}
      <3>1. c \in s
        BY <2>3 DEF Some
      <3>2. SumFunctionOnSet(f, s) = f[c] + Cardinality(r \cap I)
        BY <1>1, <2>1, <2>3, <3>1
      <3>3. IsFiniteSet(r \cap I) /\ IsFiniteSet(s \cap I)
        BY FS_Subset
      <3>4. Cardinality(r \cap I) \in Nat
        BY <3>3, FS_CardinalityType
      <3> HIDE DEF c
      <3>5. CASE c \in I
        <4>1. s \cap I = (r \cap I) \cup {c} /\ c \notin r \cap I
          BY <3>1, <3>5
        <4>2. Cardinality((r \cap I) \cup {c}) = Cardinality(r \cap I) + 1
          BY <3>3, <4>1, FS_AddElement
        <4>3. f[c] = 1
          BY <3>1, <3>5
        <4>4. SumFunctionOnSet(f, s) = 1 + Cardinality(r \cap I)
          BY <3>2, <4>3, Zenon
        <4>5. \A n \in Nat : 1 + n = n + 1
          OBVIOUS
        <4>6. 1 + Cardinality(r \cap I) = Cardinality(r \cap I) + 1
          BY <3>4, <4>5
        <4> HIDE DEF r
        <4>7. Cardinality(s \cap I) = Cardinality(r \cap I) + 1
          BY <4>1, <4>2
        <4> QED
          BY <4>4, <4>6, <4>7
      <3>6. CASE c \notin I
        <4>1. s \cap I = r \cap I
          BY <3>6
        <4> QED
          BY <3>1, <3>2, <3>4, <3>6, <4>1
      <3> QED
        BY <3>5, <3>6
    <2> QED
      BY <2>2, <2>3
  <1> HIDE DEF T
  <1>2. \A s \in SUBSET S : s \in T
    BY <1>1, SubsetInduction
  <1> QED
    BY <1>2 DEF T

\* Max of a finite set of integers is its greatest member.
LEMMA MaxIsGreatest ==
  ASSUME NEW S, IsFiniteSet(S), S # {}, S \subseteq Int
  PROVE  Max(S) \in S /\ \A x \in S : x <= Max(S)
  <1> DEFINE Has(s) == s # {} => \E m \in s : \A x \in s : m >= x
             T == {s \in SUBSET S : Has(s)}
  <1>1. ASSUME NEW s \in SUBSET S, \A r \in SUBSET s : r # s => r \in T
        PROVE  s \in T
    <2> SUFFICES ASSUME NEW c \in s PROVE \E m \in s : \A x \in s : m >= x
      OBVIOUS
    <2>1. CASE s \ {c} = {}
      BY <2>1
    <2>2. CASE s \ {c} # {}
      <3>1. s \ {c} \in T
        BY <1>1
      <3>2. PICK m \in s \ {c} : \A x \in s \ {c} : m >= x
        BY <2>2, <3>1
      <3>3. \A x \in s : x \in Int
        OBVIOUS
      <3>4. CASE m >= c
        BY <3>2, <3>4
      <3>5. CASE ~(m >= c)
        <4>1. \A x \in s : c >= x
          BY <3>2, <3>3, <3>5
        <4> QED
          BY <4>1
      <3> QED
        BY <3>4, <3>5
    <2> QED
      BY <2>1, <2>2
  <1> HIDE DEF T
  <1>2. \A s \in SUBSET S : s \in T
    BY <1>1, SubsetInduction
  <1>3. \E m \in S : \A x \in S : m >= x
    BY <1>2 DEF T
  <1>4. Max(S) \in S /\ \A x \in S : Max(S) >= x
    BY <1>3 DEF Max
  <1> QED
    BY <1>4

\* A finite set of integers has a least one.
LEMMA LeastExists ==
  ASSUME NEW S, IsFiniteSet(S), S # {}, S \subseteq Int
  PROVE  \E m \in S : \A x \in S : m <= x
  <1> DEFINE Has(s) == s # {} => \E m \in s : \A x \in s : m <= x
             T == {s \in SUBSET S : Has(s)}
  <1>1. ASSUME NEW s \in SUBSET S, \A r \in SUBSET s : r # s => r \in T
        PROVE  s \in T
    <2> SUFFICES ASSUME NEW c \in s PROVE \E m \in s : \A x \in s : m <= x
      OBVIOUS
    <2>1. CASE s \ {c} = {}
      BY <2>1
    <2>2. CASE s \ {c} # {}
      <3>1. s \ {c} \in T
        BY <1>1
      <3>2. PICK m \in s \ {c} : \A x \in s \ {c} : m <= x
        BY <2>2, <3>1
      <3>3. \A x \in s : x \in Int
        OBVIOUS
      <3>4. CASE m <= c
        BY <3>2, <3>4
      <3>5. CASE ~(m <= c)
        <4>1. \A x \in s : c <= x
          BY <3>2, <3>3, <3>5
        <4> QED
          BY <4>1
      <3> QED
        BY <3>4, <3>5
    <2> QED
      BY <2>1, <2>2
  <1> HIDE DEF T
  <1>2. \A s \in SUBSET S : s \in T
    BY <1>1, SubsetInduction
  <1> QED
    BY <1>2 DEF T
=============================================================================
