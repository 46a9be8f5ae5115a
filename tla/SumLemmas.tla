------------------------------ MODULE SumLemmas ------------------------------
(***************************************************************************)
(* Sums over finite sets, as the community modules compute them: what a sum *)
(* is, for every set, and how it changes with one element.  The inductions  *)
(* are on the least of a set of natural numbers.                            *)
(***************************************************************************)
EXTENDS Naturals, FiniteSets, Functions, FiniteSetTheorems, WellFoundedInduction, TLAPS

\* The element that the fold takes first
Choice(s) == CHOOSE x \in s : TRUE

LEMMA ChoiceIn == \A s : s # {} => Choice(s) \in s
BY Zenon DEF Choice

\* the equation that the fold's recursive function solves
IsSum(it, f, S) ==
  it = [s \in SUBSET S |-> IF s = {} THEN 0 ELSE f[Choice(s)] + it[s \ {Choice(s)}]]

LEMMA SumIsFold ==
  ASSUME NEW f, NEW S, \E it : IsSum(it, f, S)
  PROVE  \E it : IsSum(it, f, S) /\ SumFunctionOnSet(f, S) = it[S]
BY Zenon DEF SumFunctionOnSet, FoldFunctionOnSet, MapThenFoldSet, IsSum, Choice

\* The least of a set of numbers, and the smallest of a set of sets.
LEMMA LeastOf ==
  ASSUME NEW S \in SUBSET Nat, S # {}
  PROVE  \E n \in S : \A m \in S : n <= m
<1> DEFINE Less == {ss \in Nat \X Nat : ss[1] < ss[2]}
<1>1. IsWellFoundedOn(Less, Nat)
  BY NatLessThanWellFounded, Zenon DEF OpToRel
<1>2. PICK x \in S : \A y \in S : ~ (<<y, x>> \in Less)
  <2> HIDE DEF Less
  <2> QED BY <1>1, WFMin, Zenon
<1>3. ASSUME NEW y \in S PROVE x <= y
  <2>1. x \in Nat /\ y \in Nat
    OBVIOUS
  <2>2. <<y, x>> \notin {ss \in Nat \X Nat : ss[1] < ss[2]}
    BY <1>2
  <2> QED BY <2>1, <2>2
<1> QED BY <1>3

LEMMA SmallestOf ==
  ASSUME NEW S, IsFiniteSet(S), NEW B \in SUBSET (SUBSET S), B # {}
  PROVE  \E s \in B : /\ IsFiniteSet(s) /\ \A x \in s : s \ {x} \notin B
<1> DEFINE Sizes == {Cardinality(s) : s \in B}
<1>1. \A s \in B : IsFiniteSet(s) /\ Cardinality(s) \in Nat
  BY FS_Subset, FS_CardinalityType
<1>2. PICK n \in Sizes : \A m \in Sizes : n <= m
  <2>1. Sizes \in SUBSET Nat /\ Sizes # {}
    BY <1>1
  <2> HIDE DEF Sizes
  <2> QED BY <2>1, LeastOf
<1>3. PICK s \in B : n = Cardinality(s)
  OBVIOUS
<1>4. ASSUME NEW x \in s PROVE s \ {x} \notin B
  <2>1. Cardinality(s \ {x}) = Cardinality(s) - 1
    BY <1>1, FS_RemoveElement
  <2> QED BY <1>1, <1>2, <1>3, <2>1
<1> QED BY <1>1, <1>4

\* The equation has a solution.
LEMMA SumExists ==
  ASSUME NEW f, NEW S, IsFiniteSet(S)
  PROVE  \E it : IsSum(it, f, S)
<1> DEFINE Upto(n) == {s \in SUBSET S : Cardinality(s) <= n}
           Partial(it, n) ==
             it = [s \in Upto(n) |-> IF s = {} THEN 0 ELSE f[Choice(s)] + it[s \ {Choice(s)}]]
           Bad == {n \in Nat : ~ \E it : Partial(it, n)}
<1>1. \A s \in SUBSET S : IsFiniteSet(s) /\ Cardinality(s) \in Nat
        /\ \A x \in s : Cardinality(s \ {x}) = Cardinality(s) - 1
  BY FS_Subset, FS_CardinalityType, FS_RemoveElement
<1>2. \E it : Partial(it, 0)
  <2>1. \A s \in Upto(0) : s = {}
    BY <1>1, FS_EmptySet
  <2>2. Partial([s \in Upto(0) |-> 0], 0)
    <3> HIDE DEF Upto
    <3> QED BY <2>1
  <2> QED BY <2>2
<1>3. ASSUME NEW n \in Nat, NEW it, Partial(it, n) PROVE \E to : Partial(to, n + 1)
  <2> DEFINE to == [s \in Upto(n + 1) |-> IF s = {} THEN 0 ELSE f[Choice(s)] + it[s \ {Choice(s)}]]
  <2>1. ASSUME NEW s \in Upto(n + 1), s # {}
        PROVE  s \ {Choice(s)} \in Upto(n) /\ s \ {Choice(s)} \in Upto(n + 1)
    <3>1. Choice(s) \in s
      BY <2>1, ChoiceIn
    <3>2. Cardinality(s \ {Choice(s)}) = Cardinality(s) - 1 /\ Cardinality(s) \in Nat
          /\ Cardinality(s) <= n + 1
      BY <1>1, <3>1
    <3> QED BY <3>2
  <2> HIDE DEF Upto
  <2>2. \A t \in Upto(n) : t \in Upto(n + 1) => to[t] = it[t]
    BY <1>3
  <2>3. Partial(to, n + 1)
    BY <2>1, <2>2
  <2> QED BY <2>3
<1>4. Bad = {}
  <2>1. SUFFICES ASSUME Bad # {} PROVE FALSE
    OBVIOUS
  <2> HIDE DEF Partial
  <2>2. PICK n \in Bad : \A m \in Bad : n <= m
    <3>1. Bad \in SUBSET Nat
      OBVIOUS
    <3> HIDE DEF Bad
    <3> QED BY <2>1, <3>1, LeastOf
  <2>3. n # 0 /\ n \in Nat
    BY <1>2
  <2>4. n - 1 \in Nat /\ n - 1 \notin Bad /\ n - 1 + 1 = n
    BY <2>2, <2>3
  <2> QED BY <1>3, <2>4
<1>5. PICK it : Partial(it, Cardinality(S))
  <2> HIDE DEF Partial
  <2> QED BY <1>1, <1>4
<1>6. Upto(Cardinality(S)) = SUBSET S
  BY FS_Subset
<1> HIDE DEF Upto
<1> QED BY <1>5, <1>6 DEF IsSum

\* In a solution, any element may be taken first; it sums numbers to a number.
LEMMA SumSolved ==
  ASSUME NEW S, IsFiniteSet(S), NEW f, \A x \in S : f[x] \in Nat, NEW it, IsSum(it, f, S)
  PROVE  /\ it[{}] = 0
         /\ \A s \in SUBSET S : it[s] \in Nat /\ \A x \in s : it[s] = f[x] + it[s \ {x}]
<1>1. \A s \in SUBSET S : it[s] = IF s = {} THEN 0 ELSE f[Choice(s)] + it[s \ {Choice(s)}]
  BY DEF IsSum
<1> DEFINE Odd == {s \in SUBSET S : it[s] \notin Nat}
<1>2. Odd = {}
  <2>1. SUFFICES ASSUME Odd # {} PROVE FALSE
    OBVIOUS
  <2>2. PICK s \in Odd : \A x \in s : s \ {x} \notin Odd
    <3>1. Odd \in SUBSET (SUBSET S)
      OBVIOUS
    <3> HIDE DEF Odd
    <3> QED BY <2>1, <3>1, SmallestOf
  <2>3. s \in SUBSET S /\ it[s] \notin Nat
    OBVIOUS
  <2>4. it[s] = IF s = {} THEN 0 ELSE f[Choice(s)] + it[s \ {Choice(s)}]
    BY <1>1, <2>3
  <2>5. s # {}
    BY <2>3, <2>4
  <2>6. Choice(s) \in s
    BY <2>5, ChoiceIn
  <2>7. s \ {Choice(s)} \in SUBSET S /\ s \ {Choice(s)} \notin Odd
    BY <2>2, <2>3, <2>6
  <2>8. it[s \ {Choice(s)}] \in Nat
    BY <2>7
  <2>9. f[Choice(s)] \in Nat
    BY <2>3, <2>6
  <2> QED BY <2>3, <2>4, <2>5, <2>8, <2>9
<1> DEFINE Bad == {s \in SUBSET S : \E x \in s : it[s] # f[x] + it[s \ {x}]}
<1>3. Bad = {}
  <2>1. SUFFICES ASSUME Bad # {} PROVE FALSE
    OBVIOUS
  <2>2. PICK s \in Bad : \A x \in s : s \ {x} \notin Bad
    <3>1. Bad \in SUBSET (SUBSET S)
      OBVIOUS
    <3> HIDE DEF Bad
    <3> QED BY <2>1, <3>1, SmallestOf
  <2>3. PICK x \in s : it[s] # f[x] + it[s \ {x}]
    OBVIOUS
  <2> DEFINE p == Choice(s)
             rest == s \ {p, x}
  <2>4. p \in s /\ s \in SUBSET S /\ it[s] = f[p] + it[s \ {p}]
    BY <1>1, <2>3, ChoiceIn
  <2> HIDE DEF p
  <2>5. p # x
    BY <2>3, <2>4
  <2>6. it[s \ {p}] = f[x] + it[rest]
    <3>1. s \ {p} \notin Bad /\ x \in s \ {p} /\ (s \ {p}) \ {x} = rest
      BY <2>2, <2>4, <2>5
    <3> QED BY <2>4, <3>1
  <2>7. it[s \ {x}] = f[p] + it[rest]
    <3>1. s \ {x} \notin Bad /\ p \in s \ {x} /\ (s \ {x}) \ {p} = rest
      BY <2>2, <2>4, <2>5
    <3> QED BY <2>4, <3>1
  <2>8. it[rest] \in Nat /\ f[p] \in Nat /\ f[x] \in Nat
    BY <1>2, <2>4
  <2> QED BY <2>3, <2>4, <2>6, <2>7, <2>8
<1>4. it[{}] = 0
  BY <1>1
<1> QED BY <1>2, <1>3, <1>4

\* Solutions for functions that agree on a set agree on its subsets.
LEMMA SumsAgree ==
  ASSUME NEW S, IsFiniteSet(S), NEW R, IsFiniteSet(R), NEW f, NEW g, NEW it, NEW to,
         IsSum(it, f, S), IsSum(to, g, R), NEW s \in SUBSET (S \cap R), \A x \in s : f[x] = g[x]
  PROVE  it[s] = to[s]
<1>1. \A t \in SUBSET S : it[t] = IF t = {} THEN 0 ELSE f[Choice(t)] + it[t \ {Choice(t)}]
  BY DEF IsSum
<1>2. \A t \in SUBSET R : to[t] = IF t = {} THEN 0 ELSE g[Choice(t)] + to[t \ {Choice(t)}]
  BY DEF IsSum
<1> DEFINE Odd == {t \in SUBSET s : it[t] # to[t]}
<1>3. Odd = {}
  <2>1. SUFFICES ASSUME Odd # {} PROVE FALSE
    OBVIOUS
  <2>2. PICK t \in Odd : \A x \in t : t \ {x} \notin Odd
    <3>1. Odd \in SUBSET (SUBSET s) /\ IsFiniteSet(s)
      BY FS_Subset
    <3> HIDE DEF Odd
    <3> QED BY <2>1, <3>1, SmallestOf
  <2>3. t # {} /\ Choice(t) \in t /\ t \in SUBSET s
    BY <1>1, <1>2, ChoiceIn
  <2>4. it[t \ {Choice(t)}] = to[t \ {Choice(t)}] /\ f[Choice(t)] = g[Choice(t)]
    BY <2>2, <2>3
  <2> QED BY <1>1, <1>2, <2>2, <2>3, <2>4
<1> QED BY <1>3

----------------------------------------------------------------------------
\* What the sum of a function over a set is

THEOREM SumEmpty == \A f : SumFunctionOnSet(f, {}) = 0
<1> SUFFICES ASSUME NEW f PROVE SumFunctionOnSet(f, {}) = 0
  OBVIOUS
<1>1. IsFiniteSet({})
  BY FS_EmptySet
<1>2. PICK it : IsSum(it, f, {}) /\ SumFunctionOnSet(f, {}) = it[{}]
  BY <1>1, SumExists, SumIsFold
<1> QED BY <1>2 DEF IsSum

THEOREM SumRemove ==
  ASSUME NEW S, IsFiniteSet(S), NEW f, \A x \in S : f[x] \in Nat
  PROVE  /\ SumFunctionOnSet(f, S) \in Nat
         /\ \A x \in S : SumFunctionOnSet(f, S) = f[x] + SumFunctionOnSet(f, S \ {x})
<1>1. PICK it : IsSum(it, f, S) /\ SumFunctionOnSet(f, S) = it[S]
  BY SumExists, SumIsFold
<1>2. ASSUME NEW x \in S PROVE SumFunctionOnSet(f, S \ {x}) = it[S \ {x}]
  <2>1. IsFiniteSet(S \ {x}) /\ S \ {x} \in SUBSET (S \cap (S \ {x}))
    BY FS_Subset
  <2>2. PICK to : IsSum(to, f, S \ {x}) /\ SumFunctionOnSet(f, S \ {x}) = to[S \ {x}]
    BY <2>1, SumExists, SumIsFold
  <2> QED BY <1>1, <2>1, <2>2, SumsAgree
<1>3. /\ it[S] \in Nat /\ \A x \in S : it[S] = f[x] + it[S \ {x}]
  <2>1. \A s \in SUBSET S : it[s] \in Nat /\ \A x \in s : it[s] = f[x] + it[s \ {x}]
    BY <1>1, SumSolved
  <2> QED BY <2>1
<1> QED BY <1>1, <1>2, <1>3

THEOREM SumSame ==
  ASSUME NEW S, IsFiniteSet(S), NEW f, NEW g, \A x \in S : f[x] = g[x]
  PROVE  SumFunctionOnSet(f, S) = SumFunctionOnSet(g, S)
<1>1. PICK it : IsSum(it, f, S) /\ SumFunctionOnSet(f, S) = it[S]
  BY SumExists, SumIsFold
<1>2. PICK to : IsSum(to, g, S) /\ SumFunctionOnSet(g, S) = to[S]
  BY SumExists, SumIsFold
<1> QED BY <1>1, <1>2, SumsAgree

\* What adding one element does to a sum.
THEOREM SumAdd ==
  ASSUME NEW S, IsFiniteSet(S), NEW x, x \notin S, NEW f, \A y \in S \cup {x} : f[y] \in Nat
  PROVE  SumFunctionOnSet(f, S \cup {x}) = f[x] + SumFunctionOnSet(f, S)
<1>1. IsFiniteSet(S \cup {x}) /\ (S \cup {x}) \ {x} = S
  BY FS_AddElement
<1> QED BY <1>1, SumRemove

\* What changing the function at one element does to it.
THEOREM SumChange ==
  ASSUME NEW S, IsFiniteSet(S), NEW x \in S, NEW f, NEW g, \A y \in S : f[y] \in Nat /\ g[y] \in Nat,
         \A y \in S \ {x} : f[y] = g[y]
  PROVE  SumFunctionOnSet(f, S) + g[x] = SumFunctionOnSet(g, S) + f[x]
<1>1. IsFiniteSet(S \ {x}) /\ \A y \in S \ {x} : f[y] \in Nat /\ g[y] \in Nat
  BY FS_Subset
<1>2. SumFunctionOnSet(f, S \ {x}) = SumFunctionOnSet(g, S \ {x})
  BY <1>1, SumSame
<1>3. SumFunctionOnSet(f, S) = f[x] + SumFunctionOnSet(f, S \ {x})
  BY SumRemove
<1>4. SumFunctionOnSet(g, S) = g[x] + SumFunctionOnSet(g, S \ {x})
  BY SumRemove
<1>5. SumFunctionOnSet(f, S \ {x}) \in Nat /\ f[x] \in Nat /\ g[x] \in Nat
  BY <1>1, SumRemove
<1> QED BY <1>2, <1>3, <1>4, <1>5

\* A sum over two sets that share no element is the sum of their sums.
THEOREM SumUnion ==
  ASSUME NEW S, IsFiniteSet(S), NEW T, IsFiniteSet(T), S \cap T = {},
         NEW f, \A x \in S \cup T : f[x] \in Nat
  PROVE  SumFunctionOnSet(f, S \cup T) = SumFunctionOnSet(f, S) + SumFunctionOnSet(f, T)
<1> DEFINE sum(s) == SumFunctionOnSet(f, s)
           Bad == {s \in SUBSET T : sum(S \cup s) # sum(S) + sum(s)}
<1>1. \A s \in SUBSET T : IsFiniteSet(s) /\ IsFiniteSet(S \cup s)
  BY FS_Subset, FS_Union
<1>2. ASSUME NEW s, IsFiniteSet(s), \A x \in s : f[x] \in Nat
      PROVE  sum(s) \in Nat /\ \A x \in s : sum(s) = f[x] + sum(s \ {x})
  BY <1>2, SumRemove
<1>3. sum({}) = 0
  BY SumEmpty
<1> HIDE DEF sum
<1>4. Bad = {}
  <2>1. SUFFICES ASSUME Bad # {} PROVE FALSE
    OBVIOUS
  <2>2. PICK s \in Bad : \A x \in s : s \ {x} \notin Bad
    <3>1. Bad \in SUBSET (SUBSET T)
      OBVIOUS
    <3> HIDE DEF Bad
    <3> QED BY <2>1, <3>1, SmallestOf
  <2>3. s \in SUBSET T /\ sum(S \cup s) # sum(S) + sum(s)
    OBVIOUS
  <2>4. s # {}
    <3>1. SUFFICES ASSUME s = {} PROVE FALSE
      OBVIOUS
    <3>2. sum(s) = 0 /\ sum(S) \in Nat
      BY <1>2, <1>3, <3>1
    <3>3. sum(S \cup s) = sum(S)
      BY <3>1, Zenon
    <3> QED BY <2>3, <3>2, <3>3
  <2>5. PICK x \in s : TRUE
    BY <2>4
  <2>6. (S \cup s) \ {x} = S \cup (s \ {x}) /\ s \ {x} \in SUBSET T
    BY <2>3, <2>5
  <2>7. sum(S \cup (s \ {x})) = sum(S) + sum(s \ {x})
    BY <2>2, <2>5, <2>6
  <2>8. IsFiniteSet(s) /\ IsFiniteSet(S \cup s) /\ IsFiniteSet(s \ {x})
        /\ (\A y \in S \cup s : f[y] \in Nat)
    BY <1>1, <2>3, <2>6
  <2>9. sum(S \cup s) = f[x] + sum(S \cup (s \ {x}))
    <3>1. x \in S \cup s
      BY <2>5
    <3> QED BY <1>2, <2>6, <2>8, <3>1
  <2>10. sum(s) = f[x] + sum(s \ {x}) /\ sum(s \ {x}) \in Nat /\ sum(S) \in Nat /\ f[x] \in Nat
    BY <1>2, <2>5, <2>8
  <2> QED BY <2>3, <2>7, <2>9, <2>10
<1>5. sum(S \cup T) = sum(S) + sum(T)
  BY <1>4
<1> QED BY <1>5 DEF sum

\* Elements that the function takes to zero can be left out.
THEOREM SumZeros ==
  ASSUME NEW S, IsFiniteSet(S), NEW T \in SUBSET S, NEW f,
         \A x \in T : f[x] \in Nat, \A x \in S \ T : f[x] = 0
  PROVE  SumFunctionOnSet(f, S) = SumFunctionOnSet(f, T)
<1> DEFINE sum(s) == SumFunctionOnSet(f, s)
           rest == S \ T
           Bad == {s \in SUBSET rest : sum(s) # 0}
<1>1. IsFiniteSet(T) /\ IsFiniteSet(rest) /\ T \cap rest = {} /\ S = T \cup rest
      /\ \A x \in T \cup rest : f[x] \in Nat
  BY FS_Subset
<1>2. \A x \in rest : f[x] = 0
  OBVIOUS
<1>3. ASSUME NEW s, IsFiniteSet(s), \A x \in s : f[x] \in Nat
      PROVE  sum(s) \in Nat /\ \A x \in s : sum(s) = f[x] + sum(s \ {x})
  BY <1>3, SumRemove
<1>4. sum({}) = 0
  BY SumEmpty
<1>5. sum(T \cup rest) = sum(T) + sum(rest)
  <2> HIDE DEF rest
  <2> QED BY <1>1, SumUnion
<1> HIDE DEF sum, rest
<1>6. Bad = {}
  <2>1. SUFFICES ASSUME Bad # {} PROVE FALSE
    OBVIOUS
  <2>2. PICK s \in Bad : \A x \in s : s \ {x} \notin Bad
    <3>1. Bad \in SUBSET (SUBSET rest)
      OBVIOUS
    <3> HIDE DEF Bad
    <3> QED BY <1>1, <2>1, <3>1, SmallestOf
  <2>3. s # {} /\ s \in SUBSET rest
    BY <1>4
  <2>4. PICK x \in s : TRUE
    BY <2>3
  <2>5. sum(s \ {x}) = 0
    BY <2>2, <2>3
  <2>6. IsFiniteSet(s) /\ \A y \in s : f[y] \in Nat
    BY <1>1, <2>3, FS_Subset
  <2>7. sum(s) = f[x] + sum(s \ {x})
    BY <1>3, <2>4, <2>6
  <2> QED BY <1>2, <2>3, <2>4, <2>5, <2>7
<1>7. sum(rest) = 0 /\ sum(T) \in Nat
  BY <1>1, <1>3, <1>6
<1>8. sum(S) = sum(T)
  BY <1>1, <1>5, <1>7
<1> QED BY <1>8 DEF sum

\* f has at the pairs of r what g has at their second components.
Paired(f, g, r, S) == \A k \in S : g[k] \in Nat /\ f[<<r, k>>] = g[k]

\* A sum over pairs whose first component is fixed.
THEOREM SumPairs ==
  ASSUME NEW S, IsFiniteSet(S), NEW r, NEW g, NEW f, Paired(f, g, r, S)
  PROVE  /\ IsFiniteSet({r} \X S)
         /\ SumFunctionOnSet(f, {r} \X S) = SumFunctionOnSet(g, S)
<1> DEFINE sum(h, s) == SumFunctionOnSet(h, s)
           Bad == {s \in SUBSET S : sum(f, {r} \X s) # sum(g, s)}
<1>0. \A k \in S : g[k] \in Nat /\ f[<<r, k>>] = g[k]
  BY DEF Paired
<1>1. \A s \in SUBSET S : IsFiniteSet(s) /\ IsFiniteSet({r} \X s)
  BY FS_Subset, FS_Product, FS_Singleton
<1>2. ASSUME NEW h, NEW s, IsFiniteSet(s), \A x \in s : h[x] \in Nat
      PROVE  sum(h, s) \in Nat /\ \A x \in s : sum(h, s) = h[x] + sum(h, s \ {x})
  BY <1>2, SumRemove
<1>3. sum(f, {}) = 0 /\ sum(g, {}) = 0
  BY SumEmpty
<1> HIDE DEF sum
<1>4. Bad = {}
  <2>1. SUFFICES ASSUME Bad # {} PROVE FALSE
    OBVIOUS
  <2>2. PICK s \in Bad : \A x \in s : s \ {x} \notin Bad
    <3>1. Bad \in SUBSET (SUBSET S)
      OBVIOUS
    <3> HIDE DEF Bad
    <3> QED BY <2>1, <3>1, SmallestOf
  <2>3. s \in SUBSET S /\ sum(f, {r} \X s) # sum(g, s)
    OBVIOUS
  <2>4. s # {}
    <3>1. SUFFICES ASSUME s = {} PROVE FALSE
      OBVIOUS
    <3>2. {r} \X s = {}
      BY <3>1
    <3> QED BY <1>3, <2>3, <3>1, <3>2
  <2>5. PICK k \in s : TRUE
    BY <2>4
  <2>6. sum(f, {r} \X (s \ {k})) = sum(g, s \ {k})
    BY <2>2, <2>3, <2>5
  <2>7. ({r} \X s) \ {<<r, k>>} = {r} \X (s \ {k}) /\ <<r, k>> \in {r} \X s
    BY <2>5
  <2>8. \A p \in {r} \X s : f[p] \in Nat
    BY <1>0, <2>3
  <2>9. sum(f, {r} \X s) = f[<<r, k>>] + sum(f, {r} \X (s \ {k}))
    <3> DEFINE pairs == {r} \X s
               pair == <<r, k>>
    <3>1. IsFiniteSet(pairs) /\ pair \in pairs /\ \A p \in pairs : f[p] \in Nat
      BY <1>1, <2>3, <2>7, <2>8
    <3> HIDE DEF pairs, pair
    <3>2. sum(f, pairs) = f[pair] + sum(f, pairs \ {pair})
      BY <1>2, <3>1
    <3> QED BY <2>7, <3>2 DEF pairs, pair
  <2>10. sum(g, s) = g[k] + sum(g, s \ {k})
    <3>1. IsFiniteSet(s) /\ \A x \in s : g[x] \in Nat
      BY <1>0, <1>1, <2>3
    <3> QED BY <1>2, <2>5, <3>1
  <2>11. f[<<r, k>>] = g[k]
    BY <1>0, <2>3, <2>5
  <2> QED BY <2>3, <2>6, <2>9, <2>10, <2>11
<1>5. sum(f, {r} \X S) = sum(g, S)
  BY <1>4
<1> QED BY <1>1, <1>5 DEF sum
=============================================================================
