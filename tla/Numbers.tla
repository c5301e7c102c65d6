--------------------------------- MODULE Numbers ---------------------------------
(***************************************************************************)
(* Facts about numbers: the largest of a set, which numbering rests on,    *)
(* induction, and sums over a finite set.                                  *)
(***************************************************************************)
EXTENDS Integers, FiniteSetsExt, Functions, FiniteSetTheorems, WellFoundedInduction, TLAPS

\* A set of numbers with a bound has a largest one, which Max returns.
LEMMA MaxOf ==
  ASSUME NEW S, NEW n \in Nat, S \subseteq 0..n, S # {}
  PROVE  Max(S) \in S /\ \A x \in S : x <= Max(S)
<1> DEFINE Below == {ss \in Nat \X Nat : ss[1] < ss[2]}
           T == {k \in 0..n : n - k \in S}
<1>1. IsWellFoundedOn(Below, Nat)
  BY NatLessThanWellFounded DEF OpToRel
<1>2. T \subseteq Nat
  OBVIOUS
<1>3. \A x \in S : n - x \in T
  <2>1. SUFFICES ASSUME NEW x \in S PROVE n - x \in T
    OBVIOUS
  <2>2. x \in 0..n
    OBVIOUS
  <2>3. n - x \in 0..n /\ n - (n - x) = x
    BY <2>2
  <2> QED
    BY <2>3
<1>4. T # {}
  BY <1>3
<1>5. PICK y \in T : \A z \in T : ~ (<<z, y>> \in Below)
  <2> HIDE DEF Below, T
  <2> QED BY <1>1, <1>2, <1>4, WFMin
<1>6. \A z \in T : y <= z
  <2>1. SUFFICES ASSUME NEW z \in T, z < y PROVE FALSE
    BY <1>2
  <2>2. y \in Nat /\ z \in Nat
    OBVIOUS
  <2>3. <<z, y>> \in Below
    BY <2>1, <2>2
  <2> QED
    BY <1>5, <2>3
<1>7. \A x \in S : x <= n - y
  <2>1. SUFFICES ASSUME NEW x \in S PROVE x <= n - y
    OBVIOUS
  <2>2. y <= n - x /\ x \in 0..n /\ y \in 0..n
    BY <1>3, <1>6
  <2> QED
    BY <2>2
<1>8. n - y \in S
  OBVIOUS
<1>9. QED
  BY <1>7, <1>8 DEF Max

-----------------------------------------------------------------------------
(* Induction, with a set in the place of a predicate *)

\* What contains 0 and with a number the next contains every number.
LEMMA NumbersFrom0 ==
  ASSUME NEW T, 0 \in T, \A n \in Nat : n \in T => n + 1 \in T
  PROVE  \A n \in Nat : n \in T
<1> DEFINE Below == {ss \in Nat \X Nat : ss[1] < ss[2]}
           Out   == {n \in Nat : n \notin T}
<1>1. IsWellFoundedOn(Below, Nat)
  BY NatLessThanWellFounded DEF OpToRel
<1>2. SUFFICES ASSUME Out # {} PROVE FALSE
  OBVIOUS
<1>3. PICK y \in Out : \A z \in Out : ~ (<<z, y>> \in Below)
  <2>1. Out \subseteq Nat
    OBVIOUS
  <2> HIDE DEF Below, Out
  <2> QED BY <1>1, <1>2, <2>1, WFMin
<1>4. y \in Nat /\ y # 0 /\ y - 1 \in Nat /\ y - 1 < y
  OBVIOUS
<1>5. y - 1 \in T
  BY <1>3, <1>4
<1>6. (y - 1) + 1 = y
  BY <1>4
<1> QED
  BY <1>4, <1>5, <1>6

\* What contains the empty set and with a subset of S the ones with one element more contains S, when S is finite.
LEMMA SubsetsFromEmpty ==
  ASSUME NEW S, IsFiniteSet(S), NEW F, {} \in F,
         \A T \in SUBSET S, x \in S : T \in F /\ x \notin T => T \cup {x} \in F
  PROVE  S \in F
<1> DEFINE N == {n \in Nat : \A T \in SUBSET S : Cardinality(T) = n => T \in F}
<1>1. \A T \in SUBSET S : IsFiniteSet(T) /\ Cardinality(T) \in Nat
  BY FS_Subset, FS_CardinalityType
<1>2. 0 \in N
  BY <1>1, FS_EmptySet
<1>3. ASSUME NEW n \in Nat, n \in N PROVE n + 1 \in N
  <2>1. SUFFICES ASSUME NEW T \in SUBSET S, Cardinality(T) = n + 1 PROVE T \in F
    OBVIOUS
  <2>2. PICK x \in T : TRUE
    BY <1>1, <2>1, FS_EmptySet
  <2>3. Cardinality(T \ {x}) = n
    <3>1. IsFiniteSet(T) /\ Cardinality(T) = n + 1
      BY <1>1, <2>1
    <3>2. Cardinality(T \ {x}) = Cardinality(T) - 1
      BY <2>2, <3>1, FS_RemoveElement
    <3> QED
      BY <3>1, <3>2
  <2>4. T \ {x} \in F
    BY <1>3, <2>3
  <2>5. (T \ {x}) \cup {x} = T
    BY <2>2
  <2> QED
    BY <2>2, <2>4, <2>5
<1>4. \A n \in Nat : n \in N
  <2> HIDE DEF N
  <2> QED BY <1>2, <1>3, NumbersFrom0
<1> QED
  BY <1>1, <1>4

-----------------------------------------------------------------------------
(* Sums of numbers over a finite set *)

Chosen(s) == CHOOSE x \in s : TRUE

\* The recursion that a sum over S stands for.
Sums(f, S, it) == it = [s \in SUBSET S |-> IF s = {} THEN 0 ELSE f[Chosen(s)] + it[s \ {Chosen(s)}]]

\* The sum is what the function chosen for that recursion gives.
LEMMA SumIs ==
  ASSUME NEW f, NEW S
  PROVE  SumFunctionOnSet(f, S) = (CHOOSE it : Sums(f, S, it))[S]
BY DEF SumFunctionOnSet, FoldFunctionOnSet, MapThenFoldSet, Sums, Chosen

\* There is such a function: after n steps from any function it is right for the sets of n elements.
LEMMA SumsExist ==
  ASSUME NEW f, NEW S, IsFiniteSet(S)
  PROVE  \E it : Sums(f, S, it)
<1> DEFINE Next(g)   == [s \in SUBSET S |-> IF s = {} THEN 0 ELSE f[Chosen(s)] + g[s \ {Chosen(s)}]]
           Good(g, n) == \A s \in SUBSET S : Cardinality(s) <= n => g[s] = Next(g)[s]
           N          == {n \in Nat : \E h : h = [s \in SUBSET S |-> h[s]] /\ Good(h, n)}
<1>1. \A T \in SUBSET S : IsFiniteSet(T) /\ Cardinality(T) \in Nat
  BY FS_Subset, FS_CardinalityType
<1>0. \A s \in SUBSET S : s # {} => Chosen(s) \in s /\ s \ {Chosen(s)} \in SUBSET S
  BY DEF Chosen
<1>2. 0 \in N
  <2> DEFINE zero == [s \in SUBSET S |-> 0]
  <2>1. \A s \in SUBSET S : Cardinality(s) <= 0 => s = {}
    BY <1>1, FS_EmptySet
  <2>2. Good(zero, 0)
    BY <2>1
  <2>3. zero = [s \in SUBSET S |-> zero[s]]
    OBVIOUS
  <2> QED BY <2>2, <2>3
<1>3. ASSUME NEW n \in Nat, n \in N PROVE n + 1 \in N
  <2>1. PICK g : Good(g, n)
    BY <1>3
  <2> DEFINE h == Next(g)
  <2>2. Good(h, n + 1)
    <3>1. SUFFICES ASSUME NEW s \in SUBSET S, Cardinality(s) <= n + 1, s # {} PROVE h[s] = Next(h)[s]
      OBVIOUS
    <3>2. Cardinality(s \ {Chosen(s)}) <= n
      BY <1>0, <1>1, <3>1, FS_RemoveElement
    <3>3. g[s \ {Chosen(s)}] = h[s \ {Chosen(s)}]
      BY <1>0, <2>1, <3>1, <3>2
    <3> QED BY <3>1, <3>3
  <2>3. h = [s \in SUBSET S |-> h[s]]
    OBVIOUS
  <2> QED
    <3> HIDE DEF h, Good
    <3> QED BY <2>2, <2>3
<1>4. Cardinality(S) \in N
  <2>1. \A n \in Nat : n \in N
    <3> HIDE DEF N
    <3> QED BY <1>2, <1>3, NumbersFrom0
  <2> QED BY <1>1, <2>1
<1>5. PICK g : g = [s \in SUBSET S |-> g[s]] /\ Good(g, Cardinality(S))
  BY <1>4
<1>6. \A s \in SUBSET S : g[s] = Next(g)[s]
  BY <1>1, <1>5, FS_Subset
<1>7. g = Next(g)
  BY <1>5, <1>6
<1> QED
  BY <1>7 DEF Sums

\* The sum is what some such function gives.
LEMMA SumsFound ==
  ASSUME NEW f, NEW S, IsFiniteSet(S)
  PROVE  \E it : Sums(f, S, it) /\ SumFunctionOnSet(f, S) = it[S]
<1>1. Sums(f, S, CHOOSE it : Sums(f, S, it))
  BY SumsExist
<1> QED
  BY <1>1, SumIs

\* Two functions with the same values on a set have the same sums over its subsets.
LEMMA SumsSame ==
  ASSUME NEW f, NEW g, NEW S, NEW T, NEW it, NEW jt, IsFiniteSet(T), T \subseteq S,
         Sums(f, S, it), Sums(g, T, jt), \A x \in T : f[x] = g[x]
  PROVE  \A s \in SUBSET T : it[s] = jt[s]
<1> DEFINE N == {n \in Nat : \A s \in SUBSET T : Cardinality(s) = n => it[s] = jt[s]}
<1>1. \A s \in SUBSET T : IsFiniteSet(s) /\ Cardinality(s) \in Nat
  BY FS_Subset, FS_CardinalityType
<1>2. 0 \in N
  <2>1. it[{}] = jt[{}]
    BY DEF Sums
  <2> QED BY <1>1, <2>1, FS_EmptySet
<1>3. ASSUME NEW n \in Nat, n \in N PROVE n + 1 \in N
  <2>1. SUFFICES ASSUME NEW s \in SUBSET T, Cardinality(s) = n + 1 PROVE it[s] = jt[s]
    OBVIOUS
  <2>2. s # {} /\ IsFiniteSet(s)
    BY <1>1, <2>1, FS_EmptySet
  <2>3. Chosen(s) \in s
    BY <2>2 DEF Chosen
  <2>4. Cardinality(s \ {Chosen(s)}) = n
    <3>1. Cardinality(s \ {Chosen(s)}) = Cardinality(s) - 1
      BY <2>2, <2>3, FS_RemoveElement
    <3> QED BY <2>1, <3>1
  <2>5. it[s \ {Chosen(s)}] = jt[s \ {Chosen(s)}]
    BY <1>3, <2>4
  <2>6. it[s] = f[Chosen(s)] + it[s \ {Chosen(s)}] /\ jt[s] = g[Chosen(s)] + jt[s \ {Chosen(s)}]
    BY <2>2, <2>1 DEF Sums
  <2> QED BY <2>3, <2>5, <2>6
<1>4. \A n \in Nat : n \in N
  <2> HIDE DEF N
  <2> QED BY <1>2, <1>3, NumbersFrom0
<1> QED
  BY <1>1, <1>4

\* Functions that agree on a set have the same sum over it.
LEMMA SumSame ==
  ASSUME NEW f, NEW g, NEW S, IsFiniteSet(S), \A x \in S : f[x] = g[x]
  PROVE  SumFunctionOnSet(f, S) = SumFunctionOnSet(g, S)
<1>1. PICK it : Sums(f, S, it) /\ SumFunctionOnSet(f, S) = it[S]
  BY SumsFound
<1>2. PICK jt : Sums(g, S, jt) /\ SumFunctionOnSet(g, S) = jt[S]
  BY SumsFound
<1>3. \A s \in SUBSET S : it[s] = jt[s]
  BY <1>1, <1>2, SumsSame
<1> QED
  BY <1>1, <1>2, <1>3

\* Nothing adds up to zero.
LEMMA SumEmpty ==
  ASSUME NEW f
  PROVE  SumFunctionOnSet(f, {}) = 0
<1>1. PICK it : Sums(f, {}, it) /\ SumFunctionOnSet(f, {}) = it[{}]
  BY SumsFound, FS_EmptySet
<1> QED
  BY <1>1 DEF Sums

\* The sum takes the elements in some order, one after the other.
LEMMA SumFirst ==
  ASSUME NEW f, NEW S, IsFiniteSet(S), S # {}
  PROVE  Chosen(S) \in S /\ SumFunctionOnSet(f, S) = f[Chosen(S)] + SumFunctionOnSet(f, S \ {Chosen(S)})
<1> DEFINE R == S \ {Chosen(S)}
<1>1. Chosen(S) \in S /\ R \subseteq S /\ IsFiniteSet(R)
  BY FS_Subset DEF Chosen
<1>2. PICK it : Sums(f, S, it) /\ SumFunctionOnSet(f, S) = it[S]
  BY SumsFound
<1>3. PICK jt : Sums(f, R, jt) /\ SumFunctionOnSet(f, R) = jt[R]
  BY <1>1, SumsFound
<1>4. it[R] = jt[R]
  <2>1. \A s \in SUBSET R : it[s] = jt[s]
    <3> HIDE DEF R
    <3> QED BY <1>1, <1>2, <1>3, SumsSame
  <2> QED BY <2>1
<1>5. it[S] = f[Chosen(S)] + it[R]
  BY <1>1, <1>2 DEF Sums
<1> QED
  BY <1>1, <1>2, <1>3, <1>4, <1>5

\* A sum stays in a set of numbers that sums do not leave.
LEMMA SumWithin ==
  ASSUME NEW f, NEW S, IsFiniteSet(S), NEW K, 0 \in K, \A a, b \in K : a + b \in K, \A x \in S : f[x] \in K
  PROVE  SumFunctionOnSet(f, S) \in K
<1> DEFINE N == {n \in Nat : \A s \in SUBSET S : Cardinality(s) = n => SumFunctionOnSet(f, s) \in K}
<1>1. \A s \in SUBSET S : IsFiniteSet(s) /\ Cardinality(s) \in Nat
  BY FS_Subset, FS_CardinalityType
<1>2. 0 \in N
  BY <1>1, FS_EmptySet, SumEmpty
<1>3. ASSUME NEW n \in Nat, n \in N PROVE n + 1 \in N
  <2>1. SUFFICES ASSUME NEW s \in SUBSET S, Cardinality(s) = n + 1
                 PROVE  SumFunctionOnSet(f, s) \in K
    OBVIOUS
  <2>2. s # {} /\ IsFiniteSet(s)
    BY <1>1, <2>1, FS_EmptySet
  <2>3. Chosen(s) \in s /\ SumFunctionOnSet(f, s) = f[Chosen(s)] + SumFunctionOnSet(f, s \ {Chosen(s)})
    BY <2>2, SumFirst
  <2>4. Cardinality(s \ {Chosen(s)}) = n
    <3>1. Cardinality(s \ {Chosen(s)}) = Cardinality(s) - 1
      BY <2>2, <2>3, FS_RemoveElement
    <3> QED BY <2>1, <3>1
  <2>5. f[Chosen(s)] \in K /\ SumFunctionOnSet(f, s \ {Chosen(s)}) \in K
    BY <1>3, <2>3, <2>4
  <2> QED BY <2>3, <2>5
<1>4. \A n \in Nat : n \in N
  <2> HIDE DEF N
  <2> QED BY <1>2, <1>3, NumbersFrom0
<1> QED
  BY <1>1, <1>4

\* A sum of integers is an integer, one of natural numbers a natural number.
LEMMA SumIn ==
  ASSUME NEW f, NEW S, IsFiniteSet(S), NEW K \in {Nat, Int}, \A x \in S : f[x] \in K
  PROVE  SumFunctionOnSet(f, S) \in K
<1>1. 0 \in K /\ \A a, b \in K : a + b \in K
  OBVIOUS
<1> QED
  BY <1>1, SumWithin

\* A sum of integers does not depend on the order in which they are taken.
LEMMA SumRemove ==
  ASSUME NEW f, NEW S, IsFiniteSet(S), \A x \in S : f[x] \in Int
  PROVE  \A x \in S : SumFunctionOnSet(f, S) = f[x] + SumFunctionOnSet(f, S \ {x})
<1> DEFINE Sum(s) == SumFunctionOnSet(f, s)
           N == {n \in Nat : \A s \in SUBSET S : Cardinality(s) = n => \A x \in s : Sum(s) = f[x] + Sum(s \ {x})}
<1>1. \A s \in SUBSET S : IsFiniteSet(s) /\ Cardinality(s) \in Nat
  BY FS_Subset, FS_CardinalityType
<1>2. \A s \in SUBSET S : Sum(s) \in Int
  BY <1>1, SumIn
<1>3. 0 \in N
  BY <1>1, FS_EmptySet
<1>4. ASSUME NEW n \in Nat, n \in N PROVE n + 1 \in N
  <2>1. SUFFICES ASSUME NEW s \in SUBSET S, Cardinality(s) = n + 1, NEW x \in s
                 PROVE  Sum(s) = f[x] + Sum(s \ {x})
    OBVIOUS
  <2> DEFINE a == Chosen(s)
             r == (s \ {a}) \ {x}
  <2>2. s # {} /\ IsFiniteSet(s)
    BY <1>1
  <2>3. a \in s /\ Sum(s) = f[a] + Sum(s \ {a})
    BY <2>2, SumFirst
  <2>4. CASE x = a
    BY <2>3, <2>4
  <2>5. CASE x # a
    <3>1. \A y \in s : Cardinality(s \ {y}) = n
      <4>1. SUFFICES ASSUME NEW y \in s PROVE Cardinality(s \ {y}) = n
        OBVIOUS
      <4>2. Cardinality(s \ {y}) = Cardinality(s) - 1
        BY <2>2, FS_RemoveElement
      <4> QED BY <2>1, <4>2
    <3> HIDE DEF Sum, a
    <3>2. \A y \in s : \A z \in s \ {y} : Sum(s \ {y}) = f[z] + Sum((s \ {y}) \ {z})
      BY <1>4, <3>1
    <3>3. r = (s \ {x}) \ {a} /\ a \in s \ {x} /\ x \in s \ {a}
      BY <2>3, <2>5
    <3>4. Sum(s \ {a}) = f[x] + Sum(r) /\ Sum(s \ {x}) = f[a] + Sum(r)
      BY <2>3, <3>2, <3>3
    <3>5. Sum(r) \in Int /\ f[x] \in Int /\ f[a] \in Int
      BY <1>2, <2>3
    <3> QED BY <2>3, <3>4, <3>5
  <2> QED BY <2>4, <2>5
<1>5. \A n \in Nat : n \in N
  <2> HIDE DEF N
  <2> QED BY <1>3, <1>4, NumbersFrom0
<1>6. Cardinality(S) \in N
  BY <1>1, <1>5
<1> QED
  BY <1>6

\* What an element adds to a sum.
LEMMA SumAdd ==
  ASSUME NEW f, NEW S, IsFiniteSet(S), NEW x, x \notin S, \A y \in S \cup {x} : f[y] \in Int
  PROVE  SumFunctionOnSet(f, S \cup {x}) = f[x] + SumFunctionOnSet(f, S)
<1>1. IsFiniteSet(S \cup {x}) /\ (S \cup {x}) \ {x} = S
  BY FS_AddElement
<1> QED
  BY <1>1, SumRemove

\* What is nowhere larger has no larger sum.
LEMMA SumAtMost ==
  ASSUME NEW f, NEW g, NEW S, IsFiniteSet(S), \A x \in S : f[x] \in Int /\ g[x] \in Int /\ f[x] <= g[x]
  PROVE  SumFunctionOnSet(f, S) <= SumFunctionOnSet(g, S)
<1> DEFINE F == {T \in SUBSET S : SumFunctionOnSet(f, T) <= SumFunctionOnSet(g, T)}
<1>1. {} \in F
  BY SumEmpty
<1>2. ASSUME NEW T \in SUBSET S, NEW x \in S, T \in F, x \notin T PROVE T \cup {x} \in F
  <2>1. IsFiniteSet(T)
    BY FS_Subset
  <2>2. SumFunctionOnSet(f, T \cup {x}) = f[x] + SumFunctionOnSet(f, T)
    BY <1>2, <2>1, SumAdd
  <2>3. SumFunctionOnSet(g, T \cup {x}) = g[x] + SumFunctionOnSet(g, T)
    BY <1>2, <2>1, SumAdd
  <2>4. SumFunctionOnSet(f, T) \in Int /\ SumFunctionOnSet(g, T) \in Int
    BY <2>1, SumIn
  <2>5. SumFunctionOnSet(f, T) <= SumFunctionOnSet(g, T) /\ f[x] <= g[x] /\ f[x] \in Int /\ g[x] \in Int
    BY <1>2
  <2> QED BY <2>2, <2>3, <2>4, <2>5
<1>3. S \in F
  <2> HIDE DEF F
  <2> QED BY <1>1, <1>2, SubsetsFromEmpty
<1> QED
  BY <1>3

NeverAbove(f, g, S) == \A x \in S : f[x] \in Int /\ g[x] \in Int /\ f[x] <= g[x]

\* A sum is less when no number is more and one is less.
LEMMA SumLess ==
  ASSUME NEW f, NEW g, NEW S, IsFiniteSet(S), NeverAbove(f, g, S), NEW k \in S, f[k] < g[k]
  PROVE  SumFunctionOnSet(f, S) < SumFunctionOnSet(g, S)
<1> USE DEF NeverAbove
<1> DEFINE R == S \ {k}
<1>1. IsFiniteSet(R)
  BY FS_RemoveElement
<1>2. (\A x \in S : f[x] \in Int) /\ (\A x \in S : g[x] \in Int) /\ \A x \in R : f[x] \in Int /\ g[x] \in Int /\ f[x] <= g[x]
  OBVIOUS
<1>3. SumFunctionOnSet(f, S) = f[k] + SumFunctionOnSet(f, R) /\ SumFunctionOnSet(g, S) = g[k] + SumFunctionOnSet(g, R)
  BY <1>2, SumRemove
<1> HIDE DEF R
<1>4. SumFunctionOnSet(f, R) <= SumFunctionOnSet(g, R)
  BY <1>1, <1>2, SumAtMost
<1>5. (\A x \in R : f[x] \in Int) /\ (\A x \in R : g[x] \in Int)
  BY <1>2
<1>6. SumFunctionOnSet(f, R) \in Int /\ SumFunctionOnSet(g, R) \in Int
  BY <1>1, <1>5, SumIn
<1> QED
  BY <1>2, <1>3, <1>4, <1>6

\* A sum of natural numbers is at least each of them.
LEMMA SumAtLeast ==
  ASSUME NEW f, NEW S, IsFiniteSet(S), \A x \in S : f[x] \in Nat
  PROVE  \A x \in S : f[x] <= SumFunctionOnSet(f, S)
<1>1. SUFFICES ASSUME NEW x \in S PROVE f[x] <= SumFunctionOnSet(f, S)
  OBVIOUS
<1>2. SumFunctionOnSet(f, S) = f[x] + SumFunctionOnSet(f, S \ {x})
  BY SumRemove
<1>3. SumFunctionOnSet(f, S \ {x}) \in Nat
  <2>1. IsFiniteSet(S \ {x}) /\ \A y \in S \ {x} : f[y] \in Nat
    BY FS_Subset
  <2> QED BY <2>1, SumIn
<1> QED
  BY <1>2, <1>3

\* The difference of two sums is the sum of the differences.
LEMMA SumMinus ==
  ASSUME NEW f, NEW g, NEW h, NEW S, IsFiniteSet(S), \A x \in S : f[x] \in Int /\ g[x] \in Int /\ h[x] = f[x] - g[x]
  PROVE  SumFunctionOnSet(h, S) = SumFunctionOnSet(f, S) - SumFunctionOnSet(g, S)
<1> DEFINE F == {T \in SUBSET S : SumFunctionOnSet(h, T) = SumFunctionOnSet(f, T) - SumFunctionOnSet(g, T)}
<1>1. {} \in F
  BY SumEmpty
<1>2. ASSUME NEW T \in SUBSET S, NEW x \in S, T \in F, x \notin T PROVE T \cup {x} \in F
  <2>1. IsFiniteSet(T)
    BY FS_Subset
  <2>2. \A y \in T \cup {x} : f[y] \in Int /\ g[y] \in Int /\ h[y] \in Int
    OBVIOUS
  <2>3. SumFunctionOnSet(f, T \cup {x}) = f[x] + SumFunctionOnSet(f, T)
    BY <1>2, <2>1, <2>2, SumAdd
  <2>4. SumFunctionOnSet(g, T \cup {x}) = g[x] + SumFunctionOnSet(g, T)
    BY <1>2, <2>1, <2>2, SumAdd
  <2>5. SumFunctionOnSet(h, T \cup {x}) = h[x] + SumFunctionOnSet(h, T)
    BY <1>2, <2>1, <2>2, SumAdd
  <2>6. SumFunctionOnSet(f, T) \in Int /\ SumFunctionOnSet(g, T) \in Int
    BY <2>1, <2>2, SumIn
  <2>7. SumFunctionOnSet(h, T) = SumFunctionOnSet(f, T) - SumFunctionOnSet(g, T) /\ h[x] = f[x] - g[x] /\ f[x] \in Int /\ g[x] \in Int
    BY <1>2
  <2> QED BY <2>3, <2>4, <2>5, <2>6, <2>7
<1>3. S \in F
  <2> HIDE DEF F
  <2> QED BY <1>1, <1>2, SubsetsFromEmpty
<1> QED
  BY <1>3

\* Equal shares add up to their number times the share.
LEMMA SumEqual ==
  ASSUME NEW f, NEW S, IsFiniteSet(S), NEW c \in Int, \A x \in S : f[x] = c
  PROVE  SumFunctionOnSet(f, S) = c * Cardinality(S)
<1> DEFINE F == {T \in SUBSET S : SumFunctionOnSet(f, T) = c * Cardinality(T)}
<1>1. {} \in F
  BY SumEmpty, FS_EmptySet
<1>2. ASSUME NEW T \in SUBSET S, NEW x \in S, T \in F, x \notin T PROVE T \cup {x} \in F
  <2>1. IsFiniteSet(T) /\ Cardinality(T) \in Nat /\ Cardinality(T \cup {x}) = Cardinality(T) + 1
    BY <1>2, FS_Subset, FS_CardinalityType, FS_AddElement
  <2>2. SumFunctionOnSet(f, T \cup {x}) = f[x] + SumFunctionOnSet(f, T)
    BY <1>2, <2>1, SumAdd
  <2>3. f[x] = c /\ SumFunctionOnSet(f, T) = c * Cardinality(T)
    BY <1>2
  <2>4. \A m \in Nat : c + c * m = c * (m + 1)
    OBVIOUS
  <2> QED BY <2>1, <2>2, <2>3, <2>4
<1>3. S \in F
  <2> HIDE DEF F
  <2> QED BY <1>1, <1>2, SubsetsFromEmpty
<1> QED
  BY <1>3

\* Shares of which the last absorbs what the others leave add up to the whole.
LEMMA SumShares ==
  ASSUME NEW f, NEW n \in Nat \ {0}, NEW c \in Int, NEW whole \in Int, \A k \in 1..(n - 1) : f[k] = c, f[n] = whole - c * (n - 1)
  PROVE  SumFunctionOnSet(f, 1..n) = whole
<1>1. IsFiniteSet(1..(n - 1)) /\ Cardinality(1..(n - 1)) = n - 1
  <2>1. 1 \in Int /\ n - 1 \in Int
    OBVIOUS
  <2>2. IsFiniteSet(1..(n - 1)) /\ Cardinality(1..(n - 1)) = IF 1 > n - 1 THEN 0 ELSE (n - 1) - 1 + 1
    BY <2>1, FS_Interval
  <2> QED BY <2>2
<1>2. SumFunctionOnSet(f, 1..(n - 1)) = c * (n - 1)
  BY <1>1, SumEqual
<1>3. 1..n = (1..(n - 1)) \cup {n} /\ n \notin 1..(n - 1)
  OBVIOUS
<1>4. c * (n - 1) \in Int
  OBVIOUS
<1>5. \A k \in (1..(n - 1)) \cup {n} : f[k] \in Int
  BY <1>4
<1>6. SumFunctionOnSet(f, 1..n) = f[n] + SumFunctionOnSet(f, 1..(n - 1))
  BY <1>1, <1>3, <1>5, SumAdd
<1> QED
  BY <1>2, <1>4, <1>6

\* One number beside zeros.
LEMMA SumOne ==
  ASSUME NEW f, NEW S, IsFiniteSet(S), NEW k \in S, f[k] \in Int, \A x \in S \ {k} : f[x] = 0
  PROVE  SumFunctionOnSet(f, S) = f[k]
<1>1. IsFiniteSet(S \ {k}) /\ Cardinality(S \ {k}) \in Nat
  BY FS_RemoveElement, FS_CardinalityType
<1>2. SumFunctionOnSet(f, S \ {k}) = 0 * Cardinality(S \ {k})
  BY <1>1, SumEqual
<1>3. \A x \in S : f[x] \in Int
  OBVIOUS
<1>4. SumFunctionOnSet(f, S) = f[k] + SumFunctionOnSet(f, S \ {k})
  BY <1>3, SumRemove
<1> QED
  BY <1>1, <1>2, <1>4

\* One number more.
LEMMA SumNext ==
  ASSUME NEW f, NEW n \in Nat, \A k \in 1..(n + 1) : f[k] \in Int
  PROVE  SumFunctionOnSet(f, 1..(n + 1)) = SumFunctionOnSet(f, 1..n) + f[n + 1] /\ SumFunctionOnSet(f, 1..n) \in Int
<1>1. IsFiniteSet(1..n)
  BY FS_Interval
<1>2. 1..(n + 1) = (1..n) \cup {n + 1} /\ n + 1 \notin 1..n /\ n + 1 \in 1..(n + 1)
  OBVIOUS
<1>3. SumFunctionOnSet(f, 1..n) \in Int
  BY <1>1, <1>2, SumIn
<1>4. SumFunctionOnSet(f, 1..(n + 1)) = f[n + 1] + SumFunctionOnSet(f, 1..n)
  BY <1>1, <1>2, SumAdd
<1> QED
  BY <1>2, <1>3, <1>4

\* f has m numbers of g, then n of h.
Joins(f, g, m, h, n) == /\ \A k \in 1..m : f[k] = g[k] /\ g[k] \in Int
                        /\ \A k \in 1..n : f[m + k] = h[k] /\ h[k] \in Int

\* The sum of two sequences of numbers put together.
LEMMA SumConcat ==
  ASSUME NEW f, NEW g, NEW h, NEW m \in Nat, NEW n \in Nat, Joins(f, g, m, h, n)
  PROVE  SumFunctionOnSet(f, 1..(m + n)) = SumFunctionOnSet(g, 1..m) + SumFunctionOnSet(h, 1..n)
<1> DEFINE T == {j \in Nat : j <= n => SumFunctionOnSet(f, 1..(m + j)) = SumFunctionOnSet(g, 1..m) + SumFunctionOnSet(h, 1..j)}
<1> USE DEF Joins
<1>1. IsFiniteSet(1..m) /\ SumFunctionOnSet(g, 1..m) \in Int
  <2>1. IsFiniteSet(1..m)
    BY FS_Interval
  <2>2. \A k \in 1..m : g[k] \in Int
    OBVIOUS
  <2> QED BY <2>1, <2>2, SumIn
<1>2. 0 \in T
  <2>1. SumFunctionOnSet(f, 1..m) = SumFunctionOnSet(g, 1..m)
    BY <1>1, SumSame
  <2>2. 1..0 = {} /\ m + 0 = m
    OBVIOUS
  <2>3. SumFunctionOnSet(h, 1..0) = 0
    BY <2>2, SumEmpty
  <2> QED BY <1>1, <2>1, <2>2, <2>3
<1>3. ASSUME NEW j \in Nat, j \in T PROVE j + 1 \in T
  <2>1. SUFFICES ASSUME j + 1 <= n
                 PROVE  SumFunctionOnSet(f, 1..(m + (j + 1))) = SumFunctionOnSet(g, 1..m) + SumFunctionOnSet(h, 1..(j + 1))
    OBVIOUS
  <2>2. SumFunctionOnSet(f, 1..(m + j)) = SumFunctionOnSet(g, 1..m) + SumFunctionOnSet(h, 1..j)
    BY <1>3, <2>1
  <2>3. f[m + (j + 1)] = h[j + 1] /\ h[j + 1] \in Int
    BY <2>1
  <2>4. \A k \in 1..(j + 1) : h[k] \in Int
    BY <2>1
  <2>5. \A k \in 1..((m + j) + 1) : f[k] \in Int
    <3> SUFFICES ASSUME NEW k \in 1..((m + j) + 1) PROVE f[k] \in Int
      OBVIOUS
    <3>1. CASE k <= m
      BY <3>1
    <3>2. CASE k > m
      <4>1. k - m \in 1..n /\ k = m + (k - m)
        BY <2>1, <3>2
      <4> QED BY <4>1
    <3> QED BY <3>1, <3>2
  <2>6. SumFunctionOnSet(h, 1..(j + 1)) = SumFunctionOnSet(h, 1..j) + h[j + 1] /\ SumFunctionOnSet(h, 1..j) \in Int
    BY <2>4, SumNext
  <2>7. SumFunctionOnSet(f, 1..((m + j) + 1)) = SumFunctionOnSet(f, 1..(m + j)) + f[(m + j) + 1]
    BY <2>5, SumNext
  <2>8. (m + j) + 1 = m + (j + 1)
    OBVIOUS
  <2> QED BY <1>1, <2>2, <2>3, <2>6, <2>7, <2>8
<1>4. \A j \in Nat : j \in T
  <2> HIDE DEF T
  <2> QED BY <1>2, <1>3, NumbersFrom0
<1> QED
  BY <1>4

\* g has the numbers of f above zero, under other names.
Renames(g, h, f, S) == (\A x \in S : f[x] \in Nat /\ (f[x] > 0 => g[h[x]] = f[x])) /\ \A x, y \in S : h[x] = h[y] => x = y

\* Numbers above zero add up to the same under other names.
LEMMA SumRenamed ==
  ASSUME NEW f, NEW g, NEW h, NEW S, IsFiniteSet(S), Renames(g, h, f, S)
  PROVE  SumFunctionOnSet(g, {h[x] : x \in {y \in S : f[y] > 0}}) = SumFunctionOnSet(f, S)
<1> USE DEF Renames
<1> DEFINE Names(T) == {h[x] : x \in {y \in T : f[y] > 0}}
           F        == {T \in SUBSET S : IsFiniteSet(Names(T)) /\ SumFunctionOnSet(g, Names(T)) = SumFunctionOnSet(f, T)}
<1>1. {} \in F
  <2>1. Names({}) = {}
    OBVIOUS
  <2> QED BY <2>1, SumEmpty, FS_EmptySet
<1>2. ASSUME NEW T \in SUBSET S, NEW x \in S, T \in F, x \notin T PROVE T \cup {x} \in F
  <2>1. IsFiniteSet(T) /\ IsFiniteSet(Names(T)) /\ SumFunctionOnSet(g, Names(T)) = SumFunctionOnSet(f, T)
    BY <1>2, FS_Subset
  <2>2. f[x] \in Nat /\ (\A y \in T \cup {x} : f[y] \in Int) /\ (\A y \in T : f[y] \in Int)
    BY <1>2
  <2>3. SumFunctionOnSet(f, T \cup {x}) = f[x] + SumFunctionOnSet(f, T) /\ SumFunctionOnSet(f, T) \in Int
    BY <1>2, <2>1, <2>2, SumAdd, SumIn
  <2>4. CASE f[x] = 0
    <3>1. Names(T \cup {x}) = Names(T)
      BY <2>4
    <3> HIDE DEF Names
    <3> QED BY <1>2, <2>1, <2>3, <2>4, <3>1
  <2>5. CASE f[x] > 0
    <3>1. Names(T \cup {x}) = Names(T) \cup {h[x]}
      BY <1>2, <2>5
    <3>2. h[x] \notin Names(T)
      BY <1>2
    <3>3. \A n \in Names(T) \cup {h[x]} : g[n] \in Int
      <4>1. ASSUME NEW y \in S, f[y] > 0 PROVE g[h[y]] \in Int
        BY <4>1
      <4>2. \A n \in Names(T) \cup {h[x]} : \E y \in S : f[y] > 0 /\ n = h[y]
        BY <1>2, <2>5
      <4> HIDE DEF Names
      <4> QED BY <4>1, <4>2
    <3>4. g[h[x]] = f[x]
      BY <1>2, <2>5
    <3> HIDE DEF Names
    <3>5. SumFunctionOnSet(g, Names(T) \cup {h[x]}) = g[h[x]] + SumFunctionOnSet(g, Names(T))
      BY <2>1, <3>2, <3>3, SumAdd
    <3>6. IsFiniteSet(Names(T) \cup {h[x]})
      BY <2>1, FS_AddElement
    <3> QED BY <1>2, <2>1, <2>3, <3>1, <3>4, <3>5, <3>6
  <2> QED BY <2>2, <2>4, <2>5
<1>3. S \in F
  <2> HIDE DEF F
  <2> QED BY <1>1, <1>2, SubsetsFromEmpty
<1> QED
  BY <1>3
\* The sum of two sums is the sum of the sums.
LEMMA SumPlus ==
  ASSUME NEW f, NEW g, NEW h, NEW S, IsFiniteSet(S), \A x \in S : f[x] \in Int /\ g[x] \in Int /\ h[x] = f[x] + g[x]
  PROVE  SumFunctionOnSet(h, S) = SumFunctionOnSet(f, S) + SumFunctionOnSet(g, S)
<1>1. \A x \in S : h[x] \in Int /\ g[x] \in Int /\ f[x] = h[x] - g[x] /\ f[x] \in Int
  OBVIOUS
<1>2. SumFunctionOnSet(f, S) = SumFunctionOnSet(h, S) - SumFunctionOnSet(g, S)
  BY <1>1, SumMinus
<1>3. SumFunctionOnSet(h, S) \in Int /\ SumFunctionOnSet(g, S) \in Int
  BY <1>1, SumIn
<1> QED
  BY <1>2, <1>3

\* The sum over two sets without common elements.
LEMMA SumUnion ==
  ASSUME NEW f, NEW S, NEW T, IsFiniteSet(S), IsFiniteSet(T), S \cap T = {}, \A x \in S \cup T : f[x] \in Int
  PROVE  SumFunctionOnSet(f, S \cup T) = SumFunctionOnSet(f, S) + SumFunctionOnSet(f, T)
<1> DEFINE F == {R \in SUBSET T : SumFunctionOnSet(f, S \cup R) = SumFunctionOnSet(f, S) + SumFunctionOnSet(f, R)}
<1>0. SumFunctionOnSet(f, S) \in Int
  BY SumIn
<1>1. {} \in F
  <2>1. SumFunctionOnSet(f, {}) = 0 /\ S \cup {} = S
    BY SumEmpty
  <2> QED BY <1>0, <2>1
<1>2. ASSUME NEW R \in SUBSET T, NEW x \in T, R \in F, x \notin R PROVE R \cup {x} \in F
  <2>1. IsFiniteSet(R) /\ IsFiniteSet(S \cup R)
    BY FS_Subset, FS_Union
  <2>2. x \notin S \cup R /\ (\A y \in (S \cup R) \cup {x} : f[y] \in Int) /\ (\A y \in R \cup {x} : f[y] \in Int) /\ S \cup (R \cup {x}) = (S \cup R) \cup {x}
    BY <1>2
  <2>3. SumFunctionOnSet(f, (S \cup R) \cup {x}) = f[x] + SumFunctionOnSet(f, S \cup R)
    BY <2>1, <2>2, SumAdd
  <2>4. SumFunctionOnSet(f, R \cup {x}) = f[x] + SumFunctionOnSet(f, R)
    BY <1>2, <2>1, <2>2, SumAdd
  <2>5. SumFunctionOnSet(f, R) \in Int /\ f[x] \in Int
    BY <2>1, <2>2, SumIn
  <2>6. SumFunctionOnSet(f, S \cup R) = SumFunctionOnSet(f, S) + SumFunctionOnSet(f, R)
    BY <1>2
  <2>7. SumFunctionOnSet(f, S \cup (R \cup {x})) = SumFunctionOnSet(f, (S \cup R) \cup {x})
    BY <2>2
  <2>8. SumFunctionOnSet(f, S \cup (R \cup {x})) = SumFunctionOnSet(f, S) + SumFunctionOnSet(f, R \cup {x})
    BY ONLY <1>0, <2>3, <2>4, <2>5, <2>6, <2>7
  <2> QED BY <2>8
<1>3. T \in F
  <2> HIDE DEF F
  <2> QED BY <1>1, <1>2, SubsetsFromEmpty
<1> QED
  BY <1>3

\* What a function takes the elements of a finite set to is a finite set.
LEMMA ImageFinite ==
  ASSUME NEW f, NEW S, IsFiniteSet(S)
  PROVE  IsFiniteSet({f[x] : x \in S})
<1> DEFINE F == {T \in SUBSET S : IsFiniteSet({f[x] : x \in T})}
<1>1. {} \in F
  <2>1. {f[x] : x \in {}} = {}
    OBVIOUS
  <2> QED BY <2>1, FS_EmptySet
<1>2. ASSUME NEW T \in SUBSET S, NEW x \in S, T \in F, x \notin T PROVE T \cup {x} \in F
  <2>1. {f[y] : y \in T \cup {x}} = {f[y] : y \in T} \cup {f[x]}
    OBVIOUS
  <2>2. IsFiniteSet({f[y] : y \in T} \cup {f[x]})
    BY <1>2, FS_AddElement
  <2> QED BY <2>1, <2>2
<1>3. S \in F
  <2> HIDE DEF F
  <2> QED BY <1>1, <1>2, SubsetsFromEmpty
<1> QED
  BY <1>3

\* Multiples add up to the multiple of the sum.
LEMMA SumTimes ==
  ASSUME NEW f, NEW g, NEW S, IsFiniteSet(S), NEW c \in Int, \A x \in S : f[x] \in Int /\ g[x] = f[x] * c
  PROVE  SumFunctionOnSet(g, S) = SumFunctionOnSet(f, S) * c
<1> DEFINE F == {T \in SUBSET S : SumFunctionOnSet(g, T) = SumFunctionOnSet(f, T) * c}
<1>1. {} \in F
  BY SumEmpty
<1>2. ASSUME NEW T \in SUBSET S, NEW x \in S, T \in F, x \notin T PROVE T \cup {x} \in F
  <2>1. IsFiniteSet(T) /\ T \cup {x} \in SUBSET S
    BY FS_Subset
  <2>2. \A y \in S : g[y] \in Int
    OBVIOUS
  <2>3. SumFunctionOnSet(g, T \cup {x}) = g[x] + SumFunctionOnSet(g, T)
    BY <1>2, <2>1, <2>2, SumAdd
  <2>4. SumFunctionOnSet(f, T \cup {x}) = f[x] + SumFunctionOnSet(f, T) /\ SumFunctionOnSet(f, T) \in Int
    BY <1>2, <2>1, SumAdd, SumIn
  <2>5. PICK u \in Int, v \in Int : u = SumFunctionOnSet(f, T) /\ v = f[x]
    BY <2>4
  <2>6. u * c + v * c = (v + u) * c
    BY <2>5
  <2>7. SumFunctionOnSet(g, T \cup {x}) = SumFunctionOnSet(f, T \cup {x}) * c
    BY <1>2, <2>3, <2>4, <2>5, <2>6
  <2> QED BY <2>1, <2>7
<1>3. S \in F
  <2> HIDE DEF F
  <2> QED BY <1>1, <1>2, SubsetsFromEmpty
<1> QED
  BY <1>3

\* Numbers near each other have sums near each other.
LEMMA SumNear ==
  ASSUME NEW f, NEW g, NEW c, NEW S, IsFiniteSet(S), \A x \in S : f[x] \in Int /\ g[x] \in Int /\ c[x] \in Nat /\ f[x] - g[x] \in -c[x]..c[x]
  PROVE  LET e == SumFunctionOnSet(c, S)
         IN  /\ SumFunctionOnSet(f, S) \in Int /\ SumFunctionOnSet(g, S) \in Int /\ e \in Nat
             /\ SumFunctionOnSet(f, S) - SumFunctionOnSet(g, S) \in -e..e
<1> DEFINE h == [x \in S |-> g[x] + c[x]]
           l == [x \in S |-> g[x] - c[x]]
<1>1. SumFunctionOnSet(f, S) \in Int /\ SumFunctionOnSet(g, S) \in Int /\ SumFunctionOnSet(c, S) \in Nat
  BY SumIn
<1>2. SumFunctionOnSet(h, S) = SumFunctionOnSet(g, S) + SumFunctionOnSet(c, S)
  <2>1. \A x \in S : g[x] \in Int /\ c[x] \in Int /\ h[x] = g[x] + c[x]
    OBVIOUS
  <2> HIDE DEF h
  <2> QED BY <2>1, SumPlus
<1>3. SumFunctionOnSet(l, S) = SumFunctionOnSet(g, S) - SumFunctionOnSet(c, S)
  <2>1. \A x \in S : g[x] \in Int /\ c[x] \in Int /\ l[x] = g[x] - c[x]
    OBVIOUS
  <2> HIDE DEF l
  <2> QED BY <2>1, SumMinus
<1>4. SumFunctionOnSet(f, S) <= SumFunctionOnSet(h, S)
  <2>1. \A x \in S : f[x] \in Int /\ h[x] \in Int /\ f[x] <= h[x]
    OBVIOUS
  <2> HIDE DEF h
  <2> QED BY <2>1, SumAtMost
<1>5. SumFunctionOnSet(l, S) <= SumFunctionOnSet(f, S)
  <2>1. \A x \in S : l[x] \in Int /\ f[x] \in Int /\ l[x] <= f[x]
    OBVIOUS
  <2> HIDE DEF l
  <2> QED BY <2>1, SumAtMost
<1> QED
  BY <1>1, <1>2, <1>3, <1>4, <1>5

\* Zeros do not count.
LEMMA SumPart ==
  ASSUME NEW f, NEW g, NEW S, NEW T, IsFiniteSet(S), T \subseteq S, \A x \in T : f[x] = g[x] /\ g[x] \in Int, \A x \in S \ T : f[x] = 0
  PROVE  SumFunctionOnSet(f, S) = SumFunctionOnSet(g, T)
<1>1. IsFiniteSet(T) /\ IsFiniteSet(S \ T) /\ S = T \cup (S \ T) /\ T \cap (S \ T) = {}
  BY FS_Subset
<1>2. SumFunctionOnSet(f, T \cup (S \ T)) = SumFunctionOnSet(f, T) + SumFunctionOnSet(f, S \ T)
  <2>1. \A x \in T \cup (S \ T) : f[x] \in Int
    OBVIOUS
  <2> QED BY <1>1, <2>1, SumUnion
<1>3. SumFunctionOnSet(f, S \ T) = 0
  <2>1. PICK n \in Nat : n = Cardinality(S \ T)
    BY <1>1, FS_CardinalityType
  <2>2. SumFunctionOnSet(f, S \ T) = 0 * n
    BY <1>1, <2>1, SumEqual
  <2> QED BY <2>1, <2>2
<1>4. SumFunctionOnSet(f, T) = SumFunctionOnSet(g, T) /\ SumFunctionOnSet(g, T) \in Int
  BY <1>1, SumSame, SumIn
<1>5. SumFunctionOnSet(f, S) = SumFunctionOnSet(f, T) + SumFunctionOnSet(f, S \ T)
  BY <1>1, <1>2
<1> QED
  BY <1>3, <1>4, <1>5

\* h is what f has beyond t on T, outside of which there is nothing.
Beyond(f, t, h, S, T) ==
  /\ IsFiniteSet(S) /\ T \subseteq S /\ \A x \in T : f[x] \in Nat /\ t[x] \in Int /\ h[x] = f[x] - t[x]
  /\ \A x \in S \ T : f[x] = 0 /\ t[x] = 0

LEMMA SumBeyond ==
  ASSUME NEW f, NEW t, NEW h, NEW S, NEW T, Beyond(f, t, h, S, T)
  PROVE  /\ SumFunctionOnSet(f, S) = SumFunctionOnSet(f, T) /\ SumFunctionOnSet(f, T) \in Nat /\ SumFunctionOnSet(t, S) \in Int
         /\ SumFunctionOnSet(h, T) = SumFunctionOnSet(f, T) - SumFunctionOnSet(t, S)
<1>1. IsFiniteSet(S) /\ T \subseteq S /\ IsFiniteSet(T)
  BY FS_Subset DEF Beyond
<1>2. /\ \A x \in T : f[x] \in Nat /\ f[x] \in Int /\ t[x] \in Int /\ h[x] = f[x] - t[x]
      /\ \A x \in S \ T : f[x] = 0 /\ t[x] = 0
  BY DEF Beyond
<1>3. SumFunctionOnSet(f, S) = SumFunctionOnSet(f, T)
  BY <1>1, <1>2, SumPart
<1>4. SumFunctionOnSet(t, S) = SumFunctionOnSet(t, T)
  BY <1>1, <1>2, SumPart
<1>5. SumFunctionOnSet(f, T) \in Nat /\ SumFunctionOnSet(t, T) \in Int
  BY <1>1, <1>2, SumIn
<1>6. SumFunctionOnSet(h, T) = SumFunctionOnSet(f, T) - SumFunctionOnSet(t, T)
  BY <1>1, <1>2, SumMinus
<1> QED
  BY <1>3, <1>4, <1>5, <1>6

\* The entries of a table, the sums of its n rows and of its columns, one for each element of T.
Table(m, n, T, row, column) ==
  /\ IsFiniteSet(T) /\ \A i \in 1..n, x \in T : m[i][x] \in Int
  /\ \A i \in 1..n : row[i] = SumFunctionOnSet(m[i], T)
  /\ \A x \in T : column[x] = SumFunctionOnSet([i \in 1..n |-> m[i][x]], 1..n)

\* A table adds up to the same by rows and by columns.
LEMMA SumSwap ==
  ASSUME NEW m, NEW n \in Nat, NEW T, NEW row, NEW column, Table(m, n, T, row, column)
  PROVE  SumFunctionOnSet(row, 1..n) = SumFunctionOnSet(column, T)
<1>0. /\ \A i \in 1..n : row[i] = SumFunctionOnSet(m[i], T)
      /\ \A x \in T : column[x] = SumFunctionOnSet([i \in 1..n |-> m[i][x]], 1..n)
  BY DEF Table
<1> DEFINE c(x)  == [i \in 1..n |-> m[i][x]]
           to(k) == [x \in T |-> SumFunctionOnSet(c(x), 1..k)]
           K     == {k \in Nat : k <= n => SumFunctionOnSet(row, 1..k) = SumFunctionOnSet(to(k), T)}
<1>1. IsFiniteSet(T) /\ \A i \in 1..n, x \in T : m[i][x] \in Int /\ c(x)[i] = m[i][x] /\ c(x)[i] \in Int
  BY DEF Table
<1>2. \A i \in 1..n : row[i] \in Int
  <2> SUFFICES ASSUME NEW i \in 1..n PROVE row[i] \in Int
    OBVIOUS
  <2>1. \A x \in T : m[i][x] \in Int
    BY <1>1
  <2>2. SumFunctionOnSet(m[i], T) \in Int
    BY <1>1, <2>1, SumIn
  <2> QED BY <1>0, <2>2
<1>3. \A k \in Nat, x \in T : to(k)[x] = SumFunctionOnSet(c(x), 1..k)
  OBVIOUS
<1> HIDE DEF c, to
<1>4. 0 \in K
  <2>1. 1..0 = {}
    OBVIOUS
  <2>2. \A x \in T : to(0)[x] = 0
    BY <1>3, <2>1, SumEmpty
  <2>3. SumFunctionOnSet(to(0), T) = 0 * Cardinality(T) /\ Cardinality(T) \in Nat
    BY <1>1, <2>2, SumEqual, FS_CardinalityType
  <2>4. SumFunctionOnSet(row, 1..0) = 0
    BY <2>1, SumEmpty
  <2> QED BY <2>3, <2>4
<1>5. ASSUME NEW k \in Nat, k \in K PROVE k + 1 \in K
  <2>1. SUFFICES ASSUME k + 1 <= n PROVE SumFunctionOnSet(row, 1..(k + 1)) = SumFunctionOnSet(to(k + 1), T)
    OBVIOUS
  <2>2. SumFunctionOnSet(row, 1..(k + 1)) = SumFunctionOnSet(row, 1..k) + row[k + 1]
    <3>1. \A i \in 1..(k + 1) : row[i] \in Int
      BY <1>2, <2>1
    <3> QED BY <3>1, SumNext
  <2>3. ASSUME NEW x \in T PROVE to(k)[x] \in Int /\ m[k + 1][x] \in Int /\ to(k + 1)[x] = to(k)[x] + m[k + 1][x]
    <3>1. k + 1 \in 1..n
      BY <2>1
    <3>2. \A i \in 1..(k + 1) : c(x)[i] \in Int
      BY <1>1, <2>1
    <3>3. SumFunctionOnSet(c(x), 1..(k + 1)) = SumFunctionOnSet(c(x), 1..k) + c(x)[k + 1] /\ SumFunctionOnSet(c(x), 1..k) \in Int
      BY <3>2, SumNext
    <3>4. to(k)[x] = SumFunctionOnSet(c(x), 1..k) /\ to(k + 1)[x] = SumFunctionOnSet(c(x), 1..(k + 1))
      BY <1>3
    <3> QED BY <1>1, <3>1, <3>3, <3>4
  <2>4. SumFunctionOnSet(to(k + 1), T) = SumFunctionOnSet(to(k), T) + SumFunctionOnSet(m[k + 1], T)
    BY <1>1, <2>3, SumPlus
  <2>5. SumFunctionOnSet(row, 1..k) = SumFunctionOnSet(to(k), T)
    BY <1>5, <2>1
  <2>6. row[k + 1] = SumFunctionOnSet(m[k + 1], T)
    BY <1>0, <2>1
  <2> QED BY <2>2, <2>4, <2>5, <2>6
<1>6. \A k \in Nat : k \in K
  <2> HIDE DEF K
  <2> QED BY <1>4, <1>5, NumbersFrom0
<1>7. SumFunctionOnSet(row, 1..n) = SumFunctionOnSet(to(n), T)
  BY <1>6
<1>8. SumFunctionOnSet(to(n), T) = SumFunctionOnSet(column, T)
  <2>1. \A x \in T : to(n)[x] = column[x]
    BY <1>0, <1>3 DEF c
  <2> QED BY <1>1, <2>1, SumSame
<1> QED
  BY <1>7, <1>8

\* Finite groups of numbers without common elements.
Groups(f, R, C) ==
  /\ IsFiniteSet(C) /\ \A x \in C : IsFiniteSet(R[x]) /\ \A l \in R[x] : f[l] \in Int
  /\ \A x, y \in C : x # y => R[x] \cap R[y] = {}

\* Groups add up to the sums of each.
LEMMA SumGroups ==
  ASSUME NEW f, NEW R, NEW C, Groups(f, R, C), NEW g, \A x \in C : g[x] = SumFunctionOnSet(f, R[x])
  PROVE  /\ SumFunctionOnSet(f, UNION {R[x] : x \in C}) = SumFunctionOnSet(g, C)
         /\ IsFiniteSet(UNION {R[x] : x \in C})
<1> DEFINE all(B) == UNION {R[x] : x \in B}
           F      == {B \in SUBSET C : IsFiniteSet(all(B)) /\ SumFunctionOnSet(f, all(B)) = SumFunctionOnSet(g, B)}
<1>1. /\ IsFiniteSet(C) /\ \A x \in C : IsFiniteSet(R[x]) /\ \A l \in R[x] : f[l] \in Int
      /\ \A x, y \in C : x # y => R[x] \cap R[y] = {}
  BY DEF Groups
<1>2. {} \in F
  <2>1. all({}) = {}
    OBVIOUS
  <2>2. SumFunctionOnSet(f, {}) = 0 /\ SumFunctionOnSet(g, {}) = 0 /\ IsFiniteSet({})
    BY SumEmpty, FS_EmptySet
  <2> HIDE DEF all
  <2> QED BY <2>1, <2>2
<1>3. ASSUME NEW B \in SUBSET C, NEW x \in C, B \in F, x \notin B PROVE B \cup {x} \in F
  <2>1. all(B \cup {x}) = all(B) \cup R[x] /\ all(B) \cap R[x] = {}
    <3>1. \A y \in B : R[y] \cap R[x] = {}
      BY <1>1, <1>3
    <3> QED BY <3>1
  <2>2. IsFiniteSet(all(B)) /\ SumFunctionOnSet(f, all(B)) = SumFunctionOnSet(g, B) /\ IsFiniteSet(R[x]) /\ IsFiniteSet(B)
    BY <1>1, <1>3, FS_Subset
  <2>3. \A l \in all(B) \cup R[x] : f[l] \in Int
    BY <1>1
  <2> HIDE DEF all
  <2>4. SumFunctionOnSet(f, all(B) \cup R[x]) = SumFunctionOnSet(f, all(B)) + SumFunctionOnSet(f, R[x])
    BY <2>1, <2>2, <2>3, SumUnion
  <2>5. IsFiniteSet(all(B) \cup R[x])
    BY <2>2, FS_Union
  <2>6. \A y \in C : g[y] \in Int
    <3> SUFFICES ASSUME NEW y \in C PROVE g[y] \in Int
      OBVIOUS
    <3>1. IsFiniteSet(R[y]) /\ \A l \in R[y] : f[l] \in Int
      BY <1>1
    <3>2. SumFunctionOnSet(f, R[y]) \in Int
      BY <3>1, SumIn
    <3> QED BY <3>2
  <2>7. SumFunctionOnSet(g, B \cup {x}) = g[x] + SumFunctionOnSet(g, B) /\ SumFunctionOnSet(g, B) \in Int /\ g[x] \in Int
    <3>1. \A y \in B \cup {x} : g[y] \in Int
      BY <2>6
    <3>2. \A y \in B : g[y] \in Int
      BY <3>1
    <3> QED BY <1>3, <2>2, <2>6, <3>1, <3>2, SumAdd, SumIn
  <2>8. g[x] = SumFunctionOnSet(f, R[x])
    OBVIOUS
  <2>9. SumFunctionOnSet(f, all(B \cup {x})) = SumFunctionOnSet(g, B \cup {x})
    <3>1. SumFunctionOnSet(f, all(B \cup {x})) = SumFunctionOnSet(f, all(B) \cup R[x])
      BY <2>1
    <3>2. PICK a \in Int, b \in Int : a = g[x] /\ b = SumFunctionOnSet(g, B)
      BY <2>7
    <3>3. SumFunctionOnSet(f, all(B)) = b /\ SumFunctionOnSet(f, R[x]) = a
      BY <2>2, <2>8, <3>2
    <3>4. SumFunctionOnSet(f, all(B) \cup R[x]) = b + a
      BY <2>4, <3>3
    <3>5. SumFunctionOnSet(g, B \cup {x}) = a + b
      BY <2>7, <3>2
    <3> QED BY <3>1, <3>4, <3>5
  <2> QED BY <1>3, <2>1, <2>5, <2>9
<1>4. C \in F
  <2> HIDE DEF F
  <2> QED BY <1>1, <1>2, <1>3, SubsetsFromEmpty
<1> QED
  BY <1>4
================================================================================
