----------------------------- MODULE DataFacts -----------------------------
(***************************************************************************)
(* Facts about naturals, finite sets and sums that the proofs of several   *)
(* components cite.  Where they need induction it is an argument about a   *)
(* least counterexample.                                                   *)
(***************************************************************************)
EXTENDS Integers, FiniteSets, Functions, FiniteSetTheorems, WellFoundedInduction, TLAPS

\* A nonempty set of naturals has a least member.
LEMMA Least ==
  ASSUME NEW T, T \subseteq Nat, T # {}
  PROVE  \E n \in T : \A m \in T : n <= m
<1> DEFINE R == {ss \in Nat \X Nat : ss[1] < ss[2]}
<1>1. IsWellFoundedOn(R, Nat)
  BY NatLessThanWellFounded DEF OpToRel
<1> HIDE DEF R
<1>2. PICK n \in T : \A m \in T : ~ (<<m, n>> \in R)
  BY <1>1, WFMin
<1>3. ASSUME NEW m \in T
      PROVE  n <= m
  <2>1. m \in Nat /\ n \in Nat
    OBVIOUS
  <2>2. m < n => <<m, n>> \in R
    BY <2>1 DEF R
  <2> QED BY <1>2, <2>1, <2>2
<1> QED BY <1>3

\* A set of finite sets has a member of least cardinality.
LEMMA Smallest ==
  ASSUME NEW T, T # {}, \A s \in T : IsFiniteSet(s)
  PROVE  \E s \in T : \A t \in T : Cardinality(s) <= Cardinality(t)
<1> DEFINE N == {Cardinality(s) : s \in T}
<1>1. N \subseteq Nat /\ N # {}
  BY FS_CardinalityType
<1> HIDE DEF N
<1>2. PICK n \in N : \A m \in N : n <= m
  BY <1>1, Least
<1> QED BY <1>2 DEF N

(***************************************************************************)
(* Sums of the values of a function over a finite set.                     *)
(***************************************************************************)
Member(s) == CHOOSE x \in s : TRUE

\* g sums f over every member of C, a family closed under taking Member away.
Sums(f, C, g) ==
  g = [s \in C |-> IF s = {} THEN 0 ELSE f[Member(s)] + g[s \ {Member(s)}]]

\* The sum of f over S is the value at S of the function that takes a member at a time.
LEMMA SumIsIter ==
  ASSUME NEW f, NEW S
  PROVE  SumFunctionOnSet(f, S) = (CHOOSE g : Sums(f, SUBSET S, g))[S]
BY DEF SumFunctionOnSet, FoldFunctionOnSet, MapThenFoldSet, Sums, Member

\* There is a sum: by layers of subsets of at most n members.
LEMMA SumsExist ==
  ASSUME NEW f, NEW S, IsFiniteSet(S)
  PROVE  \E g : Sums(f, SUBSET S, g)
<1> DEFINE Layer(n) == {s \in SUBSET S : Cardinality(s) <= n}
           Good(n) == \E g : Sums(f, Layer(n), g)
           T == {n \in Nat : ~ Good(n)}
<1>1. \A s \in SUBSET S : IsFiniteSet(s) /\ Cardinality(s) \in Nat
  BY FS_Subset, FS_CardinalityType
<1>2. \A s \in SUBSET S : s # {} => /\ Member(s) \in s /\ s \ {Member(s)} \in SUBSET S
                                    /\ Cardinality(s \ {Member(s)}) = Cardinality(s) - 1
  <2> TAKE s \in SUBSET S
  <2> HAVE s # {}
  <2>1. Member(s) \in s
    BY DEF Member
  <2> QED BY <1>1, <2>1, FS_RemoveElement
<1>3. T = {}
  <2> SUFFICES ASSUME T # {} PROVE FALSE
    OBVIOUS
  <2>1. T \subseteq Nat
    OBVIOUS
  <2>2. PICK n \in T : \A m \in T : n <= m
    <3> HIDE DEF T
    <3> QED BY <2>1, Least
  <2>3. Good(0)
    <3>1. Layer(0) = {{}}
      <4>1. \A s \in Layer(0) : s = {}
        BY <1>1, FS_EmptySet
      <4>2. {} \in Layer(0)
        BY FS_EmptySet
      <4> QED BY <4>1, <4>2
    <3>2. Sums(f, {{}}, [s \in {{}} |-> 0])
      BY DEF Sums
    <3> HIDE DEF Layer
    <3> QED BY <3>1, <3>2
  <2>4. n # 0 /\ n \in Nat /\ n - 1 \in Nat /\ n - 1 \notin T
    <3>1. n \in Nat /\ ~ Good(n)
      OBVIOUS
    <3> HIDE DEF Good
    <3>2. n # 0
      BY <2>3, <3>1
    <3> HIDE DEF T
    <3> QED BY <2>2, <3>1, <3>2
  <2>5. PICK g : Sums(f, Layer(n - 1), g)
    BY <2>4
  <2> DEFINE h == [s \in Layer(n) |-> IF s = {} THEN 0 ELSE f[Member(s)] + g[s \ {Member(s)}]]
  <2>6. \A s \in Layer(n) : s # {} => s \ {Member(s)} \in Layer(n - 1)
    BY <1>1, <1>2, <2>4
  <2>7. Layer(n - 1) \subseteq Layer(n)
    BY <1>1, <2>4
  <2> HIDE DEF Layer
  <2>8. \A s \in Layer(n - 1) : h[s] = g[s]
    <3>1. \A s \in Layer(n - 1) : g[s] = IF s = {} THEN 0 ELSE f[Member(s)] + g[s \ {Member(s)}]
      BY <2>5 DEF Sums
    <3> QED BY <3>1, <2>7
  <2>9. \A s \in Layer(n) : h[s] = IF s = {} THEN 0 ELSE f[Member(s)] + h[s \ {Member(s)}]
    BY <2>6, <2>8
  <2>10. Sums(f, Layer(n), h)
    <3>1. h = [s \in Layer(n) |-> h[s]]
      OBVIOUS
    <3> HIDE DEF h
    <3> QED BY <2>9, <3>1 DEF Sums
  <2> QED BY <2>2, <2>10
<1>4. Layer(Cardinality(S)) = SUBSET S
  BY FS_Subset
<1>5. Good(Cardinality(S))
  BY <1>1, <1>3
<1> HIDE DEF Layer
<1> QED BY <1>4, <1>5

\* All sums of f agree where they are defined.
LEMMA SumsAgree ==
  ASSUME NEW f, NEW A, NEW B, NEW S, NEW g, NEW h,
         Sums(f, SUBSET A, g), Sums(f, SUBSET B, h),
         S \in SUBSET A, S \in SUBSET B, IsFiniteSet(S)
  PROVE  g[S] = h[S]
<1> DEFINE T == {s \in SUBSET S : g[s] # h[s]}
<1>1. T = {}
  <2> SUFFICES ASSUME T # {} PROVE FALSE
    OBVIOUS
  <2>1. \A s \in T : IsFiniteSet(s)
    BY FS_Subset
  <2>2. PICK s \in T : \A t \in T : Cardinality(s) <= Cardinality(t)
    <3> HIDE DEF T
    <3> QED BY <2>1, Smallest
  <2>3. /\ g[s] = IF s = {} THEN 0 ELSE f[Member(s)] + g[s \ {Member(s)}]
        /\ h[s] = IF s = {} THEN 0 ELSE f[Member(s)] + h[s \ {Member(s)}]
    <3>1. s \in SUBSET A /\ s \in SUBSET B
      OBVIOUS
    <3> QED BY <3>1 DEF Sums
  <2>4. s # {}
    BY <2>3
  <2>5. Member(s) \in s
    BY <2>4 DEF Member
  <2>6. Cardinality(s \ {Member(s)}) = Cardinality(s) - 1 /\ Cardinality(s) \in Nat
    BY <2>1, <2>5, FS_RemoveElement, FS_CardinalityType
  <2>7. s \ {Member(s)} \notin T
    BY <2>2, <2>6
  <2>8. g[s \ {Member(s)}] = h[s \ {Member(s)}]
    BY <2>7
  <2> QED BY <2>3, <2>8
<1> QED BY <1>1

\* A sum takes its chosen member first.
LEMMA SumStep ==
  ASSUME NEW f, NEW S, IsFiniteSet(S)
  PROVE  SumFunctionOnSet(f, S) =
           IF S = {} THEN 0 ELSE f[Member(S)] + SumFunctionOnSet(f, S \ {Member(S)})
<1>1. PICK g : g = CHOOSE h : Sums(f, SUBSET S, h)
  OBVIOUS
<1>2. Sums(f, SUBSET S, g) /\ SumFunctionOnSet(f, S) = g[S]
  BY <1>1, SumsExist, SumIsIter
<1>3. g[S] = IF S = {} THEN 0 ELSE f[Member(S)] + g[S \ {Member(S)}]
  BY <1>2 DEF Sums
<1> DEFINE R == S \ {Member(S)}
<1>4. IsFiniteSet(R) /\ R \subseteq S
  BY FS_Subset
<1>5. PICK r : r = CHOOSE h : Sums(f, SUBSET R, h)
  OBVIOUS
<1>6. Sums(f, SUBSET R, r) /\ SumFunctionOnSet(f, R) = r[R]
  BY <1>4, <1>5, SumsExist, SumIsIter
<1> HIDE DEF R
<1>7. r[R] = g[R]
  <2>1. R \in SUBSET S /\ R \in SUBSET R
    BY <1>4
  <2> QED BY <1>2, <1>4, <1>6, <2>1, SumsAgree
<1> QED BY <1>2, <1>3, <1>6, <1>7 DEF R

\* The sum over no members is zero.
LEMMA SumOfNone ==
  ASSUME NEW f
  PROVE  SumFunctionOnSet(f, {}) = 0
BY SumStep, FS_EmptySet

\* A sum of integers is an integer.
LEMMA SumType ==
  ASSUME NEW f, NEW S, IsFiniteSet(S), \A x \in S : f[x] \in Int
  PROVE  SumFunctionOnSet(f, S) \in Int
<1> DEFINE T == {s \in SUBSET S : SumFunctionOnSet(f, s) \notin Int}
<1>1. T = {}
  <2> SUFFICES ASSUME T # {} PROVE FALSE
    OBVIOUS
  <2>1. \A s \in T : IsFiniteSet(s)
    BY FS_Subset
  <2>2. PICK s \in T : \A t \in T : Cardinality(s) <= Cardinality(t)
    <3> HIDE DEF T
    <3> QED BY <2>1, Smallest
  <2>3. s # {}
    BY <2>2, SumOfNone
  <2>4. Member(s) \in s
    BY <2>3 DEF Member
  <2>5. Cardinality(s \ {Member(s)}) = Cardinality(s) - 1 /\ Cardinality(s) \in Nat
    BY <2>1, <2>4, FS_RemoveElement, FS_CardinalityType
  <2>6. s \ {Member(s)} \notin T
    BY <2>2, <2>5
  <2>7. SumFunctionOnSet(f, s) = f[Member(s)] + SumFunctionOnSet(f, s \ {Member(s)})
    BY <2>1, <2>3, SumStep
  <2>8. SumFunctionOnSet(f, s \ {Member(s)}) \in Int
    BY <2>6
  <2> QED BY <2>4, <2>7, <2>8
<1> QED BY <1>1

\* Any member can be summed last.
LEMMA SumTake ==
  ASSUME NEW f, NEW S, IsFiniteSet(S), \A x \in S : f[x] \in Int, NEW x \in S
  PROVE  SumFunctionOnSet(f, S) = f[x] + SumFunctionOnSet(f, S \ {x})
<1> DEFINE Sum(s) == SumFunctionOnSet(f, s)
           T == {s \in SUBSET S : \E y \in s : Sum(s) # f[y] + Sum(s \ {y})}
<1>1. T = {}
  <2> SUFFICES ASSUME T # {} PROVE FALSE
    OBVIOUS
  <2>0. \A s \in SUBSET S : IsFiniteSet(s) /\ Sum(s) \in Int
    BY FS_Subset, SumType
  <2>1. \A s \in T : IsFiniteSet(s)
    BY <2>0
  <2>2. PICK s \in T : \A t \in T : Cardinality(s) <= Cardinality(t)
    <3> HIDE DEF T
    <3> QED BY <2>1, Smallest
  <2> HIDE DEF Sum
  <2>3. PICK y \in s : Sum(s) # f[y] + Sum(s \ {y})
    OBVIOUS
  <2> DEFINE c == Member(s)
  <2>4. c \in s
    BY <2>3 DEF Member
  <2>5. Sum(s) = f[c] + Sum(s \ {c})
    BY <2>1, <2>3, SumStep DEF Sum
  <2>6. c # y
    BY <2>3, <2>5
  <2> HIDE DEF c
  <2>7. \A z \in s : s \ {z} \in SUBSET S /\ s \ {z} \notin T
    <3> TAKE z \in s
    <3>1. Cardinality(s \ {z}) = Cardinality(s) - 1 /\ Cardinality(s) \in Nat
      BY <2>1, FS_RemoveElement, FS_CardinalityType
    <3> QED BY <2>2, <3>1
  <2>8. Sum(s \ {c}) = f[y] + Sum((s \ {c}) \ {y}) /\ Sum(s \ {y}) = f[c] + Sum((s \ {y}) \ {c})
    BY <2>4, <2>6, <2>7
  <2>9. (s \ {c}) \ {y} = (s \ {y}) \ {c} /\ (s \ {c}) \ {y} \in SUBSET S
    OBVIOUS
  <2>10. PICK u, v, w : u = f[c] /\ v = f[y] /\ w = Sum((s \ {y}) \ {c})
    OBVIOUS
  <2>11. u \in Int /\ v \in Int /\ w \in Int
    BY <2>0, <2>4, <2>9, <2>10
  <2>12. Sum(s \ {c}) = v + w /\ Sum(s \ {y}) = u + w
    BY <2>8, <2>9, <2>10
  <2>13. Sum(s) = u + (v + w) /\ Sum(s) # v + (u + w)
    BY <2>3, <2>5, <2>10, <2>12
  <2> QED BY <2>11, <2>13
<1>2. S \notin T
  BY <1>1
<1> QED BY <1>2

\* A new member adds its value.
LEMMA SumAdd ==
  ASSUME NEW f, NEW S, IsFiniteSet(S), NEW x, x \notin S, \A y \in S \cup {x} : f[y] \in Int
  PROVE  SumFunctionOnSet(f, S \cup {x}) = SumFunctionOnSet(f, S) + f[x]
<1>1. IsFiniteSet(S \cup {x}) /\ (S \cup {x}) \ {x} = S
  BY FS_AddElement
<1>2. SumFunctionOnSet(f, S \cup {x}) = f[x] + SumFunctionOnSet(f, (S \cup {x}) \ {x})
  BY <1>1, SumTake
<1>3. SumFunctionOnSet(f, S) \in Int /\ f[x] \in Int
  BY SumType
<1>4. SumFunctionOnSet(f, S \cup {x}) = f[x] + SumFunctionOnSet(f, S)
  BY <1>1, <1>2
<1> QED BY <1>3, <1>4

\* Only the values on the set count.
LEMMA SumSame ==
  ASSUME NEW f, NEW g, NEW S, IsFiniteSet(S), \A x \in S : f[x] = g[x]
  PROVE  SumFunctionOnSet(f, S) = SumFunctionOnSet(g, S)
<1> DEFINE T == {s \in SUBSET S : SumFunctionOnSet(f, s) # SumFunctionOnSet(g, s)}
<1>1. T = {}
  <2> SUFFICES ASSUME T # {} PROVE FALSE
    OBVIOUS
  <2>1. \A s \in T : IsFiniteSet(s)
    BY FS_Subset
  <2>2. PICK s \in T : \A t \in T : Cardinality(s) <= Cardinality(t)
    <3> HIDE DEF T
    <3> QED BY <2>1, Smallest
  <2>3. s # {}
    BY <2>2, SumOfNone
  <2>4. Member(s) \in s
    BY <2>3 DEF Member
  <2>5. Cardinality(s \ {Member(s)}) = Cardinality(s) - 1 /\ Cardinality(s) \in Nat
    BY <2>1, <2>4, FS_RemoveElement, FS_CardinalityType
  <2>6. s \ {Member(s)} \notin T
    BY <2>2, <2>5
  <2>7. /\ SumFunctionOnSet(f, s) = f[Member(s)] + SumFunctionOnSet(f, s \ {Member(s)})
        /\ SumFunctionOnSet(g, s) = g[Member(s)] + SumFunctionOnSet(g, s \ {Member(s)})
    BY <2>1, <2>3, SumStep
  <2>8. SumFunctionOnSet(f, s \ {Member(s)}) = SumFunctionOnSet(g, s \ {Member(s)})
    BY <2>6
  <2> QED BY <2>2, <2>4, <2>7, <2>8
<1> QED BY <1>1

\* A sum of the smaller values is the smaller sum.
LEMMA SumBelow ==
  ASSUME NEW f, NEW g, NEW S, IsFiniteSet(S),
         \A x \in S : f[x] \in Int /\ g[x] \in Int /\ 0 <= f[x] /\ f[x] <= g[x]
  PROVE  /\ SumFunctionOnSet(f, S) \in Int /\ SumFunctionOnSet(g, S) \in Int
         /\ 0 <= SumFunctionOnSet(f, S) /\ SumFunctionOnSet(f, S) <= SumFunctionOnSet(g, S)
<1> DEFINE F(s) == SumFunctionOnSet(f, s)
           G(s) == SumFunctionOnSet(g, s)
           T == {s \in SUBSET S : ~ (0 <= F(s) /\ F(s) <= G(s))}
<1>0. \A s \in SUBSET S : IsFiniteSet(s) /\ F(s) \in Int /\ G(s) \in Int
  BY FS_Subset, SumType
<1>1. T = {}
  <2> SUFFICES ASSUME T # {} PROVE FALSE
    OBVIOUS
  <2>1. \A s \in T : IsFiniteSet(s)
    BY <1>0
  <2>2. PICK s \in T : \A t \in T : Cardinality(s) <= Cardinality(t)
    <3> HIDE DEF T
    <3> QED BY <2>1, Smallest
  <2>3. s # {}
    BY <2>2, SumOfNone
  <2>4. Member(s) \in s
    BY <2>3 DEF Member
  <2>5. Cardinality(s \ {Member(s)}) = Cardinality(s) - 1 /\ Cardinality(s) \in Nat
    BY <2>1, <2>4, FS_RemoveElement, FS_CardinalityType
  <2>6. s \ {Member(s)} \notin T
    BY <2>2, <2>5
  <2>7. /\ F(s) = f[Member(s)] + F(s \ {Member(s)})
        /\ G(s) = g[Member(s)] + G(s \ {Member(s)})
    BY <2>1, <2>3, SumStep
  <2>8. /\ 0 <= F(s \ {Member(s)}) /\ F(s \ {Member(s)}) <= G(s \ {Member(s)})
        /\ F(s \ {Member(s)}) \in Int /\ G(s \ {Member(s)}) \in Int
    BY <1>0, <2>6
  <2>9. /\ f[Member(s)] \in Int /\ g[Member(s)] \in Int
        /\ 0 <= f[Member(s)] /\ f[Member(s)] <= g[Member(s)]
    BY <2>4
  <2> HIDE DEF F, G
  <2>10. 0 <= F(s) /\ F(s) <= G(s)
    BY <2>7, <2>8, <2>9
  <2> QED BY <2>2, <2>10
<1> QED BY <1>0, <1>1
=============================================================================
