-------------------------------- MODULE Sums --------------------------------
(***************************************************************************)
(* Lemmas about SumFunctionOnSet, the sum of a function over a finite set. *)
(*                                                                         *)
(* Functions defines it by recursion over the subsets of the set.  A       *)
(* recursive function is a CHOOSE, so that there is one has to be shown:   *)
(* it is built for the subsets of at most n members, for every n.          *)
(***************************************************************************)
EXTENDS Integers, Functions, FiniteSetTheorems, WellFoundedInduction, TLAPS

\* Every set of natural numbers has a least one.
LEMMA LessThanIsWellFounded == IsWellFoundedOn({pair \in Nat \X Nat : pair[1] < pair[2]}, Nat)
<1>1. OpToRel(<, Nat) = {pair \in Nat \X Nat : pair[1] < pair[2]}
  BY DEF OpToRel
<1> QED
  BY <1>1, NatLessThanWellFounded

LEMMA LeastNumber ==
    ASSUME NEW S \in SUBSET Nat, S # {}
    PROVE  \E n \in S : \A m \in S : n <= m
<1> DEFINE less == {pair \in Nat \X Nat : pair[1] < pair[2]}
<1>1. IsWellFoundedOn(less, Nat)
  BY LessThanIsWellFounded
<1>2. PICK n \in S : \A m \in S : ~(<<m, n>> \in less)
  <2> HIDE DEF less
  <2> QED
    BY <1>1, WFMin
<1>3. ASSUME NEW m \in S PROVE n <= m
  <2>1. <<m, n>> \in Nat \X Nat /\ <<m, n>>[1] = m /\ <<m, n>>[2] = n
    OBVIOUS
  <2>2. ~(m < n)
    BY <1>2, <2>1
  <2> QED
    BY <2>2
<1> QED
  BY <1>3

\* Induction over the subsets of a finite set: those that are Good are all of them.
LEMMA SubsetInduction ==
    ASSUME NEW S, IsFiniteSet(S), NEW Good,
           \A s \in SUBSET S : (\A t \in SUBSET s : t # s => t \in Good) => s \in Good
    PROVE  \A s \in SUBSET S : s \in Good
<1> SUFFICES ASSUME NEW bad \in SUBSET S, bad \notin Good PROVE FALSE
  OBVIOUS
<1> DEFINE sizes == {n \in Nat : \E s \in SUBSET S : s \notin Good /\ Cardinality(s) = n}
<1>1. \A s \in SUBSET S : IsFiniteSet(s) /\ Cardinality(s) \in Nat
  BY FS_Subset, FS_CardinalityType
<1>2. Cardinality(bad) \in sizes
  BY <1>1
<1>3. PICK n \in sizes : \A m \in sizes : n <= m
  <2>1. sizes \in SUBSET Nat /\ sizes # {}
    BY <1>2
  <2> HIDE DEF sizes
  <2> QED
    BY <2>1, LeastNumber
<1>4. PICK s \in SUBSET S : s \notin Good /\ Cardinality(s) = n
  OBVIOUS
<1>5. ASSUME NEW t \in SUBSET s, t # s PROVE t \in Good
  <2>1. IsFiniteSet(s) /\ t \in SUBSET S
    BY <1>1
  <2>2. Cardinality(t) <= Cardinality(s) /\ Cardinality(t) # Cardinality(s)
    BY <2>1, <1>5, FS_Subset
  <2>3. ~(n <= Cardinality(t)) /\ Cardinality(t) \in Nat
    BY <1>1, <1>4, <2>1, <2>2
  <2>4. Cardinality(t) \notin sizes
    BY <1>3, <2>3
  <2> QED
    BY <2>1, <2>3, <2>4
<1> QED
  BY <1>4, <1>5

-----------------------------------------------------------------------------
(* The recursion.                                                          *)

Chosen(s) == CHOOSE x \in s : TRUE

\* g sums f over the sets of a family.
SumsUp(f, family, g) ==
    g = [s \in family |-> IF s = {} THEN 0 ELSE f[Chosen(s)] + g[s \ {Chosen(s)}]]

\* ... over all subsets of a set.
SumsSubsets(f, S, g) == SumsUp(f, SUBSET S, g)

LEMMA ChosenIsIn ==
    ASSUME NEW s, s # {}
    PROVE  Chosen(s) \in s
  BY DEF Chosen

UpToSize(S, n) == {s \in SUBSET S : Cardinality(s) <= n}

LEMMA SmallerWithout ==
    ASSUME NEW S, IsFiniteSet(S), NEW n \in Nat, NEW s \in UpToSize(S, n), s # {}
    PROVE  n > 0 /\ s \ {Chosen(s)} \in UpToSize(S, n - 1)
<1>1. IsFiniteSet(s) /\ Cardinality(s) \in Nat /\ Cardinality(s) <= n /\ s \in SUBSET S
  BY FS_Subset, FS_CardinalityType DEF UpToSize
<1>2. Cardinality(s) # 0
  BY <1>1, FS_EmptySet
<1>3. Cardinality(s \ {Chosen(s)}) = Cardinality(s) - 1
  BY <1>1, ChosenIsIn, FS_RemoveElement
<1> QED
  BY <1>1, <1>2, <1>3 DEF UpToSize

LEMMA SumsExist ==
    ASSUME NEW f, NEW S, IsFiniteSet(S)
    PROVE  \E g : SumsSubsets(f, S, g)
<1> DEFINE Without == {n \in Nat : ~\E g : SumsUp(f, UpToSize(S, n), g)}
<1>1. ASSUME Without # {} PROVE FALSE
  <2>1. PICK n \in Without : \A m \in Without : n <= m
    <3>1. Without \in SUBSET Nat
      OBVIOUS
    <3> HIDE DEF Without
    <3> QED
      BY <3>1, <1>1, LeastNumber
  <2>2. n \in Nat /\ ~\E g : SumsUp(f, UpToSize(S, n), g)
    OBVIOUS
  <2>3. n > 0 => \E g : SumsUp(f, UpToSize(S, n - 1), g)
    <3>1. n > 0 => n - 1 \in Nat /\ ~(n <= n - 1)
      BY <2>2
    <3>2. n > 0 => n - 1 \notin Without
      BY <3>1, <2>1
    <3> QED
      BY <3>1, <3>2
  <2> HIDE DEF Without
  <2> DEFINE g == CHOOSE g : SumsUp(f, UpToSize(S, n - 1), g)
             h == [s \in UpToSize(S, n) |-> IF s = {} THEN 0 ELSE f[Chosen(s)] + g[s \ {Chosen(s)}]]
  <2>4. n > 0 => SumsUp(f, UpToSize(S, n - 1), g)
    BY <2>3
  <2> HIDE DEF g
  <2>5. ASSUME NEW s \in UpToSize(S, n), s # {}
        PROVE  h[s \ {Chosen(s)}] = g[s \ {Chosen(s)}]
    <3> DEFINE t == s \ {Chosen(s)}
    <3>1. n > 0 /\ t \in UpToSize(S, n - 1)
      BY <2>2, <2>5, SmallerWithout
    <3>2. t \in UpToSize(S, n)
      <4>1. IsFiniteSet(t)
        BY <3>1, FS_Subset DEF UpToSize
      <4>2. Cardinality(t) \in Nat
        BY <4>1, FS_CardinalityType
      <4> HIDE DEF t
      <4> QED
        BY <3>1, <4>2, <2>2 DEF UpToSize
    <3> HIDE DEF t
    <3>3. h[t] = IF t = {} THEN 0 ELSE f[Chosen(t)] + g[t \ {Chosen(t)}]
      BY <3>2
    <3>4. g[t] = IF t = {} THEN 0 ELSE f[Chosen(t)] + g[t \ {Chosen(t)}]
      BY <3>1, <2>4 DEF SumsUp
    <3>5. h[t] = g[t]
      BY <3>3, <3>4
    <3> QED
      BY <3>5 DEF t
  <2>6. SumsUp(f, UpToSize(S, n), h)
    <3>1. h = [s \in UpToSize(S, n) |-> IF s = {} THEN 0 ELSE f[Chosen(s)] + h[s \ {Chosen(s)}]]
      <4>1. \A s \in UpToSize(S, n) : s # {} => h[s \ {Chosen(s)}] = g[s \ {Chosen(s)}]
        BY <2>5
      <4> QED
        BY <4>1
    <3> QED
      BY <3>1 DEF SumsUp
  <2> QED
    BY <2>2, <2>6
<1>2. Cardinality(S) \in Nat
  BY FS_CardinalityType
<1>3. \E g : SumsUp(f, UpToSize(S, Cardinality(S)), g)
  BY <1>1, <1>2
<1>4. UpToSize(S, Cardinality(S)) = SUBSET S
  BY FS_Subset DEF UpToSize
<1> QED
  BY <1>3, <1>4 DEF SumsSubsets

LEMMA SumIsRecursive ==
    ASSUME NEW f, NEW S, IsFiniteSet(S)
    PROVE  \E g : SumsSubsets(f, S, g) /\ SumFunctionOnSet(f, S) = g[S]
<1> DEFINE g == CHOOSE g : g = [s \in SUBSET S |-> IF s = {} THEN 0
                 ELSE f[CHOOSE x \in s : TRUE] + g[s \ {CHOOSE x \in s : TRUE}]]
<1>1. SumFunctionOnSet(f, S) = g[S]
  BY DEF SumFunctionOnSet, FoldFunctionOnSet, MapThenFoldSet
<1>2. \E h : h = [s \in SUBSET S |-> IF s = {} THEN 0
                 ELSE f[CHOOSE x \in s : TRUE] + h[s \ {CHOOSE x \in s : TRUE}]]
  <2>1. PICK h : SumsSubsets(f, S, h)
    BY SumsExist
  <2>2. h = [s \in SUBSET S |-> IF s = {} THEN 0
               ELSE f[CHOOSE x \in s : TRUE] + h[s \ {CHOOSE x \in s : TRUE}]]
    BY <2>1 DEF SumsSubsets, SumsUp, Chosen
  <2> QED
    BY <2>2
<1>3. g = [s \in SUBSET S |-> IF s = {} THEN 0
                 ELSE f[CHOOSE x \in s : TRUE] + g[s \ {CHOOSE x \in s : TRUE}]]
  BY <1>2
<1> HIDE DEF g
<1>4. SumsSubsets(f, S, g)
  BY <1>3 DEF SumsSubsets, SumsUp, Chosen
<1> QED
  BY <1>1, <1>4

\* Functions that agree have the same sums, whatever larger set these belong to.
LEMMA SumsAgree ==
    ASSUME NEW f, NEW g, NEW S, NEW T, IsFiniteSet(S), S \subseteq T,
           \A x \in S : f[x] = g[x],
           NEW one, SumsSubsets(f, S, one), NEW other, SumsSubsets(g, T, other)
    PROVE  one[S] = other[S]
<1> DEFINE Good == {s \in SUBSET S : one[s] = other[s]}
<1>1. ASSUME NEW s \in SUBSET S, \A t \in SUBSET s : t # s => t \in Good
      PROVE  s \in Good
  <2>1. /\ one[s] = IF s = {} THEN 0 ELSE f[Chosen(s)] + one[s \ {Chosen(s)}]
        /\ other[s] = IF s = {} THEN 0 ELSE g[Chosen(s)] + other[s \ {Chosen(s)}]
    BY DEF SumsSubsets, SumsUp
  <2>2. CASE s = {}
    BY <2>1, <2>2
  <2>3. CASE s # {}
    <3>1. Chosen(s) \in s /\ s \ {Chosen(s)} \in SUBSET s /\ s \ {Chosen(s)} # s
      BY <2>3, ChosenIsIn
    <3>2. one[s \ {Chosen(s)}] = other[s \ {Chosen(s)}]
      BY <3>1, <1>1
    <3>3. f[Chosen(s)] = g[Chosen(s)]
      BY <3>1
    <3> QED
      BY <2>1, <2>3, <3>2, <3>3
  <2> QED
    BY <2>2, <2>3
<1>2. \A s \in SUBSET S : s \in Good
  <2> HIDE DEF Good
  <2> QED
    BY <1>1, SubsetInduction
<1> QED
  BY <1>2

\* Only the values in the set count.
LEMMA SumOfEqual ==
    ASSUME NEW f, NEW g, NEW S, IsFiniteSet(S), \A x \in S : f[x] = g[x]
    PROVE  SumFunctionOnSet(f, S) = SumFunctionOnSet(g, S)
<1>1. PICK one : SumsSubsets(f, S, one) /\ SumFunctionOnSet(f, S) = one[S]
  BY SumIsRecursive
<1>2. PICK other : SumsSubsets(g, S, other) /\ SumFunctionOnSet(g, S) = other[S]
  BY SumIsRecursive
<1>3. one[S] = other[S]
  <2>1. S \subseteq S
    OBVIOUS
  <2> QED
    BY <1>1, <1>2, <2>1, SumsAgree
<1> QED
  BY <1>1, <1>2, <1>3

LEMMA SumOfEmpty ==
    ASSUME NEW f
    PROVE  SumFunctionOnSet(f, {}) = 0
<1>1. PICK g : SumsSubsets(f, {}, g) /\ SumFunctionOnSet(f, {}) = g[{}]
  BY SumIsRecursive, FS_EmptySet
<1> QED
  BY <1>1 DEF SumsSubsets, SumsUp

LEMMA SumOfChosen ==
    ASSUME NEW f, NEW S, IsFiniteSet(S), S # {}
    PROVE  SumFunctionOnSet(f, S) = f[Chosen(S)] + SumFunctionOnSet(f, S \ {Chosen(S)})
<1> DEFINE T == S \ {Chosen(S)}
<1>1. PICK g : SumsSubsets(f, S, g) /\ SumFunctionOnSet(f, S) = g[S]
  BY SumIsRecursive
<1>2. IsFiniteSet(T)
  BY FS_RemoveElement
<1>3. PICK h : SumsSubsets(f, T, h) /\ SumFunctionOnSet(f, T) = h[T]
  BY <1>2, SumIsRecursive
<1>4. h[T] = g[T]
  <2>1. T \subseteq S /\ \A x \in T : f[x] = f[x]
    OBVIOUS
  <2> HIDE DEF T
  <2> QED
    BY <1>1, <1>2, <1>3, <2>1, SumsAgree
<1>5. g[S] = f[Chosen(S)] + g[T]
  BY <1>1 DEF SumsSubsets, SumsUp
<1> QED
  BY <1>1, <1>3, <1>4, <1>5

-----------------------------------------------------------------------------
(* Sums of numbers.                                                        *)

LEMMA SumIsInt ==
    ASSUME NEW f, NEW S, IsFiniteSet(S), \A x \in S : f[x] \in Int
    PROVE  \A s \in SUBSET S : SumFunctionOnSet(f, s) \in Int
<1> DEFINE Good == {s \in SUBSET S : SumFunctionOnSet(f, s) \in Int}
<1>1. ASSUME NEW s \in SUBSET S, \A t \in SUBSET s : t # s => t \in Good
      PROVE  s \in Good
  <2>1. CASE s = {}
    BY <2>1, SumOfEmpty
  <2>2. CASE s # {}
    <3>1. Chosen(s) \in s /\ s \ {Chosen(s)} \in SUBSET s /\ s \ {Chosen(s)} # s
      BY <2>2, ChosenIsIn
    <3>2. SumFunctionOnSet(f, s \ {Chosen(s)}) \in Int /\ f[Chosen(s)] \in Int
      BY <3>1, <1>1
    <3>3. IsFiniteSet(s)
      BY FS_Subset
    <3>4. SumFunctionOnSet(f, s) = f[Chosen(s)] + SumFunctionOnSet(f, s \ {Chosen(s)})
      BY <2>2, <3>3, SumOfChosen
    <3> QED
      BY <3>2, <3>4
  <2> QED
    BY <2>1, <2>2
<1>2. \A s \in SUBSET S : s \in Good
  <2> HIDE DEF Good
  <2> QED
    BY <1>1, SubsetInduction
<1> QED
  BY <1>2

LEMMA SumOfZeros ==
    ASSUME NEW f, NEW S, IsFiniteSet(S), \A x \in S : f[x] = 0
    PROVE  SumFunctionOnSet(f, S) = 0
<1> DEFINE Good == {s \in SUBSET S : SumFunctionOnSet(f, s) = 0}
<1>1. ASSUME NEW s \in SUBSET S, \A t \in SUBSET s : t # s => t \in Good
      PROVE  s \in Good
  <2>1. CASE s = {}
    BY <2>1, SumOfEmpty
  <2>2. CASE s # {}
    <3>1. Chosen(s) \in s /\ s \ {Chosen(s)} \in SUBSET s /\ s \ {Chosen(s)} # s
      BY <2>2, ChosenIsIn
    <3>2. SumFunctionOnSet(f, s \ {Chosen(s)}) = 0 /\ f[Chosen(s)] = 0
      BY <3>1, <1>1
    <3>3. IsFiniteSet(s)
      BY FS_Subset
    <3>4. SumFunctionOnSet(f, s) = f[Chosen(s)] + SumFunctionOnSet(f, s \ {Chosen(s)})
      BY <2>2, <3>3, SumOfChosen
    <3> QED
      BY <3>2, <3>4
  <2> QED
    BY <2>1, <2>2
<1>2. \A s \in SUBSET S : s \in Good
  <2> HIDE DEF Good
  <2> QED
    BY <1>1, SubsetInduction
<1> QED
  BY <1>2

\* Any member can be taken out of a sum, not only the chosen one.
LEMMA SumWithout ==
    ASSUME NEW f, NEW S, IsFiniteSet(S), \A x \in S : f[x] \in Int
    PROVE  \A x \in S : SumFunctionOnSet(f, S) = f[x] + SumFunctionOnSet(f, S \ {x})
<1> DEFINE Sum(s) == SumFunctionOnSet(f, s)
           Good == {s \in SUBSET S : \A x \in s : Sum(s) = f[x] + Sum(s \ {x})}
<1>1. \A s \in SUBSET S : Sum(s) \in Int
  BY SumIsInt
<1>2. ASSUME NEW s \in SUBSET S, s # {}
      PROVE  Sum(s) = f[Chosen(s)] + Sum(s \ {Chosen(s)})
  <2>1. IsFiniteSet(s)
    BY FS_Subset
  <2> QED
    BY <1>2, <2>1, SumOfChosen
<1> HIDE DEF Sum
<1>3. ASSUME NEW s \in SUBSET S, \A t \in SUBSET s : t # s => t \in Good
      PROVE  s \in Good
  <2> SUFFICES ASSUME NEW x \in s PROVE Sum(s) = f[x] + Sum(s \ {x})
    OBVIOUS
  <2> DEFINE c == Chosen(s)
             rest == s \ {c}
             others == s \ {x}
             both == s \ {c, x}
  <2>1. c \in s /\ Sum(s) = f[c] + Sum(rest)
    BY <1>2, ChosenIsIn
  <2> HIDE DEF c
  <2>2. CASE x = c
    BY <2>1, <2>2
  <2>3. CASE x # c
    <3>1. /\ rest \in SUBSET s /\ rest # s /\ x \in rest /\ rest \ {x} = both
          /\ others \in SUBSET s /\ others # s /\ c \in others /\ others \ {c} = both
          /\ both \in SUBSET S
      BY <2>1, <2>3
    <3>2. Sum(rest) = f[x] + Sum(both)
      BY <3>1, <1>3
    <3>3. Sum(others) = f[c] + Sum(both)
      BY <3>1, <1>3
    <3>4. f[x] \in Int /\ f[c] \in Int /\ Sum(both) \in Int
      BY <2>1, <3>1, <1>1
    <3> QED
      BY <2>1, <3>2, <3>3, <3>4
  <2> QED
    BY <2>2, <2>3
<1>4. \A s \in SUBSET S : s \in Good
  <2> HIDE DEF Good
  <2> QED
    BY <1>3, SubsetInduction
<1> QED
  BY <1>4 DEF Sum

\* A sum changes by as much as the one value that changes.
LEMMA SumChanges ==
    ASSUME NEW f, NEW g, NEW S, IsFiniteSet(S), NEW x \in S,
           \A y \in S : f[y] \in Int /\ g[y] \in Int,
           \A y \in S \ {x} : g[y] = f[y]
    PROVE  SumFunctionOnSet(g, S) = SumFunctionOnSet(f, S) + (g[x] - f[x])
<1>1. IsFiniteSet(S \ {x})
  BY FS_RemoveElement
<1>2. SumFunctionOnSet(g, S \ {x}) = SumFunctionOnSet(f, S \ {x})
  BY <1>1, SumOfEqual
<1>3. SumFunctionOnSet(f, S) = f[x] + SumFunctionOnSet(f, S \ {x})
  BY SumWithout
<1>4. SumFunctionOnSet(g, S) = g[x] + SumFunctionOnSet(g, S \ {x})
  BY SumWithout
<1>5. SumFunctionOnSet(f, S \ {x}) \in Int
  BY SumIsInt
<1> QED
  BY <1>2, <1>3, <1>4, <1>5

\* Summing more that is not negative makes no less.
LEMMA SumGrows ==
    ASSUME NEW f, NEW S, IsFiniteSet(S), \A x \in S : f[x] \in Nat
    PROVE  \A s, t \in SUBSET S : s \subseteq t => SumFunctionOnSet(f, s) <= SumFunctionOnSet(f, t)
<1> DEFINE Sum(s) == SumFunctionOnSet(f, s)
           Good == {t \in SUBSET S : \A s \in SUBSET t : Sum(s) <= Sum(t)}
<1>1. \A s \in SUBSET S : Sum(s) \in Int
  BY SumIsInt
<1>2. ASSUME NEW t \in SUBSET S, NEW x \in t
      PROVE  Sum(t) = f[x] + Sum(t \ {x})
  <2>1. IsFiniteSet(t)
    BY FS_Subset
  <2> QED
    BY <2>1, SumWithout
<1> HIDE DEF Sum
<1>3. ASSUME NEW t \in SUBSET S, \A u \in SUBSET t : u # t => u \in Good
      PROVE  t \in Good
  <2> SUFFICES ASSUME NEW s \in SUBSET t PROVE Sum(s) <= Sum(t)
    OBVIOUS
  <2>1. CASE s = t
    BY <2>1, <1>1
  <2>2. CASE s # t
    <3>1. PICK x \in t : x \notin s
      BY <2>2
    <3> DEFINE u == t \ {x}
    <3>2. u \in SUBSET t /\ u # t /\ s \in SUBSET u /\ u \in SUBSET S /\ s \in SUBSET S
      BY <3>1
    <3>3. Sum(t) = f[x] + Sum(u) /\ f[x] \in Nat
      BY <1>2
    <3> HIDE DEF u
    <3>4. Sum(s) <= Sum(u)
      BY <3>2, <1>3
    <3> QED
      BY <3>2, <3>3, <3>4, <1>1
  <2> QED
    BY <2>1, <2>2
<1>4. \A t \in SUBSET S : t \in Good
  <2> HIDE DEF Good
  <2> QED
    BY <1>3, SubsetInduction
<1> QED
  BY <1>4 DEF Sum

=============================================================================
