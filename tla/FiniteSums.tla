----------------------------- MODULE FiniteSums -----------------------------
(***************************************************************************)
(* Sums over finite sets.  SumFunctionOnSet of the community modules adds  *)
(* the values of a function in the order of a CHOOSE; the order does not   *)
(* matter.  The prover cannot instantiate the induction theorems of its    *)
(* library; every induction here takes a minimal counterexample instead.   *)
(***************************************************************************)
EXTENDS Integers, FiniteSets, Functions, FiniteSetTheorems, TLAPS

\* A nonempty family of subsets of a finite set has a minimal member.
LEMMA MinimalMember ==
    ASSUME NEW S, IsFiniteSet(S), NEW Family, Family \subseteq SUBSET S, Family # {}
    PROVE  \E T \in Family : \A U \in Family : U \subseteq T => U = T
<1>1. IsWellFoundedOn(StrictSubsetOrdering(S), SUBSET S)
    BY FS_StrictSubsetOrderingWellFounded, FS_FiniteSubsetsOfFinite
<1>2. \E T \in Family : \A U \in Family : ~(<<U, T>> \in StrictSubsetOrdering(S))
    BY <1>1, WFMin
<1>3. ASSUME NEW U \in Family, NEW T \in Family, U \subseteq T, U # T
      PROVE  <<U, T>> \in StrictSubsetOrdering(S)
    BY <1>3 DEF StrictSubsetOrdering
<1> QED BY <1>2, <1>3

-----------------------------------------------------------------------------
\* total adds up fun over every subset of S, whichever element is taken first.
AddsUp(total, fun, S) ==
    /\ total \in [SUBSET S -> Int]
    /\ total[{}] = 0
    /\ \A T \in SUBSET S : \A x \in T : total[T] = total[T \ {x}] + fun[x]

LEMMA TotalExists ==
    ASSUME NEW S, IsFiniteSet(S), NEW fun, \A x \in S : fun[x] \in Int
    PROVE  \E total : AddsUp(total, fun, S)
<1> DEFINE Without == {T \in SUBSET S : \A total : ~AddsUp(total, fun, T)}
<1> SUFFICES ASSUME Without # {}
             PROVE  FALSE
    OBVIOUS
<1>1. PICK T \in Without : \A U \in Without : U \subseteq T => U = T
    <2>1. Without \subseteq SUBSET S
        OBVIOUS
    <2> HIDE DEF Without
    <2> QED BY <2>1, MinimalMember
<1>2. CASE T = {}
    <2> DEFINE total == [U \in SUBSET {} |-> 0]
    <2>1. AddsUp(total, fun, {})
        BY DEF AddsUp
    <2> HIDE DEF total
    <2> QED BY <1>2, <2>1
<1>3. ASSUME NEW x \in T
      PROVE  FALSE
    <2>1. PICK part : AddsUp(part, fun, T \ {x})
        <3>1. T \ {x} \in SUBSET S /\ T \ {x} # T /\ T \ {x} \subseteq T
            BY <1>1
        <3>2. T \ {x} \notin Without
            <4> HIDE DEF Without
            <4> QED BY <1>1, <3>1
        <3> QED BY <3>1, <3>2
    <2> DEFINE total == [U \in SUBSET T |-> IF x \in U THEN part[U \ {x}] + fun[x] ELSE part[U]]
    <2>2. total \in [SUBSET T -> Int] /\ total[{}] = 0
        <3>1. \A U \in SUBSET T : x \notin U => U \in SUBSET (T \ {x})
            OBVIOUS
        <3>2. \A U \in SUBSET T : U \ {x} \in SUBSET (T \ {x})
            OBVIOUS
        <3>3. fun[x] \in Int
            BY <1>1
        <3> QED BY <2>1, <3>1, <3>2, <3>3 DEF AddsUp
    <2>3. ASSUME NEW U \in SUBSET T, NEW y \in U
          PROVE  total[U] = total[U \ {y}] + fun[y]
        <3>1. CASE x \notin U
            BY <2>1, <3>1 DEF AddsUp
        <3>2. CASE x \in U /\ y = x
            BY <3>2
        <3>3. CASE x \in U /\ y # x
            <4> DEFINE V == U \ {x}
            <4>1. V \in SUBSET (T \ {x}) /\ y \in V /\ (U \ {y}) \ {x} = V \ {y}
                BY <3>3
            <4>2. part[V] = part[V \ {y}] + fun[y]
                BY <2>1, <4>1 DEF AddsUp
            <4>3. total[U] = part[V] + fun[x] /\ total[U \ {y}] = part[V \ {y}] + fun[x]
                BY <3>3, <4>1
            <4>4. part[V \ {y}] \in Int /\ fun[x] \in Int /\ fun[y] \in Int
                BY <1>1, <2>1, <4>1 DEF AddsUp
            <4> HIDE DEF V, total
            <4> QED BY <4>2, <4>3, <4>4
        <3> QED BY <3>1, <3>2, <3>3
    <2>4. AddsUp(total, fun, T)
        <3> HIDE DEF total
        <3> QED BY <2>2, <2>3 DEF AddsUp
    <2> HIDE DEF total
    <2> QED BY <2>4
<1> QED BY <1>2, <1>3

\* other takes some element first.
Unfolds(other, fun, S) ==
    /\ other[{}] = 0
    /\ \A T \in SUBSET S : T # {} =>
           \E x \in T : other[T] = fun[x] + other[T \ {x}] /\ fun[x] \in Int

LEMMA TotalUnique ==
    ASSUME NEW S, IsFiniteSet(S), NEW fun, NEW total, AddsUp(total, fun, S),
           NEW other, Unfolds(other, fun, S)
    PROVE  \A T \in SUBSET S : other[T] = total[T]
<1> DEFINE Differ == {T \in SUBSET S : other[T] # total[T]}
<1> SUFFICES ASSUME Differ # {}
             PROVE  FALSE
    OBVIOUS
<1>1. PICK T \in Differ : \A U \in Differ : U \subseteq T => U = T
    <2>1. Differ \subseteq SUBSET S
        OBVIOUS
    <2> HIDE DEF Differ
    <2> QED BY <2>1, MinimalMember
<1>2. T \in SUBSET S /\ other[T] # total[T] /\ T # {}
    BY <1>1 DEF AddsUp, Unfolds
<1>3. PICK x \in T : other[T] = fun[x] + other[T \ {x}] /\ fun[x] \in Int
    BY <1>2 DEF Unfolds
<1>4. T \ {x} \in SUBSET S /\ T \ {x} # T /\ T \ {x} \subseteq T
    BY <1>2
<1>5. T \ {x} \notin Differ
    <2> HIDE DEF Differ
    <2> QED BY <1>1, <1>4
<1>6. other[T \ {x}] = total[T \ {x}]
    BY <1>4, <1>5
<1>7. total[T] = total[T \ {x}] + fun[x] /\ total[T \ {x}] \in Int
    BY <1>2, <1>3, <1>4 DEF AddsUp
<1> QED BY <1>2, <1>3, <1>6, <1>7

\* The library's sum is that total.
LEMMA SumIsTotal ==
    ASSUME NEW S, IsFiniteSet(S), NEW fun, \A x \in S : fun[x] \in Int,
           NEW total, AddsUp(total, fun, S)
    PROVE  SumFunctionOnSet(fun, S) = total[S]
<1> DEFINE Chosen(T) == CHOOSE x \in T : TRUE
           Step(f, T) == IF T = {} THEN 0 ELSE fun[Chosen(T)] + f[T \ {Chosen(T)}]
           sum == CHOOSE f : f = [T \in SUBSET S |-> Step(f, T)]
<1>1. total = [T \in SUBSET S |-> Step(total, T)]
    <2>1. \A T \in SUBSET S : total[T] = Step(total, T)
        <3> SUFFICES ASSUME NEW T \in SUBSET S
                     PROVE  total[T] = Step(total, T)
            OBVIOUS
        <3>1. CASE T = {}
            BY <3>1 DEF AddsUp
        <3>2. CASE T # {}
            <4>1. Chosen(T) \in T
                BY <3>2
            <4>2. T \ {Chosen(T)} \in SUBSET S /\ fun[Chosen(T)] \in Int
                BY <4>1
            <4> HIDE DEF Chosen
            <4>3. total[T] = total[T \ {Chosen(T)}] + fun[Chosen(T)]
                BY <4>1 DEF AddsUp
            <4>4. total[T \ {Chosen(T)}] \in Int
                BY <4>2 DEF AddsUp
            <4> QED BY <3>2, <4>2, <4>3, <4>4
        <3> QED BY <3>1, <3>2
    <2> HIDE DEF Step
    <2> QED BY <2>1 DEF AddsUp
<1>2. sum = [T \in SUBSET S |-> Step(sum, T)]
    <2> HIDE DEF Step
    <2> QED BY <1>1, Zenon
<1>3. SumFunctionOnSet(fun, S) = sum[S]
    BY DEF SumFunctionOnSet, FoldFunctionOnSet, MapThenFoldSet
<1>4. \A T \in SUBSET S : sum[T] = Step(sum, T)
    <2> HIDE DEF Step, sum
    <2> QED BY <1>2
<1>5. \A T \in SUBSET S : T # {} =>
          \E x \in T : sum[T] = fun[x] + sum[T \ {x}] /\ fun[x] \in Int
    <2> SUFFICES ASSUME NEW T \in SUBSET S, T # {}
                 PROVE  \E x \in T : sum[T] = fun[x] + sum[T \ {x}] /\ fun[x] \in Int
        OBVIOUS
    <2>1. Chosen(T) \in T
        OBVIOUS
    <2> HIDE DEF sum
    <2>2. sum[T] = fun[Chosen(T)] + sum[T \ {Chosen(T)}]
        BY <1>4
    <2> HIDE DEF Chosen
    <2> QED BY <2>1, <2>2
<1>6. sum[{}] = 0
    <2> HIDE DEF sum
    <2> QED BY <1>4
<1> HIDE DEF sum
<1>7. \A T \in SUBSET S : sum[T] = total[T]
    <2>1. Unfolds(sum, fun, S)
        BY <1>5, <1>6 DEF Unfolds
    <2> QED BY <2>1, TotalUnique
<1> QED BY <1>3, <1>7

LEMMA SumWithin ==
    ASSUME NEW S, IsFiniteSet(S), NEW fun, \A x \in S : fun[x] \in Int,
           NEW total, AddsUp(total, fun, S), NEW T \in SUBSET S
    PROVE  SumFunctionOnSet(fun, T) = total[T]
<1> DEFINE part == [U \in SUBSET T |-> total[U]]
<1>1. part[T] = total[T]
    OBVIOUS
<1>2. IsFiniteSet(T) /\ \A x \in T : fun[x] \in Int
    BY FS_Subset
<1>3. AddsUp(part, fun, T)
    BY DEF AddsUp
<1> HIDE DEF part
<1> QED BY <1>1, <1>2, <1>3, SumIsTotal

-----------------------------------------------------------------------------
(* What the proofs use *)

LEMMA SumInteger ==
    ASSUME NEW S, IsFiniteSet(S), NEW fun, \A x \in S : fun[x] \in Int
    PROVE  SumFunctionOnSet(fun, S) \in Int
<1>1. PICK total : AddsUp(total, fun, S)
    BY TotalExists
<1>2. total[S] \in Int
    BY <1>1 DEF AddsUp
<1> QED BY <1>1, <1>2, SumIsTotal

LEMMA SumEmpty ==
    ASSUME NEW fun
    PROVE  SumFunctionOnSet(fun, {}) = 0
<1>1. IsFiniteSet({})
    BY FS_EmptySet
<1>2. PICK total : AddsUp(total, fun, {})
    BY <1>1, TotalExists
<1> QED BY <1>1, <1>2, SumIsTotal DEF AddsUp

\* An element more.
LEMMA SumExtend ==
    ASSUME NEW S, IsFiniteSet(S), NEW x, x \notin S, NEW fun,
           \A y \in S \cup {x} : fun[y] \in Int
    PROVE  SumFunctionOnSet(fun, S \cup {x}) = SumFunctionOnSet(fun, S) + fun[x]
<1> DEFINE All == S \cup {x}
<1>1. IsFiniteSet(All)
    BY FS_AddElement
<1>2. S \in SUBSET All /\ x \in All /\ All \ {x} = S
    OBVIOUS
<1> HIDE DEF All
<1>3. \A y \in All : fun[y] \in Int
    BY DEF All
<1>4. PICK total : AddsUp(total, fun, All)
    BY <1>1, <1>3, TotalExists
<1>5. SumFunctionOnSet(fun, All) = total[All] /\ SumFunctionOnSet(fun, S) = total[S]
    BY <1>1, <1>2, <1>3, <1>4, SumWithin
<1>6. total[All] = total[S] + fun[x]
    BY <1>2, <1>4 DEF AddsUp
<1> QED BY <1>5, <1>6 DEF All

\* The sum of sums.
LEMMA SumPlus ==
    ASSUME NEW S, IsFiniteSet(S), NEW f, NEW g, NEW h,
           \A x \in S : f[x] \in Int /\ g[x] \in Int /\ h[x] = f[x] + g[x]
    PROVE  SumFunctionOnSet(h, S) = SumFunctionOnSet(f, S) + SumFunctionOnSet(g, S)
<1> DEFINE Sum(k, T) == SumFunctionOnSet(k, T)
           Differ == {T \in SUBSET S : Sum(h, T) # Sum(f, T) + Sum(g, T)}
<1> SUFFICES ASSUME Differ # {}
             PROVE  FALSE
    OBVIOUS
<1>1. PICK T \in Differ : \A U \in Differ : U \subseteq T => U = T
    <2>1. Differ \subseteq SUBSET S
        OBVIOUS
    <2> HIDE DEF Differ
    <2> QED BY <2>1, MinimalMember
<1>2. T \in SUBSET S /\ Sum(h, T) # Sum(f, T) + Sum(g, T)
    BY <1>1
<1>3. T # {}
    <2>1. Sum(f, {}) = 0 /\ Sum(g, {}) = 0 /\ Sum(h, {}) = 0
        BY SumEmpty
    <2> HIDE DEF Sum
    <2> QED BY <1>2, <2>1
<1>4. PICK x \in T : TRUE
    BY <1>3
<1> DEFINE U == T \ {x}
<1>5. U \in SUBSET S /\ U # T /\ U \subseteq T /\ IsFiniteSet(U) /\ x \notin U /\ T = U \cup {x}
    BY <1>2, <1>4, FS_Subset
<1>6. Sum(h, U) = Sum(f, U) + Sum(g, U)
    <2>1. U \notin Differ
        <3> HIDE DEF Differ, U
        <3> QED BY <1>1, <1>5
    <2> QED BY <1>5, <2>1
<1> HIDE DEF U, Differ
<1>7. \A y \in U \cup {x} : f[y] \in Int /\ g[y] \in Int /\ h[y] \in Int
    BY <1>2, <1>5
<1>8. /\ Sum(f, T) = Sum(f, U) + f[x] /\ Sum(g, T) = Sum(g, U) + g[x]
      /\ Sum(h, T) = Sum(h, U) + h[x]
    <2>1. ASSUME NEW k, \A y \in U \cup {x} : k[y] \in Int
          PROVE  Sum(k, T) = Sum(k, U) + k[x]
        BY ONLY <1>5, <2>1, SumExtend
    <2> HIDE DEF Sum
    <2> QED BY <1>7, <2>1
<1>9. Sum(f, U) \in Int /\ Sum(g, U) \in Int
    BY <1>5, <1>7, SumInteger
<1>10. f[x] \in Int /\ g[x] \in Int /\ h[x] = f[x] + g[x]
    BY <1>2, <1>4
<1> HIDE DEF Sum
<1> QED BY <1>2, <1>6, <1>8, <1>9, <1>10

\* Elements that count nothing may be left out.
LEMMA SumPart ==
    ASSUME NEW S, IsFiniteSet(S), NEW T \in SUBSET S, NEW f, NEW g,
           \A x \in S : g[x] \in Int /\ g[x] = IF x \in T THEN f[x] ELSE 0
    PROVE  SumFunctionOnSet(g, S) = SumFunctionOnSet(f, T)
<1> DEFINE Sum(k, V) == SumFunctionOnSet(k, V)
           Differ == {V \in SUBSET S : Sum(g, V) # Sum(f, V \cap T)}
<1> SUFFICES ASSUME Differ # {}
             PROVE  FALSE
    <2>1. S \cap T = T /\ S \in SUBSET S
        OBVIOUS
    <2> QED BY <2>1
<1>1. PICK V \in Differ : \A U \in Differ : U \subseteq V => U = V
    <2>1. Differ \subseteq SUBSET S
        OBVIOUS
    <2> HIDE DEF Differ
    <2> QED BY <2>1, MinimalMember
<1>2. V \in SUBSET S /\ Sum(g, V) # Sum(f, V \cap T)
    BY <1>1
<1>3. V # {}
    <2>1. {} \cap T = {}
        OBVIOUS
    <2> QED BY <1>2, <2>1, SumEmpty
<1>4. PICK x \in V : TRUE
    BY <1>3
<1> DEFINE U == V \ {x}
<1>5. U \in SUBSET S /\ U # V /\ U \subseteq V /\ IsFiniteSet(U) /\ x \notin U /\ V = U \cup {x}
    BY <1>2, <1>4, FS_Subset
<1>6. Sum(g, U) = Sum(f, U \cap T)
    <2>1. U \notin Differ
        <3> HIDE DEF Differ, U
        <3> QED BY <1>1, <1>5
    <2> QED BY <1>5, <2>1
<1> HIDE DEF U, Differ
<1>7. \A y \in U \cup {x} : g[y] \in Int
    BY <1>2, <1>5
<1>8. Sum(g, V) = Sum(g, U) + g[x] /\ Sum(g, U) \in Int
    BY <1>5, <1>7, SumExtend, SumInteger
<1>9. CASE x \in T
    <2>1. V \cap T = (U \cap T) \cup {x} /\ x \notin U \cap T /\ U \cap T \in SUBSET U
        BY <1>5, <1>9
    <2>2. IsFiniteSet(U \cap T)
        BY <1>5, <2>1, FS_Subset
    <2>3. \A y \in (U \cap T) \cup {x} : f[y] \in Int
        BY <1>2, <1>5, <1>9
    <2>4. Sum(f, V \cap T) = Sum(f, U \cap T) + f[x]
        BY <2>1, <2>2, <2>3, SumExtend
    <2>5. f[x] = g[x]
        BY <1>2, <1>4, <1>9
    <2>6. Sum(g, V) = Sum(f, V \cap T)
        <3> HIDE DEF Sum
        <3> QED BY <1>6, <1>8, <2>4, <2>5
    <2> QED BY <1>2, <2>6
<1>10. CASE x \notin T
    <2>1. V \cap T = U \cap T
        BY <1>5, <1>10
    <2>2. g[x] = 0
        BY <1>2, <1>4, <1>10
    <2>3. Sum(f, V \cap T) = Sum(f, U \cap T)
        BY <2>1
    <2>4. Sum(g, V) = Sum(g, U)
        <3> HIDE DEF Sum
        <3> QED BY <1>8, <2>2
    <2> QED BY <1>2, <1>6, <2>3, <2>4
<1> QED BY <1>9, <1>10

\* Less of everything is less in total.
LEMMA SumMonotonic ==
    ASSUME NEW S, IsFiniteSet(S), NEW f, NEW g,
           \A x \in S : f[x] \in Int /\ g[x] \in Int /\ f[x] <= g[x]
    PROVE  SumFunctionOnSet(f, S) <= SumFunctionOnSet(g, S)
<1> DEFINE Sum(k, T) == SumFunctionOnSet(k, T)
           More == {T \in SUBSET S : ~(Sum(f, T) <= Sum(g, T))}
<1> SUFFICES ASSUME More # {}
             PROVE  FALSE
    OBVIOUS
<1>1. PICK T \in More : \A U \in More : U \subseteq T => U = T
    <2>1. More \subseteq SUBSET S
        OBVIOUS
    <2> HIDE DEF More
    <2> QED BY <2>1, MinimalMember
<1>2. T \in SUBSET S /\ ~(Sum(f, T) <= Sum(g, T))
    BY <1>1
<1>3. T # {}
    BY <1>2, SumEmpty
<1>4. PICK x \in T : TRUE
    BY <1>3
<1> DEFINE U == T \ {x}
<1>5. U \in SUBSET S /\ U # T /\ U \subseteq T /\ IsFiniteSet(U) /\ x \notin U /\ T = U \cup {x}
    BY <1>2, <1>4, FS_Subset
<1>6. Sum(f, U) <= Sum(g, U)
    <2>1. U \notin More
        <3> HIDE DEF More, U
        <3> QED BY <1>1, <1>5
    <2> QED BY <1>5, <2>1
<1> HIDE DEF U, More
<1>7. \A y \in U \cup {x} : f[y] \in Int /\ g[y] \in Int
    BY <1>2, <1>5
<1>8. /\ Sum(f, T) = Sum(f, U) + f[x] /\ Sum(g, T) = Sum(g, U) + g[x]
      /\ Sum(f, U) \in Int /\ Sum(g, U) \in Int
    BY <1>5, <1>7, SumExtend, SumInteger
<1>9. f[x] \in Int /\ g[x] \in Int /\ f[x] <= g[x]
    BY <1>2, <1>4
<1> HIDE DEF Sum
<1> QED BY <1>2, <1>6, <1>8, <1>9

-----------------------------------------------------------------------------
\* Nothing is added.
LEMMA SumOfZeros ==
    ASSUME NEW S, IsFiniteSet(S), NEW f, \A x \in S : f[x] = 0
    PROVE  SumFunctionOnSet(f, S) = 0
<1>1. {} \in SUBSET S
    OBVIOUS
<1>2. \A x \in S : f[x] \in Int /\ f[x] = IF x \in {} THEN f[x] ELSE 0
    OBVIOUS
<1>3. SumFunctionOnSet(f, S) = SumFunctionOnSet(f, {})
    BY <1>1, <1>2, SumPart
<1> QED BY <1>3, SumEmpty

\* Nothing negative is added.
LEMMA SumNotNegative ==
    ASSUME NEW S, IsFiniteSet(S), NEW f, \A x \in S : f[x] \in Nat
    PROVE  SumFunctionOnSet(f, S) \in Nat
<1> DEFINE zero == [x \in S |-> 0]
<1>1. \A x \in S : zero[x] \in Int /\ f[x] \in Int /\ zero[x] <= f[x]
    OBVIOUS
<1>2. \A x \in S : zero[x] = 0
    OBVIOUS
<1> HIDE DEF zero
<1>3. SumFunctionOnSet(zero, S) <= SumFunctionOnSet(f, S)
    BY <1>1, SumMonotonic
<1>4. SumFunctionOnSet(zero, S) = 0
    BY <1>2, SumOfZeros
<1>5. SumFunctionOnSet(f, S) \in Int
    BY <1>1, SumInteger
<1> QED BY <1>3, <1>4, <1>5

\* An element more, if there is one.
LEMMA SumWith ==
    ASSUME NEW S, IsFiniteSet(S), NEW x, x \notin S, NEW c \in BOOLEAN, NEW f,
           \A y \in S \cup {x} : f[y] \in Int,
           NEW T, IF c THEN T = S \cup {x} ELSE T = S
    PROVE  /\ SumFunctionOnSet(f, T) = SumFunctionOnSet(f, S) + IF c THEN f[x] ELSE 0
           /\ IsFiniteSet(T)
<1>1. SumFunctionOnSet(f, S) \in Int
    <2>1. \A y \in S : f[y] \in Int
        OBVIOUS
    <2> QED BY <2>1, SumInteger
<1>2. CASE c
    <2>1. SumFunctionOnSet(f, S \cup {x}) = SumFunctionOnSet(f, S) + f[x]
        BY SumExtend
    <2> QED BY <1>2, <2>1, FS_AddElement
<1>3. CASE ~c
    BY <1>1, <1>3
<1> QED BY <1>2, <1>3

\* A part adds up to no more than the whole.
LEMMA SumOfPart ==
    ASSUME NEW S, IsFiniteSet(S), NEW T \in SUBSET S, NEW f, \A x \in S : f[x] \in Nat
    PROVE  SumFunctionOnSet(f, T) <= SumFunctionOnSet(f, S)
<1> DEFINE part == [x \in S |-> IF x \in T THEN f[x] ELSE 0]
<1>1. \A x \in S : part[x] \in Int /\ f[x] \in Int /\ part[x] <= f[x]
    OBVIOUS
<1>2. \A x \in S : part[x] \in Int /\ part[x] = IF x \in T THEN f[x] ELSE 0
    OBVIOUS
<1> HIDE DEF part
<1>3. SumFunctionOnSet(part, S) <= SumFunctionOnSet(f, S)
    BY <1>1, SumMonotonic
<1>4. SumFunctionOnSet(part, S) = SumFunctionOnSet(f, T)
    BY <1>2, SumPart
<1> QED BY <1>3, <1>4

\* A set in two parts.
LEMMA SumInTwo ==
    ASSUME NEW S, IsFiniteSet(S), NEW T \in SUBSET S, NEW f, \A x \in S : f[x] \in Int
    PROVE  SumFunctionOnSet(f, S) = SumFunctionOnSet(f, T) + SumFunctionOnSet(f, S \ T)
<1> DEFINE U == S \ T
           in  == [x \in S |-> IF x \in T THEN f[x] ELSE 0]
           out == [x \in S |-> IF x \in U THEN f[x] ELSE 0]
<1>1. \A x \in S : in[x] \in Int /\ out[x] \in Int /\ f[x] = in[x] + out[x]
    OBVIOUS
<1>2. \A x \in S : in[x] \in Int /\ in[x] = IF x \in T THEN f[x] ELSE 0
    OBVIOUS
<1>3. \A x \in S : out[x] \in Int /\ out[x] = IF x \in U THEN f[x] ELSE 0
    OBVIOUS
<1>4. U \in SUBSET S
    OBVIOUS
<1> HIDE DEF in, out, U
<1>5. SumFunctionOnSet(f, S) = SumFunctionOnSet(in, S) + SumFunctionOnSet(out, S)
    BY <1>1, SumPlus
<1>6. SumFunctionOnSet(in, S) = SumFunctionOnSet(f, T)
    BY <1>2, SumPart
<1>7. SumFunctionOnSet(out, S) = SumFunctionOnSet(f, U)
    BY <1>3, <1>4, SumPart
<1> QED BY <1>5, <1>6, <1>7 DEF U

\* Two functions that agree on the set.
LEMMA SumSame ==
    ASSUME NEW S, IsFiniteSet(S), NEW f, NEW g, \A x \in S : f[x] \in Int /\ g[x] = f[x]
    PROVE  SumFunctionOnSet(g, S) = SumFunctionOnSet(f, S)
<1>1. S \in SUBSET S /\ \A x \in S : g[x] \in Int /\ g[x] = IF x \in S THEN f[x] ELSE 0
    OBVIOUS
<1> QED BY <1>1, SumPart

\* A value that grows by one.
LEMMA SumBump ==
    ASSUME NEW S, IsFiniteSet(S), NEW z \in S, NEW f, NEW g, \A x \in S : f[x] \in Int,
           \A x \in S : g[x] = IF x = z THEN f[x] + 1 ELSE f[x]
    PROVE  SumFunctionOnSet(g, S) = SumFunctionOnSet(f, S) + 1
<1> DEFINE T == S \ {z}
<1>1. T \in SUBSET S /\ S = T \cup {z} /\ z \notin T /\ IsFiniteSet(T)
    BY FS_Subset
<1>2. \A x \in T : f[x] \in Int /\ g[x] = f[x]
    OBVIOUS
<1>3. \A y \in T \cup {z} : f[y] \in Int /\ g[y] \in Int
    OBVIOUS
<1>4. g[z] = f[z] + 1 /\ f[z] \in Int
    OBVIOUS
<1> HIDE DEF T
<1>5. SumFunctionOnSet(g, T) = SumFunctionOnSet(f, T) /\ SumFunctionOnSet(f, T) \in Int
    BY <1>1, <1>2, SumSame, SumInteger
<1>6. /\ SumFunctionOnSet(g, T \cup {z}) = SumFunctionOnSet(g, T) + g[z]
      /\ SumFunctionOnSet(f, T \cup {z}) = SumFunctionOnSet(f, T) + f[z]
    BY <1>1, <1>3, SumExtend
<1> QED BY <1>1, <1>4, <1>5, <1>6

LEMMA OneMore ==
    ASSUME NEW a \in Int, NEW b \in Int
    PROVE  (a + 1) * b = a * b + b /\ a * b \in Int
OBVIOUS

\* Quantities p priced by w: one more of each member of T adds their prices.
LEMMA SumCounted ==
    ASSUME NEW S, IsFiniteSet(S), NEW T \in SUBSET S, NEW w, NEW p, NEW more,
           \A x \in S : w[x] \in Int /\ p[x] \in Int,
           \A x \in S : more[x] = p[x] + IF x \in T THEN 1 ELSE 0
    PROVE  SumFunction([x \in S |-> more[x] * w[x]])
             = SumFunction([x \in S |-> p[x] * w[x]]) + SumFunctionOnSet(w, T)
<1> DEFINE f == [x \in S |-> p[x] * w[x]]
           g == [x \in S |-> IF x \in T THEN w[x] ELSE 0]
           h == [x \in S |-> more[x] * w[x]]
<1>1. ASSUME NEW x \in S
      PROVE  f[x] \in Int /\ g[x] \in Int /\ h[x] = f[x] + g[x]
    <2>1. w[x] \in Int /\ p[x] \in Int /\ more[x] = p[x] + IF x \in T THEN 1 ELSE 0
        OBVIOUS
    <2>2. CASE x \in T
        <3>1. more[x] = p[x] + 1
            BY <2>1, <2>2
        <3>2. (p[x] + 1) * w[x] = p[x] * w[x] + w[x]
            BY <2>1, OneMore
        <3>3. p[x] * w[x] \in Int
            BY <2>1, OneMore
        <3> QED BY <2>1, <2>2, <3>1, <3>2, <3>3
    <2>3. CASE x \notin T
        <3>1. more[x] = p[x]
            BY <2>1, <2>3
        <3>2. p[x] * w[x] \in Int
            BY <2>1
        <3> QED BY <2>1, <2>3, <3>1, <3>2
    <2> QED BY <2>2, <2>3
<1>2. \A x \in S : g[x] \in Int /\ g[x] = IF x \in T THEN w[x] ELSE 0
    BY <1>1
<1>3. /\ SumFunction(f) = SumFunctionOnSet(f, S)
      /\ SumFunction(h) = SumFunctionOnSet(h, S)
    BY DEF SumFunction
<1> HIDE DEF f, g, h
<1>4. SumFunctionOnSet(h, S) = SumFunctionOnSet(f, S) + SumFunctionOnSet(g, S)
    BY <1>1, SumPlus
<1>5. SumFunctionOnSet(g, S) = SumFunctionOnSet(w, T)
    BY <1>2, SumPart
<1>6. SumFunction(h) = SumFunction(f) + SumFunctionOnSet(w, T)
    BY <1>3, <1>4, <1>5
<1> QED BY <1>6 DEF f, h
=============================================================================
