---------------------------- MODULE LedgerLemmas ----------------------------
(***************************************************************************)
(* What the proofs about the ledgers of Deploy, Battle, Life, Shop and     *)
(* Rooms rest on.  First SumFunction, the sum of the values of a function  *)
(* with a finite domain: what it is when the domain is empty or gains an   *)
(* element, and when a value changes.  Then the level-up rule: how many    *)
(* levels an amount of xp pays for, and what GainXP leaves as it was.  The *)
(* induction both need is over a set of numbers instead of a predicate, so *)
(* that it is first-order.                                                 *)
(***************************************************************************)
EXTENDS Progression, Functions, FiniteSetTheorems, WellFoundedInduction, TLAPS

Below == {nn \in Nat \X Nat : nn[1] < nn[2]}

\* A set of numbers that is not empty has a least one.
LEMMA LeastNumber ==
  ASSUME NEW S, S \subseteq Nat, S # {}
  PROVE  \E n \in S : \A m \in S : n <= m
  <1>1. IsWellFoundedOn(Below, Nat)
    <2>1. OpToRel(<, Nat) = Below  BY DEF OpToRel, Below
    <2> QED  BY <2>1, NatLessThanWellFounded
  <1>2. PICK n \in S : \A m \in S : <<m, n>> \notin Below
    BY <1>1, WFMin
  <1>3. \A m \in S : n <= m
    <2> TAKE m \in S
    <2>1. m \in Nat /\ n \in Nat /\ <<m, n>> \notin Below
      BY <1>2
    <2> QED  BY <2>1 DEF Below
  <1> QED  BY <1>3

\* Induction: a set with 0 and with the successor of its every number has them all.
LEMMA Induction ==
  ASSUME NEW S, 0 \in S, \A n \in Nat : n \in S => n + 1 \in S
  PROVE  \A n \in Nat : n \in S
  <1> SUFFICES ASSUME Nat \ S # {} PROVE FALSE
    OBVIOUS
  <1>1. PICK n \in Nat \ S : \A m \in Nat \ S : n <= m
    BY LeastNumber
  <1>2. n - 1 \in Nat
    BY <1>1
  <1> QED  BY <1>1, <1>2
-----------------------------------------------------------------------------
\* The element the fold takes first.
First(T) == CHOOSE x \in T : TRUE

\* g has the sum of f over every set of sets Ts, added up in the fold's order.
Adds(g, f, Ts) ==
  \A T \in Ts : g[T] = IF T = {} THEN 0 ELSE f[First(T)] + g[T \ {First(T)}]

\* Taking an element out of a finite set.
LEMMA Smaller ==
  ASSUME NEW T, IsFiniteSet(T), NEW x \in T
  PROVE  /\ IsFiniteSet(T \ {x})
         /\ Cardinality(T) \in Nat
         /\ Cardinality(T \ {x}) \in Nat
         /\ Cardinality(T \ {x}) = Cardinality(T) - 1
  <1>1. IsFiniteSet(T \ {x}) /\ Cardinality(T \ {x}) = Cardinality(T) - 1
    BY FS_RemoveElement
  <1>2. Cardinality(T) \in Nat /\ Cardinality(T \ {x}) \in Nat
    BY <1>1, FS_CardinalityType
  <1> QED  BY <1>1, <1>2

LEMMA FirstIn == ASSUME NEW T, T # {} PROVE First(T) \in T
  BY DEF First

\* The sets of n elements at most.
UpTo(S, n) == {T \in SUBSET S : Cardinality(T) <= n}

LEMMA UpToClosed ==
  ASSUME NEW S, IsFiniteSet(S), NEW n \in Nat, NEW T \in UpTo(S, n + 1), NEW x \in T
  PROVE  T \ {x} \in UpTo(S, n)
  <1>1. IsFiniteSet(T)  BY FS_Subset DEF UpTo
  <1> QED  BY <1>1, Smaller DEF UpTo

\* A function that adds up f over all the subsets of a finite set exists ...
LEMMA AddsExists ==
  ASSUME NEW S, IsFiniteSet(S), NEW f \in [S -> Int]
  PROVE  \E g \in [SUBSET S -> Int] : Adds(g, f, SUBSET S)
  <1> DEFINE Has == {n \in Nat : \E g \in [UpTo(S, n) -> Int] : Adds(g, f, UpTo(S, n))}
  <1>1. 0 \in Has
    <2> DEFINE g == [T \in UpTo(S, 0) |-> 0]
    <2>1. \A T \in UpTo(S, 0) : T = {}
      BY FS_Subset, FS_EmptySet, FS_CardinalityType DEF UpTo
    <2>2. g \in [UpTo(S, 0) -> Int] /\ Adds(g, f, UpTo(S, 0))
      BY <2>1 DEF Adds
    <2> QED  BY <2>2
  <1>2. ASSUME NEW n \in Nat, n \in Has PROVE n + 1 \in Has
    <2>1. PICK g \in [UpTo(S, n) -> Int] : Adds(g, f, UpTo(S, n))
      BY <1>2
    <2> DEFINE val(T) == IF T = {} THEN 0 ELSE f[First(T)] + g[T \ {First(T)}]
               h == [T \in UpTo(S, n + 1) |-> val(T)]
    <2>2. ASSUME NEW T \in UpTo(S, n + 1), T # {}
          PROVE  /\ First(T) \in S
                 /\ T \ {First(T)} \in UpTo(S, n)
                 /\ T \ {First(T)} \in UpTo(S, n + 1)
      <3>1. First(T) \in T  BY <2>2, FirstIn
      <3>2. T \ {First(T)} \in UpTo(S, n)  BY <3>1, UpToClosed
      <3>3. IsFiniteSet(T \ {First(T)})  BY <3>2, FS_Subset DEF UpTo
      <3> QED  BY <3>1, <3>2, <3>3, FS_CardinalityType DEF UpTo
    <2>3. \A T \in UpTo(S, n + 1) : val(T) \in Int
      BY <2>1, <2>2
    <2>4. h \in [UpTo(S, n + 1) -> Int]
      BY <2>3
    <2>5. \A T \in UpTo(S, n) : T \in UpTo(S, n + 1) /\ g[T] = val(T)
      <3>1. \A T \in UpTo(S, n) : T \in UpTo(S, n + 1)
        BY FS_Subset, FS_CardinalityType DEF UpTo
      <3> QED  BY <3>1, <2>1 DEF Adds
    <2>6. ASSUME NEW T \in UpTo(S, n + 1)
          PROVE  h[T] = IF T = {} THEN 0 ELSE f[First(T)] + h[T \ {First(T)}]
      <3>1. CASE T = {}  BY <3>1
      <3>2. CASE T # {}
        <4>1. h[T] = f[First(T)] + g[T \ {First(T)}]  BY <3>2
        <4>2. g[T \ {First(T)}] = val(T \ {First(T)})  BY <3>2, <2>2, <2>5
        <4>3. h[T \ {First(T)}] = val(T \ {First(T)})  BY <3>2, <2>2
        <4> HIDE DEF h, val
        <4> QED  BY <3>2, <4>1, <4>2, <4>3
      <3> QED  BY <3>1, <3>2
    <2>7. Adds(h, f, UpTo(S, n + 1))
      <3> HIDE DEF h
      <3> QED  BY <2>6 DEF Adds
    <2> HIDE DEF h
    <2> QED  BY <2>4, <2>7
  <1>3. Cardinality(S) \in Has
    <2> HIDE DEF Has
    <2> QED  BY <1>1, <1>2, Induction, FS_CardinalityType
  <1>4. UpTo(S, Cardinality(S)) = SUBSET S
    BY FS_Subset DEF UpTo
  <1> QED  BY <1>3, <1>4

\* ... and has only one value at each of them.
LEMMA AddsUnique ==
  ASSUME NEW S, IsFiniteSet(S), NEW f, NEW e, \A x \in S : f[x] \in Int /\ e[x] = f[x],
         NEW g, Adds(g, f, SUBSET S), NEW h, Adds(h, e, SUBSET S)
  PROVE  g[S] = h[S] /\ g[S] \in Int
  <1> DEFINE Same == {n \in Nat : \A T \in SUBSET S :
                         Cardinality(T) = n => g[T] = h[T] /\ g[T] \in Int}
  <1>1. 0 \in Same
    <2>1. \A T \in SUBSET S : Cardinality(T) = 0 => T = {}
      BY FS_Subset, FS_EmptySet
    <2>2. g[{}] = 0 /\ h[{}] = 0
      BY DEF Adds
    <2> QED  BY <2>1, <2>2
  <1>2. ASSUME NEW n \in Nat, n \in Same PROVE n + 1 \in Same
    <2> SUFFICES ASSUME NEW T \in SUBSET S, Cardinality(T) = n + 1
                 PROVE  g[T] = h[T] /\ g[T] \in Int
      OBVIOUS
    <2>1. T # {} /\ IsFiniteSet(T)
      BY FS_Subset, FS_EmptySet
    <2>2. First(T) \in T /\ T \ {First(T)} \in SUBSET S
      BY <2>1, FirstIn
    <2>3. Cardinality(T \ {First(T)}) = n
      BY <2>1, <2>2, Smaller
    <2>4. g[T \ {First(T)}] = h[T \ {First(T)}] /\ g[T \ {First(T)}] \in Int
      BY <1>2, <2>2, <2>3
    <2>5. g[T] = f[First(T)] + g[T \ {First(T)}] /\ h[T] = e[First(T)] + h[T \ {First(T)}]
      BY <2>1 DEF Adds
    <2> QED  BY <2>2, <2>4, <2>5
  <1>3. Cardinality(S) \in Same
    <2> HIDE DEF Same
    <2> QED  BY <1>1, <1>2, Induction, FS_CardinalityType
  <1> QED  BY <1>3

\* The fold is such a function.
LEMMA SumAdds ==
  ASSUME NEW S, IsFiniteSet(S), NEW f \in [S -> Int]
  PROVE  \E h : Adds(h, f, SUBSET S) /\ SumFunction(f) = h[S]
  <1> DEFINE Q(h) == h = [T \in SUBSET S |->
                            IF T = {} THEN 0 ELSE f[CHOOSE x \in T : TRUE]
                                                    + h[T \ {CHOOSE x \in T : TRUE}]]
             iter == CHOOSE h : Q(h)
  <1>1. PICK g \in [SUBSET S -> Int] : Adds(g, f, SUBSET S)
    BY AddsExists
  <1>2. Q(iter)
    <2>1. Q(g)
      BY <1>1 DEF Adds, First
    <2> HIDE DEF Q
    <2> QED BY <2>1
  <1>3. DOMAIN f = S
    OBVIOUS
  <1>4. SumFunction(f) = iter[S]
    BY <1>3 DEF SumFunction, SumFunctionOnSet, FoldFunctionOnSet, MapThenFoldSet
  <1>5. Adds(iter, f, SUBSET S)
    <2> HIDE DEF iter
    <2> QED BY <1>2 DEF Adds, First
  <1> QED BY <1>4, <1>5
-----------------------------------------------------------------------------
\* A sum over a part of the domain is the sum of the function on that part.
THEOREM SumOnSet ==
  ASSUME NEW S, IsFiniteSet(S), NEW f, \A x \in S : f[x] \in Int
  PROVE  SumFunctionOnSet(f, S) = SumFunction([x \in S |-> f[x]])
  <1> DEFINE e == [x \in S |-> f[x]]
             Q(h) == h = [T \in SUBSET S |->
                            IF T = {} THEN 0 ELSE f[CHOOSE x \in T : TRUE]
                                                    + h[T \ {CHOOSE x \in T : TRUE}]]
             iter == CHOOSE h : Q(h)
  <1>1. e \in [S -> Int] /\ \A x \in S : e[x] = f[x]
    OBVIOUS
  <1> HIDE DEF e
  <1>2. PICK g \in [SUBSET S -> Int] : Adds(g, e, SUBSET S)
    BY <1>1, AddsExists
  <1>3. Adds(g, f, SUBSET S)
    <2>1. \A T \in SUBSET S : T # {} => e[First(T)] = f[First(T)]
      BY <1>1, FirstIn
    <2> QED  BY <1>2, <2>1 DEF Adds
  <1>4. Q(iter)
    <2>1. Q(g)
      BY <1>3 DEF Adds, First
    <2> HIDE DEF Q
    <2> QED BY <2>1
  <1>5. SumFunctionOnSet(f, S) = iter[S]
    BY DEF SumFunctionOnSet, FoldFunctionOnSet, MapThenFoldSet
  <1>6. Adds(iter, f, SUBSET S)
    <2> HIDE DEF iter
    <2> QED BY <1>4 DEF Adds, First
  <1> HIDE DEF iter
  <1>7. PICK k : Adds(k, e, SUBSET S) /\ SumFunction(e) = k[S]
    BY <1>1, SumAdds
  <1>8. iter[S] = k[S]
    <2>1. \A x \in S : f[x] \in Int /\ e[x] = f[x]
      BY <1>1
    <2> QED  BY <1>6, <1>7, <2>1, AddsUnique
  <1> QED  BY <1>5, <1>7, <1>8 DEF e

\* The order of the fold does not matter: any element may be taken first.
LEMMA AnyFirst ==
  ASSUME NEW S, IsFiniteSet(S), NEW f \in [S -> Int], NEW g, Adds(g, f, SUBSET S),
         NEW x \in S
  PROVE  g[S] = f[x] + g[S \ {x}] /\ g[S \ {x}] \in Int
  <1> DEFINE Free == {n \in Nat : \A T \in SUBSET S : Cardinality(T) = n =>
                         \A y \in T : g[T] = f[y] + g[T \ {y}]}
  <1>0. \A T \in SUBSET S : g[T] \in Int
    <2> TAKE T \in SUBSET S
    <2>1. IsFiniteSet(T)  BY FS_Subset
    <2>2. Adds(g, f, SUBSET T)  BY DEF Adds
    <2> QED  BY <2>1, <2>2, AddsUnique
  <1>1. 0 \in Free
    BY FS_Subset, FS_EmptySet
  <1>2. ASSUME NEW n \in Nat, n \in Free PROVE n + 1 \in Free
    <2> SUFFICES ASSUME NEW T \in SUBSET S, Cardinality(T) = n + 1, NEW y \in T
                 PROVE  g[T] = f[y] + g[T \ {y}]
      OBVIOUS
    <2> DEFINE c == First(T)
               R == (T \ {y}) \ {c}
    <2>1. IsFiniteSet(T)  BY FS_Subset
    <2>2. c \in T  BY FirstIn
    <2>3. g[T] = f[c] + g[T \ {c}]  BY DEF Adds
    <2>4. CASE c = y  BY <2>3, <2>4
    <2>5. CASE c # y
      <3>1. Cardinality(T \ {c}) = n /\ Cardinality(T \ {y}) = n
        BY <2>1, <2>2, Smaller
      <3>2. (T \ {c}) \ {y} = R /\ y \in T \ {c} /\ c \in T \ {y}
        BY <2>2, <2>5
      <3> HIDE DEF c, R
      <3>3. g[T \ {c}] = f[y] + g[(T \ {c}) \ {y}]
        BY <1>2, <3>1, <3>2
      <3>4. g[T \ {y}] = f[c] + g[R]
        BY <1>2, <3>1, <3>2
      <3>5. f[y] \in Int /\ f[c] \in Int /\ g[R] \in Int
        BY <1>0, <2>2 DEF R
      <3>6. g[T] = f[c] + (f[y] + g[R])
        BY <2>3, <3>2, <3>3
      <3> QED  BY <3>4, <3>5, <3>6
    <2> QED  BY <2>4, <2>5
  <1>3. Cardinality(S) \in Free
    <2> HIDE DEF Free
    <2> QED  BY <1>1, <1>2, Induction, FS_CardinalityType
  <1> QED  BY <1>0, <1>3

\* The sum over an empty domain.
THEOREM SumEmpty ==
  ASSUME NEW f \in [{} -> Int]
  PROVE  SumFunction(f) = 0
  <1>1. PICK h : Adds(h, f, SUBSET {}) /\ SumFunction(f) = h[{}]
    BY SumAdds, FS_EmptySet
  <1> QED  BY <1>1 DEF Adds

\* The sum of integers is one.
THEOREM SumInt ==
  ASSUME NEW S, IsFiniteSet(S), NEW f \in [S -> Int]
  PROVE  SumFunction(f) \in Int
  <1>1. PICK h : Adds(h, f, SUBSET S) /\ SumFunction(f) = h[S]
    BY SumAdds
  <1> QED  BY <1>1, AddsUnique

\* A domain with one element more adds its value.
THEOREM SumAdd ==
  ASSUME NEW S, IsFiniteSet(S), NEW x, x \notin S,
         NEW f \in [S -> Int], NEW g \in [S \cup {x} -> Int],
         \A y \in S : g[y] = f[y]
  PROVE  SumFunction(g) = SumFunction(f) + g[x]
  <1> DEFINE U == S \cup {x}
  <1>1. IsFiniteSet(U)  BY FS_AddElement
  <1>2. PICK h : Adds(h, g, SUBSET U) /\ SumFunction(g) = h[U]
    BY <1>1, SumAdds
  <1>3. PICK k : Adds(k, f, SUBSET S) /\ SumFunction(f) = k[S]
    BY SumAdds
  <1>4. U \ {x} = S /\ x \in U /\ g \in [U -> Int]
    OBVIOUS
  <1> HIDE DEF U
  <1>5. h[U] = g[x] + h[S] /\ h[S] \in Int
    <2>1. h[U] = g[x] + h[U \ {x}] /\ h[U \ {x}] \in Int
      BY <1>1, <1>2, <1>4, AnyFirst
    <2> QED  BY <2>1, <1>4
  <1>6. Adds(h, g, SUBSET S)
    BY <1>2, <1>4 DEF Adds
  <1>7. h[S] = k[S]
    <2>1. \A y \in S : f[y] \in Int /\ g[y] = f[y]
      OBVIOUS
    <2> QED  BY <1>3, <1>6, <2>1, AddsUnique
  <1> QED  BY <1>2, <1>3, <1>5, <1>7

\* An element taken out of the domain takes its value with it.
THEOREM SumTake ==
  ASSUME NEW S, IsFiniteSet(S), NEW x \in S, NEW f \in [S -> Int]
  PROVE  SumFunction(f) = SumFunction([y \in S \ {x} |-> f[y]]) + f[x]
  <1> DEFINE R == S \ {x}
             e == [y \in R |-> f[y]]
  <1>1. IsFiniteSet(R) /\ R \cup {x} = S /\ x \notin R
    BY FS_RemoveElement
  <1>2. e \in [R -> Int]
    OBVIOUS
  <1>3. \A y \in R : f[y] = e[y]
    OBVIOUS
  <1> HIDE DEF e, R
  <1>4. SumFunction(f) = SumFunction(e) + f[x]
    BY <1>1, <1>2, <1>3, SumAdd
  <1> QED  BY <1>4 DEF e, R

\* A value changed in place changes the sum by the difference.
THEOREM SumChange ==
  ASSUME NEW S, IsFiniteSet(S), NEW x \in S,
         NEW f \in [S -> Int], NEW g \in [S -> Int],
         \A y \in S \ {x} : g[y] = f[y]
  PROVE  SumFunction(g) = SumFunction(f) - f[x] + g[x]
  <1> DEFINE e == [y \in S \ {x} |-> f[y]]
             d == [y \in S \ {x} |-> g[y]]
  <1>1. SumFunction(f) = SumFunction(e) + f[x]
    BY SumTake
  <1>2. SumFunction(g) = SumFunction(d) + g[x]
    BY SumTake
  <1>3. SumFunction(e) \in Int
    <2>1. IsFiniteSet(S \ {x}) /\ e \in [S \ {x} -> Int]
      BY FS_RemoveElement
    <2> HIDE DEF e
    <2> QED  BY <2>1, SumInt
  <1>4. d = e
    OBVIOUS
  <1> HIDE DEF e, d
  <1> QED  BY <1>1, <1>2, <1>3, <1>4

\* A sum whose values change by d over a part of the domain changes by the sum of d.
THEOREM SumMove ==
  ASSUME NEW S, IsFiniteSet(S), NEW M \in SUBSET S,
         NEW f \in [S -> Int], NEW g \in [S -> Int], NEW d \in [M -> Int],
         \A x \in S : g[x] = IF x \in M THEN f[x] + d[x] ELSE f[x]
  PROVE  SumFunction(g) = SumFunction(f) + SumFunction(d)
  <1> DEFINE Moved(N, h, e) == \A x \in S : h[x] = IF x \in N THEN f[x] + e[x] ELSE f[x]
             Good == {n \in Nat : \A N \in SUBSET S : Cardinality(N) = n =>
                         \A h \in [S -> Int], e \in [N -> Int] :
                            Moved(N, h, e) => SumFunction(h) = SumFunction(f) + SumFunction(e)}
  <1>0. SumFunction(f) \in Int
    BY SumInt
  <1>1. 0 \in Good
    <2> SUFFICES ASSUME NEW N \in SUBSET S, Cardinality(N) = 0,
                        NEW h \in [S -> Int], NEW e \in [N -> Int], Moved(N, h, e)
                 PROVE  SumFunction(h) = SumFunction(f) + SumFunction(e)
      OBVIOUS
    <2>1. N = {}
      BY FS_Subset, FS_EmptySet
    <2>2. h = f
      BY <2>1
    <2>3. SumFunction(e) = 0
      BY <2>1, SumEmpty
    <2> QED  BY <1>0, <2>2, <2>3
  <1>2. ASSUME NEW n \in Nat, n \in Good PROVE n + 1 \in Good
    <2> SUFFICES ASSUME NEW N \in SUBSET S, Cardinality(N) = n + 1,
                        NEW h \in [S -> Int], NEW e \in [N -> Int], Moved(N, h, e)
                 PROVE  SumFunction(h) = SumFunction(f) + SumFunction(e)
      OBVIOUS
    <2>1. N # {} /\ IsFiniteSet(N)
      BY FS_Subset, FS_EmptySet
    <2>2. PICK x : x \in N
      BY <2>1
    <2> DEFINE R == N \ {x}
               k == [h EXCEPT ![x] = f[x]]
               c == [y \in R |-> e[y]]
    <2>3. R \in SUBSET S /\ IsFiniteSet(R) /\ Cardinality(R) = n /\ R \cup {x} = N /\ x \notin R
      BY <2>1, <2>2, Smaller
    <2>4. k \in [S -> Int] /\ c \in [R -> Int] /\ Moved(R, k, c)
      BY <2>2
    <2>5. \A y \in S \ {x} : h[y] = k[y]
      OBVIOUS
    <2>6. k[x] = f[x] /\ h[x] = f[x] + e[x] /\ e[x] \in Int /\ f[x] \in Int /\ x \in S
      BY <2>2
    <2>7. \A y \in R : e[y] = c[y]
      OBVIOUS
    <2> HIDE DEF R, k, c, Moved
    <2>8. SumFunction(k) = SumFunction(f) + SumFunction(c)
      BY <1>2, <2>3, <2>4
    <2>9. SumFunction(h) = SumFunction(k) - k[x] + h[x]
      BY <2>4, <2>5, <2>6, SumChange
    <2>10. SumFunction(e) = SumFunction(c) + e[x]
      <3>1. IsFiniteSet(N) /\ x \in N
        BY <2>1, <2>2
      <3> QED  BY <3>1, SumTake DEF c, R
    <2>11. SumFunction(c) \in Int
      BY <2>3, <2>4, SumInt
    <2> QED  BY <1>0, <2>6, <2>8, <2>9, <2>10, <2>11
  <1>3. Cardinality(M) \in Good
    <2>1. Cardinality(M) \in Nat
      BY FS_Subset, FS_CardinalityType
    <2> HIDE DEF Good
    <2> QED  BY <1>1, <1>2, <2>1, Induction
  <1> QED  BY <1>3

\* A sum over a range of numbers that gains the next one.
THEOREM SumExtend ==
  ASSUME NEW a \in Int, NEW b \in Int, a <= b + 1, NEW f, NEW g,
         f \in [a .. b -> Int], g \in [a .. b + 1 -> Int],
         \A y \in a .. b : g[y] = f[y]
  PROVE  SumFunction(g) = SumFunction(f) + g[b + 1]
  <1> DEFINE S == a .. b
             x == b + 1
  <1>1. IsFiniteSet(S)
    BY FS_Interval
  <1>2. S \cup {x} = a .. b + 1
    OBVIOUS
  <1>3. x \notin S
    OBVIOUS
  <1>4. f \in [S -> Int] /\ g \in [S \cup {x} -> Int]
    BY <1>2
  <1>5. \A y \in S : g[y] = f[y]
    OBVIOUS
  <1> HIDE DEF S, x
  <1>6. SumFunction(g) = SumFunction(f) + g[x]
    BY ONLY <1>1, <1>3, <1>4, <1>5, SumAdd
  <1> QED  BY <1>6 DEF x

\* A sum of zeros.
THEOREM SumZero ==
  ASSUME NEW S, IsFiniteSet(S), NEW f \in [S -> Int], \A x \in S : f[x] = 0
  PROVE  SumFunction(f) = 0
  <1> DEFINE zero == [T \in SUBSET S |-> 0]
  <1>1. PICK h : Adds(h, f, SUBSET S) /\ SumFunction(f) = h[S]
    BY SumAdds
  <1>2. Adds(zero, f, SUBSET S)
    <2> SUFFICES ASSUME NEW T \in SUBSET S
                 PROVE  zero[T] = IF T = {} THEN 0 ELSE f[First(T)] + zero[T \ {First(T)}]
      BY DEF Adds
    <2>1. T # {} => First(T) \in S
      BY FirstIn
    <2> QED  BY <2>1
  <1>3. zero[S] = 0
    OBVIOUS
  <1> HIDE DEF zero
  <1>4. h[S] = zero[S]
    BY <1>1, <1>2, AddsUnique
  <1> QED  BY <1>1, <1>3, <1>4

\* A sum of numbers that are not negative is none.
THEOREM SumNat ==
  ASSUME NEW S, IsFiniteSet(S), NEW f \in [S -> Nat]
  PROVE  SumFunction(f) \in Nat
  <1>1. PICK h : Adds(h, f, SUBSET S) /\ SumFunction(f) = h[S]
    BY SumAdds
  <1> DEFINE Good == {n \in Nat : \A T \in SUBSET S : Cardinality(T) = n => h[T] \in Nat}
  <1>2. 0 \in Good
    <2>1. \A T \in SUBSET S : Cardinality(T) = 0 => T = {}
      BY FS_Subset, FS_EmptySet
    <2>2. h[{}] = 0
      BY <1>1 DEF Adds
    <2> QED  BY <2>1, <2>2
  <1>3. ASSUME NEW n \in Nat, n \in Good PROVE n + 1 \in Good
    <2> SUFFICES ASSUME NEW T \in SUBSET S, Cardinality(T) = n + 1
                 PROVE  h[T] \in Nat
      OBVIOUS
    <2>1. T # {} /\ IsFiniteSet(T)
      BY FS_Subset, FS_EmptySet
    <2>2. First(T) \in T /\ T \ {First(T)} \in SUBSET S
      BY <2>1, FirstIn
    <2>3. Cardinality(T \ {First(T)}) = n
      BY <2>1, <2>2, Smaller
    <2>4. h[T \ {First(T)}] \in Nat
      BY <1>3, <2>2, <2>3
    <2>5. h[T] = f[First(T)] + h[T \ {First(T)}]
      BY <1>1, <2>1 DEF Adds
    <2> QED  BY <2>2, <2>4, <2>5
  <1>4. Cardinality(S) \in Good
    <2> HIDE DEF Good
    <2> QED  BY <1>2, <1>3, Induction, FS_CardinalityType
  <1> QED  BY <1>1, <1>4
-----------------------------------------------------------------------------
\* Levels cost what they cost, gained at once or in two goes.
LEMMA CostAdds ==
  ASSUME NEW a \in Nat, NEW k \in Nat, NEW first \in Nat
  PROVE  CostOf(a + k, first) = CostOf(a, first) + CostOf(k, first + 2 * HalfXP * a)
  BY ProgressionAssumption DEF CostOf

\* A level costs one xp at least.
LEMMA CostGrows ==
  ASSUME NEW k \in Nat, NEW first \in Nat \ {0}
  PROVE  CostOf(k, first) \in Nat /\ k <= CostOf(k, first)
  BY ProgressionAssumption DEF CostOf

\* Every amount of xp pays for some number of levels and not for one more: the
\* loop of GainXP ends, and LevelsFor is where it ends.
THEOREM LevelsExist ==
  ASSUME NEW h \in Hero, NEW xp \in Nat
  PROVE  LET k == LevelsFor(h, xp)
         IN  /\ k \in Nat
             /\ CostOf(k, h.xpMax) <= h.xp + xp
             /\ h.xp + xp < CostOf(k + 1, h.xpMax)
  <1> DEFINE total == h.xp + xp
             Paid == {n \in Nat : CostOf(n, h.xpMax) <= total}
  <1>1. total \in Nat /\ h.xpMax \in Nat \ {0}
    BY DEF Hero
  <1>2. 0 \in Paid
    BY <1>1, ProgressionAssumption DEF CostOf
  <1> HIDE DEF total
  <1>3. total + 1 \notin Paid
    <2>1. CostOf(total + 1, h.xpMax) \in Nat /\ total + 1 <= CostOf(total + 1, h.xpMax)
      BY <1>1, CostGrows
    <2> QED  BY <1>1, <2>1
  <1>4. \E k \in 0 .. total : CostOf(k, h.xpMax) <= total /\ total < CostOf(k + 1, h.xpMax)
    <2>1. PICK k \in Paid : k + 1 \notin Paid
      <3> HIDE DEF Paid
      <3>1. Paid \subseteq Nat  BY DEF Paid
      <3> QED  BY <1>1, <1>2, <1>3, <3>1, Induction
    <2>2. /\ CostOf(k, h.xpMax) \in Nat /\ k <= CostOf(k, h.xpMax)
          /\ CostOf(k + 1, h.xpMax) \in Nat
      BY <1>1, <2>1, CostGrows
    <2> QED  BY <1>1, <2>1, <2>2
  <1> QED  BY <1>1, <1>4 DEF LevelsFor, total

\* More levels cost no less.
LEMMA CostMonotone ==
  ASSUME NEW j \in Nat, NEW k \in Nat, j <= k, NEW first \in Nat \ {0}
  PROVE  CostOf(j, first) <= CostOf(k, first) /\ CostOf(j, first) \in Nat /\ CostOf(k, first) \in Nat
  <1> DEFINE d == k - j
             later == first + 2 * HalfXP * j
  <1>1. d \in Nat /\ k = j + d
    OBVIOUS
  <1>2. later \in Nat \ {0}
    <2>1. 2 * HalfXP * j \in Nat
      BY ProgressionAssumption
    <2> QED  BY <2>1
  <1> HIDE DEF d
  <1>3. CostOf(j + d, first) = CostOf(j, first) + CostOf(d, later)
    BY <1>1, CostAdds
  <1> HIDE DEF later
  <1>4. CostOf(d, later) \in Nat /\ CostOf(j, first) \in Nat /\ CostOf(k, first) \in Nat
    BY <1>1, <1>2, CostGrows
  <1> QED  BY <1>1, <1>3, <1>4

\* There is only one such number of levels.
LEMMA LevelsUnique ==
  ASSUME NEW h \in Hero, NEW xp \in Nat, NEW k \in Nat,
         CostOf(k, h.xpMax) <= h.xp + xp, h.xp + xp < CostOf(k + 1, h.xpMax)
  PROVE  LevelsFor(h, xp) = k
  <1> DEFINE j == LevelsFor(h, xp)
  <1>1. h.xpMax \in Nat \ {0} /\ h.xp \in Nat
    BY DEF Hero
  <1>2. j \in Nat /\ CostOf(j, h.xpMax) <= h.xp + xp /\ h.xp + xp < CostOf(j + 1, h.xpMax)
    BY LevelsExist
  <1> HIDE DEF j
  <1>3. ~(j + 1 <= k)
    <2> SUFFICES ASSUME j + 1 <= k PROVE FALSE
      OBVIOUS
    <2>1. CostOf(j + 1, h.xpMax) <= CostOf(k, h.xpMax) /\ CostOf(j + 1, h.xpMax) \in Nat
          /\ CostOf(k, h.xpMax) \in Nat
      BY <1>1, <1>2, CostMonotone
    <2> QED  BY <1>1, <1>2, <2>1
  <1>4. ~(k + 1 <= j)
    <2> SUFFICES ASSUME k + 1 <= j PROVE FALSE
      OBVIOUS
    <2>1. CostOf(k + 1, h.xpMax) <= CostOf(j, h.xpMax) /\ CostOf(k + 1, h.xpMax) \in Nat
          /\ CostOf(j, h.xpMax) \in Nat
      BY <1>1, <1>2, CostMonotone
    <2> QED  BY <1>1, <1>2, <2>1
  <1> QED  BY <1>2, <1>3, <1>4 DEF j

\* A hero as the level-ups leave it: the next level has the price that its level
\* asks for, and its life is between 1 and hpMax.
SoundHero(h) == /\ h \in Hero
                /\ h.xpMax = FirstXP + 2 * HalfXP * (h.level - 1)
                /\ 1 <= h.hp /\ h.hp <= h.hpMax

LEMMA NewHeroSound == SoundHero(NewHero) /\ TotalXP(NewHero) = 0
  BY ProgressionAssumption DEF SoundHero, NewHero, Hero, TotalXP, CostOf

\* A life that stays between 1 and hpMax leaves the rest of the hero alone.
LEMMA LifeSound ==
  ASSUME NEW h, SoundHero(h), NEW life \in Int, 1 <= life, life <= h.hpMax
  PROVE  /\ SoundHero([h EXCEPT !.hp = life])
         /\ TotalXP([h EXCEPT !.hp = life]) = TotalXP(h)
  BY DEF SoundHero, Hero, TotalXP

\* The fields of a hero that a bonus of delta hp does not touch, and those it does.
LEMMA ChangeHPSound ==
  ASSUME NEW h \in Hero, h.hp <= h.hpMax, NEW delta \in Int, 1 <= h.hpMax + delta
  PROVE  LET g == ChangeHP(h, delta)
         IN  /\ g \in Hero
             /\ g.hpMax = h.hpMax + delta /\ 1 <= g.hp /\ g.hp <= g.hpMax
             /\ g.level = h.level /\ g.skillPoints = h.skillPoints
             /\ g.xp = h.xp /\ g.xpMax = h.xpMax
  <1> DEFINE hp == IF h.hp + delta > 1 THEN h.hp + delta ELSE 1
             hpMax == h.hpMax + delta
  <1>1. hp \in Nat /\ hpMax \in Int /\ 1 <= hp /\ hp <= hpMax
    BY DEF Hero
  <1>2. ChangeHP(h, delta) = [h EXCEPT !.hpMax = hpMax, !.hp = hp]
    BY DEF ChangeHP, Hero
  <1> HIDE DEF hp
  <1> QED  BY <1>1, <1>2 DEF Hero

\* GainXP loses no xp and gives nothing away: the xp of the levels and of the bar
\* grow by what was gained, a level brings one point and LevelHP, no more.
THEOREM GainXPSound ==
  ASSUME NEW h, SoundHero(h), NEW xp \in Nat
  PROVE  LET g == GainXP(h, xp)
         IN  /\ SoundHero(g)
             /\ TotalXP(g) = TotalXP(h) + xp
             /\ g.level >= h.level
             /\ g.hpMax = h.hpMax + LevelHP * (g.level - h.level)
             /\ g.skillPoints = h.skillPoints + (g.level - h.level)
  <1> DEFINE k == LevelsFor(h, xp)
             g == Raised(h, xp, k)
  <1>1. /\ h \in Hero /\ h.level \in Nat \ {0} /\ h.xp \in Nat /\ h.xpMax \in Nat \ {0}
        /\ h.hp \in Nat /\ h.hpMax \in Nat /\ h.skillPoints \in Nat
    BY DEF SoundHero, Hero
  <1>2. k \in Nat /\ CostOf(k, h.xpMax) <= h.xp + xp /\ h.xp + xp < CostOf(k + 1, h.xpMax)
    BY <1>1, LevelsExist
  <1> HIDE DEF k
  <1>3. CostOf(k, h.xpMax) \in Nat
    BY <1>1, <1>2, CostGrows
  <1>4. /\ g.level = h.level + k
        /\ g.xp = h.xp + xp - CostOf(k, h.xpMax)
        /\ g.xpMax = h.xpMax + 2 * HalfXP * k
        /\ g.hpMax = h.hpMax + LevelHP * k
        /\ g.hp = IF k > 0 THEN h.hpMax + LevelHP * k ELSE h.hp
        /\ g.skillPoints = h.skillPoints + k
    BY DEF Raised
  <1>5. 2 * HalfXP * k \in Nat /\ LevelHP * k \in Nat
    BY <1>2, ProgressionAssumption
  <1>6. SoundHero(g)
    <2>1. g \in Hero
      <3>1. g = [level |-> g.level, xp |-> g.xp, xpMax |-> g.xpMax, hpMax |-> g.hpMax,
                 hp |-> g.hp, skillPoints |-> g.skillPoints]
        BY DEF Raised
      <3> HIDE DEF g
      <3>2. g.level \in Nat \ {0} /\ g.xp \in Nat /\ g.skillPoints \in Nat
        BY <1>1, <1>2, <1>3, <1>4
      <3>3. g.xpMax \in Nat \ {0} /\ g.hpMax \in Nat /\ g.hp \in Nat
        BY <1>1, <1>2, <1>4, <1>5
      <3> QED  BY <3>1, <3>2, <3>3 DEF Hero
    <2> HIDE DEF g
    <2>2. g.xpMax = FirstXP + 2 * HalfXP * (g.level - 1)
      BY <1>1, <1>2, <1>4, ProgressionAssumption DEF SoundHero
    <2>3. 1 <= g.hp /\ g.hp <= g.hpMax
      BY <1>1, <1>2, <1>4, <1>5 DEF SoundHero
    <2> QED  BY <2>1, <2>2, <2>3 DEF SoundHero
  <1> HIDE DEF g
  <1>7. TotalXP(g) = TotalXP(h) + xp
    <2> DEFINE a == h.level - 1
    <2>0. a \in Nat /\ g.level - 1 = a + k
      BY <1>1, <1>2, <1>4
    <2>1. h.xpMax = FirstXP + 2 * HalfXP * a
      BY DEF SoundHero
    <2>2. TotalXP(h) = CostOf(a, FirstXP) + h.xp
      BY DEF TotalXP
    <2> HIDE DEF a
    <2>3. CostOf(a + k, FirstXP) = CostOf(a, FirstXP) + CostOf(k, h.xpMax)
      BY <1>2, <2>0, <2>1, CostAdds, ProgressionAssumption
    <2>4. CostOf(a, FirstXP) \in Nat
      BY <2>0, CostGrows, ProgressionAssumption
    <2>5. TotalXP(g) = CostOf(a + k, FirstXP) + g.xp
      BY <2>0 DEF TotalXP
    <2> QED  BY <1>1, <1>3, <1>4, <2>2, <2>3, <2>4, <2>5
  <1>8. g.level - h.level = k
    BY <1>1, <1>2, <1>4
  <1> QED  BY <1>1, <1>2, <1>4, <1>6, <1>7, <1>8 DEF GainXP, g, k
=============================================================================
