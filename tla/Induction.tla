----------------------------- MODULE Induction -----------------------------
(***************************************************************************)
(* What the proofs about loops rest on, over a list or over a set: first,  *)
(* induction stated of sets, which are first-order (the least number       *)
(* outside a set that 0 is in and that steps up would be the top of a      *)
(* least of the finite sets 1 .. n); then, that a recursive definition has *)
(* the function it defines, that a finite set can be listed in the order   *)
(* of any value, and that a list of numbers has a largest.                 *)
(***************************************************************************)
EXTENDS Integers, FiniteSetTheorems, WellFoundedInduction, TLAPS

\* A set of numbers that begins at 0 and never stops holds them all.
LEMMA Climb ==
  ASSUME NEW S, 0 \in S, \A n \in Nat : n \in S => n + 1 \in S
  PROVE  Nat \subseteq S
<1> DEFINE Bad == {1 .. n : n \in Nat \ S}
<1> SUFFICES ASSUME Nat \ S # {} PROVE FALSE
  OBVIOUS
<1>1. Bad \subseteq FiniteSubsetsOf(Nat) /\ Bad # {}
  <2>1. \A n \in Nat : IsFiniteSet(1 .. n) /\ 1 .. n \subseteq Nat
    BY FS_Interval
  <2> QED
    BY <2>1 DEF FiniteSubsetsOf
<1> HIDE DEF Bad
<1>2. PICK x \in Bad : \A y \in Bad : ~(<<y, x>> \in StrictSubsetOrdering(Nat))
  BY <1>1, WFMin, FS_StrictSubsetOrderingWellFounded
<1>3. PICK n \in Nat \ S : x = 1 .. n
  BY DEF Bad
<1>4. n - 1 \in Nat /\ n - 1 \notin S
  <2>1. n # 0
    BY <1>3
  <2>2. n - 1 \in Nat
    BY <1>3, <2>1
  <2> QED
    BY <2>2
<1>5. 1 .. n - 1 \in Bad
  BY <1>4 DEF Bad
<1>6. <<1 .. n - 1, 1 .. n>> \in StrictSubsetOrdering(Nat)
  <2>1. 1 .. n - 1 \subseteq 1 .. n /\ 1 .. n \subseteq Nat
    BY <1>4
  <2>2. n \in 1 .. n /\ n \notin 1 .. n - 1
    BY <1>4
  <2> QED
    BY <2>1, <2>2 DEF StrictSubsetOrdering
<1> QED
  BY <1>2, <1>3, <1>5, <1>6

\* A loop of L steps, the n-th of which makes F[<<n, v>>] of v, ...
IsLoop(L, V, F) == F \in [(1 .. L) \X V -> V]

\* ... begins with b, and g is what it makes of it.
IsHistory(L, V, b, F, g) ==
  /\ g \in [0 .. L -> V] /\ g[0] = b
  /\ \A n \in 1 .. L : g[n] = F[<<n, g[n - 1]>>]

\* Every loop has a history.
LEMMA LoopHasHistory ==
  ASSUME NEW L \in Nat, NEW V, NEW b \in V, NEW F, IsLoop(L, V, F)
  PROVE  \E g : IsHistory(L, V, b, F, g)
<1> DEFINE Upto(m) == \E g \in [0 .. m -> V] : g[0] = b /\ \A n \in 1 .. m : g[n] = F[<<n, g[n - 1]>>]
<1> DEFINE S == {m \in Nat : m <= L => Upto(m)}
<1>1. 0 \in S
  <2> DEFINE g == [n \in 0 .. 0 |-> b]
  <2>1. g \in [0 .. 0 -> V] /\ g[0] = b /\ 1 .. 0 = {}
    OBVIOUS
  <2> QED
    BY <2>1
<1>2. ASSUME NEW m \in Nat, m \in S PROVE m + 1 \in S
  <2> SUFFICES ASSUME m + 1 <= L PROVE Upto(m + 1)
    OBVIOUS
  <2>1. PICK g \in [0 .. m -> V] : g[0] = b /\ \A n \in 1 .. m : g[n] = F[<<n, g[n - 1]>>]
    BY <1>2
  <2> DEFINE h == [n \in 0 .. m + 1 |-> IF n = m + 1 THEN F[<<m + 1, g[m]>>] ELSE g[n]]
  <2>2. g[m] \in V /\ m + 1 \in 1 .. L /\ F[<<m + 1, g[m]>>] \in V
    <3>1. g[m] \in V /\ m + 1 \in 1 .. L
      BY <2>1
    <3>2. <<m + 1, g[m]>> \in (1 .. L) \X V
      BY <3>1
    <3> QED
      BY <3>1, <3>2 DEF IsLoop
  <2>3. \A n \in 0 .. m + 1 : n = m + 1 \/ n \in 0 .. m
    OBVIOUS
  <2>4. h \in [0 .. m + 1 -> V] /\ h[0] = b
    BY <2>1, <2>2, <2>3
  <2>5. ASSUME NEW n \in 1 .. m + 1 PROVE h[n] = F[<<n, h[n - 1]>>]
    <3>1. n - 1 \in 0 .. m /\ n - 1 # m + 1 /\ n \in 0 .. m + 1
      OBVIOUS
    <3>2. h[n - 1] = g[n - 1]
      BY <3>1
    <3>3. CASE n = m + 1
      BY <3>1, <3>2, <3>3
    <3>4. CASE n \in 1 .. m
      <4>1. h[n] = g[n]
        BY <3>4
      <4> QED
        BY <2>1, <3>2, <3>4, <4>1
    <3> QED
      BY <2>3, <3>3, <3>4
  <2> HIDE DEF h
  <2> QED
    BY <2>4, <2>5
<1> HIDE DEF S
<1>3. L \in S
  BY <1>1, <1>2, Climb
<1> QED
  BY <1>3 DEF S, IsHistory

\* What holds of the empty set, and of a set whose pick can be put back, holds
\* of every subset of a finite set.
LEMMA ClimbSets ==
  ASSUME NEW S, IsFiniteSet(S), NEW A, {} \in A, NEW pick,
         \A T \in SUBSET S : T # {} => pick[T] \in T,
         \A T \in SUBSET S : T # {} /\ T \ {pick[T]} \in A => T \in A
  PROVE  SUBSET S \subseteq A
<1> DEFINE N == {n \in Nat : \A T \in SUBSET S : Cardinality(T) = n => T \in A}
<1>1. \A T \in SUBSET S : IsFiniteSet(T) /\ Cardinality(T) \in Nat /\ (Cardinality(T) = 0 <=> T = {})
  BY FS_Subset, FS_CardinalityType, FS_EmptySet
<1>2. 0 \in N
  BY <1>1
<1>3. ASSUME NEW n \in Nat, n \in N PROVE n + 1 \in N
  <2> SUFFICES ASSUME NEW T \in SUBSET S, Cardinality(T) = n + 1 PROVE T \in A
    OBVIOUS
  <2>1. T # {}
    BY <1>1
  <2>2. pick[T] \in T
    BY <2>1
  <2>3. T \ {pick[T]} \in SUBSET S /\ Cardinality(T \ {pick[T]}) = n
    <3>1. PICK x \in T : x = pick[T]
      BY <2>2
    <3>2. Cardinality(T \ {x}) = Cardinality(T) - 1
      BY <1>1, FS_RemoveElement
    <3> QED
      BY <3>1, <3>2
  <2>4. T \ {pick[T]} \in A
    BY <1>3, <2>3
  <2> QED
    BY <2>1, <2>4
<1>4. Nat \subseteq N
  <2> HIDE DEF N
  <2> QED
    BY <1>2, <1>3, Climb
<1> QED
  BY <1>1, <1>4

\* A loop over a set, which takes the elements of what is left in the order
\* of pick; h is what it makes of each subset.
IsSetLoop(S, V, F, pick) ==
  /\ IsFiniteSet(S) /\ F \in [S \X V -> V]
  /\ \A T \in SUBSET S : T # {} => pick[T] \in T

IsTable(S, V, b, F, pick, h) ==
  /\ h \in [SUBSET S -> V] /\ h[{}] = b
  /\ \A T \in SUBSET S : T # {} => h[T] = F[<<pick[T], h[T \ {pick[T]}]>>]

LEMMA SetLoopHasTable ==
  ASSUME NEW S, NEW V, NEW b \in V, NEW F, NEW pick, IsSetLoop(S, V, F, pick)
  PROVE  \E h : IsTable(S, V, b, F, pick, h)
<1> DEFINE Small(m) == {T \in SUBSET S : Cardinality(T) <= m}
           Upto(m) == \E h \in [Small(m) -> V] : h[{}] = b /\ \A T \in Small(m) :
                        T # {} => h[T] = F[<<pick[T], h[T \ {pick[T]}]>>]
           N == {m \in Nat : Upto(m)}
<1>1. \A T \in SUBSET S : /\ IsFiniteSet(T) /\ Cardinality(T) \in Nat /\ (Cardinality(T) = 0 <=> T = {})
                          /\ Cardinality(T) <= Cardinality(S)
  BY FS_Subset, FS_CardinalityType, FS_EmptySet DEF IsSetLoop
<1>2. \A T \in SUBSET S : T # {} =>
        /\ pick[T] \in T /\ pick[T] \in S
        /\ T \ {pick[T]} \in SUBSET S /\ Cardinality(T \ {pick[T]}) = Cardinality(T) - 1
  BY <1>1, FS_RemoveElement DEF IsSetLoop
<1>3. 0 \in N
  <2> DEFINE h == [T \in Small(0) |-> b]
  <2>1. \A T \in Small(0) : T = {}
    BY <1>1
  <2>2. {} \in Small(0)
    BY <1>1
  <2>3. h \in [Small(0) -> V] /\ h[{}] = b
    BY <2>2
  <2> HIDE DEF h, Small
  <2> QED
    BY <2>1, <2>3
<1>4. ASSUME NEW m \in Nat, m \in N PROVE m + 1 \in N
  <2>1. PICK g \in [Small(m) -> V] : g[{}] = b /\ \A T \in Small(m) :
               T # {} => g[T] = F[<<pick[T], g[T \ {pick[T]}]>>]
    BY <1>4
  <2> DEFINE Rest(T) == T \ {pick[T]}
             h == [T \in Small(m + 1) |-> IF T \in Small(m) THEN g[T] ELSE F[<<pick[T], g[Rest(T)]>>]]
  <2>2. \A T \in Small(m + 1) : T # {} => Rest(T) \in Small(m) /\ pick[T] \in S
    BY <1>1, <1>2
  <2>3. {} \in Small(m) /\ Small(m) \subseteq Small(m + 1)
    BY <1>1
  <2> HIDE DEF Small, Rest
  <2>4. \A T \in Small(m + 1) : T # {} => F[<<pick[T], g[Rest(T)]>>] \in V
    <3>1. \A x \in S, v \in V : F[<<x, v>>] \in V
      BY DEF IsSetLoop
    <3> QED
      BY <2>2, <3>1
  <2>5. h \in [Small(m + 1) -> V]
    <3>1. \A T \in Small(m + 1) : (IF T \in Small(m) THEN g[T] ELSE F[<<pick[T], g[Rest(T)]>>]) \in V
      BY <2>3, <2>4
    <3> QED
      BY <3>1
  <2>6. \A T \in Small(m) : h[T] = g[T]
    BY <2>3
  <2>7. h[{}] = b
    BY <2>1, <2>3, <2>6
  <2>8. ASSUME NEW T \in Small(m + 1), T # {} PROVE h[T] = F[<<pick[T], h[Rest(T)]>>]
    <3>1. h[Rest(T)] = g[Rest(T)]
      BY <2>2, <2>6, <2>8
    <3>2. h[T] = F[<<pick[T], g[Rest(T)]>>]
      BY <2>1, <2>8 DEF Rest
    <3> QED
      BY <3>1, <3>2
  <2> HIDE DEF h
  <2>9. Upto(m + 1)
    BY <2>5, <2>7, <2>8 DEF Rest
  <2> HIDE DEF Upto
  <2> QED
    BY <2>9
<1>5. Cardinality(S) \in N
  <2> HIDE DEF N
  <2>1. Nat \subseteq N
    BY <1>3, <1>4, Climb
  <2> QED
    BY <1>1, <2>1
<1>6. Small(Cardinality(S)) = SUBSET S
  BY <1>1
<1> HIDE DEF Small
<1> QED
  BY <1>5, <1>6 DEF IsTable

LEMMA Least ==
  ASSUME NEW S, IsFiniteSet(S), NEW f \in [S -> Int]
  PROVE  \A T \in SUBSET S : T # {} => \E x \in T : \A y \in T : f[x] <= f[y]
<1> DEFINE pick == [T \in SUBSET S |-> CHOOSE x \in T : TRUE]
           A == {T \in SUBSET S : T # {} => \E x \in T : \A y \in T : f[x] <= f[y]}
<1>1. \A T \in SUBSET S : T # {} => pick[T] \in T
  OBVIOUS
<1> HIDE DEF pick
<1>2. ASSUME NEW T \in SUBSET S, T # {}, T \ {pick[T]} \in A PROVE T \in A
  <2>1. pick[T] \in T
    BY <1>1, <1>2
  <2>2. CASE T \ {pick[T]} = {}
    <3>1. \A y \in T : y = pick[T]
      BY <2>2
    <3>2. f[pick[T]] \in Int
      BY <2>1
    <3> QED
      BY <2>1, <3>1, <3>2
  <2>3. CASE T \ {pick[T]} # {}
    <3>1. PICK x \in T \ {pick[T]} : \A y \in T \ {pick[T]} : f[x] <= f[y]
      BY <1>2, <2>3
    <3>2. f[x] \in Int /\ f[pick[T]] \in Int /\ \A y \in T : f[y] \in Int
      BY <2>1
    <3>3. CASE f[x] <= f[pick[T]]
      BY <3>1, <3>3
    <3>4. CASE f[pick[T]] < f[x]
      <4>1. \A y \in T : f[pick[T]] <= f[y]
        BY <3>1, <3>2, <3>4
      <4> QED
        BY <2>1, <4>1
    <3> QED
      BY <3>2, <3>3, <3>4
  <2> QED
    BY <2>2, <2>3
<1>3. {} \in A
  OBVIOUS
<1>4. SUBSET S \subseteq A
  <2> HIDE DEF A
  <2> QED
    BY <1>1, <1>2, <1>3, ClimbSets
<1> QED
  BY <1>4

\* The elements of a finite set in descending order of f.
Descends(q, T, f) ==
  /\ q \in [1 .. Cardinality(T) -> T]
  /\ \A i, j \in 1 .. Cardinality(T) : i # j => q[i] # q[j]
  /\ \A i, j \in 1 .. Cardinality(T) : i < j => f[q[i]] >= f[q[j]]

LEMMA CanSort ==
  ASSUME NEW S, IsFiniteSet(S), NEW f \in [S -> Int]
  PROVE  \E q : Descends(q, S, f)
<1> DEFINE pick == [T \in SUBSET S |-> CHOOSE x \in T : \A y \in T : f[x] <= f[y]]
           A == {T \in SUBSET S : \E q : Descends(q, T, f)}
<1>1. ASSUME NEW T \in SUBSET S, T # {} PROVE pick[T] \in T /\ \A y \in T : f[pick[T]] <= f[y]
  <2>1. \E x \in T : \A y \in T : f[x] <= f[y]
    BY <1>1, Least
  <2> QED
    BY <2>1
<1> HIDE DEF pick
<1>2. ASSUME NEW T \in SUBSET S, T # {}, T \ {pick[T]} \in A PROVE T \in A
  <2>1. PICK x \in T : x = pick[T]
    BY <1>1, <1>2
  <2>2. PICK U : U = T \ {x}
    OBVIOUS
  <2>3. PICK n \in Nat : Cardinality(U) = n /\ Cardinality(T) = n + 1
    <3>1. IsFiniteSet(T) /\ Cardinality(T) \in Nat
      BY FS_Subset, FS_CardinalityType
    <3>2. IsFiniteSet(U) /\ Cardinality(U) = Cardinality(T) - 1 /\ Cardinality(U) \in Nat
      BY <2>2, <3>1, FS_RemoveElement, FS_CardinalityType
    <3> QED
      BY <3>1, <3>2
  <2>4. PICK q : Descends(q, U, f)
    BY <1>2, <2>1, <2>2
  <2>5. /\ q \in [1 .. n -> U] /\ \A i, j \in 1 .. n : i # j => q[i] # q[j]
        /\ \A i, j \in 1 .. n : i < j => f[q[i]] >= f[q[j]]
    BY <2>3, <2>4 DEF Descends
  <2> DEFINE r == [i \in 1 .. n + 1 |-> IF i = n + 1 THEN x ELSE q[i]]
  <2>6. \A i \in 1 .. n + 1 : i = n + 1 \/ i \in 1 .. n
    OBVIOUS
  <2>7. \A i \in 1 .. n : r[i] = q[i] /\ q[i] \in U
    BY <2>5
  <2>8. r[n + 1] = x
    OBVIOUS
  <2>9. r \in [1 .. n + 1 -> T]
    BY <2>2, <2>5, <2>6
  <2> HIDE DEF r
  <2>10. \A i, j \in 1 .. n + 1 : i # j => r[i] # r[j]
    BY <2>2, <2>5, <2>6, <2>7, <2>8
  <2>11. ASSUME NEW i \in 1 .. n + 1, NEW j \in 1 .. n + 1, i < j PROVE f[r[i]] >= f[r[j]]
    <3>1. i \in 1 .. n
      BY <2>11
    <3>2. CASE j = n + 1
      <4>1. r[i] \in T /\ f[r[i]] \in Int /\ f[x] \in Int
        BY <2>2, <2>7, <3>1
      <4>2. f[x] <= f[r[i]]
        BY <1>1, <1>2, <2>1, <4>1
      <4> QED
        BY <2>8, <3>2, <4>1, <4>2
    <3>3. CASE j \in 1 .. n
      BY <2>5, <2>7, <2>11, <3>1, <3>3
    <3> QED
      BY <2>6, <3>2, <3>3
  <2>12. Descends(r, T, f)
    BY <2>3, <2>9, <2>10, <2>11 DEF Descends
  <2> QED
    BY <2>12
<1>3. {} \in A
  <2>1. Descends(<<>>, {}, f)
    BY FS_EmptySet DEF Descends
  <2> QED
    BY <2>1
<1>4. SUBSET S \subseteq A
  <2> HIDE DEF A
  <2> QED
    BY <1>1, <1>2, <1>3, ClimbSets
<1> QED
  BY <1>4

\* A loop that runs from 0 to L.
LEMMA ClimbTo ==
  ASSUME NEW L \in Nat, NEW A, 0 \in A, \A n \in 1 .. L : n - 1 \in A => n \in A
  PROVE  0 .. L \subseteq A
<1> DEFINE N == {n \in Nat : n <= L => n \in A}
<1>1. 0 \in N
  OBVIOUS
<1>2. ASSUME NEW n \in Nat, n \in N PROVE n + 1 \in N
  <2> SUFFICES ASSUME n + 1 <= L PROVE n + 1 \in A
    OBVIOUS
  <2>1. n + 1 \in 1 .. L /\ (n + 1) - 1 = n /\ n \in A
    BY <1>2
  <2> QED
    BY <2>1
<1>3. Nat \subseteq N
  <2> HIDE DEF N
  <2> QED
    BY <1>1, <1>2, Climb
<1> QED
  BY <1>3

\* The largest of some places of a list.
LEMMA LargestPlace ==
  ASSUME NEW L \in Nat, NEW T \in SUBSET (1 .. L), T # {}
  PROVE  \E x \in T : \A y \in T : x >= y
<1> DEFINE f == [i \in 1 .. L |-> -i]
<1>1. f \in [1 .. L -> Int] /\ IsFiniteSet(1 .. L)
  BY FS_Interval
<1>2. PICK x \in T : \A y \in T : f[x] <= f[y]
  <2> HIDE DEF f
  <2> QED
    BY <1>1, Least
<1>3. \A y \in T : f[y] = -y
  OBVIOUS
<1> HIDE DEF f
<1>4. \A y \in T : y \in Int /\ -x <= -y
  BY <1>2, <1>3
<1>5. \A y \in T : x >= y
  BY <1>4
<1> QED
  BY <1>5

=============================================================================
