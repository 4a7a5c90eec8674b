-------------------------- MODULE RiskDeskProofs --------------------------
(***************************************************************************)
(* The margin arithmetic and the risk desk, for any stocks, prices,        *)
(* percentages, spread and charges.  A market value is a sum over the      *)
(* stocks, of which a fill moves one term; the plan, the forced orders,    *)
(* the sweep and the closing are loops over lists, whose histories carry   *)
(* what each of them keeps.  The plan's history says that its orders,      *)
(* filled at the marks, leave the exposure the plan counts with, and that  *)
(* a short it has passed is gone unless the buffer is restored.            *)
(***************************************************************************)
EXTENDS RiskDesk, Induction, SequenceTheorems

-----------------------------------------------------------------------------
(* Totals. *)

Pick == [T \in SUBSET Stocks |-> CHOOSE x \in T : TRUE]

\* What a total adds up to, subset by subset.
IsTotal(f, h) ==
  /\ h \in [SUBSET Stocks -> Int] /\ h[{}] = 0
  /\ \A T \in SUBSET Stocks : T # {} => h[T] = f[Pick[T]] + h[T \ {Pick[T]}]

LEMMA Picked == IsFiniteSet(Stocks) /\ \A T \in SUBSET Stocks : T # {} => Pick[T] \in T
BY MarginAssumption DEF Pick

LEMMA TotalIsTotal ==
  ASSUME NEW f \in [Stocks -> Int]
  PROVE  \E h : IsTotal(f, h) /\ Total(f) = h[Stocks]
<1> DEFINE F == [x \in Stocks \X Int |-> f[x[1]] + x[2]]
           body(h) == [T \in SUBSET Stocks |->
                         IF T = {} THEN 0 ELSE f[CHOOSE x \in T : TRUE] + h[T \ {CHOOSE x \in T : TRUE}]]
           iter == CHOOSE h : h = body(h)
<1>1. IsSetLoop(Stocks, Int, F, Pick)
  BY Picked DEF IsSetLoop
<1>2. PICK h : IsTable(Stocks, Int, 0, F, Pick, h)
  <2> HIDE DEF F
  <2> QED
    BY <1>1, SetLoopHasTable
<1>3. IsTotal(f, h)
  <2>1. ASSUME NEW T \in SUBSET Stocks, T # {} PROVE h[T] = f[Pick[T]] + h[T \ {Pick[T]}]
    <3>1. Pick[T] \in Stocks /\ h[T \ {Pick[T]}] \in Int
      BY <1>2, <2>1, Picked DEF IsTable
    <3>2. h[T] = F[<<Pick[T], h[T \ {Pick[T]}]>>]
      <4> HIDE DEF F
      <4> QED
        BY <1>2, <2>1 DEF IsTable
    <3> QED
      BY <3>1, <3>2
  <2> HIDE DEF F
  <2> QED
    BY <1>2, <2>1 DEF IsTable, IsTotal
<1>4. h = body(h)
  <2>1. h = [T \in SUBSET Stocks |-> h[T]]
    BY <1>3 DEF IsTotal
  <2>2. \A T \in SUBSET Stocks :
          h[T] = IF T = {} THEN 0 ELSE f[CHOOSE x \in T : TRUE] + h[T \ {CHOOSE x \in T : TRUE}]
    BY <1>3 DEF IsTotal, Pick
  <2> QED
    BY <2>1, <2>2
<1>5. iter = body(iter)
  <2> HIDE DEF body
  <2> QED
    BY <1>4
<1>6. Total(f) = iter[Stocks]
  BY DEF Total, MapThenSumSet, MapThenFoldSet
<1>7. IsTotal(f, iter)
  <2> HIDE DEF iter
  <2>1. iter[{}] = 0 /\ \A T \in SUBSET Stocks : T # {} => iter[T] = f[Pick[T]] + iter[T \ {Pick[T]}]
    BY <1>5 DEF Pick
  <2> DEFINE A == {T \in SUBSET Stocks : iter[T] \in Int}
  <2>2. {} \in A
    BY <2>1
  <2>3. ASSUME NEW T \in SUBSET Stocks, T # {}, T \ {Pick[T]} \in A PROVE T \in A
    <3>1. f[Pick[T]] \in Int
      BY <2>3, Picked
    <3>2. iter[T \ {Pick[T]}] \in Int
      BY <2>3
    <3>3. iter[T] = f[Pick[T]] + iter[T \ {Pick[T]}]
      BY <2>1, <2>3
    <3>4. iter[T] \in Int
      BY <3>1, <3>2, <3>3
    <3> QED
      BY <3>4
  <2>4. SUBSET Stocks \subseteq A
    <3> HIDE DEF A
    <3> QED
      BY <2>2, <2>3, Picked, ClimbSets
  <2>5. iter = [T \in SUBSET Stocks |-> iter[T]]
    <3>1. iter = [T \in SUBSET Stocks |-> body(iter)[T]]
      BY <1>5
    <3> QED
      BY <1>5, <3>1
  <2>6. \A T \in SUBSET Stocks : iter[T] \in Int
    BY <2>4
  <2> QED
    BY <2>1, <2>5, <2>6 DEF IsTotal
<1> HIDE DEF iter
<1> QED
  BY <1>6, <1>7

\* One term more or less.
LEMMA TotalChange ==
  ASSUME NEW f \in [Stocks -> Int], NEW g \in [Stocks -> Int], NEW s \in Stocks,
         \A t \in Stocks : t # s => g[t] = f[t]
  PROVE  Total(f) \in Int /\ Total(g) \in Int /\ Total(g) = Total(f) + (g[s] - f[s])
<1>1. PICK h : IsTotal(f, h) /\ Total(f) = h[Stocks]
  BY TotalIsTotal
<1>2. PICK k : IsTotal(g, k) /\ Total(g) = k[Stocks]
  BY TotalIsTotal
<1>3. PICK d \in Int : d = g[s] - f[s]
  OBVIOUS
<1> DEFINE A == {T \in SUBSET Stocks : k[T] = h[T] + (IF s \in T THEN d ELSE 0)}
<1>4. {} \in A
  BY <1>1, <1>2 DEF IsTotal
<1>5. ASSUME NEW T \in SUBSET Stocks, T # {}, T \ {Pick[T]} \in A PROVE T \in A
  <2>1. PICK x \in T : x = Pick[T]
    BY <1>5, Picked
  <2>2. h[T] = f[x] + h[T \ {x}] /\ k[T] = g[x] + k[T \ {x}]
    BY <1>1, <1>2, <1>5, <2>1 DEF IsTotal
  <2>3. k[T \ {x}] = h[T \ {x}] + (IF s \in T \ {x} THEN d ELSE 0)
    BY <1>5, <2>1
  <2>4. h[T \ {x}] \in Int /\ f[x] \in Int /\ g[x] \in Int
    BY <1>1 DEF IsTotal
  <2>5. CASE x = s
    <3>1. k[T] = g[s] + h[T \ {x}] /\ s \in T
      BY <2>2, <2>3, <2>4, <2>5
    <3>2. k[T] = h[T] + d
      BY <1>3, <2>2, <2>4, <2>5, <3>1
    <3> QED
      BY <3>1, <3>2
  <2>6. CASE x # s
    <3>1. g[x] = f[x] /\ (s \in T \ {x} <=> s \in T)
      BY <2>6
    <3>2. k[T] = h[T] + (IF s \in T THEN d ELSE 0)
      BY <2>2, <2>3, <2>4, <3>1
    <3> QED
      BY <3>2
  <2> QED
    BY <2>5, <2>6
<1>6. SUBSET Stocks \subseteq A
  <2> HIDE DEF A
  <2> QED
    BY <1>4, <1>5, Picked, ClimbSets
<1>7. k[Stocks] = h[Stocks] + d
  BY <1>6
<1>8. h[Stocks] \in Int /\ k[Stocks] \in Int
  BY <1>1, <1>2 DEF IsTotal
<1> QED
  BY <1>1, <1>2, <1>3, <1>7, <1>8

\* Nothing adds up to nothing, and no term is more than the total.
LEMMA TotalBounds ==
  ASSUME NEW f \in [Stocks -> Int]
  PROVE  /\ Total(f) \in Int
         /\ (\A t \in Stocks : f[t] = 0) => Total(f) = 0
         /\ (\A t \in Stocks : f[t] >= 0) => Total(f) >= 0 /\ \A s \in Stocks : f[s] <= Total(f)
<1>1. PICK h : IsTotal(f, h) /\ Total(f) = h[Stocks]
  BY TotalIsTotal
<1>2. h[{}] = 0 /\ \A T \in SUBSET Stocks : h[T] \in Int
  BY <1>1 DEF IsTotal
<1>3. ASSUME \A t \in Stocks : f[t] = 0 PROVE h[Stocks] = 0
  <2> DEFINE A == {T \in SUBSET Stocks : h[T] = 0}
  <2>1. {} \in A
    BY <1>2
  <2>2. ASSUME NEW T \in SUBSET Stocks, T # {}, T \ {Pick[T]} \in A PROVE T \in A
    <3>1. f[Pick[T]] = 0
      BY <1>3, <2>2, Picked
    <3>2. h[T \ {Pick[T]}] = 0 /\ h[T] = f[Pick[T]] + h[T \ {Pick[T]}]
      BY <1>1, <2>2 DEF IsTotal
    <3> QED
      BY <3>1, <3>2
  <2>3. SUBSET Stocks \subseteq A
    <3> HIDE DEF A
    <3> QED
      BY <2>1, <2>2, Picked, ClimbSets
  <2> QED
    BY <2>3
<1>4. ASSUME \A t \in Stocks : f[t] >= 0 PROVE h[Stocks] >= 0 /\ \A s \in Stocks : f[s] <= h[Stocks]
  <2> DEFINE A == {T \in SUBSET Stocks : h[T] >= 0 /\ \A s \in T : f[s] <= h[T]}
  <2>1. {} \in A
    BY <1>2
  <2>2. ASSUME NEW T \in SUBSET Stocks, T # {}, T \ {Pick[T]} \in A PROVE T \in A
    <3>1. PICK x \in T : x = Pick[T]
      BY <2>2, Picked
    <3>2. h[T] = f[x] + h[T \ {x}]
      BY <1>1, <2>2, <3>1 DEF IsTotal
    <3>3. h[T \ {x}] >= 0 /\ \A s \in T \ {x} : f[s] <= h[T \ {x}]
      BY <2>2, <3>1
    <3>4. f[x] \in Int /\ f[x] >= 0 /\ h[T \ {x}] \in Int /\ \A s \in T : f[s] \in Int
      BY <1>2, <1>4
    <3>5. h[T] >= 0 /\ h[T] >= f[x] /\ h[T] >= h[T \ {x}] /\ h[T] \in Int
      BY <3>2, <3>3, <3>4
    <3>6. \A s \in T : f[s] <= h[T]
      BY <3>3, <3>4, <3>5
    <3> QED
      BY <3>5, <3>6
  <2>3. SUBSET Stocks \subseteq A
    <3> HIDE DEF A
    <3> QED
      BY <2>1, <2>2, Picked, ClimbSets
  <2> QED
    BY <2>3
<1> QED
  BY <1>1, <1>2, <1>3, <1>4

-----------------------------------------------------------------------------
(* Books. *)

Books == [cash : Int, qty : [Stocks -> Int], avg : [Stocks -> Int]]
Marks == [Stocks -> Nat \ {0}]
Sides == {"BUY", "SELL"}

LEMMA Signs ==
  /\ \A side : Sign(side) \in {1, -1}
  /\ \A n \in Int : /\ ShortOf(n) \in Nat /\ LongOf(n) \in Nat /\ Abs(n) \in Nat
                    /\ LongOf(n) - ShortOf(n) = n
                    /\ (ShortOf(n) = 0 <=> n >= 0) /\ (LongOf(n) = 0 <=> n <= 0)
BY DEF Sign, ShortOf, LongOf, Abs

LEMMA AvgIsWhole ==
  ASSUME NEW old \in Int, NEW avg \in Int, NEW side, NEW n \in Nat, NEW price \in Int
  PROVE  AvgAfter(old, avg, side, n, price) \in Int
<1>1. \A k \in Int, d \in Int : d > 0 => k \div d \in Int
  OBVIOUS
<1>2. \A k \in Int, d \in Nat : d > 0 => DivHalfUp(k, d) \in Int
  BY <1>1 DEF DivHalfUp
<1>3. Abs(old) \in Nat /\ Abs(old) + n \in Nat /\ (old # 0 \/ n # 0 => Abs(old) + n > 0)
  BY DEF Abs
<1>4. avg * Abs(old) + price * n \in Int
  BY <1>3
<1>5. old # 0 \/ n # 0 => DivHalfUp(avg * Abs(old) + price * n, Abs(old) + n) \in Int
  BY <1>2, <1>3, <1>4
<1>6. old = 0 /\ n = 0 => old + Sign(side) * n = 0
  BY Signs
<1> QED
  BY <1>5, <1>6 DEF AvgAfter

LEMMA FillCash ==
  ASSUME NEW b, NEW s, NEW side, NEW n, NEW price, NEW fees
  PROVE  Fill(b, s, side, n, price, fees).cash = b.cash - Sign(side) * price * n - fees
BY Zenon DEF Fill

LEMMA FillElsewhere ==
  ASSUME NEW b \in Books, NEW s, NEW side, NEW n, NEW price, NEW fees, NEW t \in Stocks, t # s
  PROVE  Fill(b, s, side, n, price, fees).qty[t] = b.qty[t]
<1>1. b.qty \in [Stocks -> Int]
  BY DEF Books
<1>2. Fill(b, s, side, n, price, fees).qty = [b.qty EXCEPT ![s] = b.qty[s] + Sign(side) * n]
  BY DEF Fill
<1> QED
  BY <1>1, <1>2

LEMMA FillBooks ==
  ASSUME NEW b \in Books, NEW s \in Stocks, NEW side, NEW n \in Nat, NEW price \in Int, NEW fees \in Int
  PROVE  /\ Fill(b, s, side, n, price, fees) \in Books
         /\ Fill(b, s, side, n, price, fees).qty[s] = b.qty[s] + Sign(side) * n
         /\ \A t \in Stocks : t # s => Fill(b, s, side, n, price, fees).qty[t] = b.qty[t]
<1>1. b.cash \in Int /\ b.qty \in [Stocks -> Int] /\ b.avg \in [Stocks -> Int]
  BY DEF Books
<1>2. PICK sign \in {1, -1} : sign = Sign(side)
  BY Signs
<1>3. b.cash - sign * price * n - fees \in Int /\ b.qty[s] + sign * n \in Int
  BY <1>1, <1>2
<1>4. AvgAfter(b.qty[s], b.avg[s], side, n, price) \in Int
  BY <1>1, AvgIsWhole
<1> DEFINE c == [cash |-> b.cash - sign * price * n - fees,
                 qty  |-> [b.qty EXCEPT ![s] = @ + sign * n],
                 avg  |-> [b.avg EXCEPT ![s] = AvgAfter(b.qty[s], @, side, n, price)]]
<1>5. Fill(b, s, side, n, price, fees) = c
  BY <1>2 DEF Fill
<1>6. c.qty = [b.qty EXCEPT ![s] = b.qty[s] + sign * n]
  OBVIOUS
<1>7. c.avg = [b.avg EXCEPT ![s] = AvgAfter(b.qty[s], b.avg[s], side, n, price)]
  OBVIOUS
<1>8. c.avg \in [Stocks -> Int]
  BY <1>1, <1>4, <1>7
<1>9. c.qty \in [Stocks -> Int]
  BY <1>1, <1>3, <1>6
<1>10. c \in Books
  BY <1>3, <1>8, <1>9 DEF Books
<1>11. c.qty[s] = b.qty[s] + sign * n /\ \A t \in Stocks : t # s => c.qty[t] = b.qty[t]
  BY <1>1, <1>6
<1> HIDE DEF c
<1> QED
  BY <1>2, <1>5, <1>6, <1>10, <1>11

LongTerms(b, m)  == [s \in Stocks |-> m[s] * LongOf(b.qty[s])]
ShortTerms(b, m) == [s \in Stocks |-> m[s] * ShortOf(b.qty[s])]

LEMMA Terms ==
  ASSUME NEW b \in Books, NEW m \in Marks
  PROVE  /\ LongTerms(b, m) \in [Stocks -> Int] /\ ShortTerms(b, m) \in [Stocks -> Int]
         /\ \A s \in Stocks : LongTerms(b, m)[s] = m[s] * LongOf(b.qty[s]) /\ LongTerms(b, m)[s] >= 0
         /\ \A s \in Stocks : ShortTerms(b, m)[s] = m[s] * ShortOf(b.qty[s]) /\ ShortTerms(b, m)[s] >= 0
         /\ LongMV(b, m) = Total(LongTerms(b, m)) /\ ShortMV(b, m) = Total(ShortTerms(b, m))
<1>1. \A s \in Stocks : b.qty[s] \in Int /\ m[s] \in Nat
  BY DEF Books, Marks
<1>2. \A s \in Stocks : LongOf(b.qty[s]) \in Nat /\ ShortOf(b.qty[s]) \in Nat
  BY <1>1, Signs
<1>3. \A x, y \in Nat : x * y \in Int /\ x * y >= 0
  OBVIOUS
<1>4. \A s \in Stocks : /\ m[s] * LongOf(b.qty[s]) \in Int /\ m[s] * LongOf(b.qty[s]) >= 0
                        /\ m[s] * ShortOf(b.qty[s]) \in Int /\ m[s] * ShortOf(b.qty[s]) >= 0
  BY <1>1, <1>2, <1>3
<1>5. \A s \in Stocks : /\ LongTerms(b, m)[s] = m[s] * LongOf(b.qty[s])
                        /\ ShortTerms(b, m)[s] = m[s] * ShortOf(b.qty[s])
  BY DEF LongTerms, ShortTerms
<1>6. LongTerms(b, m) \in [Stocks -> Int] /\ ShortTerms(b, m) \in [Stocks -> Int]
  BY <1>4 DEF LongTerms, ShortTerms
<1>7. LongMV(b, m) = Total(LongTerms(b, m)) /\ ShortMV(b, m) = Total(ShortTerms(b, m))
  BY DEF LongMV, ShortMV, LongTerms, ShortTerms
<1> QED
  BY <1>4, <1>5, <1>6, <1>7

LEMMA MarketValues ==
  ASSUME NEW b \in Books, NEW m \in Marks
  PROVE  /\ LongMV(b, m) \in Nat /\ ShortMV(b, m) \in Nat
         /\ Equity(b, m) \in Int /\ Available(b, m) \in Int
         /\ ShortMV(b, m) = 0 <=> Shorts(b) = {}
         /\ \A s \in Stocks : m[s] * ShortOf(b.qty[s]) <= ShortMV(b, m)
<1>1. LongMV(b, m) \in Int /\ LongMV(b, m) >= 0
  BY Terms, TotalBounds
<1>2. ShortMV(b, m) \in Int /\ ShortMV(b, m) >= 0 /\ \A s \in Stocks : ShortTerms(b, m)[s] <= ShortMV(b, m)
  BY Terms, TotalBounds
<1>3. b.cash \in Int /\ InitialPct \in Nat
  BY MarginAssumption DEF Books
<1>4. \A s \in Stocks : /\ b.qty[s] \in Int /\ m[s] \in Nat /\ m[s] > 0
                        /\ ShortOf(b.qty[s]) \in Nat /\ (ShortOf(b.qty[s]) = 0 <=> b.qty[s] >= 0)
  BY Signs DEF Books, Marks
<1>5. ASSUME Shorts(b) = {} PROVE ShortMV(b, m) = 0
  <2>1. \A s \in Stocks : ShortOf(b.qty[s]) = 0
    BY <1>4, <1>5 DEF Shorts
  <2>2. \A s \in Stocks : ShortTerms(b, m)[s] = 0
    BY <1>4, <2>1, Terms
  <2> QED
    BY <2>2, Terms, TotalBounds
<1>6. ASSUME ShortMV(b, m) = 0 PROVE Shorts(b) = {}
  <2>1. \A s \in Stocks : m[s] * ShortOf(b.qty[s]) <= 0
    BY <1>2, <1>6, Terms
  <2>2. \A x, y \in Nat : x > 0 /\ x * y <= 0 => y = 0
    OBVIOUS
  <2>3. \A s \in Stocks : b.qty[s] >= 0
    BY <1>4, <2>1, <2>2
  <2> QED
    BY <1>4, <2>3 DEF Shorts
<1>7. Equity(b, m) \in Int
  BY <1>1, <1>2, <1>3 DEF Equity
<1>8. Available(b, m) \in Int
  BY <1>2, <1>3 DEF Available
<1>9. \A s \in Stocks : m[s] * ShortOf(b.qty[s]) <= ShortMV(b, m)
  BY <1>2, Terms
<1> QED
  BY <1>1, <1>2, <1>5, <1>6, <1>7, <1>8, <1>9

\* What a fill moves: one stock's term of each market value.
LEMMA FillMoves ==
  ASSUME NEW b \in Books, NEW c \in Books, NEW m \in Marks, NEW s \in Stocks,
         \A t \in Stocks : t # s => c.qty[t] = b.qty[t]
  PROVE  /\ LongMV(c, m) = LongMV(b, m) + m[s] * (LongOf(c.qty[s]) - LongOf(b.qty[s]))
         /\ ShortMV(c, m) = ShortMV(b, m) + m[s] * (ShortOf(c.qty[s]) - ShortOf(b.qty[s]))
<1>1. \A t \in Stocks : t # s => LongTerms(c, m)[t] = LongTerms(b, m)[t] /\ ShortTerms(c, m)[t] = ShortTerms(b, m)[t]
  BY Terms
<1>2. LongMV(c, m) = LongMV(b, m) + (LongTerms(c, m)[s] - LongTerms(b, m)[s])
  BY <1>1, Terms, TotalChange
<1>3. ShortMV(c, m) = ShortMV(b, m) + (ShortTerms(c, m)[s] - ShortTerms(b, m)[s])
  BY <1>1, Terms, TotalChange
<1>4. \A x, y, z \in Int : x * y - x * z = x * (y - z)
  OBVIOUS
<1>5. m[s] \in Int /\ LongOf(c.qty[s]) \in Int /\ LongOf(b.qty[s]) \in Int
      /\ ShortOf(c.qty[s]) \in Int /\ ShortOf(b.qty[s]) \in Int
  BY Signs DEF Books, Marks
<1>6. LongTerms(c, m)[s] - LongTerms(b, m)[s] = m[s] * (LongOf(c.qty[s]) - LongOf(b.qty[s]))
  BY <1>4, <1>5, Terms
<1>7. ShortTerms(c, m)[s] - ShortTerms(b, m)[s] = m[s] * (ShortOf(c.qty[s]) - ShortOf(b.qty[s]))
  BY <1>4, <1>5, Terms
<1> QED
  BY <1>2, <1>3, <1>6, <1>7

LEMMA Projected ==
  ASSUME NEW b \in Books, NEW m \in Marks, NEW s \in Stocks, NEW side, NEW n \in Nat,
         NEW price \in Int, NEW fees \in Int
  PROVE  ProjectAvailable(b, m, s, side, n, price, fees) = Available(Fill(b, s, side, n, price, fees), m)
<1>1. PICK c \in Books : c = Fill(b, s, side, n, price, fees)
  BY FillBooks
<1>2. /\ c.cash = b.cash - Sign(side) * price * n - fees /\ c.qty[s] = b.qty[s] + Sign(side) * n
      /\ \A t \in Stocks : t # s => c.qty[t] = b.qty[t]
  <2> DEFINE f == Fill(b, s, side, n, price, fees)
  <2>1. /\ f.cash = b.cash - Sign(side) * price * n - fees /\ f.qty[s] = b.qty[s] + Sign(side) * n
        /\ \A t \in Stocks : t # s => f.qty[t] = b.qty[t]
    BY FillBooks, FillCash
  <2> HIDE DEF f
  <2>2. c = f
    BY <1>1 DEF f
  <2> QED
    BY <2>1, <2>2
<1>3. ShortMV(c, m) = ShortMV(b, m) + m[s] * (ShortOf(c.qty[s]) - ShortOf(b.qty[s]))
  BY <1>2, FillMoves
<1> QED
  BY <1>1, <1>2, <1>3 DEF ProjectAvailable, Available

-----------------------------------------------------------------------------
(* Loops over lists. *)

LEMMA LastPlace ==
  ASSUME NEW L \in Nat
  PROVE  /\ \A T \in SUBSET (1 .. L) : T # {} => Max(T) \in T
         /\ \A n \in 1 .. L : /\ 1 .. n \in SUBSET (1 .. L) /\ 1 .. n # {}
                             /\ Max(1 .. n) = n /\ (1 .. n) \ {Max(1 .. n)} = 1 .. n - 1
<1>1. ASSUME NEW T \in SUBSET (1 .. L), T # {} PROVE Max(T) \in T /\ \A y \in T : Max(T) >= y
  <2>1. \E x \in T : \A y \in T : x >= y
    BY <1>1, LargestPlace
  <2> QED
    BY <2>1 DEF Max
<1>2. ASSUME NEW n \in 1 .. L
      PROVE  /\ 1 .. n \in SUBSET (1 .. L) /\ 1 .. n # {}
             /\ Max(1 .. n) = n /\ (1 .. n) \ {Max(1 .. n)} = 1 .. n - 1
  <2>1. 1 .. n \in SUBSET (1 .. L) /\ n \in 1 .. n
    OBVIOUS
  <2>2. Max(1 .. n) \in 1 .. n /\ Max(1 .. n) >= n
    BY <1>1, <2>1
  <2>3. Max(1 .. n) = n
    BY <2>2
  <2>4. (1 .. n) \ {n} = 1 .. n - 1
    OBVIOUS
  <2> QED
    BY <2>1, <2>3, <2>4
<1> QED
  BY <1>1, <1>2

\* What a fold makes of each set of places.
IsFold(L, V, b, F, h) ==
  /\ h \in [SUBSET (1 .. L) -> V] /\ h[{}] = b
  /\ \A T \in SUBSET (1 .. L) : T # {} => h[T] = F[<<Max(T), h[T \ {Max(T)}]>>]

LEMMA ListHasTable ==
  ASSUME NEW L \in Nat, NEW V, NEW b \in V, NEW F \in [(1 .. L) \X V -> V]
  PROVE  \E h : IsFold(L, V, b, F, h)
<1> DEFINE pick == [T \in SUBSET (1 .. L) |-> Max(T)]
<1>1. IsFiniteSet(1 .. L)
  BY FS_Interval
<1>2. \A T \in SUBSET (1 .. L) : pick[T] = Max(T)
  OBVIOUS
<1> HIDE DEF pick
<1>3. IsSetLoop(1 .. L, V, F, pick)
  <2>1. \A T \in SUBSET (1 .. L) : T # {} => Max(T) \in T
    BY LastPlace
  <2>2. \A T \in SUBSET (1 .. L) : T # {} => pick[T] \in T
    BY <1>2, <2>1, Zenon
  <2> QED
    BY <1>1, <2>2 DEF IsSetLoop
<1>4. PICK h : IsTable(1 .. L, V, b, F, pick, h)
  BY <1>3, SetLoopHasTable
<1>5. \A T \in SUBSET (1 .. L) : T # {} => h[T] = F[<<Max(T), h[T \ {Max(T)}]>>]
  BY <1>2, <1>4, Zenon DEF IsTable
<1> QED
  BY <1>4, <1>5, Zenon DEF IsTable, IsFold

Orders == [s : Stocks, n : Nat \ {0}]
Works  == [book : Books, rest : Seq(Orders)]

LEMMA DeskFill ==
  ASSUME px \in Marks, NEW b \in Books, NEW s \in Stocks, NEW side, NEW n \in Nat \ {0}
  PROVE  /\ Filled(b, s, side, n) \in Books
         /\ Filled(b, s, side, n).qty[s] = b.qty[s] + Sign(side) * n
         /\ \A t \in Stocks : t # s => Filled(b, s, side, n).qty[t] = b.qty[t]
<1>1. FillPrice(s, side) \in Int
  BY Signs, DeskAssumption DEF FillPrice, Marks
<1>2. Charge * n \in Int
  BY DeskAssumption
<1>3. PICK price \in Int : price = FillPrice(s, side)
  BY <1>1
<1>4. PICK fees \in Int : fees = Charge * n
  BY <1>2
<1> DEFINE c == Fill(b, s, side, n, price, fees)
<1>5. Filled(b, s, side, n) = c
  <2>1. Filled(b, s, side, n) = Fill(b, s, side, n, FillPrice(s, side), Charge * n)
    BY Zenon DEF Filled
  <2> QED
    BY <1>3, <1>4, <2>1, Zenon
<1>6. c \in Books /\ c.qty[s] = b.qty[s] + Sign(side) * n /\ \A t \in Stocks : t # s => c.qty[t] = b.qty[t]
  <2>1. PICK k \in Nat : k = n
    OBVIOUS
  <2> DEFINE d == Fill(b, s, side, k, price, fees)
  <2>2. d \in Books
    BY FillBooks
  <2>3. d.qty[s] = b.qty[s] + Sign(side) * k
    BY FillBooks
  <2>4. \A t \in Stocks : t # s => d.qty[t] = b.qty[t]
    BY FillElsewhere
  <2>5. d = c
    BY <2>1
  <2> HIDE DEF d
  <2> QED
    BY <2>1, <2>2, <2>3, <2>4, <2>5
<1> HIDE DEF c
<1> QED
  BY <1>5, <1>6

LEMMA CoverLegWorks ==
  ASSUME px \in Marks, NEW acc \in Works, NEW o \in Orders
  PROVE  /\ CoverLeg(acc, o) \in Works
         /\ CoverLeg(acc, o).book = acc.book \/ CoverLeg(acc, o).book = Filled(acc.book, o.s, "BUY", o.n)
<1>1. acc.book \in Books /\ acc.rest \in Seq(Orders) /\ o.s \in Stocks /\ o.n \in Nat \ {0}
  BY DEF Works, Orders
<1>2. Append(acc.rest, o) \in Seq(Orders)
  BY <1>1
<1>3. Filled(acc.book, o.s, "BUY", o.n) \in Books
  BY <1>1, DeskFill
<1>4. acc = [book |-> acc.book, rest |-> acc.rest]
  BY DEF Works
<1>5. \/ CoverLeg(acc, o) = acc
      \/ CoverLeg(acc, o) = [book |-> acc.book, rest |-> Append(acc.rest, o)]
      \/ CoverLeg(acc, o) = [book |-> Filled(acc.book, o.s, "BUY", o.n), rest |-> acc.rest]
  BY <1>4 DEF CoverLeg
<1> QED
  BY <1>1, <1>2, <1>3, <1>5 DEF Works

LEMMA WorkLegWorks ==
  ASSUME px \in Marks, NEW acc \in Works, NEW o \in Orders
  PROVE  WorkLeg(acc, o) \in Works
<1>1. acc.book \in Books /\ acc.rest \in Seq(Orders) /\ o.s \in Stocks /\ o.n \in Nat \ {0}
  BY DEF Works, Orders
<1>2. Append(acc.rest, o) \in Seq(Orders)
  BY <1>1
<1>3. Filled(acc.book, o.s, "BUY", o.n) \in Books
  BY <1>1, DeskFill
<1>4. acc = [book |-> acc.book, rest |-> acc.rest]
  BY DEF Works
<1>5. \/ WorkLeg(acc, o) = acc
      \/ WorkLeg(acc, o) = [book |-> acc.book, rest |-> Append(acc.rest, o)]
      \/ WorkLeg(acc, o) = [book |-> Filled(acc.book, o.s, "BUY", o.n), rest |-> acc.rest]
  BY <1>4 DEF WorkLeg
<1> QED
  BY <1>1, <1>2, <1>3, <1>5 DEF Works

\* Closing one position: to nothing where it may be traded, and nothing else.
LEMMA CloseLegBooks ==
  ASSUME px \in Marks, NEW b \in Books, NEW s \in Stocks
  PROVE  /\ CloseLeg(b, s) \in Books
         /\ \A t \in Stocks : t # s => CloseLeg(b, s).qty[t] = b.qty[t]
         /\ CloseLeg(b, s).qty[s] = 0 \/ CloseLeg(b, s).qty[s] = b.qty[s]
         /\ b.qty[s] > 0 /\ SideAllowed(s, "SELL") => CloseLeg(b, s).qty[s] = 0
         /\ b.qty[s] < 0 /\ SideAllowed(s, "BUY") => CloseLeg(b, s).qty[s] = 0
<1>1. b.qty[s] \in Int
  BY DEF Books
<1> DEFINE side == IF b.qty[s] > 0 THEN "SELL" ELSE "BUY"
<1>2. CASE b.qty[s] # 0 /\ SideAllowed(s, side)
  <2>1. CloseLeg(b, s) = Filled(b, s, side, Abs(b.qty[s]))
    BY <1>2 DEF CloseLeg
  <2>2. Abs(b.qty[s]) \in Nat \ {0} /\ b.qty[s] + Sign(side) * Abs(b.qty[s]) = 0
    BY <1>1, <1>2 DEF Abs, Sign
  <2> HIDE DEF side
  <2> QED
    BY <2>1, <2>2, DeskFill
<1>3. CASE ~(b.qty[s] # 0 /\ SideAllowed(s, side))
  <2>1. CloseLeg(b, s) = b
    BY <1>3 DEF CloseLeg
  <2>2. b.qty[s] > 0 => ~SideAllowed(s, "SELL")
    BY <1>3
  <2>3. b.qty[s] < 0 => ~SideAllowed(s, "BUY")
    BY <1>1, <1>3
  <2> QED
    BY <2>1, <2>2, <2>3
<1> QED
  BY <1>2, <1>3

LEMMA CoverLoop ==
  ASSUME px \in Marks, NEW b \in Books, NEW legs \in Seq(Orders)
  PROVE  \E g : /\ Cover(b, legs) = g[Len(legs)] /\ g[0] = [book |-> b, rest |-> <<>>]
                /\ \A n \in 1 .. Len(legs) : g[n] = CoverLeg(g[n - 1], legs[n])
<1> DEFINE L == Len(legs)
           base == [book |-> b, rest |-> <<>>]
           F == [x \in (1 .. L) \X Works |-> CoverLeg(x[2], legs[x[1]])]
           body(h) == [T \in SUBSET (DOMAIN legs) |-> IF T = {} THEN base ELSE CoverLeg(h[T \ {Max(T)}], legs[Max(T)])]
           iter == CHOOSE h : h = body(h)
           g == [n \in 0 .. L |-> iter[1 .. n]]
<1>1. L \in Nat /\ DOMAIN legs = 1 .. L /\ \A n \in 1 .. L : legs[n] \in Orders
  BY ElementOfSeq
<1>2. base \in Works
  BY DEF Works
<1>3. PICK f \in [(1 .. L) \X Works -> Works] : \A n \in 1 .. L, v \in Works : f[<<n, v>>] = CoverLeg(v, legs[n])
  <2>1. \A x \in (1 .. L) \X Works : legs[x[1]] \in Orders /\ x[2] \in Works
    BY <1>1
  <2>2. F \in [(1 .. L) \X Works -> Works]
    BY <2>1, CoverLegWorks
  <2>3. \A n \in 1 .. L, v \in Works : F[<<n, v>>] = CoverLeg(v, legs[n])
    OBVIOUS
  <2> HIDE DEF F
  <2> QED
    BY <2>2, <2>3
<1> HIDE DEF base
<1>4. PICK h : IsFold(L, Works, base, f, h)
  <2> HIDE DEF L
  <2> QED
    BY <1>1, <1>2, ListHasTable
<1>5. \A T \in SUBSET (1 .. L) : T # {} => h[T] = CoverLeg(h[T \ {Max(T)}], legs[Max(T)])
  <2>1. \A T \in SUBSET (1 .. L) : T # {} => Max(T) \in 1 .. L /\ h[T \ {Max(T)}] \in Works
    BY <1>1, <1>4, LastPlace DEF IsFold
  <2> QED
    BY <1>3, <1>4, <2>1 DEF IsFold
<1>6. h = body(h)
  BY <1>1, <1>4, <1>5 DEF IsFold
<1>7. iter = body(iter)
  <2> HIDE DEF body
  <2> QED
    BY <1>6
<1>8. Cover(b, legs) = iter[DOMAIN legs]
  BY DEF Cover, FoldLeft, MapThenFoldSet, base
<1> HIDE DEF iter
<1>9. iter[{}] = base /\ \A T \in SUBSET (1 .. L) : T # {} => iter[T] = CoverLeg(iter[T \ {Max(T)}], legs[Max(T)])
  BY <1>1, <1>7
<1>10. \A n \in 1 .. L : iter[1 .. n] = CoverLeg(iter[1 .. n - 1], legs[n])
  <2> HIDE DEF L
  <2> QED
    BY <1>1, <1>9, LastPlace
<1>11. g[0] = base /\ g[L] = iter[DOMAIN legs] /\ \A n \in 1 .. L : g[n] = iter[1 .. n] /\ g[n - 1] = iter[1 .. n - 1]
  BY <1>1, <1>9
<1> HIDE DEF g
<1> QED
  BY <1>8, <1>10, <1>11 DEF base

LEMMA SweepLoop ==
  ASSUME px \in Marks, NEW b \in Books, NEW orders \in Seq(Orders)
  PROVE  \E g : /\ Work(b, orders) = g[Len(orders)] /\ g[0] = [book |-> b, rest |-> <<>>]
                /\ \A n \in 1 .. Len(orders) : g[n] = WorkLeg(g[n - 1], orders[n])
<1> DEFINE L == Len(orders)
           base == [book |-> b, rest |-> <<>>]
           F == [x \in (1 .. L) \X Works |-> WorkLeg(x[2], orders[x[1]])]
           body(h) == [T \in SUBSET (DOMAIN orders) |-> IF T = {} THEN base ELSE WorkLeg(h[T \ {Max(T)}], orders[Max(T)])]
           iter == CHOOSE h : h = body(h)
           g == [n \in 0 .. L |-> iter[1 .. n]]
<1>1. L \in Nat /\ DOMAIN orders = 1 .. L /\ \A n \in 1 .. L : orders[n] \in Orders
  BY ElementOfSeq
<1>2. base \in Works
  BY DEF Works
<1>3. PICK f \in [(1 .. L) \X Works -> Works] : \A n \in 1 .. L, v \in Works : f[<<n, v>>] = WorkLeg(v, orders[n])
  <2>1. \A x \in (1 .. L) \X Works : orders[x[1]] \in Orders /\ x[2] \in Works
    BY <1>1
  <2>2. F \in [(1 .. L) \X Works -> Works]
    BY <2>1, WorkLegWorks
  <2>3. \A n \in 1 .. L, v \in Works : F[<<n, v>>] = WorkLeg(v, orders[n])
    OBVIOUS
  <2> HIDE DEF F
  <2> QED
    BY <2>2, <2>3
<1> HIDE DEF base
<1>4. PICK h : IsFold(L, Works, base, f, h)
  <2> HIDE DEF L
  <2> QED
    BY <1>1, <1>2, ListHasTable
<1>5. \A T \in SUBSET (1 .. L) : T # {} => h[T] = WorkLeg(h[T \ {Max(T)}], orders[Max(T)])
  <2>1. \A T \in SUBSET (1 .. L) : T # {} => Max(T) \in 1 .. L /\ h[T \ {Max(T)}] \in Works
    BY <1>1, <1>4, LastPlace DEF IsFold
  <2> QED
    BY <1>3, <1>4, <2>1 DEF IsFold
<1>6. h = body(h)
  BY <1>1, <1>4, <1>5 DEF IsFold
<1>7. iter = body(iter)
  <2> HIDE DEF body
  <2> QED
    BY <1>6
<1>8. Work(b, orders) = iter[DOMAIN orders]
  BY DEF Work, FoldLeft, MapThenFoldSet, base
<1> HIDE DEF iter
<1>9. iter[{}] = base /\ \A T \in SUBSET (1 .. L) : T # {} => iter[T] = WorkLeg(iter[T \ {Max(T)}], orders[Max(T)])
  BY <1>1, <1>7
<1>10. \A n \in 1 .. L : iter[1 .. n] = WorkLeg(iter[1 .. n - 1], orders[n])
  <2> HIDE DEF L
  <2> QED
    BY <1>1, <1>9, LastPlace
<1>11. g[0] = base /\ g[L] = iter[DOMAIN orders] /\ \A n \in 1 .. L : g[n] = iter[1 .. n] /\ g[n - 1] = iter[1 .. n - 1]
  BY <1>1, <1>9
<1> HIDE DEF g
<1> QED
  BY <1>8, <1>10, <1>11 DEF base

LEMMA CloseLoop ==
  ASSUME px \in Marks, NEW b \in Books, NEW order \in Seq(Stocks), order = SetToSeq(Stocks)
  PROVE  \E g : /\ SquareOff(b) = g[Len(order)] /\ g[0] = b
                /\ \A n \in 1 .. Len(order) : g[n] = CloseLeg(g[n - 1], order[n])
<1> DEFINE L == Len(order)
           base == b
           F == [x \in (1 .. L) \X Books |-> CloseLeg(x[2], order[x[1]])]
           body(h) == [T \in SUBSET (DOMAIN order) |-> IF T = {} THEN base ELSE CloseLeg(h[T \ {Max(T)}], order[Max(T)])]
           iter == CHOOSE h : h = body(h)
           g == [n \in 0 .. L |-> iter[1 .. n]]
<1>1. L \in Nat /\ DOMAIN order = 1 .. L /\ \A n \in 1 .. L : order[n] \in Stocks
  BY ElementOfSeq
<1>2. base \in Books
  BY DEF Books
<1>3. PICK f \in [(1 .. L) \X Books -> Books] : \A n \in 1 .. L, v \in Books : f[<<n, v>>] = CloseLeg(v, order[n])
  <2>1. \A x \in (1 .. L) \X Books : order[x[1]] \in Stocks /\ x[2] \in Books
    BY <1>1
  <2>2. F \in [(1 .. L) \X Books -> Books]
    BY <2>1, CloseLegBooks
  <2>3. \A n \in 1 .. L, v \in Books : F[<<n, v>>] = CloseLeg(v, order[n])
    OBVIOUS
  <2> HIDE DEF F
  <2> QED
    BY <2>2, <2>3
<1> HIDE DEF base
<1>4. PICK h : IsFold(L, Books, base, f, h)
  <2> HIDE DEF L
  <2> QED
    BY <1>1, <1>2, ListHasTable
<1>5. \A T \in SUBSET (1 .. L) : T # {} => h[T] = CloseLeg(h[T \ {Max(T)}], order[Max(T)])
  <2>1. \A T \in SUBSET (1 .. L) : T # {} => Max(T) \in 1 .. L /\ h[T \ {Max(T)}] \in Books
    BY <1>1, <1>4, LastPlace DEF IsFold
  <2> QED
    BY <1>3, <1>4, <2>1 DEF IsFold
<1>6. h = body(h)
  BY <1>1, <1>4, <1>5 DEF IsFold
<1>7. iter = body(iter)
  <2> HIDE DEF body
  <2> QED
    BY <1>6
<1>8. SquareOff(b) = iter[DOMAIN order]
  BY DEF SquareOff, FoldLeft, MapThenFoldSet, base
<1> HIDE DEF iter
<1>9. iter[{}] = base /\ \A T \in SUBSET (1 .. L) : T # {} => iter[T] = CloseLeg(iter[T \ {Max(T)}], order[Max(T)])
  BY <1>1, <1>7
<1>10. \A n \in 1 .. L : iter[1 .. n] = CloseLeg(iter[1 .. n - 1], order[n])
  <2> HIDE DEF L
  <2> QED
    BY <1>1, <1>9, LastPlace
<1>11. g[0] = base /\ g[L] = iter[DOMAIN order] /\ \A n \in 1 .. L : g[n] = iter[1 .. n] /\ g[n - 1] = iter[1 .. n - 1]
  BY <1>1, <1>9
<1> HIDE DEF g
<1> QED
  BY <1>8, <1>10, <1>11 DEF base

-----------------------------------------------------------------------------
(* The order of the plan. *)

LEMMA Enumerates ==
  ASSUME NEW S, IsFiniteSet(S), NEW q \in [1 .. Cardinality(S) -> S],
         \A i, j \in 1 .. Cardinality(S) : i # j => q[i] # q[j]
  PROVE  /\ q \in Seq(S) /\ Len(q) = Cardinality(S)
         /\ \A x \in S : \E i \in 1 .. Len(q) : q[i] = x
<1> DEFINE n == Cardinality(S)
<1>1. n \in Nat
  BY FS_CardinalityType
<1> HIDE DEF n
<1>2. q \in Seq(S) /\ Len(q) = n
  <2>1. q \in [1 .. n -> S]
    BY DEF n
  <2> QED
    BY <1>1, <2>1
<1>3. IsFiniteSet(1 .. n) /\ Cardinality(1 .. n) = n
  BY <1>1, FS_Interval
<1>4. q \in Injection(1 .. n, S)
  BY DEF n, Injection, IsInjective
<1>5. q \in Surjection(1 .. n, S)
  BY <1>3, <1>4, FS_Injection DEF n
<1>6. \A x \in S : \E i \in 1 .. n : q[i] = x
  BY <1>5 DEF Surjection
<1> QED
  BY <1>2, <1>6 DEF n

LEMMA StocksInTurn ==
  /\ SetToSeq(Stocks) \in Seq(Stocks)
  /\ \A s \in Stocks : \E i \in 1 .. Len(SetToSeq(Stocks)) : SetToSeq(Stocks)[i] = s
<1> DEFINE f == [s \in Stocks |-> 0]
<1>1. IsFiniteSet(Stocks) /\ f \in [Stocks -> Int]
  BY MarginAssumption
<1>2. PICK q : Descends(q, Stocks, f)
  <2> HIDE DEF f
  <2> QED
    BY <1>1, CanSort
<1>3. q \in [1 .. Cardinality(Stocks) -> Stocks] /\ IsInjective(q)
  BY <1>2 DEF Descends, IsInjective
<1>4. SetToSeq(Stocks) \in [1 .. Cardinality(Stocks) -> Stocks] /\ IsInjective(SetToSeq(Stocks))
  BY <1>3 DEF SetToSeq
<1>5. PICK r \in [1 .. Cardinality(Stocks) -> Stocks] : r = SetToSeq(Stocks)
  BY <1>4
<1>6. \A i, j \in 1 .. Cardinality(Stocks) : i # j => r[i] # r[j]
  BY <1>4, <1>5 DEF IsInjective
<1>7. r \in Seq(Stocks) /\ \A s \in Stocks : \E i \in 1 .. Len(r) : r[i] = s
  BY <1>1, <1>6, Enumerates
<1> QED
  BY <1>5, <1>7

LEMMA ShortsInTurn ==
  ASSUME NEW b \in Books, NEW m \in Marks
  PROVE  /\ ByLoss(b, m) \in Seq(Shorts(b))
         /\ \A i, j \in 1 .. Len(ByLoss(b, m)) : i # j => ByLoss(b, m)[i] # ByLoss(b, m)[j]
         /\ \A s \in Shorts(b) : \E i \in 1 .. Len(ByLoss(b, m)) : ByLoss(b, m)[i] = s
<1> DEFINE S == Shorts(b)
           f == [s \in S |-> Loss(b, m, s)]
           sorts(q) == \A i, j \in DOMAIN q : i < j => Loss(b, m, q[i]) >= Loss(b, m, q[j])
<1>1. S \subseteq Stocks /\ IsFiniteSet(S)
  BY MarginAssumption, FS_Subset DEF Shorts
<1>2. f \in [S -> Int]
  <2>1. \A s \in S : m[s] \in Int /\ b.avg[s] \in Int /\ Abs(b.qty[s]) \in Int
    BY <1>1, Signs DEF Books, Marks
  <2>2. \A s \in S : Loss(b, m, s) \in Int
    BY <2>1 DEF Loss
  <2> QED
    BY <2>2
<1>3. \A s \in S : f[s] = Loss(b, m, s)
  OBVIOUS
<1> HIDE DEF S, f
<1>4. PICK q : Descends(q, S, f)
  BY <1>1, <1>2, CanSort
<1>5. q \in SetToSeqs(S)
  BY <1>4 DEF Descends, SetToSeqs
<1>6. sorts(q)
  BY <1>3, <1>4 DEF Descends
<1>7. ByLoss(b, m) = CHOOSE order \in SetToSeqs(S) : sorts(order)
  BY DEF ByLoss, S
<1> HIDE DEF sorts
<1>8. ByLoss(b, m) \in SetToSeqs(S)
  BY <1>5, <1>6, <1>7
<1>9. PICK r \in [1 .. Cardinality(S) -> S] :
        r = ByLoss(b, m) /\ \A i, j \in 1 .. Cardinality(S) : i # j => r[i] # r[j]
  BY <1>8 DEF SetToSeqs
<1>10. PICK C : C = S
  OBVIOUS
<1>11. /\ r \in Seq(C) /\ Len(r) = Cardinality(C)
       /\ \A x \in C : \E i \in 1 .. Len(r) : r[i] = x
  <2>1. IsFiniteSet(C) /\ r \in [1 .. Cardinality(C) -> C]
    BY <1>1, <1>10
  <2>2. \A i, j \in 1 .. Cardinality(C) : i # j => r[i] # r[j]
    BY <1>9, <1>10
  <2>3. PICK p \in [1 .. Cardinality(C) -> C] : p = r
    BY <2>1
  <2>4. \A i, j \in 1 .. Cardinality(C) : i # j => p[i] # p[j]
    BY <2>2, <2>3
  <2>5. /\ p \in Seq(C) /\ Len(p) = Cardinality(C)
        /\ \A x \in C : \E i \in 1 .. Len(p) : p[i] = x
    BY <2>1, <2>4, Enumerates
  <2> QED
    BY <2>3, <2>5
<1> QED
  BY <1>9, <1>10, <1>11 DEF S

LEMMA Ceiling ==
  ASSUME NEW n \in Int, NEW d \in Nat, d > 0
  PROVE  CeilDiv(n, d) \in Int /\ n <= d * CeilDiv(n, d) /\ d * (CeilDiv(n, d) - 1) < n
<1>1. \A k \in Int : k \div d \in Int /\ d * (k \div d) <= k /\ k < d * (k \div d) + d
  OBVIOUS
<1>2. PICK c \in Int : c = (n + d - 1) \div d /\ d * c <= n + d - 1 /\ n + d - 1 < d * c + d
  BY <1>1
<1>3. d * (c - 1) = d * c - d
  OBVIOUS
<1>4. d * c \in Int
  OBVIOUS
<1>5. n <= d * c /\ d * (c - 1) < n
  BY <1>2, <1>3, <1>4
<1> QED
  BY <1>2, <1>5 DEF CeilDiv

-----------------------------------------------------------------------------
(* The plan. *)

Plans == [left : Int, legs : Seq(Orders)]
Buys  == [s : Stocks, n : Nat]

LEMMA Scaled == \A x \in Int : LiquidatePct * x \in Int
<1>1. PICK l \in Nat : l = LiquidatePct
  BY MarginAssumption
<1>2. \A x \in Int : l * x \in Int
  OBVIOUS
<1> QED
  BY <1>1, <1>2

\* A leg of the plan: none when enough is covered; otherwise no more than the
\* short, no more than it takes, and one of the two.
IsLeg(b, m, left, s, n) ==
  /\ n \in Nat \ {0} /\ n <= ShortOf(b.qty[s])
  /\ left > 0 /\ 100 * Equity(b, m) < LiquidatePct * left
  /\ LiquidatePct * (left - m[s] * (n - 1)) > 100 * Equity(b, m)
  /\ n = ShortOf(b.qty[s]) \/ LiquidatePct * (left - m[s] * n) <= 100 * Equity(b, m)

IsStep(b, m, acc, s, next) ==
  \/ next = acc /\ (acc.left <= 0 \/ 100 * Equity(b, m) >= LiquidatePct * acc.left)
  \/ \E n : /\ IsLeg(b, m, acc.left, s, n)
            /\ next = [left |-> acc.left - m[s] * n, legs |-> Append(acc.legs, [s |-> s, n |-> n])]

LEMMA PlanSteps ==
  ASSUME NEW b \in Books, NEW m \in Marks, NEW acc \in Plans, NEW s \in Shorts(b)
  PROVE  PlanLeg(b, m, acc, s) \in Plans /\ IsStep(b, m, acc, s, PlanLeg(b, m, acc, s))
<1>1. PICK p \in Nat \ {0} : p = m[s]
  BY DEF Marks, Shorts
<1>2. PICK k \in Nat \ {0} : k = ShortOf(b.qty[s]) /\ k = Abs(b.qty[s])
  BY DEF Books, Shorts, ShortOf, Abs
<1>3. PICK e \in Int : e = Equity(b, m)
  BY MarketValues
<1>4. PICK l \in Nat \ {0} : l = LiquidatePct
  BY MarginAssumption
<1>5. PICK left \in Int : left = acc.left
  BY DEF Plans
<1>6. acc.legs \in Seq(Orders) /\ s \in Stocks
  BY DEF Plans, Shorts
<1>7. CASE left <= 0 \/ 100 * e >= l * left
  <2>1. PlanLeg(b, m, acc, s) = acc
    BY <1>3, <1>4, <1>5, <1>7 DEF PlanLeg
  <2> QED
    BY <1>3, <1>4, <1>5, <1>7, <2>1 DEF IsStep
<1>8. CASE ~(left <= 0 \/ 100 * e >= l * left)
  <2>1. l * left \in Int /\ l * p \in Nat /\ l * p > 0
    <3>1. \A x, y \in Nat \ {0} : x * y \in Nat /\ x * y > 0
      OBVIOUS
    <3> QED
      BY <3>1
  <2>2. PICK d \in Nat \ {0} : d = l * p
    BY <2>1
  <2>3. PICK w \in Int : w = l * left - 100 * e /\ w > 0
    BY <1>8, <2>1
  <2>4. PICK c \in Int : c = CeilDiv(w, d) /\ w <= d * c /\ d * (c - 1) < w
    <3>1. CeilDiv(w, d) \in Int /\ w <= d * CeilDiv(w, d) /\ d * (CeilDiv(w, d) - 1) < w
      BY Ceiling
    <3> QED
      BY <3>1
  <2>5. c > 0
    <3>1. \A x \in Nat \ {0}, y \in Int : y <= 0 => x * y <= 0
      OBVIOUS
    <3> QED
      BY <2>3, <2>4, <3>1
  <2>6. PICK n \in Nat \ {0} : n = IF c < k THEN c ELSE k
    BY <2>5
  <2>7. n <= c /\ n <= k /\ (n = k \/ n = c)
    BY <2>6
  <2>8. \A x \in Int : l * (left - p * x) = l * left - d * x
    BY <2>2
  <2>9. l * (left - p * (n - 1)) > 100 * e
    <3>1. \A x \in Nat \ {0}, y, z \in Int : y <= z => x * y <= x * z
      OBVIOUS
    <3>2. d * (n - 1) <= d * (c - 1)
      BY <2>7, <3>1
    <3>3. d * (n - 1) \in Int /\ d * (c - 1) \in Int
      OBVIOUS
    <3>4. d * (n - 1) < w
      BY <2>4, <3>2, <3>3
    <3>5. l * (left - p * (n - 1)) = l * left - d * (n - 1)
      BY <2>8
    <3> QED
      BY <2>1, <2>3, <3>3, <3>4, <3>5
  <2>10. n = c => l * (left - p * n) <= 100 * e
    <3>1. l * (left - p * c) = l * left - d * c /\ d * c \in Int
      BY <2>8
    <3> QED
      BY <2>1, <2>3, <2>4, <3>1
  <2>11. IsLeg(b, m, acc.left, s, n)
    <3>1. left > 0 /\ 100 * e < l * left
      BY <1>8, <2>1
    <3> QED
      BY <1>1, <1>2, <1>3, <1>4, <1>5, <2>7, <2>9, <2>10, <3>1 DEF IsLeg
  <2>12. PlanLeg(b, m, acc, s) = [left |-> left - p * n, legs |-> Append(acc.legs, [s |-> s, n |-> n])]
    BY <1>1, <1>2, <1>3, <1>4, <1>5, <1>8, <2>2, <2>3, <2>4, <2>6 DEF PlanLeg
  <2>13. left - p * n \in Int /\ Append(acc.legs, [s |-> s, n |-> n]) \in Seq(Orders)
    <3>1. [s |-> s, n |-> n] \in Orders
      BY <1>6 DEF Orders
    <3> QED
      BY <1>6, <3>1
  <2>14. PlanLeg(b, m, acc, s) \in Plans
    BY <2>12, <2>13 DEF Plans
  <2>15. PlanLeg(b, m, acc, s) = [left |-> acc.left - m[s] * n, legs |-> Append(acc.legs, [s |-> s, n |-> n])]
    BY <1>1, <1>5, <2>12
  <2> QED
    BY <2>11, <2>14, <2>15 DEF IsStep
<1> QED
  BY <1>7, <1>8

LEMMA PlanLoop ==
  ASSUME NEW b \in Books, NEW m \in Marks, NEW q \in Seq(Shorts(b)), q = ByLoss(b, m)
  PROVE  \E g : /\ LiquidationPlan(b, m) = g[Len(q)].legs /\ g[0] = [left |-> ShortMV(b, m), legs |-> <<>>]
                /\ \A n \in 1 .. Len(q) : g[n] = PlanLeg(b, m, g[n - 1], q[n])
<1> DEFINE L == Len(q)
           base == [left |-> ShortMV(b, m), legs |-> <<>>]
           F == [x \in (1 .. L) \X Plans |-> PlanLeg(b, m, x[2], q[x[1]])]
           body(h) == [T \in SUBSET (DOMAIN q) |-> IF T = {} THEN base ELSE PlanLeg(b, m, h[T \ {Max(T)}], q[Max(T)])]
           iter == CHOOSE h : h = body(h)
           g == [n \in 0 .. L |-> iter[1 .. n]]
<1>1. L \in Nat /\ DOMAIN q = 1 .. L /\ \A n \in 1 .. L : q[n] \in Shorts(b)
  BY ElementOfSeq
<1>2. base \in Plans
  BY MarketValues DEF Plans
<1>3. PICK f \in [(1 .. L) \X Plans -> Plans] : \A n \in 1 .. L, v \in Plans : f[<<n, v>>] = PlanLeg(b, m, v, q[n])
  <2>1. \A x \in (1 .. L) \X Plans : q[x[1]] \in Shorts(b) /\ x[2] \in Plans
    BY <1>1
  <2>2. F \in [(1 .. L) \X Plans -> Plans]
    BY <2>1, PlanSteps
  <2>3. \A n \in 1 .. L, v \in Plans : F[<<n, v>>] = PlanLeg(b, m, v, q[n])
    OBVIOUS
  <2> HIDE DEF F
  <2> QED
    BY <2>2, <2>3
<1> HIDE DEF base
<1>4. PICK h : IsFold(L, Plans, base, f, h)
  <2> HIDE DEF L
  <2> QED
    BY <1>1, <1>2, ListHasTable
<1>5. \A T \in SUBSET (1 .. L) : T # {} => h[T] = PlanLeg(b, m, h[T \ {Max(T)}], q[Max(T)])
  <2>1. \A T \in SUBSET (1 .. L) : T # {} => Max(T) \in 1 .. L /\ h[T \ {Max(T)}] \in Plans
    BY <1>1, <1>4, LastPlace DEF IsFold
  <2> QED
    BY <1>3, <1>4, <2>1 DEF IsFold
<1>6. h = body(h)
  BY <1>1, <1>4, <1>5 DEF IsFold
<1>7. iter = body(iter)
  <2> HIDE DEF body
  <2> QED
    BY <1>6
<1>8. LiquidationPlan(b, m) = iter[DOMAIN q].legs
  BY DEF LiquidationPlan, FoldLeft, MapThenFoldSet, base
<1> HIDE DEF iter
<1>9. iter[{}] = base /\ \A T \in SUBSET (1 .. L) : T # {} => iter[T] = PlanLeg(b, m, iter[T \ {Max(T)}], q[Max(T)])
  BY <1>1, <1>7
<1>10. \A n \in 1 .. L : iter[1 .. n] = PlanLeg(b, m, iter[1 .. n - 1], q[n])
  <2> HIDE DEF L
  <2> QED
    BY <1>1, <1>9, LastPlace
<1>11. g[0] = base /\ g[L] = iter[DOMAIN q] /\ \A n \in 1 .. L : g[n] = iter[1 .. n] /\ g[n - 1] = iter[1 .. n - 1]
  BY <1>1, <1>9
<1> HIDE DEF g
<1>12. LiquidationPlan(b, m) = g[L].legs /\ g[0] = base /\ \A n \in 1 .. L : g[n] = PlanLeg(b, m, g[n - 1], q[n])
  BY <1>8, <1>10, <1>11
<1>13. base = [left |-> ShortMV(b, m), legs |-> <<>>]
  BY DEF base
<1> QED
  BY <1>12, <1>13

\* Buying back at the mark: the equity stands, the exposure falls.
LEMMA BuyAtMarkBooks ==
  ASSUME px \in Marks, NEW b \in Books, NEW o \in Buys
  PROVE  /\ BuyAtMark(b, o) \in Books
         /\ BuyAtMark(b, o).qty[o.s] = b.qty[o.s] + o.n
         /\ BuyAtMark(b, o).cash = b.cash - px[o.s] * o.n
         /\ \A t \in Stocks : t # o.s => BuyAtMark(b, o).qty[t] = b.qty[t]
<1>1. PICK s \in Stocks : s = o.s
  BY DEF Buys
<1>2. PICK n \in Nat : n = o.n
  BY DEF Buys
<1>3. PICK p \in Nat : p = px[s]
  BY DEF Marks
<1> DEFINE c == Fill(b, s, "BUY", n, p, 0)
<1>4. /\ c \in Books /\ c.cash = b.cash - Sign("BUY") * p * n - 0 /\ c.qty[s] = b.qty[s] + Sign("BUY") * n
      /\ \A t \in Stocks : t # s => c.qty[t] = b.qty[t]
  BY FillBooks, FillCash
<1>5. BuyAtMark(b, o) = c
  BY <1>1, <1>2, <1>3 DEF BuyAtMark
<1> HIDE DEF c
<1>6. Sign("BUY") = 1 /\ b.cash \in Int /\ b.qty[s] \in Int
  BY DEF Sign, Books
<1> QED
  BY <1>1, <1>2, <1>3, <1>4, <1>5, <1>6

LEMMA AfterLoop ==
  ASSUME px \in Marks, NEW b \in Books, NEW legs \in Seq(Buys)
  PROVE  \E g : /\ AfterPlan(b, legs) = g[Len(legs)] /\ g[0] = b
                /\ \A n \in 1 .. Len(legs) : g[n] = BuyAtMark(g[n - 1], legs[n])
<1> DEFINE L == Len(legs)
           base == b
           F == [x \in (1 .. L) \X Books |-> BuyAtMark(x[2], legs[x[1]])]
           body(h) == [T \in SUBSET (DOMAIN legs) |-> IF T = {} THEN base ELSE BuyAtMark(h[T \ {Max(T)}], legs[Max(T)])]
           iter == CHOOSE h : h = body(h)
           g == [n \in 0 .. L |-> iter[1 .. n]]
<1>1. L \in Nat /\ DOMAIN legs = 1 .. L /\ \A n \in 1 .. L : legs[n] \in Buys
  BY ElementOfSeq
<1>2. base \in Books
  BY DEF Books
<1>3. PICK f \in [(1 .. L) \X Books -> Books] : \A n \in 1 .. L, v \in Books : f[<<n, v>>] = BuyAtMark(v, legs[n])
  <2>1. \A x \in (1 .. L) \X Books : legs[x[1]] \in Buys /\ x[2] \in Books
    BY <1>1
  <2>2. F \in [(1 .. L) \X Books -> Books]
    BY <2>1, BuyAtMarkBooks
  <2>3. \A n \in 1 .. L, v \in Books : F[<<n, v>>] = BuyAtMark(v, legs[n])
    OBVIOUS
  <2> HIDE DEF F
  <2> QED
    BY <2>2, <2>3
<1> HIDE DEF base
<1>4. PICK h : IsFold(L, Books, base, f, h)
  <2> HIDE DEF L
  <2> QED
    BY <1>1, <1>2, ListHasTable
<1>5. \A T \in SUBSET (1 .. L) : T # {} => h[T] = BuyAtMark(h[T \ {Max(T)}], legs[Max(T)])
  <2>1. \A T \in SUBSET (1 .. L) : T # {} => Max(T) \in 1 .. L /\ h[T \ {Max(T)}] \in Books
    BY <1>1, <1>4, LastPlace DEF IsFold
  <2> QED
    BY <1>3, <1>4, <2>1 DEF IsFold
<1>6. h = body(h)
  BY <1>1, <1>4, <1>5 DEF IsFold
<1>7. iter = body(iter)
  <2> HIDE DEF body
  <2> QED
    BY <1>6
<1>8. AfterPlan(b, legs) = iter[DOMAIN legs]
  BY DEF AfterPlan, FoldLeft, MapThenFoldSet, base
<1> HIDE DEF iter
<1>9. iter[{}] = base /\ \A T \in SUBSET (1 .. L) : T # {} => iter[T] = BuyAtMark(iter[T \ {Max(T)}], legs[Max(T)])
  BY <1>1, <1>7
<1>10. \A n \in 1 .. L : iter[1 .. n] = BuyAtMark(iter[1 .. n - 1], legs[n])
  <2> HIDE DEF L
  <2> QED
    BY <1>1, <1>9, LastPlace
<1>11. g[0] = base /\ g[L] = iter[DOMAIN legs] /\ \A n \in 1 .. L : g[n] = iter[1 .. n] /\ g[n - 1] = iter[1 .. n - 1]
  BY <1>1, <1>9
<1> HIDE DEF g
<1> QED
  BY <1>8, <1>10, <1>11 DEF base

\* One more buy-back.
LEMMA AfterOneMore ==
  ASSUME px \in Marks, NEW b \in Books, NEW legs \in Seq(Buys), NEW o \in Buys
  PROVE  /\ AfterPlan(b, legs) \in Books
         /\ AfterPlan(b, Append(legs, o)) = BuyAtMark(AfterPlan(b, legs), o)
<1>1. PICK L \in Nat : L = Len(legs)
  OBVIOUS
<1>2. PICK more \in Seq(Buys) : more = Append(legs, o)
  <2>1. Append(legs, o) \in Seq(Buys)
    OBVIOUS
  <2> QED
    BY <2>1
<1>3. Len(more) = L + 1 /\ more[L + 1] = o /\ \A n \in 1 .. L : more[n] = legs[n] /\ legs[n] \in Buys
  BY <1>1, <1>2, ElementOfSeq
<1>4. PICK g : /\ AfterPlan(b, legs) = g[L] /\ g[0] = b
               /\ \A n \in 1 .. L : g[n] = BuyAtMark(g[n - 1], legs[n])
  BY <1>1, AfterLoop
<1>5. PICK h : /\ AfterPlan(b, more) = h[L + 1] /\ h[0] = b
               /\ \A n \in 1 .. L + 1 : h[n] = BuyAtMark(h[n - 1], more[n])
  <2>1. PICK h : /\ AfterPlan(b, more) = h[Len(more)] /\ h[0] = b
                 /\ \A n \in 1 .. Len(more) : h[n] = BuyAtMark(h[n - 1], more[n])
    BY AfterLoop
  <2> QED
    BY <1>3, <2>1
<1>6. PICK same : same = {n \in 0 .. L : g[n] = h[n] /\ g[n] \in Books}
  OBVIOUS
<1>7. 0 \in same
  BY <1>4, <1>5, <1>6
<1>8. ASSUME NEW n \in 1 .. L, n - 1 \in same PROVE n \in same
  <2>1. g[n - 1] = h[n - 1] /\ g[n - 1] \in Books /\ n \in 1 .. L + 1 /\ n \in 0 .. L
    BY <1>6, <1>8
  <2>2. g[n] = h[n]
    BY <1>3, <1>4, <1>5, <2>1
  <2>3. PICK c \in Books, p \in Buys : c = g[n - 1] /\ p = legs[n]
    BY <1>3, <2>1
  <2>4. g[n] \in Books
    BY <1>4, <2>3, BuyAtMarkBooks
  <2> QED
    BY <1>6, <2>1, <2>2, <2>4
<1>9. L \in same
  <2>1. 0 .. L \subseteq same
    BY <1>7, <1>8, ClimbTo
  <2> QED
    BY <2>1
<1>10. h[L + 1] = BuyAtMark(h[L], o)
  BY <1>3, <1>5
<1> QED
  BY <1>2, <1>4, <1>5, <1>6, <1>9, <1>10

LEMMA AfterNothing ==
  ASSUME px \in Marks, NEW b \in Books
  PROVE  AfterPlan(b, <<>>) = b
<1>1. <<>> \in Seq(Buys) /\ Len(<<>>) = 0
  OBVIOUS
<1>2. PICK none \in Seq(Buys) : none = <<>> /\ Len(none) = 0
  BY <1>1
<1>3. AfterPlan(b, none) = b
  <2>1. PICK g : AfterPlan(b, none) = g[Len(none)] /\ g[0] = b
    BY AfterLoop
  <2> QED
    BY <1>2, <2>1
<1> QED
  BY <1>2, <1>3

\* Buying back no more than the short.
LEMMA BuyBack ==
  ASSUME px \in Marks, NEW b \in Books, NEW o \in Buys, o.n <= ShortOf(b.qty[o.s])
  PROVE  /\ Equity(BuyAtMark(b, o), px) = Equity(b, px)
         /\ ShortMV(BuyAtMark(b, o), px) = ShortMV(b, px) - px[o.s] * o.n
         /\ BuyAtMark(b, o).qty[o.s] = b.qty[o.s] + o.n
         /\ \A t \in Stocks : t # o.s => BuyAtMark(b, o).qty[t] = b.qty[t]
<1>1. PICK s \in Stocks, n \in Nat : s = o.s /\ n = o.n /\ n <= ShortOf(b.qty[s])
  BY DEF Buys
<1>2. PICK c \in Books : c = BuyAtMark(b, o)
  BY BuyAtMarkBooks
<1>3. /\ c.qty[s] = b.qty[s] + n /\ c.cash = b.cash - px[s] * n
      /\ \A t \in Stocks : t # s => c.qty[t] = b.qty[t]
  BY <1>1, <1>2, BuyAtMarkBooks
<1>4. PICK m \in Marks : m = px
  OBVIOUS
<1>5. LongOf(c.qty[s]) = LongOf(b.qty[s]) /\ ShortOf(c.qty[s]) - ShortOf(b.qty[s]) = -n
  <2>1. b.qty[s] \in Int
    BY DEF Books
  <2> QED
    BY <1>1, <1>3, <2>1 DEF LongOf, ShortOf
<1>6. /\ LongMV(c, m) = LongMV(b, m) + m[s] * (LongOf(c.qty[s]) - LongOf(b.qty[s]))
      /\ ShortMV(c, m) = ShortMV(b, m) + m[s] * (ShortOf(c.qty[s]) - ShortOf(b.qty[s]))
  BY <1>3, FillMoves
<1>7. PICK p \in Nat : p = m[s]
  BY DEF Marks
<1>8. PICK move \in Int : move = p * n
  BY <1>7
<1>9. LongOf(c.qty[s]) - LongOf(b.qty[s]) = 0 /\ p * 0 = 0 /\ p * (-n) = -move
  <2>1. LongOf(b.qty[s]) \in Int
    BY Signs DEF Books
  <2>2. p * (-n) = -(p * n)
    OBVIOUS
  <2> QED
    BY <1>5, <1>8, <2>1, <2>2
<1>10. LongMV(c, m) = LongMV(b, m) + 0 /\ ShortMV(c, m) = ShortMV(b, m) + (-move)
  BY <1>5, <1>6, <1>7, <1>9
<1>11. ShortMV(b, m) \in Int /\ LongMV(b, m) \in Int /\ b.cash \in Int /\ c.cash = b.cash - move
  <2>1. ShortMV(b, m) \in Int /\ LongMV(b, m) \in Int
    BY MarketValues
  <2> QED
    BY <1>3, <1>4, <1>7, <1>8, <2>1 DEF Books
<1>12. ShortMV(c, m) = ShortMV(b, m) - move /\ Equity(c, m) = Equity(b, m)
  BY <1>10, <1>11 DEF Equity
<1> QED
  BY <1>1, <1>2, <1>3, <1>4, <1>7, <1>8, <1>12

\* The orders of a plan: each of a stock of its own, and at most the short.
Covering(b, legs) ==
  /\ legs \in Seq(Orders)
  /\ \A k \in 1 .. Len(legs) : legs[k].n <= ShortOf(b.qty[legs[k].s])
  /\ \A k, l \in 1 .. Len(legs) : k # l => legs[k].s # legs[l].s

LEMMA CoveringMore ==
  ASSUME NEW b \in Books, NEW legs, Covering(b, legs), NEW s \in Stocks, NEW n \in Nat \ {0},
         n <= ShortOf(b.qty[s]), \A k \in 1 .. Len(legs) : legs[k].s # s
  PROVE  Covering(b, Append(legs, [s |-> s, n |-> n]))
<1>1. PICK o \in Orders : o = [s |-> s, n |-> n] /\ o.s = s /\ o.n = n
  <2>1. [s |-> s, n |-> n] \in Orders
    BY DEF Orders
  <2> QED
    BY <2>1
<1>2. legs \in Seq(Orders)
  BY DEF Covering
<1>3. PICK L \in Nat : L = Len(legs)
  BY <1>2
<1>4. PICK more : more = Append(legs, o)
  OBVIOUS
<1>5. more \in Seq(Orders) /\ Len(more) = L + 1 /\ more[L + 1] = o /\ \A k \in 1 .. L : more[k] = legs[k]
  BY <1>2, <1>3, <1>4
<1>6. \A k \in 1 .. L + 1 : k = L + 1 \/ k \in 1 .. L
  OBVIOUS
<1>7. \A k \in 1 .. L + 1 : more[k].n <= ShortOf(b.qty[more[k].s])
  BY <1>1, <1>3, <1>5, <1>6 DEF Covering
<1>8. \A k, l \in 1 .. L + 1 : k # l => more[k].s # more[l].s
  BY <1>1, <1>3, <1>5, <1>6 DEF Covering
<1>9. Covering(b, more)
  BY <1>5, <1>7, <1>8 DEF Covering
<1> QED
  BY <1>1, <1>4, <1>9

\* Where the plan stands after the first i shorts of q: what is left is the
\* exposure of the book with its orders filled at the marks; a short it has
\* passed is gone, unless enough is covered; a share less would not do.
Enough(b, left) == left <= 0 \/ 100 * Equity(b, px) >= LiquidatePct * left
OneLess(legs)   == [legs EXCEPT ![Len(legs)].n = @ - 1]

Exact(b, q, i, left, a) ==
  /\ a \in Books /\ Equity(a, px) = Equity(b, px) /\ ShortMV(a, px) = left
  /\ \A t \in Stocks : (\A j \in 1 .. i : q[j] # t) => a.qty[t] = b.qty[t]
  /\ \A j \in 1 .. i : a.qty[q[j]] >= 0 \/ Enough(b, left)

Tight(b, legs) == legs # <<>> => ~Buffered(AfterPlan(b, OneLess(legs)))

Planned(b, q, i, acc) ==
  /\ acc \in Plans /\ Covering(b, acc.legs)
  /\ \A k \in 1 .. Len(acc.legs) : \E j \in 1 .. i : acc.legs[k].s = q[j]
  /\ Exact(b, q, i, acc.left, AfterPlan(b, acc.legs))
  /\ Tight(b, acc.legs)

LEMMA OneLessOfMore ==
  ASSUME NEW legs \in Seq(Orders), NEW s \in Stocks, NEW n \in Nat \ {0}
  PROVE  OneLess(Append(legs, [s |-> s, n |-> n])) = Append(legs, [s |-> s, n |-> n - 1])
<1>1. PICK L \in Nat : L = Len(legs)
  OBVIOUS
<1> DEFINE o == [s |-> s, n |-> n]
           p == [s |-> s, n |-> n - 1]
<1>2. /\ Len(Append(legs, o)) = L + 1 /\ Append(legs, o)[L + 1] = o
      /\ Len(Append(legs, p)) = L + 1 /\ Append(legs, p)[L + 1] = p
      /\ \A k \in 1 .. L : Append(legs, o)[k] = Append(legs, p)[k]
  BY <1>1
<1>3. [o EXCEPT !.n = @ - 1] = p
  OBVIOUS
<1>4. Append(legs, o) \in Seq(Buys) /\ Append(legs, p) \in Seq(Buys)
  <2>1. o \in Buys /\ p \in Buys
    BY DEF Buys
  <2>2. legs \in Seq(Buys)
    <3>1. Orders \subseteq Buys
      BY DEF Orders, Buys
    <3> QED
      BY <3>1
  <2> HIDE DEF o, p
  <2> QED
    BY <2>1, <2>2
<1> HIDE DEF o, p
<1>5. PICK f \in Seq(Buys) : f = Append(legs, o)
  BY <1>4
<1>6. PICK g \in Seq(Buys) : g = Append(legs, p)
  BY <1>4
<1>7. /\ f \in [1 .. L + 1 -> Buys] /\ g \in [1 .. L + 1 -> Buys]
      /\ f[L + 1] = o /\ g[L + 1] = p /\ Len(f) = L + 1 /\ \A k \in 1 .. L : f[k] = g[k]
  BY <1>2, <1>5, <1>6, LenProperties
<1>8. [f EXCEPT ![L + 1].n = @ - 1] = [f EXCEPT ![L + 1] = p]
  BY <1>3, <1>7
<1>9. [f EXCEPT ![L + 1] = p] = g
  <2>1. \A k \in 1 .. L + 1 : k = L + 1 \/ k \in 1 .. L
    OBVIOUS
  <2> QED
    BY <1>7, <2>1
<1>10. OneLess(f) = g
  BY <1>7, <1>8, <1>9 DEF OneLess
<1> QED
  BY <1>5, <1>6, <1>10 DEF o, p

LEMMA PlannedMore ==
  ASSUME px \in Marks, NEW b \in Books, NEW q \in Seq(Shorts(b)),
         \A i, j \in 1 .. Len(q) : i # j => q[i] # q[j],
         NEW i \in 1 .. Len(q), NEW acc, Planned(b, q, i - 1, acc)
  PROVE  Planned(b, q, i, PlanLeg(b, px, acc, q[i]))
<1>1. PICK m \in Marks : m = px
  OBVIOUS
<1>2. PICK s \in Shorts(b) : s = q[i] /\ s \in Stocks /\ b.qty[s] < 0 /\ b.qty[s] \in Int
  <2>1. q[i] \in Shorts(b)
    BY ElementOfSeq
  <2> QED
    BY <2>1 DEF Shorts, Books
<1>3. PICK a \in Books : a = AfterPlan(b, acc.legs)
  BY DEF Planned, Exact
<1>4. /\ acc \in Plans /\ Covering(b, acc.legs) /\ acc.left \in Int
      /\ \A k \in 1 .. Len(acc.legs) : \E j \in 1 .. i - 1 : acc.legs[k].s = q[j]
      /\ Tight(b, acc.legs)
  BY DEF Planned, Plans
<1>5. Exact(b, q, i - 1, acc.left, a)
  BY <1>3 DEF Planned
<1>6. i \in Int /\ 1 .. i - 1 \subseteq 1 .. i /\ \A j \in 1 .. i : j = i \/ j \in 1 .. i - 1
  OBVIOUS
<1>7. PICK next \in Plans : next = PlanLeg(b, m, acc, s)
  BY <1>4, PlanSteps
<1>8. \/ next = acc /\ (acc.left <= 0 \/ 100 * Equity(b, m) >= LiquidatePct * acc.left)
      \/ \E n : /\ IsLeg(b, m, acc.left, s, n)
                /\ next = [left |-> acc.left - m[s] * n, legs |-> Append(acc.legs, [s |-> s, n |-> n])]
  <2>1. IsStep(b, m, acc, s, next)
    BY <1>4, <1>7, PlanSteps
  <2> QED
    BY <2>1 DEF IsStep
<1>9. CASE next = acc /\ (acc.left <= 0 \/ 100 * Equity(b, m) >= LiquidatePct * acc.left)
  <2>1. Enough(b, acc.left)
    BY <1>1, <1>9 DEF Enough
  <2>2. Exact(b, q, i, acc.left, a)
    BY <1>5, <1>6, <2>1 DEF Exact
  <2>3. \A k \in 1 .. Len(acc.legs) : \E j \in 1 .. i : acc.legs[k].s = q[j]
    BY <1>4, <1>6
  <2> QED
    BY <1>1, <1>2, <1>3, <1>4, <1>7, <1>9, <2>2, <2>3 DEF Planned
<1>10. ASSUME NEW n, IsLeg(b, m, acc.left, s, n),
              next = [left |-> acc.left - m[s] * n, legs |-> Append(acc.legs, [s |-> s, n |-> n])]
       PROVE  Planned(b, q, i, next)
  <2>1. n \in Nat \ {0} /\ n <= ShortOf(b.qty[s])
    BY <1>10 DEF IsLeg
  <2>2. PICK legs \in Seq(Orders) : legs = acc.legs
    BY <1>4 DEF Plans
  <2>3. legs \in Seq(Buys)
    <3>1. Orders \subseteq Buys
      BY DEF Orders, Buys
    <3> QED
      BY <3>1
  <2>4. \A j \in 1 .. i - 1 : q[j] # s
    BY <1>2, <1>6
  <2>5. a.qty[s] = b.qty[s]
    BY <1>2, <1>5, <2>4 DEF Exact
  <2>6. ~Enough(b, acc.left)
    <3>1. PICK e \in Int : e = Equity(b, m)
      BY MarketValues
    <3>2. PICK left \in Int : left = acc.left
      BY <1>4
    <3>3. LiquidatePct * left \in Int
      BY Scaled
    <3>4. left > 0 /\ 100 * e < LiquidatePct * left
      BY <1>10, <3>1, <3>2 DEF IsLeg
    <3>5. ~(left <= 0 \/ 100 * e >= LiquidatePct * left)
      BY <3>3, <3>4
    <3> QED
      BY <1>1, <3>1, <3>2, <3>5 DEF Enough
  <2>7. Covering(b, Append(legs, [s |-> s, n |-> n]))
    <3>1. \A k \in 1 .. Len(legs) : legs[k].s # s
      BY <1>4, <2>2, <2>4
    <3> QED
      BY <1>2, <1>4, <2>1, <2>2, <3>1, CoveringMore
  <2>8. PICK o \in Orders : o = [s |-> s, n |-> n] /\ o.s = s /\ o.n = n /\ o \in Buys
    <3>1. [s |-> s, n |-> n] \in Orders /\ [s |-> s, n |-> n] \in Buys
      BY <1>2, <2>1 DEF Orders, Buys
    <3> QED
      BY <3>1
  <2>9. \A k \in 1 .. Len(Append(legs, o)) : \E j \in 1 .. i : Append(legs, o)[k].s = q[j]
    <3>1. Len(Append(legs, o)) = Len(legs) + 1 /\ Append(legs, o)[Len(legs) + 1] = o
          /\ \A k \in 1 .. Len(legs) : Append(legs, o)[k] = legs[k]
      OBVIOUS
    <3>2. \A k \in 1 .. Len(legs) + 1 : k = Len(legs) + 1 \/ k \in 1 .. Len(legs)
      OBVIOUS
    <3>3. o.s = q[i] /\ i \in 1 .. i
      BY <1>2, <2>8
    <3>4. \A k \in 1 .. Len(legs) : \E j \in 1 .. i : legs[k].s = q[j]
      BY <1>4, <1>6, <2>2
    <3> QED
      BY <3>1, <3>2, <3>3, <3>4
  <2>10. PICK c \in Books : c = AfterPlan(b, Append(legs, o)) /\ c = BuyAtMark(a, o)
    <3>1. AfterPlan(b, Append(legs, o)) = BuyAtMark(a, o)
      BY <1>3, <2>2, <2>3, <2>8, AfterOneMore
    <3>2. BuyAtMark(a, o) \in Books
      BY <2>8, BuyAtMarkBooks
    <3> QED
      BY <3>1, <3>2
  <2>11. /\ Equity(c, px) = Equity(a, px) /\ ShortMV(c, px) = ShortMV(a, px) - px[s] * n
         /\ c.qty[s] = a.qty[s] + n /\ \A t \in Stocks : t # s => c.qty[t] = a.qty[t]
    <3>1. o.n <= ShortOf(a.qty[o.s])
      BY <2>1, <2>5, <2>8
    <3>2. /\ Equity(BuyAtMark(a, o), px) = Equity(a, px)
          /\ ShortMV(BuyAtMark(a, o), px) = ShortMV(a, px) - px[o.s] * o.n
          /\ BuyAtMark(a, o).qty[o.s] = a.qty[o.s] + o.n
          /\ \A t \in Stocks : t # o.s => BuyAtMark(a, o).qty[t] = a.qty[t]
      BY <2>8, <3>1, BuyBack
    <3> QED
      BY <2>8, <2>10, <3>2
  <2>12. PICK left \in Int : left = acc.left - m[s] * n
    <3>1. m[s] \in Int
      BY <1>2 DEF Marks
    <3> QED
      BY <1>4, <2>1, <3>1
  <2>13. c.qty[s] >= 0 \/ Enough(b, left)
    <3>1. n = ShortOf(b.qty[s]) => c.qty[s] = 0
      BY <1>2, <2>5, <2>11 DEF ShortOf
    <3>2. LiquidatePct * left <= 100 * Equity(b, m) => Enough(b, left)
      <4>1. PICK e \in Int : e = Equity(b, m)
        BY MarketValues
      <4>2. LiquidatePct * left \in Int
        BY Scaled
      <4>3. LiquidatePct * left <= 100 * e => 100 * e >= LiquidatePct * left
        BY <4>2
      <4> QED
        BY <1>1, <4>1, <4>3 DEF Enough
    <3> QED
      BY <1>10, <2>12, <3>1, <3>2 DEF IsLeg
  <2>14. Exact(b, q, i, left, c)
    <3>1. Equity(c, px) = Equity(b, px) /\ ShortMV(c, px) = left
      BY <1>1, <1>5, <2>11, <2>12 DEF Exact
    <3>2. ASSUME NEW t \in Stocks, \A j \in 1 .. i : q[j] # t PROVE c.qty[t] = b.qty[t]
      <4>1. t # s
        BY <1>2, <3>2
      <4>2. a.qty[t] = b.qty[t]
        BY <1>5, <1>6, <3>2 DEF Exact
      <4> QED
        BY <2>11, <4>1, <4>2
    <3>3. ASSUME NEW j \in 1 .. i PROVE c.qty[q[j]] >= 0 \/ Enough(b, left)
      <4>1. CASE j = i
        BY <1>2, <2>13, <4>1
      <4>2. CASE j \in 1 .. i - 1
        <5>1. a.qty[q[j]] >= 0
          BY <1>5, <2>6, <4>2 DEF Exact
        <5>2. q[j] # s /\ q[j] \in Stocks
          <6>1. j \in 1 .. Len(q)
            BY <4>2
          <6>2. q[j] \in Shorts(b)
            BY <6>1, ElementOfSeq
          <6> QED
            BY <2>4, <4>2, <6>2 DEF Shorts
        <5> QED
          BY <2>11, <5>1, <5>2
      <4> QED
        BY <1>6, <4>1, <4>2
    <3> QED
      BY <3>1, <3>2, <3>3 DEF Exact
  <2>15. Tight(b, Append(legs, o))
    <3>1. PICK p \in Buys : p = [s |-> s, n |-> n - 1] /\ p.s = s /\ p.n = n - 1
      <4>1. [s |-> s, n |-> n - 1] \in Buys
        BY <1>2, <2>1 DEF Buys
      <4> QED
        BY <4>1
    <3>2. OneLess(Append(legs, o)) = Append(legs, p)
      BY <1>2, <2>1, <2>8, <3>1, OneLessOfMore
    <3>3. PICK d \in Books : d = AfterPlan(b, Append(legs, p)) /\ d = BuyAtMark(a, p)
      <4>1. AfterPlan(b, Append(legs, p)) = BuyAtMark(a, p)
        BY <1>3, <2>2, <2>3, <3>1, AfterOneMore
      <4>2. BuyAtMark(a, p) \in Books
        BY <3>1, BuyAtMarkBooks
      <4> QED
        BY <4>1, <4>2
    <3>4. n - 1 \in Nat /\ n - 1 <= ShortOf(a.qty[s])
      <4>1. ShortOf(b.qty[s]) \in Nat
        BY <1>2, Signs
      <4> QED
        BY <2>1, <2>5, <4>1
    <3>5. /\ Equity(d, px) = Equity(a, px) /\ ShortMV(d, px) = ShortMV(a, px) - px[s] * (n - 1)
          /\ d.qty[s] = a.qty[s] + (n - 1)
      BY <3>1, <3>3, <3>4, BuyBack
    <3>6. d.qty[s] < 0
      BY <1>2, <2>1, <2>5, <3>5 DEF ShortOf
    <3>7. LiquidatePct * ShortMV(d, px) > 100 * Equity(d, px)
      BY <1>1, <1>5, <1>10, <3>5 DEF IsLeg, Exact
    <3>8. ~Buffered(d)
      <4>1. Equity(d, m) \in Int /\ ShortMV(d, m) \in Int /\ LiquidatePct * ShortMV(d, m) \in Int
        BY MarketValues, Scaled
      <4>2. Shorts(d) # {}
        BY <1>2, <3>6 DEF Shorts
      <4> QED
        BY <1>1, <3>7, <4>1, <4>2 DEF Buffered
    <3> QED
      BY <3>2, <3>3, <3>8 DEF Tight
  <2>16. next.left = left /\ next.legs = Append(legs, o)
    BY <1>10, <2>2, <2>8, <2>12
  <2> QED
    BY <1>7, <2>7, <2>8, <2>9, <2>10, <2>14, <2>15, <2>16 DEF Planned
<1> QED
  BY <1>1, <1>2, <1>7, <1>8, <1>9, <1>10

LEMMA PlanWorks ==
  ASSUME px \in Marks, NEW b \in Books
  PROVE  /\ Covering(b, LiquidationPlan(b, px))
         /\ Buffered(AfterPlan(b, LiquidationPlan(b, px)))
         /\ Tight(b, LiquidationPlan(b, px))
<1>1. PICK m \in Marks : m = px
  OBVIOUS
<1>2. PICK q \in Seq(Shorts(b)) :
        /\ q = ByLoss(b, m) /\ \A i, j \in 1 .. Len(q) : i # j => q[i] # q[j]
        /\ \A s \in Shorts(b) : \E i \in 1 .. Len(q) : q[i] = s
  BY ShortsInTurn
<1>3. PICK L \in Nat : L = Len(q)
  OBVIOUS
<1>4. PICK g : /\ LiquidationPlan(b, m) = g[L].legs /\ g[0] = [left |-> ShortMV(b, m), legs |-> <<>>]
               /\ \A n \in 1 .. L : g[n] = PlanLeg(b, m, g[n - 1], q[n])
  <2>1. PICK g : /\ LiquidationPlan(b, m) = g[Len(q)].legs /\ g[0] = [left |-> ShortMV(b, m), legs |-> <<>>]
                 /\ \A n \in 1 .. Len(q) : g[n] = PlanLeg(b, m, g[n - 1], q[n])
    BY <1>2, PlanLoop
  <2> QED
    BY <1>3, <2>1
<1>5. PICK C : C = {i \in 0 .. L : Planned(b, q, i, g[i])}
  OBVIOUS
<1>6. 0 \in C
  <2>1. PICK acc \in Plans : acc = g[0] /\ acc.left = ShortMV(b, m) /\ acc.legs = <<>>
    <3>1. ShortMV(b, m) \in Int /\ <<>> \in Seq(Orders)
      BY MarketValues
    <3>2. [left |-> ShortMV(b, m), legs |-> <<>>] \in Plans
      BY <3>1 DEF Plans
    <3> QED
      BY <1>4, <3>2
  <2>2. Covering(b, acc.legs) /\ Len(acc.legs) = 0
    BY <2>1 DEF Covering
  <2>3. AfterPlan(b, acc.legs) = b
    BY <2>1, AfterNothing
  <2>4. Exact(b, q, 0, acc.left, b)
    BY <1>1, <2>1 DEF Exact
  <2>5. Tight(b, acc.legs)
    BY <2>1 DEF Tight
  <2>6. Planned(b, q, 0, acc)
    BY <2>2, <2>3, <2>4, <2>5 DEF Planned
  <2> QED
    BY <1>3, <1>5, <2>1, <2>6
<1>7. ASSUME NEW n \in 1 .. L, n - 1 \in C PROVE n \in C
  <2>1. n \in 1 .. Len(q) /\ Planned(b, q, n - 1, g[n - 1]) /\ n \in 0 .. L
    BY <1>3, <1>5, <1>7
  <2>2. Planned(b, q, n, PlanLeg(b, px, g[n - 1], q[n]))
    BY <1>2, <2>1, PlannedMore
  <2> QED
    BY <1>1, <1>4, <1>5, <2>1, <2>2
<1>8. L \in C
  <2>1. 0 .. L \subseteq C
    BY <1>6, <1>7, ClimbTo
  <2> QED
    BY <2>1
<1>9. PICK acc \in Plans : acc = g[L] /\ Planned(b, q, L, acc)
  BY <1>5, <1>8 DEF Planned
<1>10. PICK a \in Books : a = AfterPlan(b, acc.legs) /\ Exact(b, q, L, acc.left, a)
  BY <1>9 DEF Planned, Exact
<1>11. Buffered(a)
  <2>1. ShortMV(a, m) \in Nat /\ (ShortMV(a, m) = 0 <=> Shorts(a) = {})
    BY MarketValues
  <2>2. CASE Enough(b, acc.left)
    BY <1>1, <1>10, <2>1, <2>2 DEF Buffered, Enough, Exact
  <2>3. CASE ~Enough(b, acc.left)
    <3>1. \A j \in 1 .. L : a.qty[q[j]] >= 0
      BY <1>10, <2>3 DEF Exact
    <3>2. ASSUME NEW t \in Stocks, \A j \in 1 .. L : q[j] # t PROVE ~(a.qty[t] < 0)
      <4>1. a.qty[t] = b.qty[t]
        BY <1>10, <3>2 DEF Exact
      <4>2. t \notin Shorts(b)
        BY <1>2, <1>3, <3>2
      <4> QED
        BY <4>1, <4>2 DEF Shorts
    <3>3. \A t \in Stocks : a.qty[t] \in Int
      BY DEF Books
    <3>4. Shorts(a) = {}
      BY <3>1, <3>2, <3>3 DEF Shorts
    <3> QED
      BY <3>4 DEF Buffered
  <2> QED
    BY <2>2, <2>3
<1> QED
  BY <1>1, <1>4, <1>9, <1>10, <1>11 DEF Planned

-----------------------------------------------------------------------------
(* The forced orders. *)

\* Covering moves a short towards nothing, and a long not at all.
Nearer(x, y) == IF x < 0 THEN x <= y /\ y <= 0 ELSE y = x

LEMMA Covers ==
  ASSUME px \in Marks, NEW b \in Books, NEW legs, Covering(b, legs)
  PROVE  /\ Cover(b, legs) \in Works
         /\ \A t \in Stocks : Nearer(b.qty[t], Cover(b, legs).book.qty[t])
<1>1. legs \in Seq(Orders) /\ \A t \in Stocks : b.qty[t] \in Int
  BY DEF Covering, Books
<1>2. PICK L \in Nat : L = Len(legs)
  BY <1>1
<1>3. PICK g : /\ Cover(b, legs) = g[L] /\ g[0] = [book |-> b, rest |-> <<>>]
               /\ \A n \in 1 .. L : g[n] = CoverLeg(g[n - 1], legs[n])
  BY <1>1, <1>2, CoverLoop
<1> DEFINE Upto(n, w) ==
      /\ w \in Works
      /\ \A t \in Stocks : Nearer(b.qty[t], w.book.qty[t])
      /\ \A t \in Stocks : (\A k \in 1 .. n : legs[k].s # t) => w.book.qty[t] = b.qty[t]
<1>4. PICK C : C = {n \in 0 .. L : Upto(n, g[n])}
  OBVIOUS
<1>5. 0 \in C
  <2>1. PICK w \in Works : w = g[0] /\ w.book = b
    <3>1. [book |-> b, rest |-> <<>>] \in Works
      BY DEF Works
    <3> QED
      BY <1>3, <3>1
  <2>2. \A t \in Stocks : Nearer(b.qty[t], b.qty[t])
    BY <1>1 DEF Nearer
  <2>3. Upto(0, w)
    BY <2>1, <2>2
  <2> HIDE DEF Upto
  <2> QED
    BY <1>2, <1>4, <2>1, <2>3
<1>6. ASSUME NEW n \in 1 .. L, n - 1 \in C PROVE n \in C
  <2>1. PICK w \in Works : w = g[n - 1] /\ Upto(n - 1, w)
    BY <1>4, <1>6
  <2>2. PICK o \in Orders : o = legs[n] /\ o.s \in Stocks /\ o.n \in Nat \ {0} /\ o.n <= ShortOf(b.qty[o.s])
    <3>1. legs[n] \in Orders
      BY <1>1, <1>2, ElementOfSeq
    <3>2. legs[n].n <= ShortOf(b.qty[legs[n].s])
      BY <1>2 DEF Covering
    <3> QED
      BY <3>1, <3>2 DEF Orders
  <2>3. PICK v \in Works : v = CoverLeg(w, o) /\ v = g[n]
    <3>1. CoverLeg(w, o) \in Works
      BY CoverLegWorks
    <3> QED
      BY <1>3, <2>1, <2>2, <3>1
  <2>4. v.book = w.book \/ v.book = Filled(w.book, o.s, "BUY", o.n)
    BY <2>3, CoverLegWorks
  <2>5. w.book \in Books /\ v.book \in Books
    BY DEF Works
  <2>6. n \in Int /\ 1 .. n - 1 \subseteq 1 .. n /\ n \in 1 .. n /\ n \in 0 .. L
    OBVIOUS
  <2>7. w.book.qty[o.s] = b.qty[o.s]
    <3>1. \A k \in 1 .. n - 1 : legs[k].s # legs[n].s
      <4>1. \A k \in 1 .. n - 1 : k \in 1 .. Len(legs) /\ n \in 1 .. Len(legs) /\ k # n
        BY <1>2
      <4> QED
        BY <4>1 DEF Covering
    <3> QED
      BY <2>1, <2>2, <3>1
  <2>8. CASE v.book = w.book
    <3>1. Upto(n, v)
      BY <2>1, <2>6, <2>8
    <3> HIDE DEF Upto
    <3> QED
      BY <1>4, <2>3, <2>6, <3>1
  <2>9. CASE v.book = Filled(w.book, o.s, "BUY", o.n)
    <3>1. /\ v.book.qty[o.s] = w.book.qty[o.s] + Sign("BUY") * o.n
          /\ \A t \in Stocks : t # o.s => v.book.qty[t] = w.book.qty[t]
      BY <2>2, <2>5, <2>9, DeskFill
    <3>2. v.book.qty[o.s] = b.qty[o.s] + o.n
      <4>1. Sign("BUY") = 1 /\ o.n \in Int
        BY <2>2 DEF Sign
      <4>2. 1 * o.n = o.n
        BY <4>1
      <4> QED
        BY <2>7, <3>1, <4>1, <4>2
    <3>3. Nearer(b.qty[o.s], v.book.qty[o.s])
      BY <1>1, <2>2, <3>2 DEF Nearer, ShortOf
    <3>4. \A t \in Stocks : Nearer(b.qty[t], v.book.qty[t])
      BY <2>1, <3>1, <3>3
    <3>5. ASSUME NEW t \in Stocks, \A k \in 1 .. n : legs[k].s # t PROVE v.book.qty[t] = b.qty[t]
      <4>1. t # o.s
        BY <2>2, <2>6, <3>5
      <4> QED
        BY <2>1, <2>6, <3>1, <3>5, <4>1
    <3>6. Upto(n, v)
      BY <3>4, <3>5
    <3> HIDE DEF Upto
    <3> QED
      BY <1>4, <2>3, <2>6, <3>6
  <2> QED
    BY <2>4, <2>8, <2>9
<1>7. L \in C
  <2>1. 0 .. L \subseteq C
    BY <1>5, <1>6, ClimbTo
  <2> QED
    BY <2>1
<1> QED
  BY <1>3, <1>4, <1>7

\* A position nobody can trade.
Stuck(n, s) == (n > 0 => ~SideAllowed(s, "SELL")) /\ (n < 0 => ~SideAllowed(s, "BUY"))

LEMMA Closes ==
  ASSUME px \in Marks, NEW b \in Books
  PROVE  /\ SquareOff(b) \in Books
         /\ \A t \in Stocks : SquareOff(b).qty[t] = 0 \/ SquareOff(b).qty[t] = b.qty[t]
         /\ \A t \in Stocks : Stuck(SquareOff(b).qty[t], t)
<1>1. PICK q \in Seq(Stocks) : q = SetToSeq(Stocks) /\ \A t \in Stocks : \E i \in 1 .. Len(q) : q[i] = t
  BY StocksInTurn
<1>2. PICK L \in Nat : L = Len(q)
  OBVIOUS
<1>3. PICK g : /\ SquareOff(b) = g[L] /\ g[0] = b
               /\ \A n \in 1 .. L : g[n] = CloseLeg(g[n - 1], q[n])
  <2>1. PICK g : /\ SquareOff(b) = g[Len(q)] /\ g[0] = b
                 /\ \A n \in 1 .. Len(q) : g[n] = CloseLeg(g[n - 1], q[n])
    BY <1>1, CloseLoop
  <2> QED
    BY <1>2, <2>1
<1> DEFINE Upto(n, c) ==
      /\ c \in Books
      /\ \A t \in Stocks : c.qty[t] = 0 \/ c.qty[t] = b.qty[t]
      /\ \A k \in 1 .. n : Stuck(c.qty[q[k]], q[k])
<1>4. PICK C : C = {n \in 0 .. L : Upto(n, g[n])}
  OBVIOUS
<1>5. 0 \in C
  <2>1. Upto(0, b)
    OBVIOUS
  <2> HIDE DEF Upto
  <2> QED
    BY <1>2, <1>3, <1>4, <2>1
<1>6. ASSUME NEW n \in 1 .. L, n - 1 \in C PROVE n \in C
  <2>1. PICK c \in Books : c = g[n - 1] /\ Upto(n - 1, c)
    BY <1>4, <1>6
  <2>2. PICK s \in Stocks : s = q[n]
    BY <1>2, ElementOfSeq
  <2>3. PICK d \in Books : d = CloseLeg(c, s) /\ d = g[n]
    <3>1. CloseLeg(c, s) \in Books
      BY CloseLegBooks
    <3> QED
      BY <1>3, <2>1, <2>2, <3>1
  <2>4. /\ \A t \in Stocks : t # s => d.qty[t] = c.qty[t]
        /\ d.qty[s] = 0 \/ d.qty[s] = c.qty[s]
        /\ c.qty[s] > 0 /\ SideAllowed(s, "SELL") => d.qty[s] = 0
        /\ c.qty[s] < 0 /\ SideAllowed(s, "BUY") => d.qty[s] = 0
    <3> DEFINE e == CloseLeg(c, s)
    <3>1. /\ \A t \in Stocks : t # s => e.qty[t] = c.qty[t]
          /\ e.qty[s] = 0 \/ e.qty[s] = c.qty[s]
          /\ c.qty[s] > 0 /\ SideAllowed(s, "SELL") => e.qty[s] = 0
          /\ c.qty[s] < 0 /\ SideAllowed(s, "BUY") => e.qty[s] = 0
      BY CloseLegBooks
    <3>2. d = e
      BY <2>3
    <3> HIDE DEF e
    <3> QED
      BY <3>1, <3>2
  <2>5. Stuck(d.qty[s], s) /\ \A t \in Stocks : Stuck(0, t)
    BY <2>4 DEF Stuck
  <2>6. \A t \in Stocks : d.qty[t] = 0 \/ d.qty[t] = c.qty[t]
    BY <2>4
  <2>7. n \in 0 .. L /\ \A k \in 1 .. n : (k = n \/ k \in 1 .. n - 1) /\ q[k] \in Stocks
    <3>1. \A k \in 1 .. n : k \in 1 .. Len(q)
      BY <1>2
    <3>2. \A k \in 1 .. n : q[k] \in Stocks
      BY <3>1, ElementOfSeq
    <3> QED
      BY <3>2
  <2>8. \A k \in 1 .. n : Stuck(d.qty[q[k]], q[k])
    BY <2>1, <2>2, <2>5, <2>6, <2>7
  <2>9. Upto(n, d)
    BY <2>1, <2>6, <2>8
  <2> HIDE DEF Upto
  <2> QED
    BY <1>4, <2>3, <2>7, <2>9
<1>7. L \in C
  <2>1. 0 .. L \subseteq C
    BY <1>5, <1>6, ClimbTo
  <2> QED
    BY <2>1
<1>8. Upto(L, SquareOff(b))
  BY <1>3, <1>4, <1>7
<1> QED
  BY <1>1, <1>2, <1>8

LEMMA Sweeps ==
  ASSUME px \in Marks, NEW b \in Books, NEW orders \in Seq(Orders)
  PROVE  Work(b, orders) \in Works
<1>1. PICK L \in Nat : L = Len(orders)
  OBVIOUS
<1>2. PICK g : /\ Work(b, orders) = g[L] /\ g[0] = [book |-> b, rest |-> <<>>]
               /\ \A n \in 1 .. L : g[n] = WorkLeg(g[n - 1], orders[n])
  BY <1>1, SweepLoop
<1>3. PICK C : C = {n \in 0 .. L : g[n] \in Works}
  OBVIOUS
<1>4. 0 \in C
  <2>1. [book |-> b, rest |-> <<>>] \in Works
    BY DEF Works
  <2> QED
    BY <1>1, <1>2, <1>3, <2>1
<1>5. ASSUME NEW n \in 1 .. L, n - 1 \in C PROVE n \in C
  <2>1. PICK w \in Works : w = g[n - 1]
    BY <1>3, <1>5
  <2>2. PICK o \in Orders : o = orders[n]
    BY <1>1, ElementOfSeq
  <2>3. WorkLeg(w, o) \in Works
    BY WorkLegWorks
  <2> QED
    BY <1>2, <1>3, <2>1, <2>2, <2>3
<1>6. L \in C
  <2>1. 0 .. L \subseteq C
    BY <1>4, <1>5, ClimbTo
  <2> QED
    BY <2>1
<1> QED
  BY <1>2, <1>3, <1>6

-----------------------------------------------------------------------------
(* The desk. *)

DeskTypes ==
  /\ book \in Books /\ px \in Marks
  /\ resting \in Seq(Orders) /\ trades \in Nat

\* What a liquidation leaves of every position, and whether it was due.
Due(b, c) ==
  c # b =>
    /\ MarginState(b, px) \in {"CALL", "BUST"}
    /\ \A s \in Stocks : Abs(c.qty[s]) <= Abs(b.qty[s]) /\ c.qty[s] * b.qty[s] >= 0

LEMMA Closer ==
  ASSUME NEW x \in Int, NEW y \in Int, NEW z \in Int, Nearer(x, y), z = 0 \/ z = y
  PROVE  Abs(z) <= Abs(x) /\ z * x >= 0
<1>1. Abs(z) <= Abs(x)
  BY DEF Nearer, Abs
<1>2. \A v, w \in Int : (v <= 0 /\ w <= 0) \/ (v >= 0 /\ w >= 0) => v * w >= 0
  OBVIOUS
<1>3. (z <= 0 /\ x <= 0) \/ (z >= 0 /\ x >= 0)
  BY DEF Nearer
<1> QED
  BY <1>1, <1>2, <1>3

\* A margin order that passes the funds check leaves the team in good standing.
LEMMA SafeBook ==
  ASSUME NEW b \in Books, NEW m \in Marks, Available(b, m) >= 0
  PROVE  MarginState(b, m) = "OK" \/ (Shorts(b) = {} /\ Equity(b, m) = 0)
<1>1. PICK short \in Nat : short = ShortMV(b, m) /\ (short = 0 <=> Shorts(b) = {})
  BY MarketValues
<1>2. PICK long \in Nat : long = LongMV(b, m)
  BY MarketValues
<1>3. PICK cash \in Int : cash = b.cash
  BY DEF Books
<1>4. PICK e \in Int : e = Equity(b, m) /\ e = cash + long - short
  BY <1>1, <1>2, <1>3 DEF Equity
<1>5. PICK i \in Nat, k \in Nat, w \in Nat :
        i = InitialPct /\ k = MaintenancePct /\ w = WarningPct /\ k <= w /\ w <= i /\ i > 0
  <2>1. LiquidatePct \in Int /\ LiquidatePct <= InitialPct /\ WarningPct <= LiquidatePct
        /\ InitialPct \in Nat /\ InitialPct > 0 /\ WarningPct \in Nat /\ MaintenancePct \in Nat
        /\ MaintenancePct <= WarningPct
    BY MarginAssumption
  <2> QED
    BY <2>1
<1>6. PICK held \in Int : held = i * short
  OBVIOUS
<1>7. 100 * cash >= 100 * short + held
  <2>1. (100 + i) * short = 100 * short + held
    BY <1>6
  <2>2. 100 * cash - (100 + i) * short >= 0
    BY <1>1, <1>3, <1>5 DEF Available
  <2> QED
    BY <1>6, <2>1, <2>2
<1>8. 100 * e >= held + 100 * long
  BY <1>4, <1>7
<1>9. held >= 0 /\ (short > 0 => held > 0)
  <2>1. \A x, y \in Nat : x * y >= 0 /\ (x > 0 /\ y > 0 => x * y > 0)
    OBVIOUS
  <2> QED
    BY <1>5, <1>6, <2>1
<1>10. e >= 0 /\ (e = 0 => short = 0)
  BY <1>8, <1>9
<1>11. 100 * e >= w * short /\ 100 * e >= k * short
  <2>1. \A x, y, z \in Nat : x <= y => x * z <= y * z
    OBVIOUS
  <2>2. w * short <= i * short /\ k * short <= w * short
    BY <1>5, <2>1
  <2>3. w * short \in Int /\ k * short \in Int
    OBVIOUS
  <2> QED
    BY <1>6, <1>8, <2>2, <2>3
<1>12. CASE e = 0
  BY <1>1, <1>4, <1>10, <1>12
<1>13. CASE e > 0
  <2>1. w * short \in Int /\ k * short \in Int
    OBVIOUS
  <2>2. ~(e <= 0) /\ ~(100 * e < k * short) /\ ~(100 * e < w * short)
    BY <1>11, <1>13, <2>1
  <2> QED
    BY <1>1, <1>4, <1>5, <2>2 DEF MarginState
<1> QED
  BY <1>10, <1>12, <1>13

LEMMA PriceIsWhole ==
  ASSUME px \in Marks, NEW s \in Stocks, NEW side
  PROVE  FillPrice(s, side) \in Int
BY Signs, DeskAssumption DEF FillPrice, Marks

LEMMA TradeDoes ==
  ASSUME DeskTypes, NEW s \in Stocks, NEW side \in {"BUY", "SELL"}, NEW n \in Lots, Trade(s, side, n)
  PROVE  /\ DeskTypes' /\ trades' # trades /\ team' = team
         /\ MarginState(book', px) = "OK" \/ (Shorts(book') = {} /\ Equity(book', px) = 0)
<1>1. PICK b \in Books : b = book
  BY DEF DeskTypes
<1>2. PICK m \in Marks : m = px
  BY DEF DeskTypes
<1>3. n \in Nat \ {0}
  BY DeskAssumption
<1>4. PICK price \in Int, fees \in Int : price = FillPrice(s, side) /\ fees = Charge * n
  <2>1. FillPrice(s, side) \in Int
    BY PriceIsWhole DEF DeskTypes
  <2>2. Charge * n \in Int
    BY <1>3, DeskAssumption
  <2> QED
    BY <2>1, <2>2
<1>5. PICK c \in Books : c = Fill(b, s, side, n, price, fees)
  BY <1>3, FillBooks
<1>6. book' = c
  BY <1>1, <1>4, <1>5 DEF Trade, Filled
<1>7. ProjectAvailable(b, m, s, side, n, price, fees) = Available(c, m)
  BY <1>3, <1>5, Projected
<1>8. ProjectAvailable(b, m, s, side, n, price, fees) >= 0
  BY <1>1, <1>2, <1>4 DEF Trade, Affordable
<1>9. MarginState(c, m) = "OK" \/ (Shorts(c) = {} /\ Equity(c, m) = 0)
  BY <1>7, <1>8, SafeBook
<1>10. trades' = trades + 1 /\ team' = team /\ px' = px /\ resting' = resting
  BY DEF Trade
<1>11. DeskTypes' /\ trades' # trades
  BY <1>6, <1>10 DEF DeskTypes
<1> QED
  BY <1>2, <1>6, <1>9, <1>10, <1>11

LEMMA TapeTypes ==
  ASSUME DeskTypes, Tape
  PROVE  DeskTypes' /\ trades' = trades /\ team' = team /\ book' = book
<1>1. px' \in [Stocks -> Prices] /\ UNCHANGED <<book, team, resting, trades>>
  BY DEF Tape
<1>2. px' \in Marks
  BY <1>1, DeskAssumption DEF Marks
<1> QED
  BY <1>1, <1>2 DEF DeskTypes

LEMMA SweepTypes ==
  ASSUME DeskTypes, Sweep
  PROVE  DeskTypes' /\ trades' = trades /\ team' = team /\ phase # "act"
<1>1. PICK b \in Books, orders \in Seq(Orders) : b = book /\ orders = resting
  BY DEF DeskTypes
<1>2. PICK w \in Works : w = Work(b, orders)
  BY Sweeps DEF DeskTypes
<1>3. w.book \in Books /\ w.rest \in Seq(Orders)
  BY DEF Works
<1>4. \/ book' = w.book /\ resting' = w.rest
      \/ book' = book /\ resting' = resting
  BY <1>1, <1>2 DEF Sweep
<1>5. px' = px /\ trades' = trades /\ team' = team /\ phase = "sweep"
  BY DEF Sweep
<1>6. book' \in Books /\ resting' \in Seq(Orders)
  BY <1>3, <1>4 DEF DeskTypes
<1> QED
  BY <1>5, <1>6 DEF DeskTypes

LEMMA ScanTypes ==
  ASSUME DeskTypes, Scan
  PROVE  DeskTypes' /\ trades' = trades /\ team' = team /\ book' = book
BY DEF Scan, DeskTypes

LEMMA LiquidateDoes ==
  ASSUME DeskTypes, Liquidate
  PROVE  /\ DeskTypes' /\ trades' = trades
         /\ Due(book, book')
         /\ team' # team => \A s \in Stocks : Stuck(book'.qty[s], s)
<1>1. PICK b \in Books : b = book
  BY DEF DeskTypes
<1>2. PICK legs \in Seq(Orders) : legs = LiquidationPlan(b, px) /\ Covering(b, legs)
  <2>1. Covering(b, LiquidationPlan(b, px))
    BY PlanWorks DEF DeskTypes
  <2> QED
    BY <2>1 DEF Covering
<1>3. PICK w \in Works : w = Cover(b, legs) /\ \A t \in Stocks : Nearer(b.qty[t], w.book.qty[t])
  BY <1>2, Covers DEF DeskTypes
<1>4. PICK v \in Books : v = w.book
  BY DEF Works
<1>5. PICK d \in Books :
        /\ d = SquareOff(v)
        /\ \A t \in Stocks : d.qty[t] = 0 \/ d.qty[t] = v.qty[t]
        /\ \A t \in Stocks : Stuck(d.qty[t], t)
  BY Closes DEF DeskTypes
<1>6. w.rest \in Seq(Orders) /\ resting \in Seq(Orders) /\ resting \o w.rest \in Seq(Orders)
  BY DEF Works, DeskTypes
<1>7. \/ book' = b /\ team' = team /\ resting' = resting
      \/ /\ MarginState(b, px) \in {"CALL", "BUST"}
         /\ \/ book' = d /\ resting' = <<>>
            \/ book' = v /\ resting' = resting \o w.rest /\ team' = team
  BY <1>1, <1>2, <1>3, <1>4, <1>5 DEF Liquidate
<1>8. px' = px /\ trades' = trades
  BY DEF Liquidate
<1>9. DeskTypes'
  <2>1. book' \in Books
    BY <1>7
  <2>2. resting' \in Seq(Orders)
    <3>1. <<>> \in Seq(Orders)
      OBVIOUS
    <3>2. resting' = resting \/ resting' = <<>> \/ resting' = resting \o w.rest
      BY <1>7
    <3> QED
      BY <1>6, <3>1, <3>2
  <2> QED
    BY <1>8, <2>1, <2>2 DEF DeskTypes
<1>10. ASSUME NEW s \in Stocks, book' = d \/ book' = v
       PROVE  Abs(book'.qty[s]) <= Abs(b.qty[s]) /\ book'.qty[s] * b.qty[s] >= 0
  <2>1. PICK x \in Int, y \in Int : x = b.qty[s] /\ y = v.qty[s] /\ Nearer(x, y)
    BY <1>3, <1>4 DEF Books
  <2>2. PICK z \in Int : z = book'.qty[s] /\ (z = 0 \/ z = y)
    BY <1>5, <1>10, <2>1 DEF Books
  <2> QED
    BY <2>1, <2>2, Closer
<1>11. Due(book, book')
  BY <1>1, <1>7, <1>10 DEF Due
<1>12. team' # team => book' = d
  BY <1>7
<1> QED
  BY <1>5, <1>8, <1>9, <1>11, <1>12

LEMMA DeskTypesHold == Spec => []DeskTypes
<1>1. Init => DeskTypes
  <2> SUFFICES ASSUME Init PROVE DeskTypes
    OBVIOUS
  <2>1. book = Opening /\ px = Opening.avg /\ resting = <<>> /\ trades = 0
    BY DEF Init
  <2>2. Opening \in [cash : Int, qty : [Stocks -> Int], avg : [Stocks -> Prices]] /\ Prices \subseteq Nat \ {0}
    BY DeskAssumption
  <2>3. Opening.avg \in Marks /\ Opening.avg \in [Stocks -> Int]
    <3>1. PICK a \in [Stocks -> Prices] : a = Opening.avg
      BY <2>2
    <3>2. \A s \in Stocks : a[s] \in Nat \ {0} /\ a[s] \in Int
      <4>1. \A s \in Stocks : a[s] \in Prices
        OBVIOUS
      <4>2. \A p \in Prices : p \in Nat \ {0} /\ p \in Int
        BY <2>2
      <4> QED
        BY <4>1, <4>2
    <3>3. a \in [Stocks -> Nat \ {0}] /\ a \in [Stocks -> Int]
      BY <3>2
    <3> QED
      BY <3>1, <3>3 DEF Marks
  <2>4. Opening \in Books
    BY <2>2, <2>3 DEF Books
  <2> QED
    BY <2>1, <2>3, <2>4 DEF DeskTypes
<1>2. DeskTypes /\ [Next]_vars => DeskTypes'
  <2> SUFFICES ASSUME DeskTypes, [Next]_vars PROVE DeskTypes'
    OBVIOUS
  <2>1. CASE UNCHANGED vars
    BY <2>1 DEF vars, DeskTypes
  <2>2. CASE Next
    BY <2>2, TradeDoes, TapeTypes, SweepTypes, ScanTypes, LiquidateDoes DEF Next
  <2> QED
    BY <2>1, <2>2
<1> QED
  BY <1>1, <1>2, PTL DEF Spec

\* Whatever is projected for an order (risk.project_available) is what its
\* fill leaves available: the incremental check and the valuation agree.
THEOREM ProjectionHolds == Spec => []ProjectionIsExact
<1>1. DeskTypes => ProjectionIsExact
  <2> SUFFICES ASSUME DeskTypes, NEW s \in Stocks, NEW side \in {"BUY", "SELL"}, NEW n \in Lots
               PROVE  ProjectAvailable(book, px, s, side, n, FillPrice(s, side), Charge * n)
                        = Available(Filled(book, s, side, n), px)
    BY DEF ProjectionIsExact
  <2>1. PICK b \in Books : b = book
    BY DEF DeskTypes
  <2>2. PICK m \in Marks : m = px
    BY DEF DeskTypes
  <2>3. n \in Nat /\ Charge * n \in Int
    <3>1. n \in Nat /\ Charge \in Nat
      BY DeskAssumption
    <3> QED
      BY <3>1
  <2>4. PICK price \in Int, fees \in Int : price = FillPrice(s, side) /\ fees = Charge * n
    <3>1. FillPrice(s, side) \in Int
      BY PriceIsWhole DEF DeskTypes
    <3> QED
      BY <2>3, <3>1
  <2>5. ProjectAvailable(b, m, s, side, n, price, fees) = Available(Fill(b, s, side, n, price, fees), m)
    BY <2>3, Projected
  <2> QED
    BY <2>1, <2>2, <2>4, <2>5 DEF Filled
<1> QED
  BY <1>1, DeskTypesHold, PTL

\* The plan restores the buffer or buys back every short, and a share less in
\* its last leg would not do.
THEOREM PlanSuffices == Spec => []PlanIsExact
<1>1. DeskTypes => PlanIsExact
  <2> SUFFICES ASSUME DeskTypes PROVE PlanIsExact
    OBVIOUS
  <2>1. PICK b \in Books : b = book
    BY DEF DeskTypes
  <2>2. /\ Buffered(AfterPlan(b, LiquidationPlan(b, px)))
        /\ Tight(b, LiquidationPlan(b, px))
    BY PlanWorks DEF DeskTypes
  <2> QED
    BY <2>1, <2>2 DEF PlanIsExact, Tight, OneLess
<1> QED
  BY <1>1, DeskTypesHold, PTL

LEMMA DeskSteps ==
  ASSUME DeskTypes, Next
  PROVE  /\ trades' # trades => MarginState(book', px) = "OK" \/ (Shorts(book') = {} /\ Equity(book', px) = 0)
         /\ phase = "act" /\ trades' = trades => Due(book, book')
         /\ team' # team => \A s \in Stocks : Stuck(book'.qty[s], s)
<1>1. CASE \E s \in Stocks, side \in {"BUY", "SELL"}, n \in Lots : Trade(s, side, n)
  BY <1>1, TradeDoes
<1>2. CASE Tape
  BY <1>2, TapeTypes DEF Due
<1>3. CASE Sweep
  BY <1>3, SweepTypes
<1>4. CASE Scan
  BY <1>4, ScanTypes DEF Due
<1>5. CASE Liquidate
  BY <1>5, LiquidateDoes
<1> QED
  BY <1>1, <1>2, <1>3, <1>4, <1>5 DEF Next

\* No order that passes the funds check puts a team in margin call or below
\* zero, whatever the book it was placed on.
THEOREM TradesAreSafe == Spec => TradeIsSafe
<1>1. DeskTypes /\ [Next]_vars =>
        [trades' # trades =>
           MarginState(book', px) = "OK" \/ (Shorts(book') = {} /\ Equity(book', px) = 0)]_vars
  BY DeskSteps
<1> QED
  BY <1>1, DeskTypesHold, PTL DEF Spec, TradeIsSafe

\* The desk acts only on a book that is in call under the lock, and brings no
\* position further from nothing, or past it.
THEOREM CoversAreDue == Spec => CoverIsDue
<1>1. DeskTypes /\ [Next]_vars =>
        [(phase = "act" /\ book' # book /\ trades' = trades) =>
           /\ MarginState(book, px) \in {"CALL", "BUST"}
           /\ \A s \in Stocks : Abs(book'.qty[s]) <= Abs(book.qty[s]) /\ book'.qty[s] * book.qty[s] >= 0]_vars
  BY DeskSteps DEF Due
<1> QED
  BY <1>1, DeskTypesHold, PTL DEF Spec, CoverIsDue

\* A team that goes bust keeps only what nobody could trade.
THEOREM BustsKeepOnlyStuck == Spec => BustKeepsOnlyStuck
<1>1. DeskTypes /\ [Next]_vars =>
        [team' # team => \A s \in Stocks :
           /\ book'.qty[s] > 0 => ~SideAllowed(s, "SELL")
           /\ book'.qty[s] < 0 => ~SideAllowed(s, "BUY")]_vars
  BY DeskSteps DEF Stuck
<1> QED
  BY <1>1, DeskTypesHold, PTL DEF Spec, BustKeepsOnlyStuck

=============================================================================
