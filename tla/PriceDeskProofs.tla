-------------------------- MODULE PriceDeskProofs --------------------------
(***************************************************************************)
(* The price of a stock, for any number of operators, any grid, band,      *)
(* walk, price action, dividend and split.  The invariant says of every    *)
(* transaction under way what it will make of the stock if nobody commits  *)
(* before it does (Sound), and of the stock what those who have committed  *)
(* left: a price on the grid and in its band, and who raised the           *)
(* volatility.  That a dividend or a split is neutral is the rounding of   *)
(* a price to its grid, which is half a tick at most.                      *)
(***************************************************************************)
EXTENDS PriceDesk, Induction, SequenceTheorems

-----------------------------------------------------------------------------
\* Rounding.

Prices == {k * Unit : k \in Nat}

LEMMA Units == Unit \in Nat /\ Unit > 0 /\ SeedPrice \in Nat /\ SeedPrice > 0 /\ SeedPrice % Unit = 0
BY DeskAssumption

LEMMA Division ==
  ASSUME NEW a \in Int, NEW b \in Nat, b > 0
  PROVE  a \div b \in Int /\ b * (a \div b) <= a /\ a < b * (a \div b) + b
OBVIOUS

LEMMA Remainder ==
  ASSUME NEW a \in Nat, NEW b \in Nat, b > 0
  PROVE  a = b * (a \div b) + (a % b) /\ a % b \in Nat /\ a % b < b
OBVIOUS

\* A multiple of the tick, no more than half a tick away.
LEMMA Rounding ==
  ASSUME NEW n \in Int, NEW d \in Nat, d > 0
  PROVE  \E k \in Int : /\ RoundToTick(n, d) = k * Unit
                        /\ 2 * d * (k * Unit) <= 2 * n + d * Unit
                        /\ 2 * n - d * Unit < 2 * d * (k * Unit)
<1> DEFINE b == 2 * d * Unit
<1> DEFINE k == (2 * n + d * Unit) \div b
<1>1. d * Unit \in Nat /\ b = 2 * (d * Unit) /\ b \in Nat /\ b > 0
  BY Units
<1>2. k \in Int /\ b * k <= 2 * n + d * Unit /\ 2 * n + d * Unit < b * k + b
  <2> HIDE DEF b
  <2> QED
    BY <1>1, Division
<1>3. b * k = 2 * d * (k * Unit)
  BY <1>1, <1>2, Units
<1>4. RoundToTick(n, d) = k * Unit
  BY <1>2, Units DEF RoundToTick
<1> HIDE DEF k, b
<1> QED
  BY <1>1, <1>2, <1>3, <1>4

\* A price stays on its side of one on the grid.
LEMMA RoundingRespectsPrices ==
  ASSUME NEW n \in Int, NEW d \in Nat, d > 0, NEW p \in Prices
  PROVE  /\ RoundToTick(n, d) \in Int
         /\ n <= d * p => RoundToTick(n, d) <= p
         /\ d * p <= n => p <= RoundToTick(n, d)
         /\ 0 <= n => RoundToTick(n, d) \in Prices
<1>1. PICK k \in Int : /\ RoundToTick(n, d) = k * Unit
                       /\ 2 * d * (k * Unit) <= 2 * n + d * Unit
                       /\ 2 * n - d * Unit < 2 * d * (k * Unit)
  BY Rounding
<1>2. PICK l \in Nat : p = l * Unit
  BY DEF Prices
<1>3. PICK u \in Nat : u = d * Unit /\ u > 0
  BY Units
<1>4. 2 * d * (k * Unit) = u * (2 * k) /\ d * p = u * l /\ k * Unit \in Int
  BY <1>2, <1>3, Units
<1>5. u * (2 * k) <= 2 * n + u /\ 2 * n - u < u * (2 * k)
  BY <1>1, <1>3, <1>4
<1>6. ASSUME n <= d * p PROVE RoundToTick(n, d) <= p
  <2>1. u * (2 * k) <= 2 * (u * l) + u
    BY <1>3, <1>4, <1>5, <1>6
  <2>2. u * (2 * k) <= u * (2 * l + 1)
    BY <1>3, <2>1
  <2>3. 2 * k <= 2 * l + 1
    BY <1>3, <2>2
  <2>4. k <= l
    BY <2>3
  <2> QED
    BY <1>1, <1>2, <2>4, Units
<1>7. ASSUME d * p <= n PROVE p <= RoundToTick(n, d)
  <2>1. 2 * (u * l) - u < u * (2 * k)
    BY <1>3, <1>4, <1>5, <1>7
  <2>2. u * (2 * l - 1) < u * (2 * k)
    BY <1>3, <2>1
  <2>3. 2 * l - 1 < 2 * k
    BY <1>3, <2>2
  <2>4. l <= k
    BY <2>3
  <2> QED
    BY <1>1, <1>2, <2>4, Units
<1>8. ASSUME 0 <= n PROVE RoundToTick(n, d) \in Prices
  <2>1. u * (0 - 1) < u * (2 * k)
    BY <1>3, <1>5, <1>8
  <2>2. 0 - 1 < 2 * k
    BY <1>3, <2>1
  <2>3. k \in Nat
    BY <2>2
  <2> QED
    BY <1>1, <2>3 DEF Prices
<1> QED
  BY <1>1, <1>4, <1>6, <1>7, <1>8

LEMMA LeastPrices == 0 \in Prices /\ Unit \in Prices
<1>1. 0 = 0 * Unit /\ Unit = 1 * Unit
  BY Units
<1> QED
  BY <1>1 DEF Prices

LEMMA PricesAreWhole ==
  ASSUME NEW p \in Prices
  PROVE  p \in Nat /\ p % Unit = 0
<1>1. PICK k \in Nat : p = k * Unit
  BY DEF Prices
<1>2. k * Unit \in Nat /\ (k * Unit) % Unit = 0
  BY Units
<1> QED
  BY <1>1, <1>2

-----------------------------------------------------------------------------
\* The band.

Statuses == {"ACTIVE"} \cup Stopped \cup Circuits

Stocks ==
  {s \in [Columns -> Nat \cup Statuses] :
     /\ s.price \in Prices /\ s.ref \in Prices /\ s.status \in Statuses
     /\ s.vol \in Nat /\ s.band \in 1 .. 100}

\* The edges of a band are on the grid, around the reference.
LEMMA Edges ==
  ASSUME NEW s \in Stocks
  PROVE  /\ Low(s) \in Prices /\ High(s) \in Prices
         /\ Low(s) <= s.ref /\ s.ref <= High(s)
         /\ AtLeastTick(Low(s)) \in Prices /\ AtLeastTick(High(s)) \in Prices
<1>1. s.ref \in Nat /\ s.ref \in Prices /\ s.band \in 1 .. 100
  BY PricesAreWhole DEF Stocks
<1>2. /\ s.ref * (100 - s.band) \in Nat /\ s.ref * (100 + s.band) \in Nat
      /\ s.ref * (100 - s.band) <= 100 * s.ref /\ 100 * s.ref <= s.ref * (100 + s.band)
  <2> PICK r \in Nat, b \in 1 .. 100 : r = s.ref /\ b = s.band
    BY <1>1
  <2> PICK c \in Nat : c = 100 - b
    OBVIOUS
  <2>1. r * b \in Nat /\ r * c \in Nat /\ r * (b + c) = r * b + r * c /\ r * (100 + b) = 100 * r + r * b
    OBVIOUS
  <2>2. r * (b + c) = 100 * r
    OBVIOUS
  <2> QED
    BY <2>1, <2>2
<1>3. Low(s) \in Prices /\ High(s) \in Prices /\ Low(s) <= s.ref /\ s.ref <= High(s)
  BY <1>1, <1>2, RoundingRespectsPrices DEF Low, High
<1>4. Unit \in Prices
  BY Units DEF Prices
<1> QED
  BY <1>3, <1>4 DEF AtLeastTick

\* A price that is positive and inside its band.
Placed(s) == s.price > 0 /\ InBand(s)

\* apply_band keeps a stopped stock, and puts any other inside its band.
LEMMA Banded ==
  ASSUME NEW s \in Stocks, NEW p \in Int, 0 <= p => p \in Prices
  PROVE  /\ ApplyBand(s, p) \in Stocks
         /\ ApplyBand(s, p).ref = s.ref /\ ApplyBand(s, p).band = s.band /\ ApplyBand(s, p).vol = s.vol
         /\ s.status \in Stopped => ApplyBand(s, p) = s
         /\ s.status \notin Stopped => Placed(ApplyBand(s, p)) /\ ApplyBand(s, p).status \notin Stopped
<1> DEFINE Set(x, st) == [s EXCEPT !.price = x, !.status = st]
<1>1. Unit \in Prices /\ \A q \in Prices : q \in Nat /\ AtLeastTick(q) \in Prices /\ q <= AtLeastTick(q) /\ AtLeastTick(q) > 0
  <2>1. Unit \in Prices
    BY Units DEF Prices
  <2>2. \A q \in Prices : q \in Nat
    BY PricesAreWhole
  <2> QED
    BY <2>1, <2>2, Units DEF AtLeastTick
<1>2. ASSUME NEW x \in Prices, NEW st \in Statuses
      PROVE  /\ Set(x, st) \in Stocks /\ Set(x, st).price = x /\ Set(x, st).status = st
             /\ Set(x, st).ref = s.ref /\ Set(x, st).band = s.band /\ Set(x, st).vol = s.vol
             /\ Low(Set(x, st)) = Low(s) /\ High(Set(x, st)) = High(s)
  <2>1. x \in Nat /\ s \in [Columns -> Nat \cup Statuses]
    BY <1>1 DEF Stocks
  <2>2. /\ Set(x, st).price = x /\ Set(x, st).status = st
        /\ Set(x, st).ref = s.ref /\ Set(x, st).band = s.band /\ Set(x, st).vol = s.vol
    BY <2>1 DEF Columns
  <2>3. Set(x, st) \in [Columns -> Nat \cup Statuses]
    BY <2>1 DEF Columns
  <2>4. Set(x, st) \in Stocks
    BY <2>2, <2>3 DEF Stocks
  <2> QED
    BY <2>2, <2>4 DEF Low, High
<1>3. Low(s) \in Prices /\ High(s) \in Prices /\ Low(s) <= High(s)
  <2>1. s.ref \in Nat
    BY PricesAreWhole DEF Stocks
  <2> QED
    BY <1>1, <2>1, Edges
<1>4. CASE s.status \in Stopped
  BY <1>4 DEF ApplyBand
<1>5. CASE s.status \notin Stopped /\ p >= High(s)
  <2>1. ApplyBand(s, p) = Set(AtLeastTick(High(s)), "UPPER_CIRCUIT")
    BY <1>5 DEF ApplyBand
  <2>2. AtLeastTick(High(s)) \in Prices /\ Low(s) <= AtLeastTick(High(s))
    BY <1>1, <1>3
  <2>3. PICK x, e : x \in Prices /\ x = AtLeastTick(High(s)) /\ e = Set(x, "UPPER_CIRCUIT")
    BY <2>2
  <2>4. x > 0 /\ x <= AtLeastTick(High(s)) /\ "UPPER_CIRCUIT" \in Statuses
    BY <1>1, <1>3, <2>3 DEF Statuses, Circuits
  <2> HIDE DEF Set
  <2>5. /\ e \in Stocks /\ e.price = x /\ e.status = "UPPER_CIRCUIT"
        /\ e.ref = s.ref /\ e.band = s.band /\ e.vol = s.vol
        /\ Low(e) = Low(s) /\ High(e) = High(s)
    BY <1>2, <2>3, <2>4
  <2>6. Placed(e)
    BY <2>2, <2>3, <2>4, <2>5 DEF Placed, InBand
  <2> QED
    BY <1>5, <2>1, <2>3, <2>5, <2>6 DEF Stopped
<1>6. CASE s.status \notin Stopped /\ ~(p >= High(s)) /\ p <= Low(s)
  <2>1. ApplyBand(s, p) = Set(AtLeastTick(Low(s)), "LOWER_CIRCUIT")
    BY <1>6 DEF ApplyBand
  <2>2. /\ AtLeastTick(Low(s)) \in Prices /\ Low(s) <= AtLeastTick(Low(s)) /\ AtLeastTick(Low(s)) > 0
        /\ AtLeastTick(Low(s)) <= AtLeastTick(High(s))
    <3>1. Low(s) \in Nat /\ High(s) \in Nat
      BY <1>1, <1>3
    <3>2. AtLeastTick(Low(s)) <= AtLeastTick(High(s))
      BY <1>3, <3>1, Units DEF AtLeastTick
    <3> QED
      BY <1>1, <1>3, <3>2
  <2> HIDE DEF Set
  <2> QED
    BY <1>2, <1>6, <2>1, <2>2 DEF Placed, InBand, Statuses, Circuits, Stopped
<1>7. CASE s.status \notin Stopped /\ ~(p >= High(s)) /\ ~(p <= Low(s))
  <2>1. ApplyBand(s, p) = Set(AtLeastTick(p), "ACTIVE")
    BY <1>7 DEF ApplyBand
  <2>2. p \in Prices
    BY <1>1, <1>3, <1>7
  <2>3. AtLeastTick(p) \in Prices /\ AtLeastTick(p) > 0 /\ Low(s) <= AtLeastTick(p) /\ AtLeastTick(p) <= AtLeastTick(High(s))
    <3>0. Low(s) \in Nat /\ High(s) \in Nat /\ p \in Nat
      BY <1>1, <1>3, <2>2
    <3>1. Low(s) < p /\ p < High(s)
      BY <1>7, <3>0
    <3>2. Low(s) <= AtLeastTick(p) /\ AtLeastTick(p) <= AtLeastTick(High(s))
      BY <3>0, <3>1, Units DEF AtLeastTick
    <3> QED
      BY <1>1, <2>2, <3>2
  <2> HIDE DEF Set
  <2> QED
    BY <1>2, <1>7, <2>1, <2>3 DEF Placed, InBand, Statuses, Circuits, Stopped
<1> QED
  BY <1>4, <1>5, <1>6, <1>7

-----------------------------------------------------------------------------
\* The price actions of a tick.

Kinds == {"MOVE", "JUMP", "VOLATILITY"}

Actions ==
  [kind : Kinds, aim : Nat, timed : BOOLEAN, ended : BOOLEAN, retired : BOOLEAN, undone : BOOLEAN,
   before : Prices \cup {NoPrice}, worth : Int, corp : Nat]

\* What one action may do to a stock.
LEMMA OneEffect ==
  ASSUME NEW s \in Stocks, NEW a \in Actions
  PROVE  /\ Effect(s, a) \in Stocks
         /\ Effect(s, a).ref = s.ref /\ Effect(s, a).band = s.band
         /\ s.status \in Stopped => Effect(s, a).price = s.price /\ Effect(s, a).status = s.status
         /\ Placed(s) => Placed(Effect(s, a))
         /\ Effect(s, a).vol = IF a.kind # "VOLATILITY" THEN s.vol ELSE IF a.ended THEN 1 ELSE a.aim
<1>1. a.kind \in Kinds /\ a.aim \in Nat /\ a.ended \in BOOLEAN
  BY DEF Actions
<1>2. CASE Lands(a)
  <2>1. Effect(s, a) = ApplyBand(s, RoundToTick(a.aim, 1)) /\ a.kind # "VOLATILITY"
    BY <1>2 DEF Effect, Lands
  <2>2. RoundToTick(a.aim, 1) \in Int /\ RoundToTick(a.aim, 1) \in Prices
    <3>1. 0 \in Prices
      BY Units DEF Prices
    <3> QED
      BY <1>1, <3>1, RoundingRespectsPrices
  <2>3. PICK p \in Int : p = RoundToTick(a.aim, 1) /\ p \in Prices
    BY <2>2
  <2> QED
    BY <2>1, <2>3, Banded
<1>3. CASE ~Lands(a) /\ a.kind = "VOLATILITY"
  <2> DEFINE x == IF a.ended THEN 1 ELSE a.aim
  <2>1. Effect(s, a) = [s EXCEPT !.vol = x]
    BY <1>3 DEF Effect
  <2>2. x \in Nat
    BY <1>1
  <2> HIDE DEF x
  <2>3. s \in [Columns -> Nat \cup Statuses]
    BY DEF Stocks
  <2>4. /\ Effect(s, a).vol = x /\ Effect(s, a).price = s.price /\ Effect(s, a).ref = s.ref
        /\ Effect(s, a).status = s.status /\ Effect(s, a).band = s.band
        /\ Effect(s, a) \in [Columns -> Nat \cup Statuses]
    BY <2>1, <2>2, <2>3 DEF Columns
  <2>5. Effect(s, a) \in Stocks
    BY <2>2, <2>4 DEF Stocks
  <2>6. Placed(s) => Placed(Effect(s, a))
    BY <2>4 DEF Placed, InBand, Low, High
  <2> QED
    BY <1>3, <2>4, <2>5, <2>6 DEF x
<1>4. CASE ~Lands(a) /\ a.kind # "VOLATILITY"
  BY <1>4 DEF Effect
<1> QED
  BY <1>2, <1>3, <1>4

\* What a tick's list of actions may do to a stock.
LEMMA AllEffects ==
  ASSUME NEW s \in Stocks, NEW actions \in Seq(Actions)
  PROVE  LET e == Applied(s, actions)
         IN  /\ e \in Stocks /\ e.ref = s.ref /\ e.band = s.band
             /\ s.status \in Stopped => e.price = s.price /\ e.status = s.status
             /\ Placed(s) => Placed(e)
             /\ e.vol > 1 =>
                  \/ \E n \in DOMAIN actions : actions[n].kind = "VOLATILITY" /\ Live(actions[n]) /\ ~actions[n].ended
                  \/ e.vol = s.vol /\ \A n \in DOMAIN actions : Live(actions[n]) => actions[n].kind # "VOLATILITY"
<1> PICK L \in Nat : L = Len(actions)
  OBVIOUS
<1>1. DOMAIN actions = 1 .. L /\ \A n \in 1 .. L : actions[n] \in Actions
  OBVIOUS
<1> DEFINE step(n, v) == IF Live(actions[n]) THEN Effect(v, actions[n]) ELSE v
<1> DEFINE F == [x \in (1 .. L) \X Stocks |-> step(x[1], x[2])]
<1>2. IsLoop(L, Stocks, F) /\ \A n \in 1 .. L : \A v \in Stocks : F[<<n, v>>] = step(n, v)
  <2>1. \A n \in 1 .. L : \A v \in Stocks : step(n, v) \in Stocks
    BY <1>1, OneEffect
  <2> HIDE DEF step
  <2> QED
    BY <2>1 DEF IsLoop
<1> HIDE DEF F
<1>3. PICK h \in [0 .. L -> Stocks] : h[0] = s /\ \A n \in 1 .. L : h[n] = step(n, h[n - 1])
  <2>1. PICK h : IsHistory(L, Stocks, s, F, h)
    BY <1>2, LoopHasHistory
  <2>2. h \in [0 .. L -> Stocks] /\ h[0] = s
    BY <2>1 DEF IsHistory
  <2>3. ASSUME NEW n \in 1 .. L PROVE h[n] = step(n, h[n - 1])
    <3>1. n - 1 \in 0 .. L
      OBVIOUS
    <3> HIDE DEF step
    <3> QED
      BY <1>2, <2>1, <2>2, <3>1 DEF IsHistory
  <2> HIDE DEF step
  <2> QED
    BY <2>2, <2>3
<1> DEFINE f == CHOOSE f : f = [n \in 0 .. L |-> IF n = 0 THEN s
                                ELSE IF Live(actions[n]) THEN Effect(f[n - 1], actions[n]) ELSE f[n - 1]]
<1>4. h = [n \in 0 .. L |-> IF n = 0 THEN s
           ELSE IF Live(actions[n]) THEN Effect(h[n - 1], actions[n]) ELSE h[n - 1]]
  <2>1. \A n \in 1 .. L : h[n] = step(n, h[n - 1])
    BY <1>3
  <2>2. \A n \in 0 .. L : n = 0 \/ (n # 0 /\ n \in 1 .. L)
    BY <1>1
  <2> QED
    BY <1>3, <2>1, <2>2
<1>5. f = [n \in 0 .. L |-> IF n = 0 THEN s
           ELSE IF Live(actions[n]) THEN Effect(f[n - 1], actions[n]) ELSE f[n - 1]]
  BY <1>4, Zenon
<1>6. Applied(s, actions) = f[L]
  BY DEF Applied
<1> HIDE DEF f
<1>7. \A n \in 1 .. L : f[n] = IF Live(actions[n]) THEN Effect(f[n - 1], actions[n]) ELSE f[n - 1]
  <2>1. \A n \in 1 .. L : n \in 0 .. L /\ n # 0
    OBVIOUS
  <2> QED
    BY <1>5, <2>1
<1> DEFINE Quiet(n) == \A m \in 1 .. n : Live(actions[m]) => actions[m].kind # "VOLATILITY"
<1> DEFINE Fine(n) ==
      /\ f[n] \in Stocks /\ f[n].ref = s.ref /\ f[n].band = s.band
      /\ s.status \in Stopped => f[n].price = s.price /\ f[n].status = s.status
      /\ Placed(s) => Placed(f[n])
      /\ f[n].vol > 1 =>
           \/ \E m \in 1 .. n : actions[m].kind = "VOLATILITY" /\ Live(actions[m]) /\ ~actions[m].ended
           \/ f[n].vol = s.vol /\ Quiet(n)
<1> DEFINE S == {n \in Nat : n <= L => Fine(n)}
<1>8. 0 \in S
  <2>1. f[0] = s /\ 1 .. 0 = {}
    BY <1>1, <1>5
  <2> QED
    BY <2>1
<1>9. ASSUME NEW n \in Nat, n \in S PROVE n + 1 \in S
  <2> SUFFICES ASSUME n + 1 <= L PROVE Fine(n + 1)
    OBVIOUS
  <2>1. n + 1 \in 1 .. L /\ n + 1 - 1 = n /\ actions[n + 1] \in Actions /\ Fine(n)
    BY <1>1, <1>9
  <2>2. f[n + 1] = IF Live(actions[n + 1]) THEN Effect(f[n], actions[n + 1]) ELSE f[n]
    BY <1>7, <2>1
  <2>3. \A m \in 1 .. n + 1 : m \in 1 .. n \/ m = n + 1
    OBVIOUS
  <2>4. \A m \in 1 .. n : m \in 1 .. n + 1
    OBVIOUS
  <2>5. PICK a, v, w : a \in Actions /\ v \in Stocks /\ a = actions[n + 1] /\ v = f[n] /\ w = f[n + 1]
    BY <2>1
  <2>6. CASE Live(a)
    <3>1. w = Effect(v, a)
      BY <2>2, <2>6, <2>5
    <3>2. /\ w \in Stocks /\ w.ref = s.ref /\ w.band = s.band
          /\ s.status \in Stopped => w.price = s.price /\ w.status = s.status
          /\ Placed(s) => Placed(w)
      <4>1. /\ Effect(v, a) \in Stocks
            /\ Effect(v, a).ref = v.ref /\ Effect(v, a).band = v.band
            /\ v.status \in Stopped => Effect(v, a).price = v.price /\ Effect(v, a).status = v.status
            /\ Placed(v) => Placed(Effect(v, a))
        BY <2>5, OneEffect
      <4>2. /\ v.ref = s.ref /\ v.band = s.band
            /\ s.status \in Stopped => v.price = s.price /\ v.status = s.status
            /\ Placed(s) => Placed(v)
        BY <2>1, <2>5
      <4> QED
        BY <3>1, <4>1, <4>2
    <3>3. w.vol = IF a.kind # "VOLATILITY" THEN v.vol ELSE IF a.ended THEN 1 ELSE a.aim
      <4>1. Effect(v, a).vol = IF a.kind # "VOLATILITY" THEN v.vol ELSE IF a.ended THEN 1 ELSE a.aim
        BY <2>5, OneEffect
      <4> QED
        BY <3>1, <4>1
    <3>4. w.vol > 1 =>
           \/ \E m \in 1 .. n + 1 : actions[m].kind = "VOLATILITY" /\ Live(actions[m]) /\ ~actions[m].ended
           \/ w.vol = s.vol /\ Quiet(n + 1)
      <4>1. CASE a.kind = "VOLATILITY"
        <5>1. n + 1 \in 1 .. n + 1
          OBVIOUS
        <5> QED
          BY <2>6, <2>5, <3>3, <4>1, <5>1
      <4>2. CASE a.kind # "VOLATILITY"
        <5>1. w.vol = v.vol
          BY <3>3, <4>2
        <5>2. Quiet(n) => Quiet(n + 1)
          BY <2>3, <2>5, <4>2
        <5> HIDE DEF Quiet
        <5> QED
          BY <2>1, <2>4, <2>5, <5>1, <5>2
      <4> QED
        BY <4>1, <4>2
    <3> QED
      BY <2>5, <3>2, <3>4
  <2>7. CASE ~Live(a)
    <3>1. w = v
      BY <2>2, <2>7, <2>5
    <3>2. Quiet(n) => Quiet(n + 1)
      BY <2>3, <2>7, <2>5
    <3> HIDE DEF Quiet
    <3> QED
      BY <2>1, <2>4, <2>5, <3>1, <3>2
  <2> QED
    BY <2>6, <2>7, <2>5
<1> HIDE DEF S
<1>10. L \in S
  BY <1>1, <1>8, <1>9, Climb
<1>11. Fine(L)
  BY <1>1, <1>10 DEF S
<1> QED
  BY <1>1, <1>6, <1>11

-----------------------------------------------------------------------------
\* What a transaction may be about to commit.

Markets == {"CLOSED", "PRE_OPEN", "OPEN", "HALTED"}
Corporate == {"dividend", "split"}

\* It writes some of the columns of some stock.
Fits(w) == \E s \in Stocks : DOMAIN w \subseteq Columns /\ \A c \in DOMAIN w : w[c] = s[c]

Writes == UNION {[C -> Nat \cup Statuses] : C \in SUBSET Columns}

Plans ==
  [by : Requests \cup {"tick", "pre_open"}, write : Writes, retire : SUBSET Nat, lands : SUBSET Nat,
   undo : SUBSET Nat, new : Seq(Actions), qty : Nat \cup {Unchanged}, paid : Nat, broken : BOOLEAN,
   market : SUBSET Markets, band : {"as is", "applied", "ignored"},
   found : Statuses, stale : BOOLEAN]

\* A price action knows the holder's worth, in the units of its time.
Remembers(a) ==
  /\ a.corp <= corp
  /\ a.kind # "VOLATILITY" => a.before \in Prices
  /\ a.kind # "VOLATILITY" /\ a.corp = corp => a.worth = cash + shares * a.before

\* Volatility that some action outside R accounts for.
Raised(R) ==
  \E n \in DOMAIN acts \ R : acts[n].kind = "VOLATILITY" /\ (Live(acts[n]) \/ acts[n].undone)

\* t would make s of the stock.  Unless it is stale it knows the stock:
\* ... s is inside its band, and a request that does not set the price or the
\* band changes the status at most;
KeepsBand(t, s) ==
  ~t.stale => /\ t.band # "ignored" => s.band = stock.band
              /\ t.band = "applied" => Placed(s)
              /\ t.band = "as is" /\ ~loose => Placed(s)
              /\ t.band # "ignored" /\ t.by \notin {"tick", "pre_open"} =>
                   /\ s.price = stock.price /\ s.ref = stock.ref
                   /\ s.status \in {stock.status, "ACTIVE"} \cup Stopped

\* ... only a resume ends a halt, and a halt keeps the price;
KeepsHalt(t, s) ==
  ~t.stale /\ (stock.status \in Stopped \/ t.by \notin {"tick", "pre_open"}) =>
     /\ s.status \in {stock.status} \cup Stopped \/ t.by = "resume"
     /\ s.price = stock.price \/ t.by \in {"undo"} \cup Corporate

\* Stale or not, what found the stock stopped, and every request, heeds a stop ...
HeedsStop(t) ==
  t.found \in Stopped \/ t.by \notin {"tick", "pre_open"} =>
     /\ "status" \in DOMAIN t.write => t.write.status \in Stopped \/ t.by = "resume"
     /\ "price" \in DOMAIN t.write => t.by \in {"undo"} \cup Corporate

\* ... and a request that does not set the price or the band heeds both.
HeedsBand(t) ==
  /\ t.band # "ignored" => "band" \notin DOMAIN t.write
  /\ t.band # "ignored" /\ t.by \notin {"tick", "pre_open"} =>
       /\ DOMAIN t.write \cap {"price", "ref"} = {}
       /\ "status" \in DOMAIN t.write => t.write.status \in {"ACTIVE"} \cup Stopped

\* ... what lands is retired, for the first time, and not undone;
LandsFresh(p, t) ==
  /\ t.lands \subseteq t.retire /\ t.retire \subseteq DOMAIN acts
  /\ \A n \in t.retire : ~acts[n].retired
  /\ p # "tick" => t.retire = {}
  /\ ~t.stale => \A n \in t.lands : ~acts[n].undone

\* ... raised volatility keeps an action that accounts for it;
Calms(p, t, s) ==
  /\ s.vol > 1 => Raised(t.retire)
  /\ p # "tick" => s.vol \in {1, stock.vol}

\* ... an undo puts a price back;
Reverts(t, s) ==
  /\ t.undo \subseteq DOMAIN acts
  /\ ~t.stale => \A n \in t.undo : acts[n].kind # "VOLATILITY" =>
                    s.price = acts[n].before /\ t.qty = Unchanged /\ t.paid = 0

\* ... only corporate actions pay or scale, and a new action knows its worth;
Accounts(t) ==
  /\ t.by \notin Corporate => t.qty = Unchanged /\ t.paid = 0
  /\ \A n \in DOMAIN t.new : Remembers(t.new[n])

\* ... and corporate actions follow their formulas.
Balances(t, s) ==
  /\ ~t.stale /\ t.by = "dividend" =>
       \E d \in Nat : /\ d < stock.price /\ t.qty = Unchanged /\ t.paid = d * shares
                      /\ s.price = RoundToTick(stock.price - d, 1)
  /\ ~t.stale /\ t.by = "split" =>
       \E a, b \in Nat \ {0} :
         /\ t.paid = 0 /\ t.qty = (shares * a) \div b /\ t.broken = ((shares * a) % b # 0)
         /\ s.price = RoundToTick(stock.price * b, a)

Sound(p, t, s) ==
  /\ t \in Plans /\ KeepsBand(t, s) /\ KeepsHalt(t, s) /\ LandsFresh(p, t)
  /\ Calms(p, t, s) /\ Reverts(t, s) /\ Accounts(t) /\ Balances(t, s)

DeskType ==
  /\ stock \in Stocks /\ acts \in Seq(Actions)
  /\ landed \in Seq({0, 1}) /\ Len(landed) = Len(acts)
  /\ shares \in Nat /\ cash \in Int /\ corp \in Nat /\ loose \in BOOLEAN /\ market \in Markets
  /\ txn = [p \in Procs |-> txn[p]]

DeskInv ==
  /\ DeskType
  /\ loose \/ Placed(stock)
  /\ \A n \in DOMAIN acts : Remembers(acts[n])
  /\ \A n \in DOMAIN acts : landed[n] = 1 => acts[n].retired
  /\ VolatilityEnds
  /\ \A p \in Procs : txn[p] # None => Fits(txn[p].write) /\ Sound(p, txn[p], Written(txn[p]))
  /\ \A p \in Procs : txn[p] # None /\ p # "tick" /\ "vol" \in DOMAIN txn[p].write => txn[p].write.vol = 1
  /\ \A p \in Procs : txn[p] # None => HeedsStop(txn[p]) /\ HeedsBand(txn[p])

LEMMA WrittenFits ==
  ASSUME stock \in Stocks, NEW t, Fits(t.write)
  PROVE  Written(t) \in Stocks
<1>1. PICK s \in Stocks : DOMAIN t.write \subseteq Columns /\ \A c \in DOMAIN t.write : t.write[c] = s[c]
  BY DEF Fits
<1>2. \A c \in Columns : Written(t)[c] \in {s[c], stock[c]}
  BY <1>1 DEF Written
<1>3. Written(t) \in [Columns -> Nat \cup Statuses]
  BY <1>1 DEF Written, Stocks
<1>4. \A c \in {"price", "ref", "status", "vol", "band"} : Written(t)[c] \in {s[c], stock[c]}
  BY <1>2 DEF Columns
<1> HIDE DEF Written
<1> QED
  BY <1>3, <1>4 DEF Stocks

LEMMA DeskInitially == Init => DeskInv
<1> SUFFICES ASSUME Init PROVE DeskInv
  OBVIOUS
<1>1. SeedPrice \in Prices
  <2>1. SeedPrice = Unit * (SeedPrice \div Unit) /\ SeedPrice \div Unit \in Nat
    BY Units
  <2> QED
    BY <2>1, Units DEF Prices
<1>2. stock \in Stocks /\ stock.price = stock.ref /\ stock.vol = 1
  <2>1. /\ stock = [price |-> SeedPrice, ref |-> SeedPrice, status |-> "ACTIVE", vol |-> 1, band |-> SeedBand]
        /\ SeedBand \in 1 .. 100 /\ SeedPrice \in Nat
    BY DeskAssumption DEF Init
  <2>2. stock \in [Columns -> Nat \cup Statuses]
    BY <2>1 DEF Columns, Statuses
  <2> QED
    BY <1>1, <2>1, <2>2 DEF Stocks, Statuses
<1>3. DeskType
  <2>0. SeedShares \in Nat
    BY DeskAssumption
  <2>1. /\ shares \in Nat /\ cash \in Int /\ corp \in Nat /\ market \in Markets
    BY <2>0 DEF Init, Markets
  <2>4. loose \in BOOLEAN
    BY DEF Init
  <2>2. acts \in Seq(Actions) /\ landed \in Seq({0, 1}) /\ Len(landed) = Len(acts)
    BY DEF Init
  <2>3. txn = [p \in Procs |-> txn[p]]
    BY DEF Init
  <2> QED
    BY <1>2, <2>1, <2>2, <2>3, <2>4 DEF DeskType
<1>4. Placed(stock)
  <2>1. Low(stock) <= stock.price /\ stock.price <= High(stock) /\ High(stock) \in Prices /\ stock.price \in Nat
    BY <1>2, Edges, PricesAreWhole DEF Stocks
  <2>2. High(stock) <= AtLeastTick(High(stock)) /\ AtLeastTick(High(stock)) \in Int
    BY <2>1, PricesAreWhole, Units DEF AtLeastTick
  <2>3. High(stock) \in Nat /\ Low(stock) \in Int
    BY <1>2, Edges, PricesAreWhole
  <2>4. stock.status = "ACTIVE" /\ stock.price > 0
    BY Units DEF Init
  <2> QED
    BY <2>1, <2>2, <2>3, <2>4 DEF Placed, InBand
<1>5. acts = <<>> /\ \A p \in Procs : txn[p] = None
  BY DEF Init
<1> QED
  BY <1>2, <1>3, <1>4, <1>5 DEF DeskInv, VolatilityEnds

\* Who begins knows the stock, and disturbs nobody.
LEMMA BeginStep ==
  ASSUME DeskInv, NEW p \in Procs, NEW plan, Begin(p, plan),
         plan.write \in Stocks, plan.stale = FALSE, plan.found = stock.status, Sound(p, plan, plan.write)
  PROVE  DeskInv'
<1> DEFINE w == [c \in {c \in Columns : plan.write[c] # stock[c]} |-> plan.write[c]]
<1> DEFINE t == [plan EXCEPT !.write = w]
<1>1. /\ txn[p] = None /\ txn' = [txn EXCEPT ![p] = t]
      /\ UNCHANGED <<market, stock, acts, shares, cash, corp, landed, loose>>
  BY DEF Begin
<1> HIDE DEF w
<1>2. plan \in Plans
  BY DEF Sound
<1>3. /\ t \in Plans /\ t.write = w
      /\ t.by = plan.by /\ t.retire = plan.retire /\ t.lands = plan.lands /\ t.undo = plan.undo
      /\ t.new = plan.new /\ t.qty = plan.qty /\ t.paid = plan.paid /\ t.broken = plan.broken
      /\ t.market = plan.market /\ t.band = plan.band /\ t.stale = plan.stale /\ t.found = plan.found
  <2>1. w \in Writes
    <3>1. w \in [{c \in Columns : plan.write[c] # stock[c]} -> Nat \cup Statuses]
      BY DEF w, Stocks
    <3> QED
      BY <3>1 DEF Writes
  <2> QED
    BY <1>2, <2>1 DEF Plans
<1> HIDE DEF t
<1>4. t.write = w /\ Fits(w)
  BY <1>3 DEF Fits, w
<1>5. Written(t) = plan.write
  <2>1. \A c \in Columns : (IF c \in DOMAIN w THEN w[c] ELSE stock[c]) = plan.write[c]
    BY DEF w
  <2>2. plan.write = [c \in Columns |-> plan.write[c]]
    BY DEF Stocks
  <2> HIDE DEF w
  <2> QED
    BY <1>4, <2>1, <2>2 DEF Written
<1>6. Sound(p, t, Written(t))
  <2>1. KeepsBand(t, plan.write) /\ KeepsHalt(t, plan.write)
    BY <1>3 DEF Sound, KeepsBand, KeepsHalt
  <2>2. LandsFresh(p, t) /\ Calms(p, t, plan.write) /\ Reverts(t, plan.write)
    BY <1>3 DEF Sound, LandsFresh, Calms, Reverts
  <2>3. Accounts(t) /\ Balances(t, plan.write)
    BY <1>3 DEF Sound, Accounts, Balances
  <2> QED
    BY <1>3, <1>5, <2>1, <2>2, <2>3 DEF Sound
<1>7. ASSUME NEW q, NEW u, NEW s PROVE Sound(q, u, s)' = Sound(q, u, s)
  <2>1. KeepsBand(u, s)' = KeepsBand(u, s) /\ KeepsHalt(u, s)' = KeepsHalt(u, s)
    BY <1>1 DEF KeepsBand, KeepsHalt
  <2> QED
    BY <1>1, <2>1 DEF Sound, LandsFresh, Calms, Reverts, Accounts, Balances, Raised, Remembers
<1>8. ASSUME NEW u PROVE Written(u)' = Written(u)
  BY <1>1 DEF Written
<1>9. \A q \in Procs : txn'[q] = IF q = p THEN t ELSE txn[q]
  BY <1>1 DEF DeskInv, DeskType
<1>10. \A q \in Procs : txn'[q] # None => Fits(txn'[q].write) /\ Sound(q, txn'[q], Written(txn'[q]))
  BY <1>4, <1>6, <1>9 DEF DeskInv
<1>11. \A q \in Procs : (txn[q] # None => Fits(txn[q].write) /\ Sound(q, txn[q], Written(txn[q])))'
  <2> SUFFICES ASSUME NEW q \in Procs, txn'[q] # None
               PROVE  Fits(txn'[q].write) /\ Sound(q, txn[q], Written(txn[q]))'
    OBVIOUS
  <2>1. PICK u, s : u = txn'[q] /\ s = Written(u)
    OBVIOUS
  <2>2. Sound(q, u, s)' /\ s = Written(u)' /\ Fits(u.write)
    BY <1>7, <1>8, <1>10, <2>1
  <2> QED
    BY <2>1, <2>2
<1>12. DeskType'
  BY <1>1 DEF DeskInv, DeskType
<1>13. \A q \in Procs : txn'[q] # None /\ q # "tick" /\ "vol" \in DOMAIN txn'[q].write => txn'[q].write.vol = 1
  <2>1. ASSUME p # "tick", "vol" \in DOMAIN w PROVE w.vol = 1
    BY <2>1 DEF w, Sound, Calms
  <2> QED
    BY <1>4, <1>9, <2>1 DEF DeskInv
<1>14. \A q \in Procs : txn'[q] # None => HeedsStop(txn'[q]) /\ HeedsBand(txn'[q])
  <2>1. \A c \in DOMAIN w : w[c] = plan.write[c] /\ w[c] # stock[c]
    BY DEF w
  <2>2. HeedsStop(t)
    BY <1>3, <2>1 DEF HeedsStop, Sound, KeepsHalt
  <2>3. HeedsBand(t)
    BY <1>3, <2>1 DEF HeedsBand, Sound, KeepsBand
  <2> QED
    BY <1>9, <2>2, <2>3 DEF DeskInv
<1> QED
  BY <1>1, <1>11, <1>12, <1>13, <1>14 DEF DeskInv, Placed, InBand, Low, High, VolatilityEnds, Remembers

\* A request that changes nothing yet.
LEMMA Blanks ==
  ASSUME DeskInv, NEW k \in Requests \cup {"tick", "pre_open"}
  PROVE  /\ Blank(k) \in Plans /\ Blank(k).write = stock /\ stock \in Stocks
         /\ Blank(k).by = k /\ Blank(k).retire = {} /\ Blank(k).lands = {} /\ Blank(k).undo = {}
         /\ Blank(k).new = <<>> /\ Blank(k).qty = Unchanged /\ Blank(k).paid = 0
         /\ Blank(k).broken = FALSE /\ Blank(k).band = "as is" /\ Blank(k).stale = FALSE
         /\ Blank(k).found = stock.status
<1>1. stock \in Stocks /\ Stocks \subseteq Writes
  <2>1. stock \in Stocks
    BY DEF DeskInv, DeskType
  <2>2. ASSUME NEW s \in Stocks PROVE s \in Writes
    <3>1. s \in [Columns -> Nat \cup Statuses]
      BY DEF Stocks
    <3> QED
      BY <3>1 DEF Writes
  <2> QED
    BY <2>1, <2>2
<1>2. <<>> \in Seq(Actions)
  OBVIOUS
<1>3. stock.status \in Statuses
  BY <1>1 DEF Stocks
<1> QED
  BY <1>1, <1>2, <1>3 DEF Blank, Plans, Unchanged

\* A handler of the desk retires nothing.
LEMMA DeskBegins ==
  ASSUME DeskInv, NEW h \in Handlers, NEW k \in Requests \ Corporate, NEW plan \in Plans,
         Begin(h, plan), plan.by = k, plan.retire = {}, plan.lands = {}, plan.write \in Stocks,
         plan.stale = FALSE, plan.found = stock.status,
         plan.qty = Unchanged, plan.paid = 0, plan.write.vol \in {1, stock.vol},
         KeepsBand(plan, plan.write), KeepsHalt(plan, plan.write), Reverts(plan, plan.write),
         \A n \in DOMAIN plan.new : Remembers(plan.new[n])
  PROVE  DeskInv'
<1>1. h \in Procs /\ h # "tick"
  BY DeskAssumption DEF Procs
<1>2. LandsFresh(h, plan)
  BY <1>1 DEF LandsFresh
<1>3. Calms(h, plan, plan.write)
  BY DEF DeskInv, VolatilityEnds, Calms, Raised
<1>4. Accounts(plan) /\ Balances(plan, plan.write)
  BY DEF Accounts, Balances, Corporate
<1>5. Sound(h, plan, plan.write)
  BY <1>2, <1>3, <1>4 DEF Sound
<1> QED
  BY <1>1, <1>5, BeginStep

\* A new price action.
LEMMA NewActions ==
  ASSUME DeskInv, NEW h \in Handlers,
         NEW k \in {"move", "jump", "volatility"}, NEW kind \in Kinds, NEW aim \in Nat, NEW timed \in BOOLEAN,
         AddAction(h, k, NewAction(kind, aim, timed))
  PROVE  DeskInv'
<1> PICK a : a = NewAction(kind, aim, timed)
  OBVIOUS
<1>1. a \in Actions /\ Remembers(a)
  <2>1. stock.price \in Prices /\ stock.price \in Nat /\ shares \in Nat /\ cash \in Int /\ corp \in Nat
    BY PricesAreWhole DEF DeskInv, DeskType, Stocks
  <2>2. Worth \in Int /\ Worth = cash + shares * stock.price
    BY <2>1 DEF Worth
  <2>3. a \in Actions
    BY <2>1, <2>2 DEF NewAction, Actions
  <2>4. Remembers(a)
    BY <2>1, <2>2 DEF NewAction, Remembers
  <2> QED
    BY <2>3, <2>4
<1>2. k \in Requests /\ Begin(h, [Blank(k) EXCEPT !.new = <<a>>])
  BY DEF AddAction, Ask
<1>3. PICK plan : plan = [Blank(k) EXCEPT !.new = <<a>>]
  OBVIOUS
<1>4. <<a>> \in Seq(Actions) /\ DOMAIN <<a>> = {1} /\ <<a>>[1] = a
  BY <1>1
<1>5. /\ plan \in Plans /\ plan.write = stock /\ stock \in Stocks
      /\ plan.by = k /\ plan.retire = {} /\ plan.lands = {} /\ plan.undo = {}
      /\ plan.new = <<a>> /\ plan.qty = Unchanged /\ plan.paid = 0
      /\ plan.band = "as is" /\ plan.stale = FALSE /\ plan.found = stock.status
  <2>1. PICK b \in Plans :
          /\ b = Blank(k) /\ b.write = stock /\ stock \in Stocks
          /\ b.by = k /\ b.retire = {} /\ b.lands = {} /\ b.undo = {}
          /\ b.new = <<>> /\ b.qty = Unchanged /\ b.paid = 0
          /\ b.broken = FALSE /\ b.band = "as is" /\ b.stale = FALSE /\ b.found = stock.status
    BY <1>2, Blanks
  <2> QED
    BY <1>3, <1>4, <2>1 DEF Plans
<1>6. k \notin Corporate
  BY DEF Corporate
<1>7. KeepsBand(plan, stock) /\ KeepsHalt(plan, stock) /\ Reverts(plan, stock)
  BY <1>5 DEF DeskInv, KeepsBand, KeepsHalt, Reverts
<1>8. \A n \in DOMAIN plan.new : Remembers(plan.new[n])
  BY <1>1, <1>4, <1>5
<1> QED
  BY <1>2, <1>3, <1>5, <1>6, <1>7, <1>8, DeskBegins

\* Halt, resume, suspend.
LEMMA NewStatus ==
  ASSUME DeskInv, NEW h \in Handlers, NEW k \in {"halt", "resume", "suspend"},
         NEW st \in {"ACTIVE", "HALTED", "SUSPENDED"}, k # "resume" => st \in Stopped,
         Ask(h, k, [Blank(k) EXCEPT !.write.status = st])
  PROVE  DeskInv'
<1>2. k \in Requests /\ Begin(h, [Blank(k) EXCEPT !.write.status = st])
  BY DEF Ask
<1>3. PICK plan : plan = [Blank(k) EXCEPT !.write.status = st]
  OBVIOUS
<1>4. PICK s : s = [stock EXCEPT !.status = st]
  OBVIOUS
<1>5. /\ s \in Stocks /\ s.price = stock.price /\ s.ref = stock.ref /\ s.band = stock.band
      /\ s.vol = stock.vol /\ s.status = st
  <2>1. stock \in Stocks /\ stock \in [Columns -> Nat \cup Statuses]
    BY DEF DeskInv, DeskType, Stocks
  <2>2. st \in Statuses
    BY DEF Statuses, Stopped
  <2>3. /\ s \in [Columns -> Nat \cup Statuses]
        /\ s.price = stock.price /\ s.ref = stock.ref /\ s.band = stock.band
        /\ s.vol = stock.vol /\ s.status = st
    BY <1>4, <2>1, <2>2 DEF Columns
  <2> QED
    BY <2>1, <2>2, <2>3 DEF Stocks
<1>6. s \in Writes
  <2>1. s \in [Columns -> Nat \cup Statuses]
    BY <1>5 DEF Stocks
  <2> QED
    BY <2>1 DEF Writes
<1>7. /\ plan \in Plans /\ plan.write = s
      /\ plan.by = k /\ plan.retire = {} /\ plan.lands = {} /\ plan.undo = {}
      /\ plan.new = <<>> /\ plan.qty = Unchanged /\ plan.paid = 0
      /\ plan.band = "as is" /\ plan.stale = FALSE /\ plan.found = stock.status
  <2>1. PICK b \in Plans :
          /\ b = Blank(k) /\ b.write = stock /\ stock \in Stocks
          /\ b.by = k /\ b.retire = {} /\ b.lands = {} /\ b.undo = {}
          /\ b.new = <<>> /\ b.qty = Unchanged /\ b.paid = 0
          /\ b.broken = FALSE /\ b.band = "as is" /\ b.stale = FALSE /\ b.found = stock.status
    BY <1>2, Blanks
  <2> QED
    BY <1>3, <1>4, <1>6, <2>1 DEF Plans
<1>8. k \notin Corporate
  BY DEF Corporate
<1>9. KeepsBand(plan, s)
  <2>1. loose \/ Placed(stock)
    BY DEF DeskInv
  <2>2. Placed(stock) => Placed(s)
    BY <1>5 DEF Placed, InBand, Low, High
  <2> QED
    BY <1>5, <1>7, <2>1, <2>2 DEF KeepsBand, Stopped
<1>10. KeepsHalt(plan, s) /\ Reverts(plan, s)
  BY <1>5, <1>7 DEF KeepsHalt, Reverts
<1>11. \A n \in DOMAIN plan.new : Remembers(plan.new[n])
  <2>1. DOMAIN <<>> = {}
    OBVIOUS
  <2>2. plan.new = <<>>
    BY <1>7
  <2> QED
    BY <2>1, <2>2, Zenon
<1> QED
  BY <1>2, <1>3, <1>5, <1>7, <1>8, <1>9, <1>10, <1>11, DeskBegins

\* A stock with other columns.
LEMMA Columned ==
  ASSUME NEW x \in Prices, NEW r \in Prices, NEW st \in Statuses, NEW v \in Nat, NEW b \in 1 .. 100,
         NEW u, u \in [Columns -> Nat \cup Statuses],
         u.price = x, u.ref = r, u.status = st, u.vol = v, u.band = b
  PROVE  u \in Stocks /\ u \in Writes
<1>1. u \in Stocks
  BY DEF Stocks
<1>2. u \in Writes
  BY DEF Writes
<1> QED
  BY <1>1, <1>2

\* Another band.
LEMMA NewBand ==
  ASSUME DeskInv, NEW h \in Handlers, SetBand(h)
  PROVE  DeskInv'
<1> PICK k : k = "band"
  OBVIOUS
<1>1. PICK x \in Bands : Ask(h, k, [Blank(k) EXCEPT !.write.band = x, !.band = "ignored"])
  BY DEF SetBand
<1>2. k \in Requests /\ Begin(h, [Blank(k) EXCEPT !.write.band = x, !.band = "ignored"]) /\ x \in 1 .. 100
  BY <1>1, DeskAssumption DEF Ask
<1>3. PICK plan : plan = [Blank(k) EXCEPT !.write.band = x, !.band = "ignored"]
  OBVIOUS
<1>4. PICK s : s = [stock EXCEPT !.band = x]
  OBVIOUS
<1>5. s \in Stocks /\ s \in Writes /\ s.vol = stock.vol /\ s.status = stock.status /\ s.price = stock.price
  <2>1. stock \in Stocks /\ stock \in [Columns -> Nat \cup Statuses]
    BY DEF DeskInv, DeskType, Stocks
  <2>2. /\ s \in [Columns -> Nat \cup Statuses]
        /\ s.price = stock.price /\ s.ref = stock.ref /\ s.band = x
        /\ s.vol = stock.vol /\ s.status = stock.status
    BY <1>2, <1>4, <2>1 DEF Columns
  <2>3. stock.price \in Prices /\ stock.ref \in Prices /\ stock.status \in Statuses /\ stock.vol \in Nat
    BY <2>1 DEF Stocks
  <2> QED
    BY <1>2, <2>1, <2>2, <2>3, Columned
<1>7. /\ plan \in Plans /\ plan.write = s
      /\ plan.by = k /\ plan.retire = {} /\ plan.lands = {} /\ plan.undo = {}
      /\ plan.new = <<>> /\ plan.qty = Unchanged /\ plan.paid = 0
      /\ plan.band = "ignored" /\ plan.stale = FALSE /\ plan.found = stock.status
  <2>1. PICK b \in Plans :
          /\ b = Blank(k) /\ b.write = stock /\ stock \in Stocks
          /\ b.by = k /\ b.retire = {} /\ b.lands = {} /\ b.undo = {}
          /\ b.new = <<>> /\ b.qty = Unchanged /\ b.paid = 0
          /\ b.broken = FALSE /\ b.band = "as is" /\ b.stale = FALSE /\ b.found = stock.status
    BY <1>2, Blanks
  <2> QED
    BY <1>3, <1>4, <1>5, <2>1 DEF Plans
<1>8. k \notin Corporate
  BY DEF Corporate
<1>9. KeepsBand(plan, s) /\ KeepsHalt(plan, s) /\ Reverts(plan, s)
  BY <1>5, <1>7 DEF KeepsBand, KeepsHalt, Reverts
<1>11. \A n \in DOMAIN plan.new : Remembers(plan.new[n])
  <2>1. DOMAIN <<>> = {}
    OBVIOUS
  <2> QED
    BY <1>7, <2>1, Zenon
<1> QED
  BY <1>2, <1>3, <1>5, <1>7, <1>8, <1>9, <1>11, DeskBegins

\* An undo.
LEMMA NewUndo ==
  ASSUME DeskInv, NEW h \in Handlers, UndoPriceAction(h)
  PROVE  DeskInv'
<1> PICK k : k = "undo"
  OBVIOUS
<1>1. PICK n \in DOMAIN acts :
        Ask(h, k, IF acts[n].before = NoPrice THEN [Blank(k) EXCEPT !.undo = {n}]
                  ELSE [Blank(k) EXCEPT !.undo = {n}, !.write.price = acts[n].before,
                                        !.write.vol = 1, !.band = "ignored"])
  BY DEF UndoPriceAction
<1>2. k \in Requests
  BY <1>1 DEF Ask
<1>3. PICK b \in Plans :
          /\ b = Blank(k) /\ b.write = stock /\ stock \in Stocks
          /\ b.by = k /\ b.retire = {} /\ b.lands = {} /\ b.undo = {}
          /\ b.new = <<>> /\ b.qty = Unchanged /\ b.paid = 0
          /\ b.broken = FALSE /\ b.band = "as is" /\ b.stale = FALSE /\ b.found = stock.status
    BY <1>2, Blanks
<1>4. n \in Nat /\ acts[n] \in Actions /\ Remembers(acts[n])
  BY DEF DeskInv, DeskType
<1>5. k \notin Corporate
  BY DEF Corporate
<1>6. \A m \in DOMAIN b.new : Remembers(b.new[m])
  <2>1. DOMAIN <<>> = {}
    OBVIOUS
  <2> QED
    BY <1>3, <2>1, Zenon
<1>7. CASE acts[n].before = NoPrice
  <2>1. PICK plan : plan = [b EXCEPT !.undo = {n}]
    OBVIOUS
  <2>2. Begin(h, plan)
    BY <1>1, <1>3, <1>7, <2>1 DEF Ask
  <2>3. /\ plan \in Plans /\ plan.write = stock
        /\ plan.by = k /\ plan.retire = {} /\ plan.lands = {} /\ plan.undo = {n}
        /\ plan.new = b.new /\ plan.qty = Unchanged /\ plan.paid = 0
        /\ plan.band = "as is" /\ plan.stale = FALSE /\ plan.found = stock.status
    BY <1>3, <1>4, <2>1 DEF Plans
  <2>4. NoPrice \notin Prices
    BY PricesAreWhole DEF NoPrice
  <2>5. acts[n].kind = "VOLATILITY"
    BY <1>4, <1>7, <2>4 DEF Remembers
  <2>6. KeepsBand(plan, stock) /\ KeepsHalt(plan, stock) /\ Reverts(plan, stock)
    BY <1>3, <2>3, <2>5 DEF DeskInv, KeepsBand, KeepsHalt, Reverts
  <2> QED
    BY <1>2, <1>3, <1>5, <1>6, <2>2, <2>3, <2>6, DeskBegins
<1>8. CASE acts[n].before # NoPrice
  <2>1. PICK plan : plan = [b EXCEPT !.undo = {n}, !.write.price = acts[n].before,
                                     !.write.vol = 1, !.band = "ignored"]
    OBVIOUS
  <2>2. Begin(h, plan)
    BY <1>1, <1>3, <1>8, <2>1 DEF Ask
  <2>3. PICK x \in Prices : x = acts[n].before
    BY <1>4, <1>8 DEF Actions
  <2>4. PICK s : s = [stock EXCEPT !.price = x, !.vol = 1]
    OBVIOUS
  <2>5. s \in Stocks /\ s \in Writes /\ s.vol = 1 /\ s.status = stock.status /\ s.price = x
    <3>1. stock \in Stocks /\ stock \in [Columns -> Nat \cup Statuses] /\ x \in Nat
      BY PricesAreWhole DEF DeskInv, DeskType, Stocks
    <3>2. /\ s \in [Columns -> Nat \cup Statuses]
          /\ s.price = x /\ s.ref = stock.ref /\ s.band = stock.band
          /\ s.vol = 1 /\ s.status = stock.status
      BY <2>4, <3>1 DEF Columns
    <3>3. stock.band \in 1 .. 100 /\ stock.ref \in Prices /\ stock.status \in Statuses
      BY <3>1 DEF Stocks
    <3> QED
      BY <3>1, <3>2, <3>3, Columned
  <2>6. /\ plan \in Plans /\ plan.write = s
        /\ plan.by = k /\ plan.retire = {} /\ plan.lands = {} /\ plan.undo = {n}
        /\ plan.new = b.new /\ plan.qty = Unchanged /\ plan.paid = 0
        /\ plan.band = "ignored" /\ plan.stale = FALSE /\ plan.found = stock.status
    <3>1. plan.write = s
      BY <1>3, <2>1, <2>3, <2>4 DEF Plans
    <3>2. plan = [[b EXCEPT !.undo = {n}, !.band = "ignored"] EXCEPT !.write = s]
      BY <1>3, <2>1, <2>3, <2>4 DEF Plans
    <3> QED
      BY <1>3, <1>4, <2>5, <3>2 DEF Plans
  <2>7. KeepsBand(plan, s) /\ KeepsHalt(plan, s) /\ Reverts(plan, s)
    BY <2>3, <2>5, <2>6 DEF KeepsBand, KeepsHalt, Reverts
  <2> QED
    BY <1>2, <1>3, <1>5, <1>6, <2>2, <2>5, <2>6, <2>7, DeskBegins
<1> QED
  BY <1>7, <1>8

\* A plan without new actions, that retires and undoes nothing.
LEMMA PlainBegins ==
  ASSUME DeskInv, NEW p \in Procs, NEW plan \in Plans, NEW s \in Stocks, Begin(p, plan), plan.write = s,
         plan.retire = {}, plan.lands = {}, plan.undo = {}, plan.new = <<>>, s.vol = stock.vol,
         plan.stale = FALSE, plan.found = stock.status,
         KeepsBand(plan, s), KeepsHalt(plan, s), Balances(plan, s),
         plan.by \notin Corporate => plan.qty = Unchanged /\ plan.paid = 0
  PROVE  DeskInv'
<1>1. LandsFresh(p, plan) /\ Reverts(plan, s)
  BY DEF LandsFresh, Reverts
<1>2. Calms(p, plan, s)
  BY DEF DeskInv, VolatilityEnds, Calms, Raised
<1>3. Accounts(plan)
  <2>1. DOMAIN <<>> = {}
    OBVIOUS
  <2>2. DOMAIN plan.new = {}
    BY <2>1, Zenon
  <2> QED
    BY <2>2 DEF Accounts
<1>4. Sound(p, plan, plan.write)
  BY <1>1, <1>2, <1>3 DEF Sound
<1> QED
  BY <1>4, BeginStep

\* A dividend.
LEMMA NewDividend ==
  ASSUME DeskInv, NEW h \in Handlers, PayDividend(h)
  PROVE  DeskInv'
<1> PICK k : k = "dividend"
  OBVIOUS
<1>1. PICK d \in Dividends :
        LET ex == RoundToTick(stock.price - d, 1)
        IN  /\ d < stock.price
            /\ Ask(h, k, [Blank(k) EXCEPT
                 !.paid = d * shares, !.write.price = ex, !.write.ref = ex, !.band = "ignored"])
  BY DEF PayDividend
<1>2. k \in Requests /\ d \in Nat
  BY <1>1, DeskAssumption DEF Ask
<1>3. PICK b \in Plans :
          /\ b = Blank(k) /\ b.write = stock /\ stock \in Stocks
          /\ b.by = k /\ b.retire = {} /\ b.lands = {} /\ b.undo = {}
          /\ b.new = <<>> /\ b.qty = Unchanged /\ b.paid = 0
          /\ b.broken = FALSE /\ b.band = "as is" /\ b.stale = FALSE /\ b.found = stock.status
  BY <1>2, Blanks
<1>4. stock.price \in Nat /\ shares \in Nat /\ d * shares \in Nat
  BY <1>2, PricesAreWhole DEF DeskInv, DeskType, Stocks
<1>5. PICK ex \in Prices : ex = RoundToTick(stock.price - d, 1)
  <2>1. stock.price - d \in Int /\ 0 <= stock.price - d /\ 0 \in Prices
    BY <1>1, <1>2, <1>4, LeastPrices
  <2> QED
    BY <2>1, RoundingRespectsPrices
<1>6. PICK s : s = [stock EXCEPT !.price = ex, !.ref = ex]
  OBVIOUS
<1>7. s \in Stocks /\ s \in Writes /\ s.vol = stock.vol /\ s.status = stock.status /\ s.price = ex
  <2>1. stock \in [Columns -> Nat \cup Statuses] /\ ex \in Nat
    BY <1>3, PricesAreWhole DEF Stocks
  <2>2. /\ s \in [Columns -> Nat \cup Statuses]
        /\ s.price = ex /\ s.ref = ex /\ s.band = stock.band
        /\ s.vol = stock.vol /\ s.status = stock.status
    BY <1>6, <2>1 DEF Columns
  <2>3. stock.band \in 1 .. 100 /\ stock.status \in Statuses /\ stock.vol \in Nat
    BY <1>3 DEF Stocks
  <2> QED
    BY <2>2, <2>3, Columned
<1>8. PICK plan : plan = [b EXCEPT !.paid = d * shares, !.write.price = ex, !.write.ref = ex,
                                   !.band = "ignored"]
  OBVIOUS
<1>9. Begin(h, plan)
  BY <1>1, <1>3, <1>5, <1>8 DEF Ask
<1>10. /\ plan \in Plans /\ plan.write = s /\ plan.paid = d * shares /\ plan.qty = Unchanged
       /\ plan.by = k /\ plan.retire = {} /\ plan.lands = {} /\ plan.undo = {}
       /\ plan.new = <<>> /\ plan.band = "ignored" /\ plan.stale = FALSE /\ plan.found = stock.status
  <2>1. plan = [[b EXCEPT !.paid = d * shares, !.band = "ignored"] EXCEPT !.write = s]
    BY <1>3, <1>6, <1>8 DEF Plans
  <2> QED
    BY <1>3, <1>4, <1>7, <2>1 DEF Plans
<1>11. KeepsBand(plan, s) /\ KeepsHalt(plan, s)
  BY <1>7, <1>10 DEF KeepsBand, KeepsHalt, Corporate
<1>12. Balances(plan, s)
  BY <1>1, <1>2, <1>5, <1>7, <1>10 DEF Balances
<1>13. h \in Procs /\ k \in Corporate
  BY DEF Procs, Corporate
<1> QED
  BY <1>7, <1>9, <1>10, <1>11, <1>12, <1>13, PlainBegins

\* A split.
LEMMA NewSplit ==
  ASSUME DeskInv, NEW h \in Handlers, SplitStock(h)
  PROVE  DeskInv'
<1> PICK k : k = "split"
  OBVIOUS
<1>1. PICK r \in Ratios :
        Ask(h, k, [Blank(k) EXCEPT
          !.qty = (shares * r[1]) \div r[2], !.broken = (shares * r[1]) % r[2] # 0,
          !.write.price = RoundToTick(stock.price * r[2], r[1]),
          !.write.ref = RoundToTick(stock.ref * r[2], r[1]), !.band = "ignored"])
  BY DEF SplitStock
<1>2. k \in Requests
  BY <1>1 DEF Ask
<1>3. PICK b \in Plans :
          /\ b = Blank(k) /\ b.write = stock /\ stock \in Stocks
          /\ b.by = k /\ b.retire = {} /\ b.lands = {} /\ b.undo = {}
          /\ b.new = <<>> /\ b.qty = Unchanged /\ b.paid = 0
          /\ b.broken = FALSE /\ b.band = "as is" /\ b.stale = FALSE /\ b.found = stock.status
  BY <1>2, Blanks
<1>4. PICK m \in Nat \ {0}, o \in Nat \ {0} : m = r[1] /\ o = r[2]
  BY DeskAssumption
<1>5. PICK q \in Nat : q = (shares * m) \div o
  <2>1. shares * m \in Nat
    BY DEF DeskInv, DeskType
  <2> QED
    BY <2>1
<1>6. PICK x \in Prices, y \in Prices : x = RoundToTick(stock.price * o, m) /\ y = RoundToTick(stock.ref * o, m)
  <2>1. stock.price \in Nat /\ stock.ref \in Nat /\ 0 \in Prices
    BY <1>3, PricesAreWhole, LeastPrices DEF Stocks
  <2>2. stock.price * o \in Nat /\ stock.ref * o \in Nat
    BY <2>1
  <2> QED
    BY <2>1, <2>2, RoundingRespectsPrices
<1>7. PICK v \in BOOLEAN : v = ((shares * m) % o # 0)
  OBVIOUS
<1>8. PICK s : s = [stock EXCEPT !.price = x, !.ref = y]
  OBVIOUS
<1>9. s \in Stocks /\ s \in Writes /\ s.vol = stock.vol /\ s.status = stock.status /\ s.price = x
  <2>1. stock \in [Columns -> Nat \cup Statuses] /\ x \in Nat /\ y \in Nat
    BY <1>3, PricesAreWhole DEF Stocks
  <2>2. /\ s \in [Columns -> Nat \cup Statuses]
        /\ s.price = x /\ s.ref = y /\ s.band = stock.band
        /\ s.vol = stock.vol /\ s.status = stock.status
    BY <1>8, <2>1 DEF Columns
  <2>3. stock.band \in 1 .. 100 /\ stock.status \in Statuses /\ stock.vol \in Nat
    BY <1>3 DEF Stocks
  <2> QED
    BY <2>2, <2>3, Columned
<1>10. PICK plan : plan = [b EXCEPT !.qty = q, !.broken = v, !.write.price = x, !.write.ref = y,
                                    !.band = "ignored"]
  OBVIOUS
<1>11. Begin(h, plan)
  <2>1. Begin(h, [Blank(k) EXCEPT
          !.qty = (shares * m) \div o, !.broken = (shares * m) % o # 0,
          !.write.price = RoundToTick(stock.price * o, m),
          !.write.ref = RoundToTick(stock.ref * o, m), !.band = "ignored"])
    BY <1>1, <1>4 DEF Ask
  <2> QED
    BY <1>3, <1>5, <1>6, <1>7, <1>10, <2>1
<1>12. /\ plan \in Plans /\ plan.write = s /\ plan.paid = 0 /\ plan.qty = q /\ plan.broken = v
       /\ plan.by = k /\ plan.retire = {} /\ plan.lands = {} /\ plan.undo = {}
       /\ plan.new = <<>> /\ plan.band = "ignored" /\ plan.stale = FALSE /\ plan.found = stock.status
  <2>1. plan = [[b EXCEPT !.qty = q, !.broken = v, !.band = "ignored"] EXCEPT !.write = s]
    BY <1>3, <1>8, <1>10 DEF Plans
  <2> QED
    BY <1>3, <1>9, <2>1 DEF Plans
<1>13. KeepsBand(plan, s) /\ KeepsHalt(plan, s)
  BY <1>9, <1>12 DEF KeepsBand, KeepsHalt, Corporate
<1>14. Balances(plan, s)
  BY <1>5, <1>6, <1>7, <1>9, <1>12 DEF Balances
<1>15. h \in Procs /\ k \in Corporate
  BY DEF Procs, Corporate
<1> QED
  BY <1>9, <1>11, <1>12, <1>13, <1>14, <1>15, PlainBegins

\* A day starts, by the clock or by hand.
LEMMA NewDay ==
  ASSUME DeskInv, NEW p \in Procs, Begin(p, StartDay)
  PROVE  DeskInv'
<1> PICK k : k = "pre_open"
  OBVIOUS
<1>1. PICK b \in Plans :
          /\ b = Blank(k) /\ b.write = stock /\ stock \in Stocks
          /\ b.by = k /\ b.retire = {} /\ b.lands = {} /\ b.undo = {}
          /\ b.new = <<>> /\ b.qty = Unchanged /\ b.paid = 0
          /\ b.broken = FALSE /\ b.band = "as is" /\ b.stale = FALSE /\ b.found = stock.status
  BY Blanks
<1>2. PICK st : st = IF stock.status \in Circuits THEN "ACTIVE" ELSE stock.status
  OBVIOUS
<1>3. PICK s : s = [stock EXCEPT !.ref = stock.price, !.status = st]
  OBVIOUS
<1>4. /\ s \in Stocks /\ s \in Writes /\ s.vol = stock.vol /\ s.status = st
      /\ s.price = stock.price /\ s.ref = stock.price /\ s.band = stock.band
  <2>1. stock \in [Columns -> Nat \cup Statuses] /\ stock.price \in Nat /\ st \in Statuses
    BY <1>1, <1>2, PricesAreWhole DEF Stocks, Statuses
  <2>2. /\ s \in [Columns -> Nat \cup Statuses]
        /\ s.price = stock.price /\ s.ref = stock.price /\ s.band = stock.band
        /\ s.vol = stock.vol /\ s.status = st
    BY <1>3, <2>1 DEF Columns
  <2>3. stock.price \in Prices /\ stock.band \in 1 .. 100 /\ stock.vol \in Nat
    BY <1>1 DEF Stocks
  <2> QED
    BY <2>1, <2>2, <2>3, Columned
<1>5. PICK plan : plan = StartDay
  OBVIOUS
<1>6. /\ plan \in Plans /\ plan.write = s /\ plan.paid = 0 /\ plan.qty = Unchanged
      /\ plan.by = k /\ plan.retire = {} /\ plan.lands = {} /\ plan.undo = {}
      /\ plan.new = <<>> /\ plan.band = "as is" /\ plan.stale = FALSE /\ plan.found = stock.status
  <2>1. plan = [[b EXCEPT !.market = {"PRE_OPEN"}] EXCEPT !.write = s]
    BY <1>1, <1>2, <1>3, <1>5 DEF StartDay, Plans
  <2>2. {"PRE_OPEN"} \in SUBSET Markets
    BY DEF Markets
  <2> QED
    BY <1>1, <1>4, <2>1, <2>2 DEF Plans
<1>7. s.price > 0 => Placed(s)
  <2>1. /\ Low(s) <= s.ref /\ s.ref <= High(s) /\ Low(s) \in Prices /\ High(s) \in Prices
        /\ AtLeastTick(High(s)) \in Prices
    BY <1>4, Edges
  <2>2. Low(s) \in Nat /\ High(s) \in Nat /\ s.price \in Nat /\ s.ref = s.price
    BY <1>1, <1>4, <2>1, PricesAreWhole DEF Stocks
  <2>3. s.price <= AtLeastTick(High(s))
    BY <2>1, <2>2, Units DEF AtLeastTick
  <2>4. s.status \notin Circuits
    BY <1>2, <1>4 DEF Circuits
  <2> QED
    BY <2>1, <2>2, <2>3, <2>4 DEF Placed, InBand, Circuits
<1>8. KeepsBand(plan, s) /\ KeepsHalt(plan, s)
  <2>1. loose \/ s.price > 0
    BY <1>4 DEF DeskInv, Placed
  <2> QED
    BY <1>2, <1>4, <1>6, <1>7, <2>1 DEF KeepsBand, KeepsHalt, Stopped, Circuits
<1>9. Balances(plan, s)
  BY <1>6 DEF Balances
<1> QED
  BY <1>4, <1>5, <1>6, <1>8, <1>9, PlainBegins

\* A tick.
LEMMA NewTick ==
  ASSUME DeskInv, TickPrices
  PROVE  DeskInv'
<1>0. PICK k, p : k = "tick" /\ p = "tick"
  OBVIOUS
<1>1. PICK step \in IF market = "OPEN" THEN Walks ELSE {0} :
           LET applied == Applied(stock, acts)
               after   == IF market = "OPEN" THEN Walked(applied, step) ELSE applied
               live    == {n \in DOMAIN acts : Live(acts[n])}
           IN  Begin("tick", [Blank("tick") EXCEPT
                 !.write  = after,
                 !.retire = {n \in live : Retires(acts[n])},
                 !.lands  = {n \in live : Lands(acts[n])},
                 !.market = IF market = "OPEN" THEN {"HALTED"} ELSE {"OPEN"},
                 !.band   = IF market = "OPEN" /\ after.status \notin Stopped THEN "applied" ELSE "as is"])
  BY DEF TickPrices
<1>1a. step \in Int
  BY DeskAssumption
<1>2. PICK b \in Plans :
          /\ b = Blank(k) /\ b.write = stock /\ stock \in Stocks
          /\ b.by = k /\ b.retire = {} /\ b.lands = {} /\ b.undo = {}
          /\ b.new = <<>> /\ b.qty = Unchanged /\ b.paid = 0
          /\ b.broken = FALSE /\ b.band = "as is" /\ b.stale = FALSE /\ b.found = stock.status
  BY <1>0, Blanks
<1>3. acts \in Seq(Actions) /\ \A n \in DOMAIN acts : n \in Nat /\ acts[n] \in Actions
  BY DEF DeskInv, DeskType
<1>4. PICK e : e = Applied(stock, acts)
  OBVIOUS
<1>5. /\ e \in Stocks /\ e.ref = stock.ref /\ e.band = stock.band
      /\ stock.status \in Stopped => e.price = stock.price /\ e.status = stock.status
      /\ Placed(stock) => Placed(e)
      /\ e.vol > 1 =>
           \/ \E n \in DOMAIN acts : acts[n].kind = "VOLATILITY" /\ Live(acts[n]) /\ ~acts[n].ended
           \/ e.vol = stock.vol /\ \A n \in DOMAIN acts : Live(acts[n]) => acts[n].kind # "VOLATILITY"
  BY <1>2, <1>3, <1>4, AllEffects
<1>6. PICK s : s = IF market = "OPEN" THEN Walked(e, step) ELSE e
  OBVIOUS
<1>7. /\ s \in Stocks /\ s.vol = e.vol /\ s.band = stock.band
      /\ stock.status \in Stopped => s.price = stock.price /\ s.status \in Stopped
      /\ market = "OPEN" /\ s.status \notin Stopped => Placed(s)
      /\ Placed(e) => Placed(s)
  <2>1. CASE market = "OPEN" /\ e.status \notin Stopped
    <3>1. PICK x \in Int : x = RoundToTick(e.price + step, 1) /\ (0 <= x => x \in Prices)
      <4>1. e.price \in Nat /\ e.price + step \in Int
        BY <1>1a, <1>5, PricesAreWhole DEF Stocks
      <4>2. PICK m \in Int : RoundToTick(e.price + step, 1) = m * Unit
        <5>1. PICK z \in Int : z = e.price + step
          BY <4>1
        <5>2. 1 \in Nat /\ 1 > 0
          OBVIOUS
        <5> QED
          BY <5>1, <5>2, Rounding
      <4>3. m * Unit \in Int /\ (0 <= m * Unit => m \in Nat)
        BY Units
      <4> QED
        BY <4>2, <4>3 DEF Prices
    <3>2. s = ApplyBand(e, x)
      BY <1>6, <2>1, <3>1 DEF Walked
    <3>3. /\ ApplyBand(e, x) \in Stocks /\ ApplyBand(e, x).vol = e.vol /\ Placed(ApplyBand(e, x))
          /\ ApplyBand(e, x).band = e.band
      BY <1>5, <2>1, <3>1, Banded
    <3> QED
      BY <1>5, <2>1, <3>2, <3>3
  <2>2. CASE ~(market = "OPEN" /\ e.status \notin Stopped)
    <3>1. s = e
      BY <1>6, <2>2 DEF Walked
    <3> QED
      BY <1>5, <2>2, <3>1
  <2> QED
    BY <2>1, <2>2
<1>8. s \in Writes
  <2>1. s \in [Columns -> Nat \cup Statuses]
    BY <1>7 DEF Stocks
  <2> QED
    BY <2>1 DEF Writes
<1> DEFINE live == {n \in DOMAIN acts : Live(acts[n])}
<1> DEFINE plan == [b EXCEPT
                 !.write  = s,
                 !.retire = {n \in live : Retires(acts[n])},
                 !.lands  = {n \in live : Lands(acts[n])},
                 !.market = IF market = "OPEN" THEN {"HALTED"} ELSE {"OPEN"},
                 !.band   = IF market = "OPEN" /\ s.status \notin Stopped THEN "applied" ELSE "as is"]
<1>9. Begin(p, plan)
  BY <1>0, <1>1, <1>2, <1>4, <1>6
<1>10. /\ plan \in Plans /\ plan.write = s /\ plan.paid = 0 /\ plan.qty = Unchanged
       /\ plan.retire = {n \in live : Retires(acts[n])} /\ plan.lands = {n \in live : Lands(acts[n])}
       /\ plan.by = k /\ plan.undo = {} /\ plan.new = <<>> /\ plan.stale = FALSE /\ plan.found = stock.status
       /\ plan.band = IF market = "OPEN" /\ s.status \notin Stopped THEN "applied" ELSE "as is"
  <2>1. {n \in live : Retires(acts[n])} \in SUBSET Nat /\ {n \in live : Lands(acts[n])} \in SUBSET Nat
    BY <1>3
  <2>2. {"HALTED"} \in SUBSET Markets /\ {"OPEN"} \in SUBSET Markets
    BY DEF Markets
  <2>3. (IF market = "OPEN" THEN {"HALTED"} ELSE {"OPEN"}) \in SUBSET Markets
    BY <2>2
  <2>4. (IF market = "OPEN" /\ s.status \notin Stopped THEN "applied" ELSE "as is")
          \in {"as is", "applied", "ignored"}
    OBVIOUS
  <2>5. PICK x \in SUBSET Nat, y \in SUBSET Nat, m \in SUBSET Markets, z \in {"as is", "applied", "ignored"} :
            /\ x = {n \in live : Retires(acts[n])} /\ y = {n \in live : Lands(acts[n])}
            /\ m = (IF market = "OPEN" THEN {"HALTED"} ELSE {"OPEN"})
            /\ z = (IF market = "OPEN" /\ s.status \notin Stopped THEN "applied" ELSE "as is")
    BY <2>1, <2>3, <2>4
  <2>6. plan = [b EXCEPT !.write = s, !.retire = x, !.lands = y, !.market = m, !.band = z]
    BY <2>5
  <2> HIDE DEF live, plan
  <2>7. /\ plan \in Plans /\ plan.write = s /\ plan.paid = 0 /\ plan.qty = Unchanged
        /\ plan.retire = x /\ plan.lands = y /\ plan.by = k /\ plan.undo = {} /\ plan.new = <<>>
        /\ plan.stale = FALSE /\ plan.found = stock.status /\ plan.band = z
    BY <1>2, <1>8, <2>6 DEF Plans
  <2> QED
    BY <2>5, <2>7
<1> HIDE DEF plan
<1>11. LandsFresh(p, plan)
  <2>1. \A n \in DOMAIN acts : Lands(acts[n]) => Retires(acts[n])
    BY DEF Lands, Retires
  <2> QED
    BY <1>0, <1>10, <2>1 DEF LandsFresh, Live
<1>12. KeepsBand(plan, s) /\ KeepsHalt(plan, s)
  <2>1. loose \/ Placed(stock)
    BY DEF DeskInv
  <2> QED
    BY <1>0, <1>5, <1>7, <1>10, <2>1 DEF KeepsBand, KeepsHalt
<1>13. Calms(p, plan, s)
  <2> SUFFICES ASSUME s.vol > 1 PROVE Raised(plan.retire)
    BY <1>0 DEF Calms
  <2>1. CASE \E n \in DOMAIN acts : acts[n].kind = "VOLATILITY" /\ Live(acts[n]) /\ ~acts[n].ended
    <3>1. PICK n \in DOMAIN acts : acts[n].kind = "VOLATILITY" /\ Live(acts[n]) /\ ~acts[n].ended
      BY <2>1
    <3>2. n \notin plan.retire
      BY <1>10, <3>1 DEF Retires
    <3> QED
      BY <3>1, <3>2 DEF Raised
  <2>2. CASE e.vol = stock.vol /\ \A n \in DOMAIN acts : Live(acts[n]) => acts[n].kind # "VOLATILITY"
    <3>1. PICK n \in DOMAIN acts : acts[n].kind = "VOLATILITY" /\ (Live(acts[n]) \/ acts[n].undone)
      BY <1>7, <2>2 DEF DeskInv, VolatilityEnds
    <3>2. n \notin plan.retire
      BY <1>10, <2>2, <3>1
    <3> QED
      BY <3>1, <3>2 DEF Raised
  <2> QED
    BY <1>5, <1>7, <2>1, <2>2
<1>14. Reverts(plan, s) /\ Balances(plan, s) /\ Accounts(plan)
  <2>1. DOMAIN <<>> = {}
    OBVIOUS
  <2>2. DOMAIN plan.new = {}
    BY <1>10, <2>1, Zenon
  <2> QED
    BY <1>0, <1>10, <2>2 DEF Reverts, Balances, Accounts, Corporate
<1>15. p \in Procs
  BY <1>0 DEF Procs
<1>16. PICK t : t = plan
  OBVIOUS
<1>17. Sound(p, t, s) /\ t.write = s /\ Begin(p, t) /\ t.stale = FALSE /\ t.found = stock.status
  BY <1>9, <1>10, <1>11, <1>12, <1>13, <1>14, <1>16 DEF Sound
<1> QED
  BY <1>7, <1>15, <1>17, BeginStep

\* Whatever operators ask for.
LEMMA Requested ==
  ASSUME DeskInv, NEW h \in Handlers, Request(h)
  PROVE  DeskInv'
<1>1. h \in Procs
  BY DEF Procs
<1>2. CASE PriceMove(h)
  <2>1. PICK x \in Aims : AddAction(h, "move", NewAction("MOVE", x, TRUE))
    BY <1>2 DEF PriceMove
  <2>2. PICK k \in {"move", "jump", "volatility"}, kind \in Kinds, aim \in Nat, timed \in BOOLEAN :
          k = "move" /\ kind = "MOVE" /\ aim = x /\ timed = TRUE
    BY DeskAssumption DEF Kinds
  <2> QED
    BY <2>1, <2>2, NewActions
<1>3. CASE PriceJump(h)
  <2>1. PICK x \in Aims : AddAction(h, "jump", NewAction("JUMP", x, FALSE))
    BY <1>3 DEF PriceJump
  <2>2. PICK k \in {"move", "jump", "volatility"}, kind \in Kinds, aim \in Nat, timed \in BOOLEAN :
          k = "jump" /\ kind = "JUMP" /\ aim = x /\ timed = FALSE
    BY DeskAssumption DEF Kinds
  <2> QED
    BY <2>1, <2>2, NewActions
<1>4. CASE PriceVolatility(h)
  <2>1. PICK x \in BOOLEAN : AddAction(h, "volatility", NewAction("VOLATILITY", 2, x))
    BY <1>4 DEF PriceVolatility
  <2>2. PICK k \in {"move", "jump", "volatility"}, kind \in Kinds, aim \in Nat, timed \in BOOLEAN :
          k = "volatility" /\ kind = "VOLATILITY" /\ aim = 2 /\ timed = x
    BY DEF Kinds
  <2> QED
    BY <2>1, <2>2, NewActions
<1>5. CASE HaltInstrument(h) \/ ResumeInstrument(h) \/ SuspendInstrument(h)
  <2>1. PICK k \in {"halt", "resume", "suspend"}, st \in {"ACTIVE", "HALTED", "SUSPENDED"} :
          (k # "resume" => st \in Stopped) /\ Ask(h, k, [Blank(k) EXCEPT !.write.status = st])
    BY <1>5 DEF HaltInstrument, ResumeInstrument, SuspendInstrument, Stopped
  <2> QED
    BY <2>1, NewStatus
<1>6. CASE OperatorStartsDay(h)
  BY <1>1, <1>6, NewDay DEF OperatorStartsDay, Ask
<1> QED
  BY <1>2, <1>3, <1>4, <1>5, <1>6, NewBand, NewUndo, NewDividend, NewSplit DEF Request

-----------------------------------------------------------------------------
\* The other steps.

\* The seconds of an action end.
LEMMA Expires ==
  ASSUME DeskInv, NEW n \in 1 .. MaxActions, Expire(n)
  PROVE  DeskInv'
<1>1. /\ acts \in Seq(Actions) /\ n \in DOMAIN acts /\ acts' = [acts EXCEPT ![n].ended = TRUE]
      /\ UNCHANGED <<market, stock, shares, cash, txn, corp, landed, loose>>
  <2>1. acts \in Seq(Actions) /\ n <= Len(acts)
    BY DEF DeskInv, DeskType, Expire
  <2>2. n \in DOMAIN acts
    BY <2>1, DeskAssumption
  <2> QED
    BY <2>1, <2>2 DEF Expire
<1>2. DOMAIN acts' = DOMAIN acts /\ acts' \in Seq(Actions) /\ Len(acts') = Len(acts)
  <2>1. PICK a \in Actions : a = acts[n]
    BY <1>1
  <2>2. PICK e : e = [a EXCEPT !.ended = TRUE]
    OBVIOUS
  <2>3. e \in Actions
    BY <2>2 DEF Actions
  <2>4. acts' = [acts EXCEPT ![n] = e]
    BY <1>1, <2>1, <2>2
  <2>5. DOMAIN acts = 1 .. Len(acts)
    BY <1>1, LenProperties
  <2>6. [acts EXCEPT ![n] = e] \in Seq(Actions) /\ Len([acts EXCEPT ![n] = e]) = Len(acts)
    BY <1>1, <2>3, <2>5, ExceptSeq, Zenon
  <2> QED
    BY <2>4, <2>5, <2>6, LenProperties
<1>3. ASSUME NEW m \in DOMAIN acts
      PROVE  /\ acts'[m].kind = acts[m].kind /\ acts'[m].retired = acts[m].retired
             /\ acts'[m].undone = acts[m].undone /\ acts'[m].before = acts[m].before
             /\ acts'[m].worth = acts[m].worth /\ acts'[m].corp = acts[m].corp
  <2>1. PICK a \in Actions : a = acts[m]
    BY <1>1
  <2>2. acts'[m] = IF m = n THEN [a EXCEPT !.ended = TRUE] ELSE a
    BY <1>1, <2>1
  <2> QED
    BY <2>1, <2>2 DEF Actions
<1>4. DeskType'
  BY <1>1, <1>2 DEF DeskInv, DeskType
<1>5. ASSUME NEW a PROVE Remembers(a)' = Remembers(a)
  BY <1>1 DEF Remembers
<1>6. \A m \in DOMAIN acts' : Remembers(acts[m])'
  BY <1>1, <1>2, <1>3 DEF DeskInv, Remembers
<1>7. ASSUME NEW R PROVE Raised(R)' = Raised(R)
  BY <1>2, <1>3 DEF Raised, Live
<1>8. VolatilityEnds'
  BY <1>1, <1>2, <1>3 DEF DeskInv, VolatilityEnds, Live
<1>9. ASSUME NEW q, NEW t, NEW s, Sound(q, t, s) PROVE Sound(q, t, s)'
  <2>1. /\ t \in Plans /\ KeepsBand(t, s)' /\ KeepsHalt(t, s)' /\ Balances(t, s)'
    BY <1>1, <1>9 DEF Sound, KeepsBand, KeepsHalt, Balances
  <2>2. LandsFresh(q, t)'
    BY <1>2, <1>3, <1>9 DEF Sound, LandsFresh
  <2>3. Calms(q, t, s)'
    BY <1>1, <1>7, <1>9 DEF Sound, Calms
  <2>4. Reverts(t, s)'
    BY <1>1, <1>2, <1>3, <1>9 DEF Sound, Reverts
  <2>5. Accounts(t)'
    BY <1>5, <1>9 DEF Sound, Accounts
  <2> QED
    BY <2>1, <2>2, <2>3, <2>4, <2>5 DEF Sound
<1>10. \A q \in Procs : (txn[q] # None => Fits(txn[q].write) /\ Sound(q, txn[q], Written(txn[q])))'
  <2> SUFFICES ASSUME NEW q \in Procs, txn'[q] # None
               PROVE  Fits(txn'[q].write) /\ Sound(q, txn[q], Written(txn[q]))'
    OBVIOUS
  <2>1. PICK u, s : u = txn[q] /\ s = Written(u)
    OBVIOUS
  <2>2. u = txn'[q] /\ s = Written(u)'
    BY <1>1, <2>1 DEF Written
  <2>3. Sound(q, u, s)' /\ Fits(u.write)
    BY <1>1, <1>9, <2>1 DEF DeskInv
  <2> QED
    BY <2>1, <2>2, <2>3
<1>11. \A m \in DOMAIN acts' : landed'[m] = 1 => acts'[m].retired
  BY <1>1, <1>2, <1>3 DEF DeskInv
<1> QED
  BY <1>1, <1>4, <1>6, <1>8, <1>10, <1>11 DEF DeskInv, Placed, InBand, Low, High

\* What a commit makes of the lists of actions.
LEMMA Committed ==
  ASSUME DeskInv, NEW p \in Procs, Commit(p)
  PROVE  /\ acts' \in Seq(Actions) /\ landed' \in Seq({0, 1}) /\ Len(landed') = Len(acts')
         /\ DOMAIN acts \subseteq DOMAIN acts'
         /\ \A n \in DOMAIN acts :
              /\ acts'[n].kind = acts[n].kind /\ acts'[n].before = acts[n].before
              /\ acts'[n].worth = acts[n].worth /\ acts'[n].corp = acts[n].corp
              /\ acts'[n].retired = (acts[n].retired \/ n \in txn[p].retire)
              /\ acts'[n].undone = (acts[n].undone \/ n \in txn[p].undo)
              /\ landed'[n] = IF n \in txn[p].lands THEN 1 ELSE landed[n]
         /\ \A n \in DOMAIN acts' \ DOMAIN acts :
              \E m \in DOMAIN txn[p].new : acts'[n] = txn[p].new[m] /\ landed'[n] = 0
<1> PICK t : t = txn[p]
  OBVIOUS
<1> DEFINE Old(n) == [acts[n] EXCEPT !.retired = @ \/ n \in t.retire, !.undone = @ \/ n \in t.undo]
<1> DEFINE Hit(n) == landed[n] + IF n \in t.lands THEN 1 ELSE 0
<1>1. /\ t \in Plans /\ LandsFresh(p, t)
      /\ acts' = [n \in DOMAIN acts |-> Old(n)] \o t.new
      /\ landed' = [n \in DOMAIN acts |-> Hit(n)] \o [n \in DOMAIN t.new |-> 0]
  BY DEF DeskInv, Sound, Commit
<1>2. PICK L \in Nat, K \in Nat : L = Len(acts) /\ K = Len(t.new)
  <2>1. acts \in Seq(Actions)
    BY DEF DeskInv, DeskType
  <2>2. t.new \in Seq(Actions)
    BY <1>1 DEF Plans
  <2> QED
    BY <2>1, <2>2, LenProperties
<1>3. /\ acts \in Seq(Actions) /\ DOMAIN acts = 1 .. L
      /\ t.new \in Seq(Actions) /\ DOMAIN t.new = 1 .. K
      /\ landed \in Seq({0, 1}) /\ Len(landed) = L /\ DOMAIN landed = 1 .. L
  <2>1. acts \in Seq(Actions) /\ landed \in Seq({0, 1}) /\ Len(landed) = L
    BY <1>2 DEF DeskInv, DeskType
  <2>2. t.new \in Seq(Actions)
    BY <1>1 DEF Plans
  <2> QED
    BY <1>2, <2>1, <2>2, LenProperties
<1>4. ASSUME NEW n \in 1 .. L
      PROVE  /\ Old(n) \in Actions /\ Old(n).kind = acts[n].kind /\ Old(n).before = acts[n].before
             /\ Old(n).worth = acts[n].worth /\ Old(n).corp = acts[n].corp
             /\ Old(n).retired = (acts[n].retired \/ n \in t.retire)
             /\ Old(n).undone = (acts[n].undone \/ n \in t.undo)
  <2>0. PICK a \in Actions : a = acts[n]
    BY <1>3, ElementOfSeq
  <2>1. PICK x, y, e :
          /\ {x, y} \subseteq BOOLEAN
          /\ a = acts[n] /\ x = (a.retired \/ n \in t.retire) /\ y = (a.undone \/ n \in t.undo)
          /\ e = [a EXCEPT !.retired = x, !.undone = y]
    BY <2>0
  <2>2. Old(n) = e
    BY <2>1
  <2>3. /\ e \in Actions /\ e.kind = a.kind /\ e.before = a.before /\ e.worth = a.worth /\ e.corp = a.corp
        /\ e.retired = x /\ e.undone = y
    BY <2>1 DEF Actions
  <2> QED
    BY <2>1, <2>2, <2>3
<1>5. ASSUME NEW n \in 1 .. L PROVE Hit(n) = IF n \in t.lands THEN 1 ELSE landed[n]
  <2>1. landed[n] \in {0, 1}
    BY <1>3
  <2>2. n \in t.lands => landed[n] # 1
    BY <1>1, <1>3 DEF LandsFresh, DeskInv
  <2> QED
    BY <2>1, <2>2
<1>6. PICK A, H, Z : /\ A = [n \in 1 .. L |-> Old(n)] /\ H = [n \in 1 .. L |-> Hit(n)]
                     /\ Z = [n \in 1 .. K |-> 0]
  OBVIOUS
<1>7. /\ A \in Seq(Actions) /\ Len(A) = L /\ \A n \in 1 .. L : A[n] = Old(n)
  <2> HIDE DEF Old
  <2> QED
    BY <1>4, <1>6
<1>8. /\ H \in Seq({0, 1}) /\ Len(H) = L /\ \A n \in 1 .. L : H[n] = IF n \in t.lands THEN 1 ELSE landed[n]
  <2>1. \A n \in 1 .. L : Hit(n) \in {0, 1}
    BY <1>3, <1>5
  <2>2. PICK N : N = {0, 1}
    OBVIOUS
  <2> HIDE DEF Hit, Old
  <2>3. \A n \in 1 .. L : Hit(n) \in N
    BY <2>1, <2>2
  <2>4. H \in Seq(N) /\ Len(H) = L /\ \A n \in 1 .. L : H[n] = Hit(n)
    BY <1>6, <2>3
  <2> QED
    BY <1>5, <2>2, <2>4
<1>9. Z \in Seq({0, 1}) /\ Len(Z) = K /\ \A n \in 1 .. K : Z[n] = 0
  <2>1. PICK N : N = {0, 1}
    OBVIOUS
  <2>2. 0 \in N
    BY <2>1
  <2> HIDE DEF Hit, Old
  <2>3. Z \in Seq(N) /\ Len(Z) = K /\ \A n \in 1 .. K : Z[n] = 0
    BY <1>6, <2>2
  <2> QED
    BY <2>1, <2>3
<1>10. acts' = A \o t.new /\ landed' = H \o Z
  BY <1>1, <1>3, <1>6
<1> HIDE DEF Old, Hit
<1>11. /\ acts' \in Seq(Actions) /\ Len(acts') = L + K
       /\ \A n \in 1 .. L + K : acts'[n] = IF n <= L THEN A[n] ELSE t.new[n - L]
  <2>1. /\ A \o t.new \in Seq(Actions) /\ Len(A \o t.new) = Len(A) + Len(t.new)
        /\ \A n \in 1 .. Len(A) + Len(t.new) : (A \o t.new)[n] = IF n <= Len(A) THEN A[n] ELSE t.new[n - Len(A)]
    BY <1>3, <1>7, ConcatProperties, Zenon
  <2> QED
    BY <1>2, <1>7, <1>10, <2>1
<1>12. /\ landed' \in Seq({0, 1}) /\ Len(landed') = L + K
       /\ \A n \in 1 .. L + K : landed'[n] = IF n <= L THEN H[n] ELSE Z[n - L]
  <2>0. PICK N : N = {0, 1}
    OBVIOUS
  <2>1. /\ H \o Z \in Seq(N) /\ Len(H \o Z) = Len(H) + Len(Z)
        /\ \A n \in 1 .. Len(H) + Len(Z) : (H \o Z)[n] = IF n <= Len(H) THEN H[n] ELSE Z[n - Len(H)]
    <3>1. H \in Seq(N) /\ Z \in Seq(N)
      BY <1>8, <1>9, <2>0
    <3> QED
      BY <3>1, ConcatProperties, Zenon
  <2> QED
    BY <1>8, <1>9, <1>10, <2>0, <2>1
<1>13. DOMAIN acts' = 1 .. L + K /\ \A n \in 1 .. L : n \in 1 .. L + K /\ n <= L
  BY <1>11
<1>14. ASSUME NEW n \in DOMAIN acts' \ DOMAIN acts
       PROVE  \E m \in DOMAIN t.new : acts'[n] = t.new[m] /\ landed'[n] = 0
  <2>1. n \in 1 .. L + K /\ ~(n <= L) /\ n - L \in 1 .. K
    BY <1>3, <1>13
  <2> QED
    BY <1>3, <1>9, <1>11, <1>12, <2>1
<1>15. \A n \in 1 .. L : acts'[n] = Old(n) /\ landed'[n] = IF n \in t.lands THEN 1 ELSE landed[n]
  BY <1>7, <1>8, <1>11, <1>12, <1>13
<1> QED
  BY <1>3, <1>4, <1>11, <1>12, <1>13, <1>14, <1>15

\* A commit.
LEMMA Commits ==
  ASSUME DeskInv, NEW p \in Procs, Commit(p)
  PROVE  DeskInv'
<1> PICK t, s : t = txn[p] /\ s = Written(t)
  OBVIOUS
<1>1. /\ t # None /\ Fits(t.write) /\ Sound(p, t, s) /\ stock' = s /\ s \in Stocks
      /\ shares' = IF t.qty = Unchanged THEN shares ELSE t.qty
      /\ cash' = cash + t.paid
      /\ market' \in t.market \cup IF t.by = "pre_open" THEN {} ELSE {market}
      /\ corp' = IF t.by \in Corporate THEN corp + 1 ELSE corp
      /\ loose' = (t.band = "ignored" \/ Late(t) \/ (loose /\ (t.stale \/ t.band # "applied")))
      /\ txn' = Closed(p)
  <2>1. t # None /\ Fits(t.write) /\ Sound(p, t, s) /\ stock \in Stocks
    BY DEF DeskInv, DeskType, Commit
  <2> QED
    BY <2>1, WrittenFits DEF Commit, Corporate
<1>2. t \in Plans /\ LandsFresh(p, t) /\ Accounts(t)
  BY <1>1 DEF Sound
<1>3. /\ t.qty \in Nat \cup {Unchanged} /\ t.paid \in Nat /\ t.market \in SUBSET Markets
      /\ t.stale \in BOOLEAN /\ t.band \in {"as is", "applied", "ignored"} /\ t.new \in Seq(Actions)
  BY <1>2 DEF Plans
<1>3a. /\ acts \in Seq(Actions) /\ landed \in Seq({0, 1}) /\ Len(landed) = Len(acts)
       /\ shares \in Nat /\ cash \in Int /\ corp \in Nat /\ loose \in BOOLEAN /\ market \in Markets
       /\ \A n \in DOMAIN acts : Remembers(acts[n]) /\ (landed[n] = 1 => acts[n].retired)
  BY DEF DeskInv, DeskType
<1>4. /\ acts' \in Seq(Actions) /\ landed' \in Seq({0, 1}) /\ Len(landed') = Len(acts')
      /\ DOMAIN acts \subseteq DOMAIN acts'
      /\ \A n \in DOMAIN acts :
           /\ acts'[n].kind = acts[n].kind /\ acts'[n].before = acts[n].before
           /\ acts'[n].worth = acts[n].worth /\ acts'[n].corp = acts[n].corp
           /\ acts'[n].retired = (acts[n].retired \/ n \in t.retire)
           /\ acts'[n].undone = (acts[n].undone \/ n \in t.undo)
           /\ landed'[n] = IF n \in t.lands THEN 1 ELSE landed[n]
      /\ \A n \in DOMAIN acts' \ DOMAIN acts :
           \E m \in DOMAIN t.new : acts'[n] = t.new[m] /\ landed'[n] = 0
  BY Committed
<1>5. DeskType'
  <2>1. shares' \in Nat /\ cash' \in Int /\ corp' \in Nat
    <3>1. shares' \in Nat
      BY <1>1, <1>3, <1>3a
    <3>2. corp' \in Nat
      BY <1>1, <1>3a
    <3>3. cash' \in Int
      <4>1. PICK m \in Nat : m = t.paid
        BY <1>3
      <4>2. cash' = cash + m
        BY <1>1, <4>1
      <4>3. cash \in Int
        BY <1>3a
      <4> QED
        BY <4>2, <4>3
    <3> QED
      BY <3>1, <3>2, <3>3
  <2>2. market' \in Markets
    BY <1>1, <1>3, <1>3a
  <2>3. loose' \in BOOLEAN
    BY <1>1, <1>3, <1>3a
  <2>4. txn' = [q \in Procs |-> txn'[q]]
    BY <1>1 DEF Closed
  <2> QED
    BY <1>1, <1>4, <2>1, <2>2, <2>3, <2>4 DEF DeskType
<1>6. loose' \/ Placed(stock)'
  <2> SUFFICES ASSUME ~loose' PROVE Placed(s)
    BY <1>1 DEF Placed, InBand, Low, High
  <2>1. t.band # "ignored" /\ ~Late(t) /\ (~loose \/ (~t.stale /\ t.band = "applied"))
    BY <1>1
  <2>2. CASE ~t.stale
    <3>1. t.band = "applied" \/ (t.band = "as is" /\ ~loose)
      BY <1>3, <2>1
    <3> QED
      BY <1>1, <2>2, <3>1 DEF Sound, KeepsBand
  <2>3. CASE t.stale
    <3>1. Placed(stock) /\ stock \in Stocks
      BY <2>1, <2>3 DEF DeskInv, DeskType
    <3>2. s = [c \in Columns |-> IF c \in DOMAIN t.write THEN t.write[c] ELSE stock[c]]
      BY DEF Written
    <3>3. CASE t.by \in {"tick", "pre_open"}
      <4>1. DOMAIN t.write \cap {"price", "ref", "status"} = {} /\ "band" \notin DOMAIN t.write
        BY <1>1, <2>1, <2>3, <3>3 DEF Late, HeedsBand, DeskInv
      <4>2. s.price = stock.price /\ s.ref = stock.ref /\ s.status = stock.status /\ s.band = stock.band
        BY <3>2, <4>1 DEF Columns
      <4> QED
        BY <3>1, <4>2 DEF Placed, InBand, Low, High
    <3>4. CASE t.by \notin {"tick", "pre_open"}
      <4>1. HeedsBand(t) /\ t.band # "ignored"
        BY <1>1, <1>3, <2>1, <3>4 DEF DeskInv
      <4>2. s.price = stock.price /\ s.ref = stock.ref /\ s.band = stock.band
        BY <3>2, <3>4, <4>1 DEF Columns, HeedsBand
      <4>3. s.status \in {stock.status, "ACTIVE", "HALTED", "SUSPENDED"}
        BY <3>2, <3>4, <4>1 DEF Columns, HeedsBand, Stopped
      <4> QED
        BY <3>1, <4>2, <4>3 DEF Placed, InBand, Low, High
    <3> QED
      BY <3>3, <3>4
  <2> QED
    BY <2>2, <2>3, <1>3
<1>7. ASSUME NEW a, Remembers(a), corp \in Nat, a.corp \in Nat PROVE Remembers(a)'
  <2>1. corp' # corp \/ (shares' = shares /\ cash' = cash)
    <3>1. CASE t.by \in Corporate
      <4>1. corp' = corp + 1 /\ corp \in Nat
        BY <1>1, <1>3a, <3>1
      <4> QED
        BY <4>1
    <3>2. CASE t.by \notin Corporate
      <4>1. t.qty = Unchanged /\ t.paid = 0
        BY <1>2, <3>2 DEF Accounts
      <4>2. shares' = shares /\ cash' = cash + 0 /\ cash \in Int
        BY <1>1, <1>3a, <4>1
      <4> QED
        BY <4>2
    <3> QED
      BY <3>1, <3>2
  <2>2. corp' = corp \/ (corp' = corp + 1 /\ a.corp < corp')
    BY <1>1, <1>7 DEF Remembers
  <2>3. a.corp <= corp'
    BY <1>7, <2>2 DEF Remembers
  <2>4. a.corp = corp' => corp' = corp
    BY <2>2, <1>7
  <2> QED
    BY <1>7, <2>1, <2>3, <2>4 DEF Remembers
<1>8. ASSUME NEW u \in Plans, Accounts(u) PROVE \A m \in DOMAIN u.new : Remembers(u.new[m])'
  <2> SUFFICES ASSUME NEW m \in DOMAIN u.new PROVE Remembers(u.new[m])'
    OBVIOUS
  <2>1. PICK a \in Actions : a = u.new[m]
    <3>1. u.new \in Seq(Actions)
      BY DEF Plans
    <3> QED
      BY <3>1
  <2>2. Remembers(a) /\ a.corp \in Nat /\ corp \in Nat
    BY <1>3a, <1>8, <2>1 DEF Accounts, Actions
  <2>3. Remembers(a)'
    BY <1>7, <2>2
  <2> QED
    BY <2>1, <2>3
<1>9. \A n \in DOMAIN acts' : Remembers(acts[n])'
  <2> SUFFICES ASSUME NEW n \in DOMAIN acts' PROVE Remembers(acts[n])'
    OBVIOUS
  <2>1. CASE n \in DOMAIN acts
    <3>1. PICK a, e : a \in Actions /\ a = acts[n] /\ e = acts'[n]
      BY <1>3a, <2>1
    <3>2. Remembers(a) /\ a.corp \in Nat /\ corp \in Nat
      BY <1>3a, <2>1, <3>1 DEF Actions
    <3>3. Remembers(a)'
      BY <1>7, <3>2
    <3>4. e.corp = a.corp /\ e.kind = a.kind /\ e.before = a.before /\ e.worth = a.worth
      BY <1>4, <2>1, <3>1
    <3>5. Remembers(e)'
      BY <3>3, <3>4 DEF Remembers
    <3> QED
      BY <3>1, <3>5
  <2>2. CASE n \notin DOMAIN acts
    <3>1. PICK m \in DOMAIN t.new : acts'[n] = t.new[m]
      BY <1>4, <2>2
    <3>2. PICK a : a = t.new[m]
      OBVIOUS
    <3>3. Remembers(a)'
      BY <1>2, <1>8, <3>2
    <3> QED
      BY <3>1, <3>2, <3>3
  <2> QED
    BY <2>1, <2>2
<1>10. \A n \in DOMAIN acts' : landed'[n] = 1 => acts'[n].retired
  <2> SUFFICES ASSUME NEW n \in DOMAIN acts', landed'[n] = 1 PROVE acts'[n].retired
    OBVIOUS
  <2>1. n \in DOMAIN acts
    BY <1>4
  <2> QED
    BY <1>2, <1>3a, <1>4, <2>1 DEF LandsFresh
<1>11. ASSUME NEW n \in DOMAIN acts, acts[n].kind = "VOLATILITY", Live(acts[n]) \/ acts[n].undone, n \notin t.retire
       PROVE  acts'[n].kind = "VOLATILITY" /\ (Live(acts'[n]) \/ acts'[n].undone)
  BY <1>4, <1>11 DEF Live
<1>12. VolatilityEnds'
  <2> SUFFICES ASSUME s.vol > 1
               PROVE  \E n \in DOMAIN acts' : acts'[n].kind = "VOLATILITY" /\ (Live(acts'[n]) \/ acts'[n].undone)
    BY <1>1 DEF VolatilityEnds, Live
  <2>1. PICK n \in DOMAIN acts \ t.retire : acts[n].kind = "VOLATILITY" /\ (Live(acts[n]) \/ acts[n].undone)
    BY <1>1 DEF Sound, Calms, Raised
  <2> QED
    BY <1>4, <1>11, <2>1
<1>13. \A q \in Procs : txn'[q] # None => q # p /\ txn[q] # None /\ txn'[q] = [txn[q] EXCEPT !.stale = TRUE]
  BY <1>1 DEF Closed
<1>14. ASSUME NEW q \in Procs, txn'[q] # None
       PROVE  /\ Fits(txn'[q].write) /\ Sound(q, txn[q], Written(txn[q]))'
              /\ q # "tick" /\ "vol" \in DOMAIN txn'[q].write => txn'[q].write.vol = 1
             /\ HeedsStop(txn'[q]) /\ HeedsBand(txn'[q])
  <2>1. PICK v, x : /\ v = txn[q] /\ x = Written(v) /\ q # p /\ v # None
                    /\ txn'[q] = [v EXCEPT !.stale = TRUE]
    BY <1>13, <1>14
  <2>2. /\ v \in Plans /\ Fits(v.write) /\ LandsFresh(q, v) /\ Calms(q, v, x) /\ Reverts(v, x) /\ Accounts(v)
        /\ q # "tick" /\ "vol" \in DOMAIN v.write => v.write.vol = 1
        /\ HeedsStop(v) /\ HeedsBand(v)
    BY <2>1 DEF DeskInv, Sound
  <2>3. PICK u :
          /\ u \in Plans /\ u = [v EXCEPT !.stale = TRUE] /\ u.stale = TRUE /\ u.write = v.write /\ u.by = v.by
          /\ u.retire = v.retire /\ u.lands = v.lands /\ u.undo = v.undo /\ u.new = v.new
          /\ u.qty = v.qty /\ u.paid = v.paid /\ u.found = v.found /\ u.band = v.band
    <3>1. v \in Plans /\ TRUE \in BOOLEAN
      BY <2>2
    <3>2. PICK u : u = [v EXCEPT !.stale = TRUE]
      OBVIOUS
    <3>3. /\ u \in Plans /\ u.stale = TRUE /\ u.write = v.write /\ u.by = v.by
          /\ u.retire = v.retire /\ u.lands = v.lands /\ u.undo = v.undo /\ u.new = v.new
          /\ u.qty = v.qty /\ u.paid = v.paid /\ u.found = v.found /\ u.band = v.band
      BY <3>1, <3>2 DEF Plans
    <3> QED
      BY <3>2, <3>3
  <2>4. PICK y : y = Written(u)'
    OBVIOUS
  <2>5. y.vol = IF "vol" \in DOMAIN v.write THEN v.write.vol ELSE s.vol
    BY <1>1, <2>3, <2>4 DEF Written, Columns
  <2>6. x.vol = IF "vol" \in DOMAIN v.write THEN v.write.vol ELSE stock.vol
    BY <2>1 DEF Written, Columns
  <2>7. LandsFresh(q, u)'
    <3>1. u.lands \subseteq u.retire /\ u.retire \subseteq DOMAIN acts /\ u.retire \subseteq DOMAIN acts'
      BY <1>4, <2>2, <2>3 DEF LandsFresh
    <3>2. ASSUME NEW n \in u.retire PROVE ~acts'[n].retired
      <4>1. q = "tick" /\ t.retire = {}
        BY <1>2, <2>1, <2>2, <2>3, <3>2 DEF LandsFresh
      <4> QED
        BY <1>4, <2>2, <2>3, <4>1 DEF LandsFresh
    <3>3. q # "tick" => u.retire = {}
      BY <2>2, <2>3 DEF LandsFresh
    <3> QED
      BY <2>3, <3>1, <3>2, <3>3 DEF LandsFresh
  <2>8. (Calms(q, u, y))'
    <3>1. CASE q = "tick"
      <4>1. t.retire = {} /\ s.vol \in {1, stock.vol}
        BY <1>1, <1>2, <2>1, <3>1 DEF Sound, LandsFresh, Calms
      <4>2. y.vol > 1 => x.vol > 1
        BY <2>5, <2>6, <4>1
      <4>3. ASSUME y.vol > 1 PROVE Raised(u.retire)'
        <5>1. PICK n \in DOMAIN acts \ v.retire : acts[n].kind = "VOLATILITY" /\ (Live(acts[n]) \/ acts[n].undone)
          BY <2>2, <4>2, <4>3 DEF Calms, Raised
        <5> QED
          BY <1>4, <1>11, <2>3, <4>1, <5>1 DEF Raised, Live
      <4> QED
        BY <3>1, <4>3 DEF Calms
    <3>2. CASE q # "tick"
      <4>1. u.retire = {} /\ (y.vol = 1 \/ y.vol = s.vol)
        BY <2>2, <2>3, <2>5, <3>2 DEF LandsFresh
      <4>2. y.vol > 1 => Raised(u.retire)'
        BY <1>1, <1>12, <4>1 DEF VolatilityEnds, Raised, Live
      <4> QED
        BY <1>1, <4>1, <4>2 DEF Calms
    <3> QED
      BY <3>1, <3>2
  <2>9. (Reverts(u, y))'
    BY <1>4, <2>2, <2>3 DEF Reverts
  <2>10. Accounts(u)'
    <3>1. \A m \in DOMAIN v.new : Remembers(v.new[m])'
      BY <1>8, <2>2
    <3> QED
      BY <2>2, <2>3, <3>1 DEF Accounts
  <2>11. KeepsBand(u, y)' /\ KeepsHalt(u, y)' /\ Balances(u, y)'
    BY <2>3 DEF KeepsBand, KeepsHalt, Balances
  <2>12. Sound(q, u, y)'
    BY <2>3, <2>7, <2>8, <2>9, <2>10, <2>11 DEF Sound
  <2>13. HeedsStop(u) /\ HeedsBand(u)
    BY <2>2, <2>3 DEF HeedsStop, HeedsBand
  <2> QED
    BY <2>1, <2>2, <2>3, <2>4, <2>12, <2>13
<1> QED
  BY <1>5, <1>6, <1>9, <1>10, <1>12, <1>14 DEF DeskInv

\* The market may move, and transactions may be given up.
LEMMA Leaves ==
  ASSUME DeskInv, market' \in Markets,
         UNCHANGED <<stock, acts, shares, cash, corp, landed, loose>>,
         txn' = [q \in Procs |-> txn'[q]], \A q \in Procs : txn'[q] \in {None, txn[q]}
  PROVE  DeskInv'
<1>1. /\ UNCHANGED <<stock, acts, shares, cash, corp, landed, loose>>
      /\ \A q \in Procs : txn'[q] # None => txn'[q] = txn[q]
  OBVIOUS
<1>2. ASSUME NEW q, NEW u, NEW s PROVE Sound(q, u, s)' = Sound(q, u, s) /\ Written(u)' = Written(u)
  BY <1>1 DEF Sound, KeepsBand, KeepsHalt, LandsFresh, Calms, Reverts, Accounts, Balances, Raised,
              Remembers, Written
<1>3. ASSUME NEW q \in Procs, txn'[q] # None
      PROVE  /\ Fits(txn'[q].write) /\ Sound(q, txn[q], Written(txn[q]))'
             /\ q # "tick" /\ "vol" \in DOMAIN txn'[q].write => txn'[q].write.vol = 1
             /\ HeedsStop(txn'[q]) /\ HeedsBand(txn'[q])
  <2>1. PICK u, s : u = txn[q] /\ s = Written(u) /\ u = txn'[q] /\ u # None
    BY <1>1, <1>3
  <2>2. /\ Fits(u.write) /\ Sound(q, u, s) /\ (q # "tick" /\ "vol" \in DOMAIN u.write => u.write.vol = 1)
        /\ HeedsStop(u) /\ HeedsBand(u)
    BY <2>1 DEF DeskInv
  <2>3. Sound(q, u, s)' /\ s = Written(u)'
    BY <1>2, <2>1, <2>2
  <2> QED
    BY <2>1, <2>2, <2>3
<1>4. DeskType'
  BY <1>1 DEF DeskInv, DeskType
<1> QED
  BY <1>1, <1>3, <1>4 DEF DeskInv, Placed, InBand, Low, High, VolatilityEnds, Remembers

LEMMA Aborts ==
  ASSUME DeskInv, NEW p \in Procs, Abort(p)
  PROVE  DeskInv'
<1>1. /\ market' \in Markets
      /\ \A q \in Procs : txn'[q] \in {None, txn[q]}
      /\ txn' = [q \in Procs |-> txn'[q]]
  BY DEF DeskInv, DeskType, Abort
<1> QED
  BY <1>1, Leaves DEF Abort

LEMMA MarketsMove ==
  ASSUME DeskInv, market' \in Markets,
         UNCHANGED <<stock, acts, shares, cash, txn, corp, landed, loose>>
  PROVE  DeskInv'
<1>1. /\ \A q \in Procs : txn'[q] \in {None, txn[q]}
      /\ txn' = [q \in Procs |-> txn'[q]]
  BY DEF DeskInv, DeskType
<1> QED
  BY <1>1, Leaves

LEMMA DeskStep ==
  ASSUME DeskInv, [Next]_vars
  PROVE  DeskInv'
<1>1. CASE TickPrices
  BY <1>1, NewTick
<1>2. CASE TickStartsDay
  <2>1. PICK p \in Procs : p = "tick"
    BY DEF Procs
  <2>2. Begin(p, StartDay)
    BY <1>2, <2>1 DEF TickStartsDay
  <2> QED
    BY <2>2, NewDay
<1>3. CASE \E h \in Handlers : Request(h)
  BY <1>3, Requested
<1>4. CASE \E p \in Procs : Commit(p) \/ Abort(p)
  BY <1>4, Commits, Aborts
<1>5. CASE MarketMoves
  <2>1. market' \in Markets
    BY <1>5 DEF MarketMoves, Markets
  <2> QED
    BY <1>5, <2>1, MarketsMove DEF MarketMoves
<1>6. CASE \E n \in 1 .. MaxActions : Expire(n)
  BY <1>6, Expires
<1>7. CASE UNCHANGED vars
  <2>1. market' \in Markets
    BY <1>7 DEF vars, DeskInv, DeskType
  <2> QED
    BY <1>7, <2>1, MarketsMove DEF vars
<1> QED
  BY <1>1, <1>2, <1>3, <1>4, <1>5, <1>6, <1>7 DEF Next

THEOREM DeskInvariance == Spec => []DeskInv
BY DeskInitially, DeskStep, PTL DEF Spec

-----------------------------------------------------------------------------
\* What operators and traders may rely on.

\* The price is on the grid and, unless it was set without regard to the band,
\* inside it (pricing.apply_band; rulebook, rule 14).
THEOREM PricesInTheirBand == Spec => []BandHolds
<1>1. DeskInv => BandHolds
  <2> SUFFICES ASSUME DeskInv PROVE BandHolds
    OBVIOUS
  <2>1. stock.price \in Prices /\ (loose \/ Placed(stock))
    BY DEF DeskInv, DeskType, Stocks
  <2>2. stock.price \in Nat /\ stock.price % Unit = 0
    BY <2>1, PricesAreWhole
  <2> QED
    BY <2>1, <2>2 DEF BandHolds, Placed
<1> QED
  BY <1>1, DeskInvariance, PTL

\* Volatility is raised only as long as an action accounts for it
\* (market._apply_price_actions resets it with the action that ends).
THEOREM VolatilityIsAccountedFor == Spec => []VolatilityEnds
<1>1. DeskInv => VolatilityEnds
  BY DEF DeskInv
<1> QED
  BY <1>1, DeskInvariance, PTL

\* Requests, and ticks and days that found the stock stopped, leave a halt as
\* it is, and its price too but for the exceptions HaltHolds names, in whatever
\* order they commit (admin.halt_instrument and its kin).
THEOREM HaltsHold == Spec => HaltHolds
<1>1. ASSUME DeskInv, NEW p \in Procs, Commit(p), stock.status \in Stopped,
             txn[p].found \in Stopped \/ txn[p].by \notin {"tick", "pre_open"}
      PROVE  KeepsStop(p)
  <2>1. stock' = Written(txn[p]) /\ txn[p] # None
    BY <1>1 DEF Commit
  <2>2. HeedsStop(txn[p])
    BY <1>1, <2>1 DEF DeskInv
  <2>3. stock'.status \in Stopped \/ txn[p].by = "resume"
    BY <1>1, <2>1, <2>2 DEF HeedsStop, Written, Columns
  <2>4. stock'.price = stock.price \/ txn[p].by \in {"undo", "dividend", "split"}
    BY <1>1, <2>1, <2>2 DEF HeedsStop, Written, Columns, Corporate
  <2> QED
    BY <2>3, <2>4 DEF KeepsStop
<1>2. DeskInv /\ [Next]_vars =>
        [\A p \in Procs :
           /\ Commit(p) /\ stock.status \in Stopped
           /\ txn[p].found \in Stopped \/ txn[p].by \notin {"tick", "pre_open"}
           => KeepsStop(p)]_vars
  BY <1>1
<1> QED
  BY <1>2, DeskInvariance, PTL DEF Spec, HaltHolds

\* A target lands once: what lands retires with it, in one transaction
\* (market.py: "one-shot; keeps the row for undo").
THEOREM TargetsLandOnce == Spec => LandsOnce
<1>1. ASSUME DeskInv, NEW p \in Procs, Commit(p), NEW n \in DOMAIN landed, landed'[n] > landed[n]
      PROVE  landed[n] = 0 /\ (~acts[n].undone \/ txn["tick"].stale)
  <2>1. /\ n \in DOMAIN acts /\ landed[n] \in {0, 1}
        /\ landed[n] = 1 => acts[n].retired
    <3>1. landed \in Seq({0, 1}) /\ acts \in Seq(Actions) /\ Len(landed) = Len(acts)
      BY <1>1 DEF DeskInv, DeskType
    <3>2. DOMAIN landed = DOMAIN acts
      BY <3>1, LenProperties
    <3>3. landed[n] \in {0, 1}
      BY <3>1
    <3> QED
      BY <1>1, <3>2, <3>3 DEF DeskInv
  <2>2. txn[p] # None /\ LandsFresh(p, txn[p])
    BY <1>1 DEF Commit, DeskInv, Sound
  <2>3. landed'[n] = IF n \in txn[p].lands THEN 1 ELSE landed[n]
    BY <1>1, <2>1, Committed
  <2>4. n \in txn[p].lands
    BY <1>1, <2>1, <2>3
  <2>5. n \in txn[p].retire /\ p = "tick" /\ ~acts[n].retired
    BY <2>2, <2>4 DEF LandsFresh
  <2> QED
    BY <2>1, <2>2, <2>4, <2>5 DEF LandsFresh
<1>2. ASSUME DeskInv, [Next]_vars, ~(\E p \in Procs : Commit(p)) PROVE UNCHANGED landed
  BY <1>2 DEF Next, vars, TickPrices, TickStartsDay, Request, PriceMove, PriceJump, PriceVolatility,
              HaltInstrument, ResumeInstrument, SuspendInstrument, SetBand, UndoPriceAction,
              PayDividend, SplitStock, OperatorStartsDay, AddAction, Ask, Begin, Abort, MarketMoves, Expire
<1>3. ASSUME DeskInv, NEW n \in DOMAIN landed PROVE ~(landed[n] > landed[n])
  <2>1. landed[n] \in {0, 1}
    BY <1>3 DEF DeskInv, DeskType
  <2> QED
    BY <2>1
<1>4. DeskInv /\ [Next]_vars =>
        [\A n \in DOMAIN landed :
           landed'[n] > landed[n] => landed[n] = 0 /\ (~acts[n].undone \/ txn["tick"].stale)]_vars
  BY <1>1, <1>2, <1>3
<1> QED
  BY <1>4, DeskInvariance, PTL DEF Spec, LandsOnce

\* An undo gives back the worth of the moment the action was made, unless the
\* stock has paid or has split since ("The price reverts": runbook).
THEOREM UndosRevert == Spec => UndoReverts
<1>1. ASSUME DeskInv, NEW h \in Handlers, NEW n \in DOMAIN acts, Commit(h), ~txn[h].stale,
             n \in txn[h].undo, acts[n].kind # "VOLATILITY", acts[n].corp = corp
      PROVE  Worth' = acts[n].worth
  <2>1. PICK t, s : t = txn[h] /\ s = Written(t) /\ h \in Procs
    BY DEF Procs
  <2>2. t # None /\ Sound(h, t, s) /\ Remembers(acts[n])
    BY <1>1, <2>1 DEF Commit, DeskInv
  <2>3. s.price = acts[n].before /\ t.qty = Unchanged /\ t.paid = 0
    BY <1>1, <2>1, <2>2 DEF Sound, Reverts
  <2>4. stock' = s /\ shares' = shares /\ cash' = cash + 0
    BY <1>1, <2>1, <2>3 DEF Commit
  <2>5. cash \in Int /\ acts[n].worth = cash + shares * acts[n].before
    BY <1>1, <2>2 DEF DeskInv, DeskType, Remembers
  <2> QED
    BY <2>3, <2>4, <2>5 DEF Worth
<1>2. DeskInv /\ [Next]_vars =>
        [\A h \in Handlers, n \in DOMAIN acts :
           /\ Commit(h) /\ ~txn[h].stale /\ n \in txn[h].undo
           /\ acts[n].kind # "VOLATILITY" /\ acts[n].corp = corp
           => Worth' = acts[n].worth]_vars
  BY <1>1
<1> QED
  BY <1>2, DeskInvariance, PTL DEF Spec, UndoReverts

\* Between a whole number and a price rounded to the grid lies half a tick.
LEMMA HalfTick ==
  ASSUME NEW n \in Int, NEW d \in Nat, d > 0
  PROVE  /\ RoundToTick(n, d) \in Int
         /\ 2 * (d * RoundToTick(n, d)) <= 2 * n + d * Unit
         /\ 2 * n <= 2 * (d * RoundToTick(n, d)) + d * Unit
<1>1. PICK k \in Int : /\ RoundToTick(n, d) = k * Unit
                       /\ 2 * d * (k * Unit) <= 2 * n + d * Unit
                       /\ 2 * n - d * Unit < 2 * d * (k * Unit)
  BY Rounding
<1>2. PICK r \in Int : r = k * Unit
  BY Units
<1>3. 2 * d * r = 2 * (d * r) /\ d * r \in Int /\ d * Unit \in Int
  BY <1>2, Units
<1> QED
  BY <1>1, <1>2, <1>3

\* q shares, each of whose prices is half a tick off.
LEMMA HalfTicks ==
  ASSUME NEW q \in Nat, NEW x \in Int, NEW y \in Int, NEW u \in Nat, 2 * x <= 2 * y + u
  PROVE  2 * (q * x) <= 2 * (q * y) + q * u
<1>1. q * (2 * x) <= q * (2 * y + u)
  OBVIOUS
<1> QED
  BY <1>1

\* What a split makes of q shares worth p: the position is scaled by a / b
\* downwards, the price by b / a to the grid.
LEMMA SplitsAreNeutral ==
  ASSUME NEW q \in Nat, NEW p \in Nat, NEW a \in Nat, NEW b \in Nat, a > 0, b > 0,
         NEW m \in Nat, m = (q * a) \div b,
         NEW x \in Nat, x = RoundToTick(p * b, a)
  PROVE  LET moved == m * x - q * p
         IN  /\ 2 * moved <= Unit * m
             /\ (q * a) % b = 0 => -2 * moved <= Unit * m
             /\ -2 * moved <= Unit * m + 2 * x + Unit
<1>1. Unit \in Nat
  BY Units
<1>2. PICK r \in Nat : r < b /\ q * a = b * m + r /\ ((q * a) % b = 0 => r = 0)
  <2>1. q * a \in Nat
    OBVIOUS
  <2>2. PICK z \in Nat : z = q * a
    BY <2>1
  <2> QED
    BY <2>2, Remainder
<1>3. p * b \in Int /\ 2 * (a * x) <= 2 * (p * b) + a * Unit /\ 2 * (p * b) <= 2 * (a * x) + a * Unit
  BY HalfTick
<1>4. /\ m * (a * x) = a * (m * x) /\ m * (p * b) = p * (b * m) /\ m * (a * Unit) = a * (m * Unit)
      /\ r * (p * b) = b * (p * r) /\ p * (q * a) = a * (q * p)
      /\ p * (b * m + r) = p * (b * m) + p * r
  BY <1>1
<1>5. PICK mx \in Nat, mu \in Nat, qp \in Nat, pr \in Nat, pbm \in Nat :
        mx = m * x /\ mu = m * Unit /\ qp = q * p /\ pr = p * r /\ pbm = p * (b * m)
  BY <1>1
<1>6. a * qp = pbm + pr
  BY <1>2, <1>4, <1>5
<1>7. 2 * (a * mx) <= 2 * pbm + a * mu /\ 2 * pbm <= 2 * (a * mx) + a * mu
  <2>1. p * b \in Int /\ a * x \in Int /\ a * Unit \in Nat
    BY <1>1
  <2> PICK y \in Int, z \in Int, u \in Nat : y = p * b /\ z = a * x /\ u = a * Unit
    BY <2>1
  <2>2. 2 * (m * z) <= 2 * (m * y) + m * u
    BY <1>3, HalfTicks
  <2>3. 2 * (m * y) <= 2 * (m * z) + m * u
    BY <1>3, HalfTicks
  <2> QED
    BY <1>4, <1>5, <2>2, <2>3
\* The broken share is worth less than a whole one.
<1>8. 2 * pr <= 2 * (a * x) + a * Unit
  <2>1. p * r <= p * b
    BY <1>2
  <2> QED
    BY <1>1, <1>3, <1>5, <2>1
<1>9. 2 * (mx - qp) <= mu
  <2>1. 2 * (a * mx) <= 2 * (a * qp) + a * mu
    BY <1>6, <1>7
  <2>2. a * (2 * mx) <= a * (2 * qp + mu)
    BY <2>1
  <2>3. 2 * mx <= 2 * qp + mu
    BY <2>2
  <2> QED
    BY <2>3
<1>10. r = 0 => 2 * (qp - mx) <= mu
  <2> SUFFICES ASSUME r = 0 PROVE 2 * (qp - mx) <= mu
    OBVIOUS
  <2>1. 2 * (a * qp) <= 2 * (a * mx) + a * mu
    BY <1>5, <1>6, <1>7
  <2>2. a * (2 * qp) <= a * (2 * mx + mu)
    BY <2>1
  <2> QED
    BY <2>2
<1>11. 2 * (qp - mx) <= mu + 2 * x + Unit
  <2>1. 2 * (a * qp) <= 2 * (a * mx) + a * mu + 2 * (a * x) + a * Unit
    <3>1. 2 * (a * qp) = 2 * pbm + 2 * pr
      BY <1>6
    <3>2. a * x \in Nat /\ a * Unit \in Nat /\ a * mu \in Nat /\ a * mx \in Nat
      BY <1>1
    <3>3. 2 * pr <= 2 * (a * x) + a * Unit
      BY <1>8
    <3>4. 2 * pbm <= 2 * (a * mx) + a * mu
      BY <1>7
    <3> QED
      BY <3>1, <3>2, <3>3, <3>4
  <2>2. a * (2 * qp) <= a * (2 * mx + mu + 2 * x + Unit)
    BY <1>1, <2>1
  <2> QED
    BY <1>1, <2>2
<1> QED
  BY <1>1, <1>2, <1>5, <1>9, <1>10, <1>11

\* A dividend and a split leave the holder's account where it was, but for
\* half a tick a share and a share that a split has broken
\* (admin.pay_dividend, split_stock).
THEOREM CorporateActionsBalance == Spec => CorporateActionsAreNeutral
<1>1. ASSUME DeskInv, NEW h \in Handlers, Commit(h), ~txn[h].stale, txn[h].by \in {"dividend", "split"}
      PROVE  LET moved == Worth' - Worth
             IN  /\ 2 * moved <= Unit * shares'
                 /\ -2 * moved <= Unit * shares' + IF txn[h].broken THEN 2 * stock'.price + Unit ELSE 0
  <2>1. PICK t, s : t = txn[h] /\ s = Written(t) /\ h \in Procs
    BY DEF Procs
  <2>1a. Sound(h, t, s) /\ Fits(t.write)
    <3>1. \A p \in Procs : txn[p] # None => Fits(txn[p].write) /\ Sound(p, txn[p], Written(txn[p]))
      BY <1>1 DEF DeskInv
    <3>2. t # None
      BY <1>1, <2>1 DEF Commit
    <3> QED
      BY <2>1, <3>1, <3>2
  <2>2. /\ Sound(h, t, s) /\ t \in Plans /\ stock' = s /\ cash' = cash + t.paid
        /\ shares' = IF t.qty = Unchanged THEN shares ELSE t.qty
    <3>3. stock' = s /\ cash' = cash + t.paid /\ shares' = IF t.qty = Unchanged THEN shares ELSE t.qty
      BY <1>1, <2>1 DEF Commit
    <3> QED
      BY <2>1a, <3>3 DEF Sound
  <2>3. s.price \in Prices /\ stock.price \in Prices /\ shares \in Nat /\ cash \in Int
    <3>2. Fits(t.write) /\ stock \in Stocks /\ shares \in Nat /\ cash \in Int
      BY <1>1, <2>1a DEF DeskInv, DeskType
    <3>3. s \in Stocks
      BY <2>1, <3>2, WrittenFits
    <3> QED
      BY <3>2, <3>3 DEF Stocks
  <2>4. PICK x \in Nat, p \in Nat, q \in Nat, c \in Int : x = s.price /\ p = stock.price /\ q = shares /\ c = cash
    BY <2>3, PricesAreWhole
  <2>5. t.broken \in BOOLEAN /\ Unit \in Nat /\ Balances(t, s)
    BY <2>2, Units DEF Plans, Sound
  <2>6. CASE t.by = "dividend"
    <3>1. PICK d \in Nat : /\ d < p /\ t.qty = Unchanged /\ t.paid = d * q /\ x = RoundToTick(p - d, 1)
      BY <1>1, <2>1, <2>4, <2>5, <2>6 DEF Balances
    <3>2. PICK y \in Int : y = p - d
      OBVIOUS
    <3>3. 2 * x <= 2 * y + Unit /\ 2 * y <= 2 * x + Unit
      <4>1. 1 \in Nat /\ 1 > 0
        OBVIOUS
      <4>2. /\ 2 * (1 * RoundToTick(y, 1)) <= 2 * y + 1 * Unit
            /\ 2 * y <= 2 * (1 * RoundToTick(y, 1)) + 1 * Unit
        BY <4>1, HalfTick
      <4> QED
        BY <2>5, <3>1, <3>2, <4>2
    <3>4. 2 * (q * x) <= 2 * (q * y) + q * Unit
      BY <2>5, <3>3, HalfTicks
    <3>5. 2 * (q * y) <= 2 * (q * x) + q * Unit
      BY <2>5, <3>3, HalfTicks
    <3>6. shares' = q /\ cash' = c + d * q /\ stock'.price = x
      BY <2>2, <2>4, <3>1
    <3>7. Worth' = c + d * q + q * x /\ Worth = c + q * p
      BY <2>4, <3>6 DEF Worth
    <3>8. q * y = q * p - d * q
      BY <3>2
    <3>9. Worth' - Worth = q * x - q * y
      <4>1. d * q \in Int /\ q * x \in Int /\ q * p \in Int
        OBVIOUS
      <4> QED
        BY <3>7, <3>8, <4>1
    <3>10. /\ 2 * (Worth' - Worth) <= Unit * q /\ -2 * (Worth' - Worth) <= Unit * q
      <4>1. PICK f \in Int, g \in Int, v \in Int : f = q * x /\ g = q * y /\ v = q * Unit
        BY <2>5
      <4>2. Worth' - Worth = f - g /\ Unit * q = v
        BY <2>5, <3>9, <4>1
      <4> QED
        BY <3>4, <3>5, <4>1, <4>2
    <3>11. Worth' - Worth \in Int /\ Unit * q \in Nat
      BY <2>5, <3>9
    <3> QED
      BY <2>1, <2>5, <3>6, <3>10, <3>11
  <2>7. CASE t.by = "split"
    <3>1. PICK a \in Nat, b \in Nat :
            /\ a > 0 /\ b > 0
            /\ t.paid = 0 /\ t.qty = (q * a) \div b /\ t.broken = ((q * a) % b # 0)
            /\ x = RoundToTick(p * b, a)
      BY <1>1, <2>1, <2>4, <2>5, <2>7 DEF Balances
    <3>2. PICK m \in Nat : m = (q * a) \div b
      <4>1. PICK z \in Nat : z = q * a
        OBVIOUS
      <4>2. PICK l \in Int : l = z \div b /\ z < b * l + b
        BY <3>1, <4>1, Division
      <4>3. b * l + b = b * (l + 1) /\ 0 < b * (l + 1)
        BY <3>1, <4>2
      <4>4. l \in Nat
        BY <3>1, <4>2, <4>3
      <4> QED
        BY <4>1, <4>2, <4>4
    <3>3. shares' = m /\ cash' = c + 0 /\ stock'.price = x
      BY <2>2, <2>4, <3>1, <3>2 DEF Unchanged
    <3>4. Worth' = c + m * x /\ Worth = c + q * p
      BY <2>4, <3>3 DEF Worth
    <3>5. PICK moved \in Int : moved = m * x - q * p
      OBVIOUS
    <3>6. Worth' - Worth = moved
      BY <3>4, <3>5
    <3>7. /\ 2 * moved <= Unit * m
          /\ (q * a) % b = 0 => -2 * moved <= Unit * m
          /\ -2 * moved <= Unit * m + 2 * x + Unit
      BY <3>1, <3>2, <3>5, SplitsAreNeutral
    <3>8. -2 * moved <= Unit * m + IF t.broken THEN 2 * x + Unit ELSE 0
      <4>1. CASE t.broken
        <5>1. (IF t.broken THEN 2 * x + Unit ELSE 0) = 2 * x + Unit
          BY <4>1
        <5>2. Unit * m \in Nat
          BY <2>5
        <5>3. -2 * moved <= Unit * m + (2 * x + Unit)
          BY <2>5, <3>7, <5>2
        <5> QED
          BY <5>1, <5>3
      <4>2. CASE ~t.broken
        <5>1. (q * a) % b = 0
          BY <3>1, <4>2
        <5>2. -2 * moved <= Unit * m /\ Unit * m \in Nat
          BY <2>5, <3>7, <5>1
        <5> QED
          BY <4>2, <5>2
      <4> QED
        BY <2>5, <4>1, <4>2
    <3> QED
      BY <2>1, <3>3, <3>6, <3>7, <3>8
  <2> QED
    BY <1>1, <2>1, <2>6, <2>7
<1>2. DeskInv /\ [Next]_vars =>
        [\A h \in Handlers :
           /\ Commit(h) /\ ~txn[h].stale /\ txn[h].by \in {"dividend", "split"}
           => LET moved == Worth' - Worth
              IN  /\ 2 * moved <= Unit * shares'
                  /\ -2 * moved <= Unit * shares' + IF txn[h].broken THEN 2 * stock'.price + Unit ELSE 0]_vars
  BY <1>1
<1> QED
  BY <1>2, DeskInvariance, PTL DEF Spec, CorporateActionsAreNeutral

=============================================================================
