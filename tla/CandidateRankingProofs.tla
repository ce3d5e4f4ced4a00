------------------------ MODULE CandidateRankingProofs ------------------------
(***************************************************************************)
(* The ranking of CandidateSelection: no candidate that is plainly better  *)
(* than another is passed over for it, whatever the sessions, exchanges,   *)
(* payloads, limits and usage rows.                                        *)
(***************************************************************************)
EXTENDS CandidateSelectionProofs

-----------------------------------------------------------------------------
(* Arithmetic.                                                             *)

LEMMA ProductsOrdered ==
    ASSUME NEW a \in Nat, NEW b \in Nat, NEW c \in Nat, a <= b
    PROVE  /\ a * c \in Nat /\ b * c \in Nat /\ a * c <= b * c
           /\ a < b /\ c # 0 => a * c < b * c
<1>1. b = a + (b - a) /\ b - a \in Nat
  OBVIOUS
<1>2. b * c = a * c + (b - a) * c
  BY <1>1
<1>3. a * c \in Nat /\ (b - a) * c \in Nat
  BY <1>1
<1>4. a < b /\ c # 0 => (b - a) * c > 0
  BY <1>1
<1> QED  BY <1>2, <1>3, <1>4

\* w * l * l * c grows with l.
LEMMA QuadraticsOrdered ==
    ASSUME NEW w \in Nat, NEW c \in Nat, NEW a \in Nat, NEW b \in Nat, a <= b
    PROVE  /\ w * a * a * c \in Nat /\ w * b * b * c \in Nat
           /\ w * a * a * c <= w * b * b * c
           /\ a < b /\ w # 0 /\ c # 0 => w * a * a * c < w * b * b * c
<1>1. /\ a * w \in Nat /\ b * w \in Nat /\ a * w <= b * w
      /\ w # 0 /\ a < b => a * w < b * w
  BY ProductsOrdered
<1>2. w * a = a * w /\ w * b = b * w
  OBVIOUS
<1>3. (w * a) * a \in Nat /\ (w * b) * b \in Nat
  BY <1>1, <1>2
<1>4. (w * a) * a <= (w * b) * a
  BY <1>1, <1>2, ProductsOrdered
<1>5. /\ a * (w * b) <= b * (w * b)
      /\ a < b /\ w * b # 0 => a * (w * b) < b * (w * b)
  BY <1>1, <1>2, ProductsOrdered
<1>6. a * (w * b) = (w * b) * a /\ b * (w * b) = (w * b) * b /\ (w * b) * a \in Nat
  BY <1>1, <1>2
<1>7. a < b /\ w # 0 => w * b # 0
  BY <1>1, <1>2
<1> DEFINE p == (w * a) * a
           q == (w * b) * b
<1>8. p \in Nat /\ q \in Nat /\ p <= q /\ (a < b /\ w # 0 => p < q)
  BY <1>3, <1>4, <1>5, <1>6, <1>7
<1> HIDE DEF p, q
<1>9. p * c \in Nat /\ q * c \in Nat /\ p * c <= q * c /\ (p < q /\ c # 0 => p * c < q * c)
  BY <1>8, ProductsOrdered
<1> QED  BY <1>8, <1>9 DEF p, q

\* What can be divided out of a positive multiple
LEMMA QuotientPositive ==
    ASSUME NEW a \in Nat, NEW b \in Nat \ {0}
    PROVE  b <= a => a \div b \in Nat \ {0}
OBVIOUS

\* The denominators of the scores are positive.
LEMMA ScalePositive ==
    /\ Scale \in Nat \ {0} /\ Scale \div 10 \in Nat \ {0}
    /\ Scale \div (Unit * Unit) \in Nat \ {0}
    /\ Scale \div ((Unit - SoftLimit) * (Unit - SoftLimit)) \in Nat \ {0}
    /\ missingExchangePenalty \in Nat \ {0}
<1> DEFINE u == Unit * Unit
           d == (Unit - SoftLimit) * (Unit - SoftLimit)
<1>1. u \in Nat \ {0} /\ d \in Nat \ {0}
  <2>1. Unit \in Nat \ {0} /\ Unit - SoftLimit \in Nat \ {0}
    BY Parameters
  <2> QED  BY <2>1, Products
<1>2. Scale = 10 * u * d
  BY DEF Scale
<1> HIDE DEF u, d
<1>3. 10 * u * d \in Nat /\ 10 <= 10 * u * d /\ u <= 10 * u * d /\ d <= 10 * u * d
  <2>1. u * d \in Nat /\ 1 <= u * d
    BY <1>1
  <2>2. u <= u * d /\ d <= u * d
    <3>1. 1 * u <= d * u /\ 1 * d <= u * d
      BY <1>1, ProductsOrdered
    <3> QED  BY <1>1, <3>1
  <2>3. 10 * u * d = 10 * (u * d)
    BY <1>1
  <2> QED  BY <1>1, <2>1, <2>2, <2>3
<1>4. /\ Scale \in Nat \ {0} /\ Scale \div 10 \in Nat \ {0}
      /\ Scale \div u \in Nat \ {0} /\ Scale \div d \in Nat \ {0}
  BY <1>1, <1>2, <1>3, QuotientPositive
<1>5. missingExchangePenalty \in Nat \ {0}
  BY <1>4 DEF missingExchangePenalty, Ms
<1> QED  BY <1>4, <1>5 DEF u, d

\* Running totals: b starts no less than g ahead of a at k, and never gains less.
LEMMA TotalsOrdered ==
    ASSUME NEW a \in [Nat -> Int], NEW b \in [Nat -> Int], NEW g \in Int, NEW k \in Nat,
           a[k] + g <= b[k],
           \A n \in Nat : a[n + 1] - a[n] <= b[n + 1] - b[n]
    PROVE  \A n \in Nat : k <= n => a[n] + g <= b[n]
<1> DEFINE S == {n \in Nat : k <= n /\ ~(a[n] + g <= b[n])}
<1>1. S \in SUBSET Nat
  OBVIOUS
<1>2. ASSUME S # {}  PROVE FALSE
  <2>1. PICK m \in S : \A v \in S : m <= v
    <3> HIDE DEF S
    <3> QED  BY <1>1, <1>2, LowestExists
  <2>2. m \in Nat /\ k <= m /\ ~(a[m] + g <= b[m])
    OBVIOUS
  <2>3. m # k
    BY <2>2
  <2>4. m - 1 \in Nat /\ k <= m - 1 /\ (m - 1) + 1 = m
    BY <2>2, <2>3
  <2>5. m - 1 \notin S
    <3>1. ~(m <= m - 1)  BY <2>2
    <3> HIDE DEF S
    <3> QED  BY <2>1, <3>1
  <2>6. a[m - 1] + g <= b[m - 1]
    BY <2>4, <2>5
  <2>7. a[m] - a[m - 1] <= b[m] - b[m - 1]
    BY <2>4
  <2>8. a[m] \in Int /\ b[m] \in Int /\ a[m - 1] \in Int /\ b[m - 1] \in Int
    BY <2>2, <2>4
  <2> QED  BY <2>2, <2>6, <2>7, <2>8
<1> QED  BY <1>2

-----------------------------------------------------------------------------
(* Scores and penalties grow with the figures they are made of.            *)

LEMMA SoftPenaltyOrdered ==
    ASSUME NEW u \in Load, NEW v \in Load, Excess(u) <= Excess(v)
    PROVE  /\ SoftPenalty(u) \in Int /\ SoftPenalty(v) \in Int
           /\ SoftPenalty(u) <= SoftPenalty(v)
           /\ Excess(u) < Excess(v) => SoftPenalty(u) < SoftPenalty(v)
<1> DEFINE c == Scale \div ((Unit - SoftLimit) * (Unit - SoftLimit))
           a == Excess(u)
           b == Excess(v)
<1>1. c \in Nat \ {0} /\ SoftPenaltyMs \in Nat \ {0} /\ SoftLimit \in Nat
  BY ScalePositive, LimitAssumption
<1>2. u \in Nat /\ v \in Nat
  BY Parameters DEF Load
<1>3. a \in Nat /\ b \in Nat
  BY <1>1, <1>2 DEF Excess
<1>4. ASSUME NEW w \in Nat
      PROVE  SoftPenalty(w) = SoftPenaltyMs * Excess(w) * Excess(w) * c
  <2>1. CASE w <= SoftLimit
    <3>1. Excess(w) = 0 /\ SoftPenalty(w) = 0
      BY <1>1, <2>1 DEF Excess, SoftPenalty
    <3> HIDE DEF c
    <3>2. SoftPenaltyMs * 0 * 0 * c = 0
      BY <1>1
    <3> QED  BY <3>1, <3>2
  <2>2. CASE ~(w <= SoftLimit)
    <3>1. Excess(w) = w - SoftLimit
      BY <1>1, <2>2 DEF Excess
    <3> QED  BY <2>2, <3>1 DEF SoftPenalty
  <2> QED  BY <2>1, <2>2
<1> HIDE DEF a, b, c
<1>5. /\ SoftPenaltyMs * a * a * c \in Nat /\ SoftPenaltyMs * b * b * c \in Nat
      /\ SoftPenaltyMs * a * a * c <= SoftPenaltyMs * b * b * c
      /\ a < b => SoftPenaltyMs * a * a * c < SoftPenaltyMs * b * b * c
  <2>1. a <= b  BY DEF a, b
  <2> QED  BY <1>1, <1>3, <2>1, QuadraticsOrdered
<1>6. SoftPenalty(u) = SoftPenaltyMs * a * a * c /\ SoftPenalty(v) = SoftPenaltyMs * b * b * c
  BY <1>2, <1>4 DEF a, b
<1> QED  BY <1>5, <1>6 DEF a, b

LEMMA LoadsOrdered ==
    ASSUME NEW w \in Nat \ {0}, NEW a \in Load, NEW b \in Load, a <= b
    PROVE  /\ Quadratic(w, a) \in Nat /\ Quadratic(w, b) \in Nat
           /\ Quadratic(w, a) <= Quadratic(w, b)
           /\ a < b => Quadratic(w, a) < Quadratic(w, b)
<1> DEFINE c == Scale \div (Unit * Unit)
<1>1. c \in Nat \ {0} /\ a \in Nat /\ b \in Nat
  BY ScalePositive, Parameters DEF Load
<1> HIDE DEF c
<1>2. /\ w * a * a * c \in Nat /\ w * b * b * c \in Nat
      /\ w * a * a * c <= w * b * b * c
      /\ a < b => w * a * a * c < w * b * b * c
  BY <1>1, QuadraticsOrdered
<1> QED  BY <1>2 DEF Quadratic, c

\* The latency part of a trade's score, from its figures p, m and the spread
Composed(p, spread, m) == p + spread * (Scale \div 10) + m * missingExchangePenalty

LEMMA EstimateComposed ==
    ASSUME NEW snap \in Snapshot, cycle.required \in SUBSET Exchanges, taskType = "trade"
    PROVE  \E p \in Int, spread \in Nat, m \in Nat :
              /\ Figures(snap) = <<p, spread * Scale, m, snap.load>>
              /\ EstimateLatency(snap, cycle.required) = Composed(p, spread, m)
<1> DEFINE required == cycle.required
           X == required \cap Measured(snap.latencies)
<1>1. /\ Scale \in Nat /\ Scale \div 10 \in Nat /\ missingExchangePenalty \in Nat
      /\ snap.latencies \in LatencyMap
  BY ScalePositive DEF Snapshot
<1>2. CASE X = {}
  <2>1. EstimateLatency(snap, required) \in Int
    BY EstimateType
  <2>2. Figures(snap) = <<EstimateLatency(snap, required), 0, 0, snap.load>>
    BY <1>2 DEF Figures
  <2> DEFINE e == EstimateLatency(snap, required)
  <2> HIDE DEF e
  <2>3. 0 * Scale = 0 /\ Composed(e, 0, 0) = e
    BY <1>1, <2>1 DEF Composed, e
  <2> QED  BY <2>1, <2>2, <2>3 DEF e
<1>3. CASE X # {}
  <2> DEFINE p == Percentile95(snap.latencies, X)
             spread == Slowest(snap.latencies, X) - Fastest(snap.latencies, X)
             m == Cardinality(required \ X)
  <2>1. X \in SUBSET Measured(snap.latencies) /\ required \ X \in SUBSET Exchanges
    OBVIOUS
  <2>2. Figures(snap) = <<Ms(p), Ms(spread), m, snap.load>>
    BY <1>3 DEF Figures
  <2>3. EstimateLatency(snap, required) = RobustProfile(snap.latencies, X, m)
    BY <1>3 DEF EstimateLatency
  <2> HIDE DEF X
  <2>4. p \in Nat /\ spread \in Nat
    <3>1. /\ Slowest(snap.latencies, X) \in Nat /\ Fastest(snap.latencies, X) \in Nat
          /\ Percentile95(snap.latencies, X) \in Nat
          /\ Fastest(snap.latencies, X) <= Slowest(snap.latencies, X)
      BY <1>1, <1>3, <2>1, FiguresExist
    <3> QED  BY <3>1
  <2>5. m \in Nat
    BY <2>1, ExchangesFinite
  <2>6. RobustProfile(snap.latencies, X, m) = Composed(Ms(p), spread, m)
    BY DEF RobustProfile, Composed
  <2> HIDE DEF p, spread, m
  <2>7. Ms(p) \in Int /\ Ms(spread) = spread * Scale
    BY <1>1, <2>4 DEF Ms
  <2> QED  BY <2>2, <2>3, <2>4, <2>5, <2>6, <2>7
<1> QED  BY <1>2, <1>3

LEMMA ComposedOrdered ==
    ASSUME NEW p \in Int, NEW q \in Int, NEW a \in Nat, NEW b \in Nat,
           NEW m \in Nat, NEW n \in Nat, p <= q, a * Scale <= b * Scale, m <= n
    PROVE  /\ Composed(p, a, m) \in Int /\ Composed(q, b, n) \in Int
           /\ Composed(p, a, m) <= Composed(q, b, n)
           /\ p < q \/ a * Scale < b * Scale \/ m < n
                => Composed(p, a, m) < Composed(q, b, n)
<1> DEFINE t == Scale \div 10
           e == missingExchangePenalty
<1>1. Scale \in Nat \ {0} /\ t \in Nat \ {0} /\ e \in Nat \ {0}
  BY ScalePositive
<1>2. a <= b
  <2> SUFFICES ASSUME b < a PROVE FALSE
    OBVIOUS
  <2>1. b * Scale < a * Scale /\ a * Scale \in Nat /\ b * Scale \in Nat
    BY <1>1, ProductsOrdered
  <2> QED  BY <2>1
<1>3. a * Scale < b * Scale => a < b
  BY <1>1, <1>2
<1> HIDE DEF t, e
<1>4. a * t \in Nat /\ b * t \in Nat /\ a * t <= b * t /\ (a < b => a * t < b * t)
  BY <1>1, <1>2, ProductsOrdered
<1>5. m * e \in Nat /\ n * e \in Nat /\ m * e <= n * e /\ (m < n => m * e < n * e)
  BY <1>1, ProductsOrdered
<1>6. Composed(p, a, m) = p + a * t + m * e /\ Composed(q, b, n) = q + b * t + n * e
  BY DEF Composed, t, e
<1> HIDE DEF Composed
<1> QED  BY <1>3, <1>4, <1>5, <1>6

\* No figure is worse: the score is no higher, and lower if one is better.
LEMMA ScoresOrdered ==
    ASSUME NEW a \in Snapshot, NEW b \in Snapshot, taskType \in {"trade", "monitor"},
           cycle.required \in SUBSET Exchanges,
           \A i \in 1 .. 4 : Figures(a)[i] <= Figures(b)[i]
    PROVE  LET required == cycle.required IN
           /\ Score(a, required) <= Score(b, required)
           /\ (\E i \in 1 .. 4 : Figures(a)[i] < Figures(b)[i])
                 => Score(a, required) < Score(b, required)
<1> DEFINE required == cycle.required
<1>1. ASSUME NEW snap \in Snapshot
      PROVE  /\ snap.load \in Load /\ clampUnit(snap.load) = snap.load
             /\ snap.tradeLoad \in Load /\ clampUnit(snap.tradeLoad) = snap.tradeLoad
             /\ TradeLoad(snap.load, snap.tradeLoad) \in Load
             /\ normalizeRole(snap.role) = snap.role /\ monitorRolePenalty(snap.role) \in Nat
  <2>1. snap.load \in Load /\ snap.tradeLoad \in Load
    BY DEF Snapshot
  <2>2. snap.load \in Int /\ snap.tradeLoad \in Int
    BY <2>1, Parameters DEF Load
  <2>3. clampUnit(snap.load) = snap.load /\ clampUnit(snap.tradeLoad) = snap.tradeLoad
    BY <2>1, <2>2, ClampType DEF clampUnit
  <2>4. normalizeRole(snap.role) = snap.role /\ monitorRolePenalty(snap.role) \in Nat
    BY DEF Snapshot, normalizeRole, normalizeTraderRole, monitorRolePenalty
  <2> QED  BY <2>1, <2>3, <2>4 DEF TradeLoad
<1>2. CASE taskType = "monitor"
  <2> DEFINE T(s) == TradeLoad(s.load, s.tradeLoad)
             R(s) == monitorRolePenalty(s.role)
  <2>1. \A s \in Snapshot :
           /\ Figures(s) = <<T(s), s.load, R(s), 0>>
           /\ Score(s, required) = Quadratic(1000, T(s)) + Quadratic(200, s.load) + Ms(R(s))
    BY <1>1, <1>2 DEF Figures, Score, scoreMonitor
  <2>2. /\ T(a) \in Load /\ T(b) \in Load /\ a.load \in Load /\ b.load \in Load
        /\ R(a) \in Nat /\ R(b) \in Nat
    BY <1>1
  <2> HIDE DEF T, R
  <2>3. /\ T(a) <= T(b) /\ a.load <= b.load /\ R(a) <= R(b)
        /\ (\E i \in 1 .. 4 : Figures(a)[i] < Figures(b)[i])
              => T(a) < T(b) \/ a.load < b.load \/ R(a) < R(b)
    <3>1. Figures(a) = <<T(a), a.load, R(a), 0>> /\ Figures(b) = <<T(b), b.load, R(b), 0>>
      BY <2>1
    <3>2. 1 \in 1 .. 4 /\ 2 \in 1 .. 4 /\ 3 \in 1 .. 4
      OBVIOUS
    <3>3. \A i \in 1 .. 4 : i = 1 \/ i = 2 \/ i = 3 \/ i = 4
      OBVIOUS
    <3> QED  BY <3>1, <3>2, <3>3
  <2>4. /\ Quadratic(1000, T(a)) \in Nat /\ Quadratic(1000, T(b)) \in Nat
        /\ Quadratic(1000, T(a)) <= Quadratic(1000, T(b))
        /\ T(a) < T(b) => Quadratic(1000, T(a)) < Quadratic(1000, T(b))
    BY <2>2, <2>3, LoadsOrdered
  <2>5. /\ Quadratic(200, a.load) \in Nat /\ Quadratic(200, b.load) \in Nat
        /\ Quadratic(200, a.load) <= Quadratic(200, b.load)
        /\ a.load < b.load => Quadratic(200, a.load) < Quadratic(200, b.load)
    BY <2>2, <2>3, LoadsOrdered
  <2>6. /\ Ms(R(a)) \in Nat /\ Ms(R(b)) \in Nat /\ Ms(R(a)) <= Ms(R(b))
        /\ R(a) < R(b) => Ms(R(a)) < Ms(R(b))
    BY <2>2, <2>3, ScalePositive, ProductsOrdered DEF Ms
  <2>7. /\ Score(a, required) = Quadratic(1000, T(a)) + Quadratic(200, a.load) + Ms(R(a))
        /\ Score(b, required) = Quadratic(1000, T(b)) + Quadratic(200, b.load) + Ms(R(b))
    BY <2>1
  <2> QED  BY <2>3, <2>4, <2>5, <2>6, <2>7
<1>3. CASE taskType = "trade"
  <2>1. PICK p \in Int, x \in Nat, m \in Nat :
           /\ Figures(a) = <<p, x * Scale, m, a.load>>
           /\ EstimateLatency(a, required) = Composed(p, x, m)
    BY <1>3, EstimateComposed
  <2>2. PICK q \in Int, y \in Nat, n \in Nat :
           /\ Figures(b) = <<q, y * Scale, n, b.load>>
           /\ EstimateLatency(b, required) = Composed(q, y, n)
    BY <1>3, EstimateComposed
  <2>3. /\ p <= q /\ x * Scale <= y * Scale /\ m <= n /\ a.load <= b.load
        /\ (\E i \in 1 .. 4 : Figures(a)[i] < Figures(b)[i])
              => p < q \/ x * Scale < y * Scale \/ m < n \/ a.load < b.load
    <3>1. 1 \in 1 .. 4 /\ 2 \in 1 .. 4 /\ 3 \in 1 .. 4 /\ 4 \in 1 .. 4
      OBVIOUS
    <3>2. \A i \in 1 .. 4 : i = 1 \/ i = 2 \/ i = 3 \/ i = 4
      OBVIOUS
    <3> QED  BY <2>1, <2>2, <3>1, <3>2
  <2>4. /\ Composed(p, x, m) \in Int /\ Composed(q, y, n) \in Int
        /\ Composed(p, x, m) <= Composed(q, y, n)
        /\ p < q \/ x * Scale < y * Scale \/ m < n
              => Composed(p, x, m) < Composed(q, y, n)
    BY <2>3, ComposedOrdered
  <2>5. /\ Quadratic(1000, a.load) \in Nat /\ Quadratic(1000, b.load) \in Nat
        /\ Quadratic(1000, a.load) <= Quadratic(1000, b.load)
        /\ a.load < b.load => Quadratic(1000, a.load) < Quadratic(1000, b.load)
    BY <1>1, <2>3, LoadsOrdered
  <2>6. /\ Score(a, required) = Composed(p, x, m) + Quadratic(1000, a.load)
        /\ Score(b, required) = Composed(q, y, n) + Quadratic(1000, b.load)
    BY <1>1, <1>3, <2>1, <2>2 DEF Score, scoreTrade
  <2> QED  BY <2>3, <2>4, <2>5, <2>6
<1> QED  BY <1>2, <1>3

-----------------------------------------------------------------------------
(* How a candidate's score has come about.                                 *)

\* A number beyond all exchanges
Beyond == CHOOSE m \in Nat : \A x \in Exchanges : x < m

LEMMA BeyondAll == Beyond \in Nat /\ \A x \in Exchanges : x < Beyond
<1>1. \E m \in Nat : \A x \in Exchanges : x < m
  <2>1. CASE Exchanges = {}
    <3>1. 0 \in Nat  OBVIOUS
    <3> QED  BY <2>1, <3>1
  <2>2. CASE Exchanges # {}
    <3> DEFINE id == [x \in Exchanges |-> x]
    <3>1. id \in LatencyMap
      BY SelectionAssumption DEF LatencyMap
    <3>2. \A x \in Exchanges : id[x] = x /\ x \in Nat
      BY SelectionAssumption
    <3> HIDE DEF id
    <3>3. PICK top \in Exchanges : \A y \in Exchanges : id[y] <= id[top]
      BY <2>2, <3>1, SlowestExists
    <3>4. top + 1 \in Nat /\ \A x \in Exchanges : x < top + 1
      BY <3>2, <3>3
    <3> QED  BY <3>4
  <2> QED  BY <2>1, <2>2
<1> QED  BY <1>1 DEF Beyond

\* total[n] is what candidate c has collected on the exchanges below n: the score of
\* its snapshot, and for each exchange it has behind it the penalty of a utilization
\* that was in force during the cycle.
Tally(c, done, total) ==
    /\ total[0] = Score(cycle.snaps[c.session], cycle.required)
    /\ total[Beyond] = c.score
    /\ \A n \in Nat \ done : total[n + 1] = total[n]
    /\ \A n \in done : \E u \in Load :
          u \in Seen(c.session, n) /\ total[n + 1] = total[n] + SoftPenalty(u)

Tallied(c, done) == \E total \in [Nat -> Int] : Tally(c, done, total)

\* Of two candidates that have everything behind them the plainly better one has the
\* lower score, however the exchanges add up.
LEMMA BetterScoresLower ==
    ASSUME TypeOK, NEW c \in Candidate, NEW d \in Candidate,
           Tallied(c, cycle.required), Tallied(d, cycle.required),
           PlainlyBetter(c.session, d.session)
    PROVE  c.score < d.score
<1> DEFINE required == cycle.required
<1>1. PICK a \in [Nat -> Int] : Tally(c, required, a)
  BY DEF Tallied
<1>2. PICK b \in [Nat -> Int] : Tally(d, required, b)
  BY DEF Tallied
<1>3. /\ required \in SUBSET Exchanges /\ required \in SUBSET Nat
      /\ cycle.snaps \in [Sessions -> Snapshot] /\ taskType \in {"trade", "monitor"}
      /\ c.session \in Sessions /\ d.session \in Sessions
  BY CycleIsTyped, TypeParts, SelectionAssumption DEF CycleType, Candidate, Around
<1>4. PICK r \in Snapshot, s \in Snapshot : r = cycle.snaps[c.session] /\ s = cycle.snaps[d.session]
  BY <1>3
<1>5. /\ \A i \in 1 .. 4 : Figures(r)[i] <= Figures(s)[i]
      /\ \A x \in required : NotFuller(c.session, d.session, x)
      /\ \/ \E i \in 1 .. 4 : Figures(r)[i] < Figures(s)[i]
         \/ \E x \in required : LessFull(c.session, d.session, x)
  BY <1>4 DEF PlainlyBetter
<1>6. /\ a[0] <= b[0]
      /\ (\E i \in 1 .. 4 : Figures(r)[i] < Figures(s)[i]) => a[0] < b[0]
  <2>1. a[0] = Score(r, required) /\ b[0] = Score(s, required)
    BY <1>1, <1>2, <1>4 DEF Tally
  <2>2. /\ Score(r, required) <= Score(s, required)
        /\ (\E i \in 1 .. 4 : Figures(r)[i] < Figures(s)[i])
              => Score(r, required) < Score(s, required)
    BY <1>3, <1>4, <1>5, ScoresOrdered
  <2> QED  BY <2>1, <2>2
<1>7. ASSUME NEW n \in required
      PROVE  /\ a[n + 1] - a[n] <= b[n + 1] - b[n]
             /\ LessFull(c.session, d.session, n) => a[n + 1] - a[n] < b[n + 1] - b[n]
  <2>1. PICK u \in Load : u \in Seen(c.session, n) /\ a[n + 1] = a[n] + SoftPenalty(u)
    BY <1>1 DEF Tally
  <2>2. PICK v \in Load : v \in Seen(d.session, n) /\ b[n + 1] = b[n] + SoftPenalty(v)
    BY <1>2 DEF Tally
  <2>3. /\ Excess(u) <= Excess(v)
        /\ LessFull(c.session, d.session, n) => Excess(u) < Excess(v)
    BY <1>5, <2>1, <2>2 DEF NotFuller, LessFull
  <2>4. /\ SoftPenalty(u) \in Int /\ SoftPenalty(v) \in Int
        /\ SoftPenalty(u) <= SoftPenalty(v)
        /\ Excess(u) < Excess(v) => SoftPenalty(u) < SoftPenalty(v)
    BY <2>3, SoftPenaltyOrdered
  <2>5. a[n] \in Int /\ b[n] \in Int
    BY <1>3
  <2> QED  BY <2>1, <2>2, <2>3, <2>4, <2>5
<1>8. \A n \in Nat : a[n + 1] - a[n] <= b[n + 1] - b[n]
  <2> TAKE n \in Nat
  <2>1. CASE n \notin required
    <3>1. a[n + 1] = a[n] /\ b[n + 1] = b[n] /\ a[n] \in Int /\ b[n] \in Int
      BY <1>1, <1>2, <2>1 DEF Tally
    <3> QED  BY <3>1
  <2> QED  BY <1>7, <2>1
<1>9. Beyond \in Nat /\ a[Beyond] = c.score /\ b[Beyond] = d.score
  BY <1>1, <1>2, BeyondAll DEF Tally
<1>10. a[Beyond] \in Int /\ b[Beyond] \in Int /\ 0 \in Nat /\ 0 \in Int /\ 1 \in Int
  BY <1>9
<1>11. CASE \E i \in 1 .. 4 : Figures(r)[i] < Figures(s)[i]
  <2>1. a[0] + 1 <= b[0]
    BY <1>6, <1>10, <1>11
  <2>2. \A n \in Nat : 0 <= n => a[n] + 1 <= b[n]
    BY <1>8, <1>10, <2>1, TotalsOrdered
  <2>3. a[Beyond] + 1 <= b[Beyond]
    BY <1>9, <2>2
  <2> QED  BY <1>9, <1>10, <2>3
<1>12. CASE \E x \in required : LessFull(c.session, d.session, x)
  <2>1. PICK x \in required : LessFull(c.session, d.session, x)
    BY <1>12
  <2>2. x \in Nat /\ x + 1 \in Nat /\ x + 1 <= Beyond
    BY <1>3, <1>9, BeyondAll
  <2>3. \A n \in Nat : 0 <= n => a[n] + 0 <= b[n]
    <3>1. a[0] + 0 <= b[0]
      BY <1>6, <1>10
    <3> QED  BY <1>8, <1>10, <3>1, TotalsOrdered
  <2>4. a[x + 1] + 1 <= b[x + 1]
    <3>1. a[x] \in Int /\ b[x] \in Int /\ a[x + 1] \in Int /\ b[x + 1] \in Int
      BY <2>2
    <3>2. a[x] <= b[x] /\ a[x + 1] - a[x] < b[x + 1] - b[x]
      BY <1>7, <2>1, <2>2, <2>3, <3>1
    <3> QED  BY <3>1, <3>2
  <2>5. \A n \in Nat : x + 1 <= n => a[n] + 1 <= b[n]
    BY <1>8, <1>10, <2>2, <2>4, TotalsOrdered
  <2>6. a[Beyond] + 1 <= b[Beyond]
    BY <1>9, <2>2, <2>5
  <2> QED  BY <1>9, <1>10, <2>6
<1> QED  BY <1>5, <1>11, <1>12

-----------------------------------------------------------------------------
(* The invariant: every score a cycle holds is a tally, and every eligible *)
(* session is held or turned down.                                         *)

Ranked ==
    cycle.pc = "constrain" =>
        /\ \A c \in cycle.left : Tallied(c, {})
        /\ \A c \in cycle.result : Tallied(c, cycle.required)
        /\ cycle.current # Absent => Tallied(cycle.current, cycle.required \ cycle.todo)

Refused(s) == \E reason \in Reasons : <<s, reason>> \in rejected

Settled ==
    cycle.pc = "constrain" =>
        \A s \in Eligibles : Refused(s) \/ \E c \in Held : c.session = s

RankInv == IInv /\ Ranked /\ Settled /\ NoBetterLeftOut

\* What a cycle knows of the sessions it works on does not change while it goes on.
SameCycle ==
    /\ cycle'.snaps = cycle.snaps /\ cycle'.at = cycle.at /\ cycle'.required = cycle.required
    /\ taskType' = taskType /\ seen \subseteq seen'

LEMMA TallyStays ==
    ASSUME SameCycle, NEW c, NEW done, Tallied(c, done)
    PROVE  Tallied(c, done)'
<1>1. PICK total \in [Nat -> Int] : Tally(c, done, total)
  BY DEF Tallied
<1>2. Score(cycle.snaps[c.session], cycle.required)' = Score(cycle.snaps[c.session], cycle.required)
  BY DEF SameCycle, Score
<1>3. \A x : Seen(c.session, x) \subseteq Seen(c.session, x)'
  BY SeenGrows DEF SameCycle
<1>4. Tally(c, done, total)'
  BY <1>1, <1>2, <1>3 DEF Tally
<1> QED  BY <1>4 DEF Tallied

\* The more is seen, the less is plain.
LEMMA BetterBefore ==
    ASSUME SameCycle, NEW r, NEW s, PlainlyBetter(r, s)'
    PROVE  PlainlyBetter(r, s)
<1>1. \A t, x : Seen(t, x) \subseteq Seen(t, x)'
  BY SeenGrows DEF SameCycle
<1>2. \A snap : Figures(snap)' = Figures(snap)
  BY DEF SameCycle, Figures
<1>3. \A x : /\ NotFuller(r, s, x)' => NotFuller(r, s, x)
             /\ LessFull(r, s, x)' => LessFull(r, s, x)
  BY <1>1 DEF NotFuller, LessFull
<1> QED  BY <1>2, <1>3 DEF PlainlyBetter, SameCycle

LEMMA RankElsewhere ==
    ASSUME RankInv, IInv', Elsewhere
    PROVE  RankInv'
<1>1. /\ cycle' = cycle /\ selected' = selected /\ rejected' = rejected /\ taskType' = taskType
      /\ SameCycle
  BY DEF Elsewhere, SameCycle
<1>2. \A c, done : Tallied(c, done) => Tallied(c, done)'
  BY <1>1, TallyStays
<1>3. Ranked'
  BY <1>1, <1>2 DEF RankInv, Ranked
<1>4. Eligibles' = Eligibles /\ Held' = Held /\ \A s : Refused(s) => Refused(s)'
  BY <1>1 DEF Eligibles, Eligible, Held, Refused
<1>5. Settled'
  BY <1>1, <1>4 DEF RankInv, Settled
<1>6. \A r, s : PlainlyBetter(r, s)' => PlainlyBetter(r, s)
  BY <1>1, BetterBefore
<1>7. NoBetterLeftOut'
  BY <1>1, <1>4, <1>6 DEF RankInv, NoBetterLeftOut
<1> QED  BY <1>3, <1>5, <1>7 DEF RankInv

LEMMA RankBegin == ASSUME RankInv, IInv', BeginCycle PROVE RankInv'
<1>1. cycle'.pc = "resolve"
  BY BeginEffect DEF RankInv, IInv
<1> QED  BY <1>1 DEF RankInv, Ranked, Settled, NoBetterLeftOut

LEMMA RankResolve ==
    ASSUME RankInv, IInv', NEW refs \in RequiredExchanges, NEW fails \in BOOLEAN,
           ResolveRequired(refs, fails)
    PROVE  RankInv'
<1>1. \E required \in SUBSET Exchanges :
         Resolves(required, Candidates(cycle.snaps, cycle.at, required))
  BY ResolveEffect DEF RankInv, IInv
<1>2. PICK required \in SUBSET Exchanges :
        Resolves(required, Candidates(cycle.snaps, cycle.at, required))
  BY <1>1
<1> DEFINE C == Candidates(cycle.snaps, cycle.at, required)
<1>3. /\ cycle'.pc = "constrain" /\ cycle'.at = cycle.at /\ cycle'.snaps = cycle.snaps
      /\ cycle'.required = required /\ cycle'.current = Absent
      /\ cycle'.left = IF required = {} THEN {} ELSE C
      /\ cycle'.result = IF required = {} THEN C ELSE {}
      /\ taskType' = taskType
  BY <1>2 DEF Resolves
<1>4. cycle.snaps \in [Sessions -> Snapshot]
  BY TypeParts DEF CycleType, RankInv, IInv
<1>5. ASSUME NEW c \in C  PROVE Tallied(c, {})'
  <2>1. /\ c.session \in Sessions
        /\ c.score = Score(cycle.snaps[c.session], required)
    BY DEF Candidates
  <2>2. Score(cycle.snaps[c.session], cycle.required)' = Score(cycle.snaps[c.session], required)
    BY <1>3 DEF Score
  <2>3. PICK base \in Int : base = c.score
    BY <1>4, <2>1, ScoreType
  <2> DEFINE total == [n \in Nat |-> base]
  <2>4. total \in [Nat -> Int] /\ \A n \in Nat : total[n] = base /\ total[n + 1] = base
    OBVIOUS
  <2> HIDE DEF total
  <2>5. total[0] = base /\ total[Beyond] = base
    BY <2>4, BeyondAll
  <2>6. Tally(c, {}, total)'
    BY <2>1, <2>2, <2>3, <2>4, <2>5 DEF Tally
  <2> QED  BY <2>4, <2>6 DEF Tallied
<1>6. Eligibles' = {s \in Sessions : Eligible(cycle.snaps[s], cycle.at)}
  BY <1>3 DEF Eligibles, Eligible
<1>7. ASSUME NEW s \in Eligibles'  PROVE \E c \in C : c.session = s
  <2> DEFINE c == [session |-> s, score |-> Score(cycle.snaps[s], required),
                   hb |-> cycle.snaps[s].hb]
  <2>1. c \in C
    BY <1>6 DEF Candidates
  <2>2. c.session = s
    OBVIOUS
  <2> QED  BY <2>1, <2>2
<1> HIDE DEF C
<1>8. Ranked'
  BY <1>3, <1>5 DEF Ranked
<1>9. Settled'
  BY <1>3, <1>7 DEF Settled, Held
<1>10. NoBetterLeftOut'
  BY <1>3 DEF NoBetterLeftOut
<1> QED  BY <1>8, <1>9, <1>10 DEF RankInv

LEMMA RankTakeUp == ASSUME RankInv, IInv', NextCandidate PROVE RankInv'
<1>1. /\ cycle.pc = "constrain" /\ cycle.current = Absent
      /\ \E c \in Candidate : TakesUp(c) \/ TurnsAway(c)
  BY NextCandidateEffect DEF RankInv, IInv
<1>2. PICK c \in Candidate : TakesUp(c) \/ TurnsAway(c)
  BY <1>1
<1>3. /\ c \in cycle.left /\ c # Absent
      /\ cycle'.pc = "constrain" /\ cycle'.result = cycle.result
      /\ cycle'.left = cycle.left \ {c} /\ cycle'.required = cycle.required
      /\ rejected \subseteq rejected' /\ SameCycle
      /\ \/ cycle'.current = c /\ cycle'.todo = cycle.required
         \/ cycle'.current = Absent
  BY <1>2, SelectionAssumption DEF TakesUp, TurnsAway, SameCycle
<1>4. \A d, done : Tallied(d, done) => Tallied(d, done)'
  BY <1>3, TallyStays
<1>5. Ranked'
  <2>1. Tallied(c, {})'
    BY <1>1, <1>3, <1>4 DEF RankInv, Ranked
  <2>2. cycle'.current # Absent => cycle'.current = c /\ (cycle.required \ cycle.todo)' = {}
    BY <1>3
  <2> QED  BY <1>1, <1>3, <1>4, <2>1, <2>2 DEF RankInv, Ranked
<1>6. Eligibles' = Eligibles /\ \A s : Refused(s) => Refused(s)'
  BY <1>1, <1>3 DEF Eligibles, Eligible, Refused, SameCycle
<1>7. \A d \in Held : d \in Held' \/ Refused(d.session)'
  <2>1. CASE TakesUp(c)
    <3>1. cycle'.current = c  BY <2>1 DEF TakesUp
    <3> QED  BY <1>1, <1>3, <3>1 DEF Held
  <2>2. CASE TurnsAway(c)
    <3>1. Refused(c.session)'
      BY <2>2 DEF TurnsAway, Refused, Reasons
    <3> QED  BY <1>1, <1>3, <3>1 DEF Held
  <2> QED  BY <1>2, <2>1, <2>2
<1>8. Settled'
  BY <1>1, <1>6, <1>7 DEF RankInv, Settled
<1>9. NoBetterLeftOut'
  BY <1>3 DEF NoBetterLeftOut
<1> QED  BY <1>5, <1>8, <1>9 DEF RankInv

\* A lookup adds one penalty to the tally.
LEMMA TallyAdds ==
    ASSUME NEW c \in Candidate, NEW kept \in Candidate, NEW done \in SUBSET Exchanges,
           NEW x \in Exchanges \ done, NEW u \in Load,
           Tallied(c, done), u \in Seen(c.session, x),
           kept.session = c.session, kept.score = c.score + SoftPenalty(u)
    PROVE  Tallied(kept, done \cup {x})
<1>1. PICK total \in [Nat -> Int] : Tally(c, done, total)
  BY DEF Tallied
<1>2. PICK p \in Int : p = SoftPenalty(u)
  BY SoftPenaltyType
<1> DEFINE more == [n \in Nat |-> IF n <= x THEN total[n] ELSE total[n] + p]
<1>3. x \in Nat /\ done \in SUBSET Nat /\ Beyond \in Nat /\ x < Beyond
  BY SelectionAssumption, BeyondAll
<1>4. /\ more \in [Nat -> Int]
      /\ \A n \in Nat : /\ n <= x => more[n] = total[n]
                        /\ ~(n <= x) => more[n] = total[n] + p
  OBVIOUS
<1> HIDE DEF more
<1>5. more[0] = total[0] /\ more[Beyond] = total[Beyond] + p
  <2>1. 0 \in Nat /\ 0 <= x /\ ~(Beyond <= x)
    BY <1>3
  <2> QED  BY <1>3, <1>4, <2>1
<1>6. ASSUME NEW n \in Nat, NEW e \in Int, n # x, total[n + 1] = total[n] + e
      PROVE  more[n + 1] = more[n] + e
  <2>1. n + 1 \in Nat /\ (n <= x <=> n + 1 <= x) /\ total[n] \in Int
    BY <1>3, <1>6
  <2>2. CASE n <= x
    BY <1>4, <1>6, <2>1, <2>2
  <2>3. CASE ~(n <= x)
    <3>1. more[n] = total[n] + p /\ more[n + 1] = total[n + 1] + p
      BY <1>4, <2>1, <2>3
    <3> QED  BY <1>6, <2>1, <3>1
  <2> QED  BY <2>2, <2>3
<1>7. more[x + 1] = more[x] + p
  <2>1. x + 1 \in Nat /\ ~(x + 1 <= x) /\ x <= x
    BY <1>3
  <2>2. total[x + 1] = total[x]
    BY <1>1, <1>3 DEF Tally
  <2> QED  BY <1>3, <1>4, <2>1, <2>2
<1>8. \A n \in Nat \ (done \cup {x}) : more[n + 1] = more[n]
  <2> TAKE n \in Nat \ (done \cup {x})
  <2>1. total[n + 1] = total[n] /\ total[n] \in Int
    BY <1>1 DEF Tally
  <2>2. total[n + 1] = total[n] + 0
    BY <2>1
  <2>3. more[n + 1] = more[n] + 0
    BY <1>6, <2>2
  <2> QED  BY <1>4, <2>3
<1>9. ASSUME NEW n \in done
      PROVE  \E v \in Load : v \in Seen(c.session, n) /\ more[n + 1] = more[n] + SoftPenalty(v)
  <2>1. PICK v \in Load : v \in Seen(c.session, n) /\ total[n + 1] = total[n] + SoftPenalty(v)
    BY <1>1 DEF Tally
  <2>2. n \in Nat /\ n # x /\ SoftPenalty(v) \in Int
    BY <1>3, SoftPenaltyType
  <2>3. more[n + 1] = more[n] + SoftPenalty(v)
    BY <1>6, <2>1, <2>2
  <2> QED  BY <2>1, <2>3
<1>10. \A n \in done \cup {x} : \E v \in Load :
          v \in Seen(kept.session, n) /\ more[n + 1] = more[n] + SoftPenalty(v)
  BY <1>2, <1>7, <1>9
<1>11. /\ more[0] = Score(cycle.snaps[kept.session], cycle.required)
       /\ more[Beyond] = kept.score
  BY <1>1, <1>2, <1>5 DEF Tally
<1>12. Tally(kept, done \cup {x}, more)
  BY <1>8, <1>10, <1>11 DEF Tally
<1> QED  BY <1>4, <1>12 DEF Tallied

LEMMA RankCheck ==
    ASSUME RankInv, IInv', NEW fails \in BOOLEAN, CheckResource(fails)
    PROVE  RankInv'
<1>1. /\ cycle.pc = "constrain" /\ cycle.current \in Candidate
      /\ \E x \in cycle.todo, util \in Load \cup {Absent} : Looks(x, util)
  BY CheckEffect DEF RankInv, IInv
<1>2. PICK x \in cycle.todo, util \in Load \cup {Absent} : Looks(x, util)
  BY <1>1
<1>3. PICK c \in Candidate, s \in Sessions : c = cycle.current /\ s = c.session
  BY <1>1 DEF Candidate
<1>4. /\ <<TraderDBID[s], x, util>> \in InForce(resources, now)
      /\ cycle'.pc = "constrain" /\ cycle'.required = cycle.required /\ SameCycle
      /\ Drops(x, util) \/ Keeps(x, util)
  BY <1>2, <1>3 DEF Looks, SameCycle
<1>5. /\ c # Absent /\ x \in cycle.required /\ cycle.todo \subseteq cycle.required
      /\ cycle.required \in SUBSET Exchanges
  <2>1. cycle \in CycleType /\ Shape
    BY TypeParts DEF RankInv, IInv
  <2> QED  BY <1>3, <2>1, SelectionAssumption DEF Shape, CycleType
<1>6. util \in Seen(s, x)
  BY <1>1, <1>4, LookedUp DEF RankInv, IInv
<1>7. \A d, done : Tallied(d, done) => Tallied(d, done)'
  BY <1>4, TallyStays
<1>8. /\ \A d \in cycle.left : Tallied(d, {})
      /\ \A d \in cycle.result : Tallied(d, cycle.required)
      /\ Tallied(c, cycle.required \ cycle.todo)
  BY <1>1, <1>3, <1>5 DEF RankInv, Ranked
<1>9. Eligibles' = Eligibles
  BY <1>4 DEF Eligibles, Eligible, SameCycle
<1>10. rejected \subseteq rejected' /\ \A r : Refused(r) => Refused(r)'
  BY <1>4 DEF Drops, Keeps, Refused
<1>11. NoBetterLeftOut'
  BY <1>4 DEF NoBetterLeftOut
<1>12. CASE Drops(x, util)
  <2>1. /\ cycle'.current = Absent /\ cycle'.left = cycle.left /\ cycle'.result = cycle.result
        /\ Refused(s)'
    BY <1>3, <1>12 DEF Drops, Refused
  <2>2. Ranked'
    BY <1>4, <1>7, <1>8, <2>1 DEF Ranked
  <2>3. \A d \in Held : d.session = s \/ d \in Held'
    BY <1>3, <2>1 DEF Held
  <2>4. Settled'
    BY <1>1, <1>9, <1>10, <2>1, <2>3 DEF RankInv, Settled
  <2> QED  BY <1>11, <2>2, <2>4 DEF RankInv
<1>13. CASE Keeps(x, util)
  <2>1. PICK kept \in Candidate :
          /\ kept.session = s /\ kept.score = c.score + SoftPenalty(util)
          /\ util # Absent
          /\ cycle'.left = cycle.left
          /\ IF cycle.todo = {x}
             THEN cycle'.current = Absent /\ cycle'.result = cycle.result \cup {kept}
             ELSE /\ cycle'.current = kept /\ cycle'.result = cycle.result
                  /\ cycle'.todo = cycle.todo \ {x}
    BY <1>3, <1>13 DEF Keeps
  <2>2. Tallied(kept, (cycle.required \ cycle.todo) \cup {x})
    <3> DEFINE done == cycle.required \ cycle.todo
    <3>1. done \in SUBSET Exchanges /\ x \in Exchanges \ done /\ util \in Load
      BY <1>5, <2>1
    <3>2. Tallied(c, done) /\ util \in Seen(c.session, x) /\ kept.session = c.session
      BY <1>3, <1>6, <1>8, <2>1
    <3> HIDE DEF done
    <3>3. Tallied(kept, done \cup {x})
      BY <2>1, <3>1, <3>2, TallyAdds
    <3> QED  BY <3>3 DEF done
  <2>3. kept # Absent
    BY SelectionAssumption
  <2>4. Ranked'
    <3>1. CASE cycle.todo = {x}
      <4>1. (cycle.required \ cycle.todo) \cup {x} = cycle.required
        BY <1>5, <3>1
      <4>2. Tallied(kept, cycle.required)
        BY <2>2, <4>1
      <4> QED  BY <1>4, <1>7, <1>8, <2>1, <3>1, <4>2 DEF Ranked
    <3>2. CASE cycle.todo # {x}
      <4>1. (cycle.required \ cycle.todo) \cup {x} = cycle.required \ (cycle.todo \ {x})
        BY <1>5
      <4>2. Tallied(kept, cycle.required \ (cycle.todo \ {x}))
        BY <2>2, <4>1
      <4> QED  BY <1>4, <1>7, <1>8, <2>1, <3>2, <4>2 DEF Ranked
    <3> QED  BY <3>1, <3>2
  <2>5. kept \in Held' /\ \A d \in Held : d.session = s \/ d \in Held'
    BY <1>3, <2>1, <2>3 DEF Held
  <2>6. Settled'
    BY <1>1, <1>9, <1>10, <2>1, <2>5 DEF RankInv, Settled
  <2> QED  BY <1>11, <2>4, <2>6 DEF RankInv
<1> QED  BY <1>4, <1>12, <1>13

\* The selected candidate comes first, so no candidate has a lower score.
LEMMA RankAssign == ASSUME RankInv, IInv', Assign PROVE RankInv'
<1>1. /\ cycle.pc = "constrain" /\ cycle.current = Absent /\ cycle.left = {}
      /\ cycle'.pc = "idle" /\ cycle'.at = cycle.at /\ cycle'.snaps = cycle.snaps
      /\ cycle'.required = cycle.required
      /\ IF cycle.result = {} THEN selected' = Absent
         ELSE selected' \in Firsts(cycle.result) /\ selected' # Absent
      /\ taskType' = taskType /\ rejected' = rejected /\ seen' = seen
  BY AssignEffect DEF RankInv, IInv
<1>2. SameCycle /\ Eligibles' = Eligibles /\ \A s : Refused(s) => Refused(s)'
  BY <1>1 DEF SameCycle, Eligibles, Eligible, Refused
<1>3. TypeOK /\ cycle.result \subseteq Candidate
  BY TypeParts DEF RankInv, IInv, CycleType
<1>4. ASSUME selected' # Absent, NEW r \in Eligibles, ~Refused(r),
             PlainlyBetter(r, selected.session)'
      PROVE  FALSE
  <2>1. PICK d \in Candidate : d = selected' /\ d \in Firsts(cycle.result) /\ d \in cycle.result
    BY <1>1, <1>3, <1>4 DEF Firsts
  <2>2. PICK c \in cycle.result : c.session = r
    BY <1>1, <1>4 DEF RankInv, Settled, Held
  <2>3. c \in Candidate /\ ~Before(c, d)
    BY <1>3, <2>1, <2>2 DEF Firsts
  <2>4. PlainlyBetter(c.session, d.session)
    <3>1. PlainlyBetter(r, d.session)'
      BY <1>4, <2>1
    <3>2. PlainlyBetter(r, d.session)
      BY <1>2, <3>1, BetterBefore
    <3> QED  BY <2>2, <3>2
  <2>5. Tallied(c, cycle.required) /\ Tallied(d, cycle.required)
    BY <1>1, <2>1, <2>2 DEF RankInv, Ranked
  <2>6. c.score < d.score
    BY <1>3, <2>3, <2>4, <2>5, BetterScoresLower
  <2> QED  BY <2>3, <2>6 DEF Before
<1>5. NoBetterLeftOut'
  BY <1>1, <1>2, <1>4 DEF NoBetterLeftOut, Refused
<1>6. Ranked' /\ Settled'
  BY <1>1 DEF Ranked, Settled
<1> QED  BY <1>5, <1>6 DEF RankInv

LEMMA RankNext == RankInv /\ [Next]_vars => RankInv'
<1> SUFFICES ASSUME RankInv, [Next]_vars PROVE RankInv'
  OBVIOUS
<1>0. IInv' /\ IInv /\ TypeOK /\ Noticed
  BY InvNext DEF RankInv, IInv
<1>1. ASSUME NEW s \in Sessions,
             \/ \E req \in Registrations, fails \in BOOLEAN : Register(s, req, fails)
             \/ \E req \in Heartbeats : Heartbeat(s, req)
             \/ \E req \in TestResults : LatencyResult(s, req)
             \/ Disconnect(s)
      PROVE  RankInv'
  BY <1>0, <1>1, EventType, RankElsewhere
<1>2. CASE \/ \E t \in Traders, x \in Exchanges, rows \in UsageRows : ReportUsage(t, x, rows)
           \/ Tick
  BY <1>0, <1>2, EnvironmentType, RankElsewhere
<1>3. CASE BeginCycle \/ NextCandidate \/ Assign
  BY <1>0, <1>3, RankBegin, RankTakeUp, RankAssign
<1>4. ASSUME NEW refs \in RequiredExchanges, NEW fails \in BOOLEAN,
             ResolveRequired(refs, fails)
      PROVE  RankInv'
  BY <1>0, <1>4, RankResolve
<1>5. ASSUME NEW fails \in BOOLEAN, CheckResource(fails)
      PROVE  RankInv'
  BY <1>0, <1>5, RankCheck
<1>6. CASE UNCHANGED vars
  <2>1. Elsewhere
    BY <1>6 DEF vars, Elsewhere
  <2> QED  BY <1>0, <2>1, RankElsewhere
<1> QED  BY <1>1, <1>2, <1>3, <1>4, <1>5, <1>6 DEF Next

\* No eligible session that was not turned down was plainly the better choice than the
\* one assigned, whatever changed between the lookups: neither the scores nor the soft
\* penalties of any number of exchanges, added up one at a time, nor the second sort
\* lets a trader pass that is behind in every respect (selectCandidatesInternal,
\* applyResourceConstraints).
THEOREM BetterIsNotLeftOut == Spec => []NoBetterLeftOut
<1>1. Init => RankInv
  <2> SUFFICES ASSUME Init PROVE RankInv
    OBVIOUS
  <2>1. IInv /\ cycle.pc = "idle" /\ selected = Absent
    BY InvInit DEF Init, NoCycle
  <2> QED  BY <2>1 DEF RankInv, Ranked, Settled, NoBetterLeftOut
<1>2. RankInv => NoBetterLeftOut
  BY DEF RankInv
<1> QED  BY <1>1, <1>2, RankNext, PTL DEF Spec
=============================================================================
