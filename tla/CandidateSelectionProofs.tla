----------------------- MODULE CandidateSelectionProofs -----------------------
(***************************************************************************)
(* Theorems about CandidateSelection, for any sessions, exchanges, payloads, *)
(* limits and usage rows.                                                  *)
(***************************************************************************)
EXTENDS CandidateSelection, FiniteSetTheorems, WellFoundedInduction, TLAPS

-----------------------------------------------------------------------------
(* The extremes of finite sets, on which the CHOOSE expressions rest.      *)

LEMMA LowestExists ==
    ASSUME NEW S \in SUBSET Nat, S # {}
    PROVE  \E m \in S : \A v \in S : m <= v
<1>1. PICK m \in S : \A v \in S : ~(<<v, m>> \in OpToRel(<, Nat))
  BY NatLessThanWellFounded, WFMin
<1>2. \A v \in S : ~(v < m)
  BY <1>1 DEF OpToRel
<1> QED  BY <1>2

LEMMA HighestExists ==
    ASSUME NEW n \in Nat, NEW S \in SUBSET (0 .. n), S # {}
    PROVE  \E m \in S : \A v \in S : v <= m
<1> DEFINE T == {k \in Nat : n - k \in S}
<1>1. T \in SUBSET Nat /\ T # {}
  <2>1. PICK v \in S : TRUE  OBVIOUS
  <2>2. n - v \in Nat /\ n - (n - v) = v  BY <2>1
  <2> QED  BY <2>1, <2>2
<1>2. PICK k \in T : \A j \in T : k <= j
  <2> HIDE DEF T
  <2> QED  BY <1>1, LowestExists
<1>3. ASSUME NEW v \in S  PROVE v <= n - k
  <2>1. v \in Nat /\ n - v \in Nat /\ n - (n - v) = v
    OBVIOUS
  <2>2. n - v \in T /\ k \in Nat
    BY <1>2, <2>1
  <2>3. k <= n - v
    BY <1>2, <2>2
  <2> QED  BY <2>1, <2>2, <2>3
<1> QED  BY <1>2, <1>3

LEMMA SlowestExists ==
    ASSUME NEW lat \in LatencyMap, NEW X \in SUBSET Exchanges, X # {}
    PROVE  \E x \in X : \A y \in X : lat[y] <= lat[x]
<1> DEFINE UpTo(x) == {y \in X : lat[y] <= lat[x]}
<1> DEFINE Ranks == {Cardinality(UpTo(x)) : x \in X}
<1>1. IsFiniteSet(X) /\ Cardinality(X) \in Nat
  BY FS_Subset, FS_CardinalityType, SelectionAssumption
<1>2. \A x \in X : IsFiniteSet(UpTo(x)) /\ Cardinality(UpTo(x)) \in 0 .. Cardinality(X)
  <2> TAKE x \in X
  <2>1. UpTo(x) \in SUBSET X  OBVIOUS
  <2> HIDE DEF UpTo
  <2>2. IsFiniteSet(UpTo(x)) /\ Cardinality(UpTo(x)) <= Cardinality(X)
    BY <1>1, <2>1, FS_Subset
  <2>3. Cardinality(UpTo(x)) \in Nat
    BY <2>2, FS_CardinalityType
  <2> QED  BY <1>1, <2>2, <2>3
<1>3. PICK m \in Ranks : \A v \in Ranks : v <= m
  <2>1. Ranks \in SUBSET (0 .. Cardinality(X)) /\ Ranks # {}
    BY <1>2
  <2> HIDE DEF Ranks
  <2> QED  BY <1>1, <2>1, HighestExists
<1>4. PICK x \in X : m = Cardinality(UpTo(x))
  OBVIOUS
<1>5. ASSUME NEW y \in X, lat[x] < lat[y]
      PROVE  FALSE
  <2>1. lat \in [Exchanges -> Int]  BY DEF LatencyMap
  <2>2. UpTo(x) \in SUBSET UpTo(y) /\ y \in UpTo(y) /\ y \notin UpTo(x)
    BY <1>5, <2>1
  <2>3. Cardinality(UpTo(y)) <= Cardinality(UpTo(x))
    BY <1>3, <1>4
  <2> HIDE DEF UpTo
  <2>4. /\ Cardinality(UpTo(x)) <= Cardinality(UpTo(y))
        /\ Cardinality(UpTo(y)) = Cardinality(UpTo(x)) => UpTo(y) = UpTo(x)
    BY <1>2, <2>2, FS_Subset
  <2>5. Cardinality(UpTo(x)) \in Nat /\ Cardinality(UpTo(y)) \in Nat
    BY <1>2
  <2> QED  BY <2>2, <2>3, <2>4, <2>5
<1> QED
  BY <1>5 DEF LatencyMap

LEMMA FiguresExist ==
    ASSUME NEW lat \in LatencyMap, NEW X \in SUBSET Measured(lat), X # {}
    PROVE  /\ Slowest(lat, X) \in Nat /\ Fastest(lat, X) \in Nat /\ Percentile95(lat, X) \in Nat
           /\ Fastest(lat, X) <= Slowest(lat, X)
<1> DEFINE V == {lat[x] : x \in X}
<1> DEFINE rank == (95 * Cardinality(X) + 99) \div 100
<1> DEFINE UpTo(v) == {x \in X : lat[x] <= v}
<1> DEFINE Below(v) == {x \in X : lat[x] < v}
<1>1. X \in SUBSET Exchanges /\ V \in SUBSET Nat /\ V # {}
  BY DEF Measured, LatencyMap
<1>2. IsFiniteSet(X) /\ Cardinality(X) \in Nat /\ Cardinality(X) # 0
  BY <1>1, FS_Subset, FS_CardinalityType, FS_EmptySet, SelectionAssumption
<1>3. \A Y \in SUBSET X : Cardinality(Y) \in Nat
  BY <1>2, FS_Subset, FS_CardinalityType
<1>4. PICK slowest \in X : \A y \in X : lat[y] <= lat[slowest]
  BY <1>1, SlowestExists
<1>5. \E v \in V : \A x \in X : lat[x] <= v
  BY <1>4
<1>6. Slowest(lat, X) \in Nat /\ \A x \in X : lat[x] <= Slowest(lat, X)
  <2>1. Slowest(lat, X) \in V /\ \A x \in X : lat[x] <= Slowest(lat, X)
    BY <1>5 DEF Slowest
  <2> QED  BY <1>1, <2>1
<1>7. \E v \in V : \A x \in X : v <= lat[x]
  <2>1. \E v \in V : \A w \in V : v <= w
    <3> HIDE DEF V
    <3> QED  BY <1>1, LowestExists
  <2> QED  BY <2>1
<1>8. Fastest(lat, X) \in Nat /\ Fastest(lat, X) <= Slowest(lat, X)
  <2>1. Fastest(lat, X) \in V
    BY <1>7 DEF Fastest
  <2> QED  BY <1>1, <1>6, <2>1
<1>9. rank \in Nat /\ 1 <= rank /\ rank <= Cardinality(X)
  <2>1. \A n \in Nat : n # 0 => /\ (95 * n + 99) \div 100 \in Nat
                                /\ 1 <= (95 * n + 99) \div 100
                                /\ (95 * n + 99) \div 100 <= n
    OBVIOUS
  <2> QED  BY <1>2, <2>1
<1>10. \E v \in V : Cardinality(UpTo(v)) >= rank /\ Cardinality(Below(v)) < rank
  <2> DEFINE G == {v \in V : Cardinality(UpTo(v)) >= rank}
  <2>1. G \in SUBSET Nat
    BY <1>1
  <2>2. lat[slowest] \in G
    <3>1. UpTo(lat[slowest]) = X
      BY <1>4
    <3> QED  BY <1>2, <1>9, <3>1
  <2>3. PICK v \in G : \A w \in G : v <= w
    <3>1. G # {}  BY <2>2
    <3> HIDE DEF G
    <3> QED  BY <2>1, <3>1, LowestExists
  <2>4. Cardinality(Below(v)) < rank
    <3>1. CASE Below(v) = {}
      <4>1. Cardinality(Below(v)) = 0  BY <3>1, FS_EmptySet
      <4> QED  BY <1>9, <4>1
    <3>2. CASE Below(v) # {}
      <4>1. Below(v) \in SUBSET Exchanges  BY <1>1
      <4>2. PICK s \in Below(v) : \A y \in Below(v) : lat[y] <= lat[s]
        <5> HIDE DEF Below
        <5> QED  BY <3>2, <4>1, SlowestExists
      <4>3. lat[s] \in V /\ lat[s] < v
        OBVIOUS
      <4>4. UpTo(lat[s]) = Below(v)
        <5>1. \A x \in X : lat[x] \in Nat  BY <1>1
        <5>2. v \in Nat  BY <2>1
        <5>3. UpTo(lat[s]) \subseteq Below(v)
          BY <4>3, <5>1, <5>2
        <5>4. Below(v) \subseteq UpTo(lat[s])
          BY <4>2
        <5> QED  BY <5>3, <5>4
      <4>5. lat[s] \notin G
        <5>1. lat[s] \in Nat /\ v \in Nat  BY <1>1, <2>1, <4>3
        <5>2. lat[s] < v /\ (lat[s] \in G => v <= lat[s])  BY <2>3, <4>3
        <5> HIDE DEF G
        <5> QED  BY <5>1, <5>2
      <4>6. ~(Cardinality(Below(v)) >= rank)
        BY <4>3, <4>4, <4>5
      <4>7. Cardinality(Below(v)) \in Nat
        BY <1>3
      <4> HIDE DEF Below, rank
      <4> QED  BY <1>9, <4>6, <4>7
    <3> QED  BY <3>1, <3>2
  <2> QED  BY <2>3, <2>4
<1>11. Percentile95(lat, X) \in Nat
  <2>1. Percentile95(lat, X) \in V
    BY <1>10 DEF Percentile95
  <2> QED  BY <1>1, <2>1
<1> QED  BY <1>6, <1>8, <1>11

-----------------------------------------------------------------------------
(* Types of the scores.                                                    *)

LEMMA Parameters ==
    /\ Unit \in Nat \ {0} /\ HardLimit \in Nat /\ SoftLimit \in Nat /\ SoftPenaltyMs \in Nat
    /\ HardLimit < Unit /\ SoftLimit < HardLimit /\ Unit - SoftLimit \in Nat \ {0}
BY LimitAssumption

LEMMA Products ==
    ASSUME NEW a \in Nat \ {0}, NEW b \in Nat \ {0}
    PROVE  10 * (a * a) * (b * b) \in Nat /\ a * a \in Nat \ {0} /\ b * b \in Nat \ {0}
OBVIOUS

LEMMA ScaleType ==
    /\ Scale \in Int /\ Scale \div 10 \in Int /\ Scale \div (Unit * Unit) \in Int
    /\ Scale \div ((Unit - SoftLimit) * (Unit - SoftLimit)) \in Int
    /\ missingLatencyProfilePenalty \in Int /\ missingExchangePenalty \in Int
<1> DEFINE d == Unit - SoftLimit
<1>1. Unit \in Nat \ {0} /\ d \in Nat \ {0}
  BY Parameters
<1> HIDE DEF d
<1>2. /\ 10 * (Unit * Unit) * (d * d) \in Nat
      /\ Unit * Unit \in Nat \ {0} /\ d * d \in Nat \ {0}
  BY <1>1, Products
<1>3. Scale \in Nat
  BY <1>2 DEF Scale, d
<1>4. \A a \in Nat, b \in Nat \ {0} : a \div b \in Int
  OBVIOUS
<1>5. /\ Scale \div (Unit * Unit) \in Int /\ Scale \div (d * d) \in Int
      /\ Scale \div 10 \in Int
  BY <1>2, <1>3, <1>4
<1>6. missingLatencyProfilePenalty \in Int /\ missingExchangePenalty \in Int
  BY <1>3 DEF missingLatencyProfilePenalty, missingExchangePenalty, Ms
<1> QED  BY <1>3, <1>5, <1>6 DEF d

LEMMA ClampType ==
    ASSUME NEW v \in Int
    PROVE  Clamp(v) \in Load /\ clampUnit(v) \in Load /\ (v \in Load => Clamp(v) = v)
BY Parameters DEF Clamp, clampUnit, Load

LEMMA ExchangesFinite ==
    ASSUME NEW X \in SUBSET Exchanges
    PROVE  IsFiniteSet(X) /\ Cardinality(X) \in Nat
BY SelectionAssumption, FS_Subset, FS_CardinalityType

LEMMA RobustType ==
    ASSUME NEW lat \in LatencyMap, NEW X \in SUBSET Measured(lat), X # {}, NEW missing \in Nat
    PROVE  RobustProfile(lat, X, missing) \in Int
<1>1. Slowest(lat, X) \in Nat /\ Fastest(lat, X) \in Nat /\ Percentile95(lat, X) \in Nat
  BY FiguresExist
<1>2. \A p, s, f, m \in Nat, c, d, e \in Int : p * c + (s - f) * d + m * e \in Int
  OBVIOUS
<1> QED  BY <1>1, <1>2, ScaleType DEF RobustProfile, Ms

LEMMA ProfileType ==
    ASSUME NEW lat \in LatencyMap, NEW effective \in SUBSET Exchanges
    PROVE  LatencyProfile(lat, effective) \in Int \cup {Absent}
<1> DEFINE X == IF effective = {} THEN Measured(lat) ELSE Measured(lat) \cap effective
<1>1. X \in SUBSET Measured(lat)
  OBVIOUS
<1>2. effective \ X \in SUBSET Exchanges
  OBVIOUS
<1> HIDE DEF X
<1>3. Cardinality(effective \ X) \in Nat
  BY <1>2, ExchangesFinite
<1>4. X # {} => RobustProfile(lat, X, Cardinality(effective \ X)) \in Int
  BY <1>1, <1>3, RobustType
<1> QED  BY <1>4 DEF LatencyProfile, X

LEMMA EstimateType ==
    ASSUME NEW snap \in Snapshot, NEW required \in SUBSET Exchanges
    PROVE  EstimateLatency(snap, required) \in Int
<1> DEFINE X == required \cap Measured(snap.latencies)
<1>1. snap.latencies \in LatencyMap /\ snap.profile \in Int
  BY DEF Snapshot
<1>2. X \in SUBSET Measured(snap.latencies) /\ required \ X \in SUBSET Exchanges
  OBVIOUS
<1> HIDE DEF X
<1>3. Cardinality(required) \in Nat /\ Cardinality(required \ X) \in Nat
  BY <1>2, ExchangesFinite
<1>4. X # {} => RobustProfile(snap.latencies, X, Cardinality(required \ X)) \in Int
  BY <1>1, <1>2, <1>3, RobustType
<1>5. missingLatencyProfilePenalty + Cardinality(required) * missingExchangePenalty \in Int
  BY <1>3, ScaleType
<1> QED  BY <1>1, <1>4, <1>5, ScaleType DEF EstimateLatency, X

LEMMA QuadraticType ==
    ASSUME NEW weight \in Nat, NEW load \in Load
    PROVE  Quadratic(weight, load) \in Int
<1>1. load \in Int  BY Parameters DEF Load
<1>2. \A w, l, c \in Int : w * l * l * c \in Int  OBVIOUS
<1> QED  BY <1>1, <1>2, ScaleType DEF Quadratic

LEMMA ScoreType ==
    ASSUME NEW snap \in Snapshot, NEW required \in SUBSET Exchanges
    PROVE  Score(snap, required) \in Int
<1> DEFINE load == clampUnit(snap.load)
           tradeLoad == TradeLoad(load, clampUnit(snap.tradeLoad))
<1>1. load \in Load /\ tradeLoad \in Load
  <2>1. snap.load \in Int /\ snap.tradeLoad \in Int
    BY Parameters DEF Snapshot, Load
  <2> QED  BY <2>1, ClampType DEF TradeLoad
<1> HIDE DEF load, tradeLoad
<1>2. monitorRolePenalty(normalizeRole(snap.role)) \in Int
  BY DEF monitorRolePenalty
<1>3. scoreMonitor(tradeLoad, load, normalizeRole(snap.role)) \in Int
  <2>1. Quadratic(1000, tradeLoad) \in Int /\ Quadratic(200, load) \in Int
    BY <1>1, QuadraticType
  <2>2. Ms(monitorRolePenalty(normalizeRole(snap.role))) \in Int
    BY <1>2, ScaleType DEF Ms
  <2> QED  BY <2>1, <2>2 DEF scoreMonitor
<1>4. scoreTrade(EstimateLatency(snap, required), load) \in Int
  <2>1. Quadratic(1000, load) \in Int
    BY <1>1, QuadraticType
  <2> QED  BY <2>1, EstimateType DEF scoreTrade
<1> QED  BY <1>3, <1>4 DEF Score, load, tradeLoad

LEMMA SoftPenaltyType ==
    ASSUME NEW util \in Load
    PROVE  SoftPenalty(util) \in Int
<1> DEFINE c == Scale \div ((Unit - SoftLimit) * (Unit - SoftLimit))
<1>1. c \in Int /\ util \in Int /\ util - SoftLimit \in Int /\ SoftPenaltyMs \in Int
  BY ScaleType, Parameters DEF Load
<1>2. \A p, u, d \in Int : p * u * u * d \in Int
  OBVIOUS
<1> HIDE DEF c
<1>3. SoftPenaltyMs * (util - SoftLimit) * (util - SoftLimit) * c \in Int
  BY <1>1, <1>2
<1> QED  BY <1>3 DEF SoftPenalty, c

\* The highest utilization exists, also of infinitely many rows: it is at most Unit.
LEMMA UtilizationType ==
    ASSUME NEW rows \in SUBSET UsageRow, NEW at \in Nat
    PROVE  Utilization(rows, at) \in Load \cup {Absent}
<1> DEFINE reset(r) == r.resetAt # 0 /\ at > r.resetAt
           counted  == {r \in rows : reset(r) \/ r.util # Absent}
           used     == {0} \cup {Clamp(r.util) : r \in {q \in counted : ~reset(q)}}
<1>1. used \in SUBSET (0 .. Unit) /\ used # {}
  <2>1. \A r \in counted : ~reset(r) => r.util \in Int
    BY DEF UsageRow
  <2>2. \A r \in counted : ~reset(r) => Clamp(r.util) \in 0 .. Unit
    BY <2>1, ClampType DEF Load
  <2>3. 0 \in 0 .. Unit
    BY Parameters
  <2> HIDE DEF reset, counted
  <2> QED  BY <2>2, <2>3
<1>2. \E u \in used : \A v \in used : v <= u
  <2> HIDE DEF used
  <2> QED  BY <1>1, HighestExists, Parameters
<1>3. (CHOOSE u \in used : \A v \in used : v <= u) \in Load
  <2> HIDE DEF used
  <2>1. (CHOOSE u \in used : \A v \in used : v <= u) \in used
    BY <1>2
  <2> QED  BY <1>1, <2>1 DEF Load
<1> QED  BY <1>3 DEF Utilization

-----------------------------------------------------------------------------
(* Types of the state.                                                     *)

\* Between cycles nothing is left to look at; within one, a candidate is taken up
\* only when exchanges are required, and dropped or kept with the last of them.
Shape ==
    /\ cycle.pc # "constrain" => cycle.left = {} /\ cycle.current = Absent
    /\ cycle.left # {} => cycle.required # {}
    /\ cycle.current # Absent => cycle.todo # {} /\ cycle.todo \subseteq cycle.required
    /\ selected # Absent => cycle.pc = "idle"

CycleType == [pc : {"idle", "resolve", "constrain"}, at : Nat, snaps : [Sessions -> Snapshot],
              required : SUBSET Exchanges, left : SUBSET Candidate,
              current : Candidate \cup {Absent}, todo : SUBSET Exchanges,
              result : SUBSET Candidate]

LEMMA CycleIsTyped == TypeOK => cycle \in CycleType
BY DEF TypeOK, CycleType

LEMMA NoSnapshotType == NoSnapshot \in Snapshot
<1>1. NoLatencies \in LatencyMap  BY DEF NoLatencies, LatencyMap
<1>2. 0 \in Load  BY Parameters DEF Load
<1>3. "" \in TraderStatus /\ {} \in SUBSET Exchanges /\ 0 \in Int  BY DEF TraderStatus
<1>4. "none" \in {"none", "registered", "active"} /\ "both" \in {"monitor", "trade", "both"}
  OBVIOUS
<1> HIDE DEF NoLatencies
<1> QED  BY <1>1, <1>2, <1>3, <1>4 DEF NoSnapshot, Snapshot

LEMMA ReportedType ==
    ASSUME NEW v \in Int \cup {Absent}
    PROVE  Reported(v) \in Load
BY ClampType, Parameters DEF Reported, Load

LEMMA RegisteredType ==
    ASSUME NEW req \in Registrations, NEW available \in SUBSET Exchanges
    PROVE  Registered(req, available) \in Snapshot
<1>1. /\ req.status \in TraderStatus /\ req.capabilities \in SUBSET Exchanges
      /\ req.load \in Int \cup {Absent} /\ req.tradeLoad \in Int \cup {Absent}
      /\ req.resolved \in BOOLEAN
  BY PayloadAssumption
<1>2. Reported(req.load) \in Load /\ Reported(req.tradeLoad) \in Load
  BY <1>1, ReportedType
<1>3. TradeLoad(Reported(req.load), Reported(req.tradeLoad)) \in Load
  BY <1>2 DEF TradeLoad
<1>4. EffectiveExchanges(req.capabilities, available) \in SUBSET Exchanges
  BY <1>1 DEF EffectiveExchanges
<1>5. normalizeTraderRole(req.role) \in {"monitor", "trade", "both"}
  BY DEF normalizeTraderRole
<1>6. NoLatencies \in LatencyMap  BY DEF NoLatencies, LatencyMap
<1> QED  BY <1>1, <1>2, <1>3, <1>4, <1>5, <1>6 DEF Registered, Snapshot

LEMMA WithLatenciesType ==
    ASSUME NEW snap \in Snapshot, NEW lat \in LatencyMap
    PROVE  WithLatencies(snap, lat) \in Snapshot
<1> DEFINE profile == LatencyProfile(lat, snap.effective)
           value == IF profile = Absent THEN snap.profile ELSE profile
<1>1. snap.effective \in SUBSET Exchanges /\ snap.profile \in Int
  BY DEF Snapshot
<1>2. profile \in Int \cup {Absent}
  BY <1>1, ProfileType
<1>3. value \in Int
  BY <1>1, <1>2
<1>4. WithLatencies(snap, lat) = IF Measured(lat) = {} THEN snap
                                 ELSE [snap EXCEPT !.latencies = lat, !.profile = value]
  BY DEF WithLatencies, Snapshot
<1> HIDE DEF value
<1>5. [snap EXCEPT !.latencies = lat, !.profile = value] \in Snapshot
  BY <1>3 DEF Snapshot
<1> QED  BY <1>4, <1>5

LEMMA WithLoadsType ==
    ASSUME NEW snap \in Snapshot, NEW req \in Heartbeats
    PROVE  WithLoads(snap, req) \in Snapshot
<1> DEFINE load == IF req.load = Absent THEN snap.load ELSE Clamp(req.load)
           trade == IF req.tradeLoad # Absent THEN Clamp(req.tradeLoad)
                    ELSE IF req.load # Absent THEN load ELSE snap.tradeLoad
<1>1. req.load \in Int \cup {Absent} /\ req.tradeLoad \in Int \cup {Absent}
  BY PayloadAssumption
<1>2. load \in Load /\ snap.tradeLoad \in Load
  BY <1>1, ClampType DEF Snapshot
<1>3. trade \in Load
  BY <1>1, <1>2, ClampType
<1>4. WithLoads(snap, req) = [snap EXCEPT !.load = load, !.tradeLoad = trade]
  BY DEF WithLoads, Snapshot
<1> HIDE DEF load, trade
<1> QED  BY <1>2, <1>3, <1>4 DEF Snapshot

LEMMA BeatenType ==
    ASSUME TypeOK, NEW snap \in Snapshot
    PROVE  Beaten(snap) \in Snapshot
<1>1. now \in Int  BY DEF TypeOK
<1> QED  BY <1>1 DEF Beaten, Snapshot

LEMMA ResultLatenciesType ==
    ASSUME NEW req \in TestResults
    PROVE  ResultLatencies(req) \in LatencyMap
<1>1. req.stats \in LatencyMap /\ req.results \in [Exchanges -> [1 .. 3 -> Int]]
  BY PayloadAssumption
<1>2. ASSUME NEW x \in Exchanges  PROVE SelectLatency(req.results[x]) \in Int
  <2>1. req.results[x] \in [1 .. 3 -> Int]  BY <1>1
  <2>2. req.results[x][1] \in Int /\ req.results[x][2] \in Int /\ req.results[x][3] \in Int
    BY <2>1
  <2> QED  BY <2>2 DEF SelectLatency
<1> QED  BY <1>1, <1>2 DEF ResultLatencies, LatencyMap

\* What is in force is typed, in any state of the rows.
LEMMA InForceType ==
    ASSUME NEW rows \in [Traders -> [Exchanges -> SUBSET UsageRow]], NEW at \in Nat
    PROVE  InForce(rows, at) \subseteq Traders \X Exchanges \X (Load \cup {Absent})
<1>1. ASSUME NEW t \in Traders, NEW x \in Exchanges
      PROVE  Utilization(rows[t][x], at) \in Load \cup {Absent}
  BY UtilizationType
<1> QED  BY <1>1 DEF InForce

LEMMA CandidatesType ==
    ASSUME NEW snaps \in [Sessions -> Snapshot], NEW at, NEW required \in SUBSET Exchanges
    PROVE  Candidates(snaps, at, required) \subseteq Candidate
<1>1. ASSUME NEW s \in Sessions
      PROVE  Score(snaps[s], required) \in Int /\ snaps[s].hb \in Int
  BY ScoreType DEF Snapshot
<1> QED  BY <1>1 DEF Candidates, Candidate

\* TypeOK without the cycle
Around ==
    /\ taskType \in {"trade", "monitor"}
    /\ now \in Nat /\ events \in Nat /\ usage \in Nat /\ failures \in Nat /\ cycles \in Nat
    /\ sessions \in [Sessions -> Snapshot]
    /\ resources \in [Traders -> [Exchanges -> SUBSET UsageRow]]
    /\ seen \subseteq Traders \X Exchanges \X (Load \cup {Absent})

LEMMA TypeParts ==
    TypeOK <=> /\ Around /\ cycle \in CycleType
               /\ selected \in Candidate \cup {Absent}
               /\ rejected \subseteq Sessions \X Reasons
BY DEF TypeOK, Around, CycleType

LEMMA TypeAfter ==
    ASSUME Around', cycle' \in CycleType, selected' \in Candidate \cup {Absent},
           rejected' \subseteq Sessions \X Reasons
    PROVE  TypeOK'
BY DEF TypeOK, Around, CycleType

LEMMA StatementType ==
    ASSUME Around, NEW fails, Statement(fails)
    PROVE  failures' \in Nat
BY DEF Around, Statement

\* What happens outside of the cycle: it goes on with what it has read, and what
\* was in force during it stays noted.
Elsewhere == UNCHANGED <<taskType, cycle, selected, rejected, cycles>> /\ seen \subseteq seen'

LEMMA EventType ==
    ASSUME TypeOK, NEW s \in Sessions,
           \/ \E req \in Registrations, fails \in BOOLEAN : Register(s, req, fails)
           \/ \E req \in Heartbeats : Heartbeat(s, req)
           \/ \E req \in TestResults : LatencyResult(s, req)
           \/ Disconnect(s)
    PROVE  Elsewhere /\ Around' /\ UNCHANGED <<resources, now, seen>>
<1>1. /\ Around /\ sessions[s] \in Snapshot
      /\ \A snap \in Snapshot : [sessions EXCEPT ![s] = snap] \in [Sessions -> Snapshot]
  BY DEF TypeOK, Around
<1>2. ASSUME NEW req \in Registrations, NEW fails \in BOOLEAN, Register(s, req, fails)
      PROVE  /\ UNCHANGED <<taskType, cycle, selected, rejected, cycles, seen, resources, now, usage>>
             /\ sessions' \in [Sessions -> Snapshot] /\ events' \in Nat /\ failures' \in Nat
  <2>1. AvailableExchanges(fails) \in SUBSET Exchanges
    BY SelectionAssumption DEF AvailableExchanges
  <2>2. sessions' \in [Sessions -> Snapshot]
    BY <1>1, <1>2, <2>1, RegisteredType DEF Register
  <2>3. failures' \in Nat /\ events' \in Nat
    BY <1>1, <1>2, StatementType DEF Register, Around
  <2> QED  BY <1>2, <2>2, <2>3 DEF Register
<1>3. ASSUME NEW req \in Heartbeats, Heartbeat(s, req)
      PROVE  /\ UNCHANGED <<taskType, cycle, selected, rejected, cycles, seen, resources, now, usage>>
             /\ sessions' \in [Sessions -> Snapshot] /\ events' \in Nat /\ failures' \in Nat
  <2>1. req.stats \in LatencyMap
    BY PayloadAssumption
  <2>2. WithLoads(WithLatencies(Beaten(sessions[s]), req.stats), req) \in Snapshot
    BY <1>1, <2>1, BeatenType, WithLatenciesType, WithLoadsType
  <2>3. sessions' = [sessions EXCEPT ![s] =
            WithLoads(WithLatencies(Beaten(sessions[s]), req.stats), req)]
    BY <1>3 DEF Heartbeat
  <2>4. sessions' \in [Sessions -> Snapshot]
    BY <1>1, <2>2, <2>3
  <2> QED  BY <1>1, <1>3, <2>4 DEF Heartbeat, Around
<1>4. ASSUME NEW req \in TestResults, LatencyResult(s, req)
      PROVE  /\ UNCHANGED <<taskType, cycle, selected, rejected, cycles, seen, resources, now, usage>>
             /\ sessions' \in [Sessions -> Snapshot] /\ events' \in Nat /\ failures' \in Nat
  <2>1. WithLatencies(sessions[s], ResultLatencies(req)) \in Snapshot
    BY <1>1, ResultLatenciesType, WithLatenciesType
  <2>2. sessions' = [sessions EXCEPT ![s] = WithLatencies(sessions[s], ResultLatencies(req))]
    BY <1>4 DEF LatencyResult
  <2>3. sessions' \in [Sessions -> Snapshot]
    BY <1>1, <2>1, <2>2
  <2> QED  BY <1>1, <1>4, <2>3 DEF LatencyResult, Around
<1>5. ASSUME Disconnect(s)
      PROVE  /\ UNCHANGED <<taskType, cycle, selected, rejected, cycles, seen, resources, now, usage>>
             /\ sessions' \in [Sessions -> Snapshot] /\ events' \in Nat /\ failures' \in Nat
  <2>1. sessions' \in [Sessions -> Snapshot]
    BY <1>1, <1>5, NoSnapshotType DEF Disconnect
  <2> QED  BY <1>1, <1>5, <2>1 DEF Disconnect, Around
<1>6. /\ UNCHANGED <<taskType, cycle, selected, rejected, cycles, seen, resources, now, usage>>
      /\ sessions' \in [Sessions -> Snapshot] /\ events' \in Nat /\ failures' \in Nat
  BY <1>2, <1>3, <1>4, <1>5
<1> QED  BY <1>1, <1>6 DEF Elsewhere, Around

\* While a cycle runs, what is in force is noted.
Noticed == cycle.pc # "idle" => InForce(resources, now) \subseteq seen

LEMMA EnvironmentType ==
    ASSUME TypeOK, Noticed,
           \/ \E t \in Traders, x \in Exchanges, rows \in UsageRows : ReportUsage(t, x, rows)
           \/ Tick
    PROVE  Elsewhere /\ Around' /\ Noticed'
<1>1. Around
  BY TypeParts
<1>2. ASSUME NEW t \in Traders, NEW x \in Exchanges, NEW rows \in UsageRows,
             ReportUsage(t, x, rows)
      PROVE  resources' \in [Traders -> [Exchanges -> SUBSET UsageRow]]
  <2>1. rows \in SUBSET UsageRow
    BY PayloadAssumption
  <2> QED  BY <1>1, <1>2, <2>1 DEF ReportUsage, Around
<1>3. /\ resources' \in [Traders -> [Exchanges -> SUBSET UsageRow]] /\ now' \in Nat
      /\ usage' \in Nat /\ Noted(resources', now')
      /\ UNCHANGED <<taskType, sessions, cycle, selected, rejected, events, failures, cycles>>
  <2>1. CASE Tick
    BY <1>1, <2>1 DEF Tick, Around
  <2>2. ASSUME NEW t \in Traders, NEW x \in Exchanges, NEW rows \in UsageRows,
               ReportUsage(t, x, rows)
        PROVE  /\ now' \in Nat /\ usage' \in Nat /\ Noted(resources', now')
               /\ UNCHANGED <<taskType, sessions, cycle, selected, rejected, events, failures, cycles>>
    BY <1>1, <2>2 DEF ReportUsage, Around, Noted
  <2> QED  BY <1>2, <2>1, <2>2
<1>4. seen' = IF cycle.pc = "idle" THEN seen ELSE seen \cup InForce(resources', now')
  BY <1>3 DEF Noted
<1>5. InForce(resources', now') \subseteq Traders \X Exchanges \X (Load \cup {Absent})
  BY <1>3, InForceType
<1>6. seen \subseteq seen' /\ seen' \subseteq Traders \X Exchanges \X (Load \cup {Absent})
  BY <1>1, <1>4, <1>5 DEF Around
<1>7. Noticed'
  BY <1>3, <1>4 DEF Noticed, InForce
<1> QED  BY <1>1, <1>3, <1>6, <1>7 DEF Elsewhere, Around

\* The steps of the cycle, field by field
LEMMA BeginEffect ==
    ASSUME TypeOK, Shape, BeginCycle
    PROVE  /\ TypeOK' /\ Shape' /\ Noticed'
           /\ cycle'.pc = "resolve" /\ cycle'.current = Absent /\ cycle'.left = {}
           /\ selected' = Absent
<1>1. Around /\ cycle \in CycleType
  BY TypeParts
<1>2. cycle' = [cycle EXCEPT !.pc = "resolve", !.at = now, !.snaps = sessions]
  BY DEF BeginCycle
<1>3. now \in Nat /\ sessions \in [Sessions -> Snapshot] /\ cycle.pc = "idle"
  BY <1>1 DEF Around, BeginCycle
<1>4. cycle' \in CycleType
  BY <1>1, <1>2, <1>3 DEF CycleType
<1>5. /\ cycle'.pc = "resolve" /\ cycle'.current = cycle.current /\ cycle'.left = cycle.left
      /\ cycle'.required = cycle.required /\ cycle'.todo = cycle.todo
  BY <1>1, <1>2 DEF CycleType
<1>6. seen' \subseteq Traders \X Exchanges \X (Load \cup {Absent})
  BY <1>1, InForceType DEF BeginCycle, Around
<1>7. Around'
  BY <1>1, <1>6 DEF Around, BeginCycle
<1>8. TypeOK'
  BY <1>4, <1>7, TypeAfter DEF BeginCycle
<1>9. Shape' /\ cycle'.current = Absent /\ cycle'.left = {}
  BY <1>3, <1>5 DEF Shape, BeginCycle
<1>10. Noticed'
  BY DEF Noticed, BeginCycle, InForce
<1> QED  BY <1>5, <1>8, <1>9, <1>10 DEF BeginCycle

Resolves(required, C) ==
    /\ cycle'.pc = "constrain" /\ cycle'.at = cycle.at /\ cycle'.snaps = cycle.snaps
    /\ cycle'.required = required /\ cycle'.current = Absent
    /\ cycle'.left = IF required = {} THEN {} ELSE C
    /\ cycle'.result = IF required = {} THEN C ELSE {}
    /\ UNCHANGED <<taskType, now, resources, selected, rejected, seen, cycles>>

LEMMA ResolveEffect ==
    ASSUME TypeOK, Shape, NEW refs \in RequiredExchanges, NEW fails \in BOOLEAN,
           ResolveRequired(refs, fails)
    PROVE  /\ TypeOK' /\ Shape'
           /\ cycle.pc = "resolve" /\ selected = Absent
           /\ \E required \in SUBSET Exchanges :
                 Resolves(required, Candidates(cycle.snaps, cycle.at, required))
<1> DEFINE required == RequiredRefs(refs, fails)
           C == Candidates(cycle.snaps, cycle.at, required)
<1>1. Around /\ cycle \in CycleType /\ cycle.pc = "resolve" /\ selected = Absent
  BY TypeParts DEF ResolveRequired, Shape
<1>2. required \in SUBSET Exchanges
  BY PayloadAssumption
  DEF RequiredRefs, RequiredExchanges, ListTradeExchanges, ListMonitorExchanges
<1>3. C \subseteq Candidate
  <2>1. cycle.snaps \in [Sessions -> Snapshot]
    BY <1>1 DEF CycleType
  <2> HIDE DEF required
  <2> QED  BY <1>2, <2>1, CandidatesType
<1> DEFINE left == IF required = {} THEN {} ELSE C
           result == IF required = {} THEN C ELSE {}
<1>4. cycle' = [cycle EXCEPT !.pc = "constrain", !.required = required, !.current = Absent,
                             !.left = left, !.result = result]
  BY DEF ResolveRequired
<1>5. left \in SUBSET Candidate /\ result \in SUBSET Candidate /\ (required = {} => left = {})
  BY <1>3
<1> HIDE DEF required, C
<1>6. /\ cycle'.pc = "constrain" /\ cycle'.at = cycle.at /\ cycle'.snaps = cycle.snaps
      /\ cycle'.required = required /\ cycle'.current = Absent
      /\ cycle'.left = left /\ cycle'.result = result
  BY <1>1, <1>4 DEF CycleType
<1>7. cycle' \in CycleType
  <2> HIDE DEF left, result
  <2> QED  BY <1>1, <1>2, <1>4, <1>5 DEF CycleType
<1>8. UNCHANGED <<taskType, now, sessions, resources, selected, rejected, seen, events, usage, cycles>>
      /\ Statement(fails)
  BY DEF ResolveRequired
<1>9. Around'
  BY <1>1, <1>8, StatementType DEF Around
<1>10. TypeOK'
  BY <1>7, <1>8, <1>9, TypeParts, TypeAfter
<1>11. Shape'
  <2> HIDE DEF left, result
  <2> QED  BY <1>1, <1>5, <1>6, <1>8 DEF Shape
<1>12. Resolves(required, C)
  BY <1>6, <1>8 DEF Resolves
<1> QED  BY <1>1, <1>2, <1>10, <1>11, <1>12 DEF C

\* A candidate is taken up ...
TakesUp(c) ==
    /\ c \in cycle.left /\ c \in Candidate
    /\ cycle'.pc = "constrain" /\ cycle'.at = cycle.at /\ cycle'.snaps = cycle.snaps
    /\ cycle'.required = cycle.required /\ cycle'.result = cycle.result
    /\ cycle'.left = cycle.left \ {c} /\ cycle'.current = c /\ cycle'.todo = cycle.required
    /\ UNCHANGED <<taskType, now, resources, selected, rejected, seen, cycles>>

\* ... or turned away, because its trader was not resolved.
TurnsAway(c) ==
    /\ c \in cycle.left /\ c \in Candidate /\ ~cycle.snaps[c.session].resolved
    /\ cycle'.pc = "constrain" /\ cycle'.at = cycle.at /\ cycle'.snaps = cycle.snaps
    /\ cycle'.required = cycle.required /\ cycle'.result = cycle.result
    /\ cycle'.left = cycle.left \ {c} /\ cycle'.current = Absent
    /\ rejected' = rejected \cup {<<c.session, "missing_trader_db_id">>}
    /\ UNCHANGED <<taskType, now, resources, selected, seen, cycles>>

LEMMA NextCandidateEffect ==
    ASSUME TypeOK, Shape, NextCandidate
    PROVE  /\ TypeOK' /\ Shape'
           /\ cycle.pc = "constrain" /\ cycle.current = Absent
           /\ \E c \in Candidate : TakesUp(c) \/ TurnsAway(c)
<1>1. Around /\ cycle \in CycleType /\ cycle.pc = "constrain" /\ cycle.current = Absent
  BY TypeParts DEF NextCandidate
<1>2. PICK c \in Firsts(cycle.left) :
        \/ /\ cycle' = [cycle EXCEPT !.left = cycle.left \ {c}, !.current = c,
                                     !.todo = cycle.required]
           /\ rejected' = rejected
        \/ /\ ~cycle.snaps[c.session].resolved
           /\ cycle' = [cycle EXCEPT !.left = cycle.left \ {c}]
           /\ rejected' = rejected \cup {<<c.session, "missing_trader_db_id">>}
  BY <1>1 DEF NextCandidate, CycleType
<1>3. c \in cycle.left /\ c \in Candidate /\ c.session \in Sessions
  BY <1>1, <1>2 DEF Firsts, CycleType, Candidate
<1>4. UNCHANGED <<taskType, now, sessions, resources, selected, seen, events, usage, failures, cycles>>
  BY DEF NextCandidate
<1>5. Around'  BY <1>1, <1>4 DEF Around
<1>6. CASE /\ cycle' = [cycle EXCEPT !.left = cycle.left \ {c}, !.current = c,
                                     !.todo = cycle.required]
           /\ rejected' = rejected
  <2>1. cycle' \in CycleType
    BY <1>1, <1>3, <1>6 DEF CycleType
  <2>2. /\ cycle'.pc = "constrain" /\ cycle'.at = cycle.at /\ cycle'.snaps = cycle.snaps
        /\ cycle'.required = cycle.required /\ cycle'.result = cycle.result
        /\ cycle'.left = cycle.left \ {c} /\ cycle'.current = c /\ cycle'.todo = cycle.required
    BY <1>1, <1>6 DEF CycleType
  <2>3. TypeOK'
    BY <1>4, <1>5, <1>6, <2>1, TypeParts, TypeAfter
  <2>4. Shape'
    BY <1>1, <1>3, <1>4, <2>2 DEF Shape
  <2>5. TakesUp(c)
    BY <1>3, <1>4, <1>6, <2>2 DEF TakesUp
  <2> QED  BY <1>1, <1>3, <2>3, <2>4, <2>5
<1>7. CASE /\ ~cycle.snaps[c.session].resolved
           /\ cycle' = [cycle EXCEPT !.left = cycle.left \ {c}]
           /\ rejected' = rejected \cup {<<c.session, "missing_trader_db_id">>}
  <2>1. cycle' \in CycleType
    BY <1>1, <1>7 DEF CycleType
  <2>2. /\ cycle'.pc = "constrain" /\ cycle'.at = cycle.at /\ cycle'.snaps = cycle.snaps
        /\ cycle'.required = cycle.required /\ cycle'.result = cycle.result
        /\ cycle'.left = cycle.left \ {c} /\ cycle'.current = Absent
    BY <1>1, <1>7 DEF CycleType
  <2>3. rejected' \subseteq Sessions \X Reasons
    BY <1>3, <1>7, TypeParts DEF Reasons
  <2>4. TypeOK'
    BY <1>4, <1>5, <2>1, <2>3, TypeParts, TypeAfter
  <2>5. Shape'
    BY <1>1, <1>3, <1>4, <2>2 DEF Shape
  <2>6. TurnsAway(c)
    BY <1>3, <1>4, <1>7, <2>2 DEF TurnsAway
  <2> QED  BY <1>1, <1>3, <2>4, <2>5, <2>6
<1> QED  BY <1>2, <1>6, <1>7

LEMMA AssignEffect ==
    ASSUME TypeOK, Shape, Assign
    PROVE  /\ TypeOK' /\ Shape'
           /\ cycle.pc = "constrain" /\ cycle.current = Absent /\ cycle.left = {}
           /\ cycle'.pc = "idle" /\ cycle'.at = cycle.at /\ cycle'.snaps = cycle.snaps
           /\ cycle'.required = cycle.required /\ cycle'.current = Absent
           /\ cycle'.left = {}
           /\ IF cycle.result = {} THEN selected' = Absent
              ELSE selected' \in Firsts(cycle.result) /\ selected' # Absent
           /\ UNCHANGED <<taskType, now, resources, rejected, seen, cycles>>
<1>1. /\ Around /\ cycle \in CycleType
      /\ cycle.pc = "constrain" /\ cycle.current = Absent /\ cycle.left = {}
  BY TypeParts DEF Assign
<1>2. cycle' = [cycle EXCEPT !.pc = "idle"]
  BY DEF Assign
<1>3. cycle' \in CycleType
  BY <1>1, <1>2 DEF CycleType
<1>4. /\ cycle'.pc = "idle" /\ cycle'.at = cycle.at /\ cycle'.snaps = cycle.snaps
      /\ cycle'.required = cycle.required /\ cycle'.current = Absent
      /\ cycle'.left = {} /\ cycle'.todo = cycle.todo
  BY <1>1, <1>2 DEF CycleType
<1>5. /\ IF cycle.result = {} THEN selected' = Absent
         ELSE selected' \in Firsts(cycle.result) /\ selected' # Absent
      /\ selected' \in Candidate \cup {Absent}
  BY <1>1, SelectionAssumption DEF Assign, Firsts, CycleType
<1>6. UNCHANGED <<taskType, now, sessions, resources, rejected, seen, events, usage, failures, cycles>>
  BY DEF Assign
<1>7. TypeOK'
  <2>1. Around'  BY <1>1, <1>6 DEF Around
  <2> QED  BY <1>3, <1>5, <1>6, <2>1, TypeParts, TypeAfter
<1>8. Shape'
  BY <1>4 DEF Shape
<1> QED  BY <1>1, <1>4, <1>5, <1>6, <1>7, <1>8

\* A lookup drops the candidate it is about ...
Drops(x, util) ==
    /\ \/ rejected' = rejected \cup {<<cycle.current.session, "resource_lookup_error">>}
       \/ /\ util = Absent \/ util >= HardLimit
          /\ rejected \subseteq rejected'
    /\ \E reason \in Reasons : <<cycle.current.session, reason>> \in rejected'
    /\ cycle'.current = Absent /\ cycle'.left = cycle.left /\ cycle'.result = cycle.result

\* ... or adds to its score, and keeps it if there is nothing more to look up.
Keeps(x, util) ==
    \E kept \in Candidate :
        /\ kept.session = cycle.current.session /\ kept.hb = cycle.current.hb
        /\ kept.score = cycle.current.score + SoftPenalty(util)
        /\ util # Absent /\ util < HardLimit
        /\ cycle'.left = cycle.left /\ rejected' = rejected
        /\ IF cycle.todo = {x}
           THEN cycle'.current = Absent /\ cycle'.result = cycle.result \cup {kept}
           ELSE /\ cycle'.current = kept /\ cycle'.result = cycle.result
                /\ cycle'.todo = cycle.todo \ {x}

Looks(x, util) ==
    /\ <<TraderDBID[cycle.current.session], x, util>> \in InForce(resources, now)
    /\ Drops(x, util) \/ Keeps(x, util)
    /\ cycle'.pc = "constrain" /\ cycle'.at = cycle.at /\ cycle'.snaps = cycle.snaps
    /\ cycle'.required = cycle.required
    /\ UNCHANGED <<taskType, now, resources, selected, seen, cycles>>

LEMMA CheckEffect ==
    ASSUME TypeOK, Shape, NEW fails \in BOOLEAN, CheckResource(fails)
    PROVE  /\ TypeOK' /\ Shape'
           /\ cycle.pc = "constrain" /\ cycle.current \in Candidate
           /\ \E x \in cycle.todo, util \in Load \cup {Absent} : Looks(x, util)
<1> DEFINE c == cycle.current
           x == CHOOSE y \in cycle.todo : \A z \in cycle.todo : y <= z
           util == Utilization(resources[TraderDBID[c.session]][x], now)
           verdict == Verdict(util, fails)
           kept == [c EXCEPT !.score = c.score + SoftPenalty(util)]
<1>1. /\ Around /\ cycle \in CycleType /\ cycle.pc = "constrain" /\ c # Absent
      /\ c \in Candidate /\ selected = Absent
  BY TypeParts DEF CheckResource, Shape, CycleType
<1>2. x \in cycle.todo /\ x \in Exchanges
  <2>1. cycle.todo # {} /\ cycle.todo \in SUBSET Exchanges /\ cycle.todo \in SUBSET Nat
    BY <1>1, SelectionAssumption DEF Shape, CycleType
  <2>2. \E y \in cycle.todo : \A z \in cycle.todo : y <= z
    BY <2>1, LowestExists
  <2> QED  BY <2>1, <2>2
<1>3. TraderDBID[c.session] \in Traders /\ c.session \in Sessions
  BY <1>1 DEF Traders, Candidate
<1>4. util \in Load \cup {Absent}
  <2>1. resources[TraderDBID[c.session]][x] \in SUBSET UsageRow /\ now \in Nat
    BY <1>1, <1>2, <1>3 DEF Around
  <2> HIDE DEF x, c
  <2> QED  BY <2>1, UtilizationType
<1>5. <<TraderDBID[c.session], x, util>> \in InForce(resources, now)
  <2> HIDE DEF x, c
  <2> QED  BY <1>2, <1>3 DEF InForce
<1>6. /\ IF verdict # "ok"
         THEN /\ cycle' = [cycle EXCEPT !.current = Absent, !.todo = {}]
              /\ rejected' = rejected \cup {<<c.session, verdict>>}
         ELSE /\ cycle' = IF cycle.todo = {x}
                          THEN [cycle EXCEPT !.current = Absent, !.todo = {},
                                             !.result = cycle.result \cup {kept}]
                          ELSE [cycle EXCEPT !.current = kept, !.todo = cycle.todo \ {x}]
              /\ UNCHANGED rejected
      /\ Statement(fails)
      /\ UNCHANGED <<taskType, now, sessions, resources, selected, seen, events, usage, cycles>>
  BY <1>1 DEF CheckResource, CycleType, Candidate
<1> HIDE DEF x, util
<1>7. /\ verdict = "ok" => util \in Load /\ util # Absent /\ util < HardLimit
      /\ verdict # "ok" => /\ verdict \in Reasons
                           /\ \/ verdict = "resource_lookup_error"
                              \/ util = Absent \/ util >= HardLimit
  <2>1. util \in Load => util \in Int /\ clampUnit(util) = util
    BY Parameters, ClampType DEF Load, clampUnit
  <2>2. \A u \in Int : ~(u >= HardLimit) => u < HardLimit
    BY Parameters
  <2> QED  BY <1>4, <2>1, <2>2 DEF Verdict, Reasons
<1>8. Around'
  BY <1>1, <1>6, StatementType DEF Around
<1> HIDE DEF c, verdict
<1>9. CASE verdict # "ok"
  <2>1. cycle' = [cycle EXCEPT !.current = Absent, !.todo = {}]
        /\ rejected' = rejected \cup {<<c.session, verdict>>}
    BY <1>6, <1>9
  <2>2. cycle' \in CycleType
    BY <1>1, <2>1 DEF CycleType
  <2>3. /\ cycle'.pc = "constrain" /\ cycle'.at = cycle.at /\ cycle'.snaps = cycle.snaps
        /\ cycle'.required = cycle.required /\ cycle'.current = Absent
        /\ cycle'.left = cycle.left /\ cycle'.result = cycle.result
    BY <1>1, <2>1 DEF CycleType
  <2>4. rejected' \subseteq Sessions \X Reasons
    BY <1>3, <1>7, <1>9, <2>1, TypeParts
  <2>5. TypeOK'
    BY <1>1, <1>6, <1>8, <2>2, <2>4, TypeAfter
  <2>6. Shape'
    BY <1>1, <1>6, <2>3 DEF Shape
  <2>7. Drops(x, util)
    BY <1>7, <1>9, <2>1, <2>3 DEF Drops, c
  <2>8. Looks(x, util)
    BY <1>5, <1>6, <2>3, <2>7 DEF Looks, c
  <2> QED  BY <1>1, <1>2, <1>4, <2>5, <2>6, <2>8 DEF c
<1>10. CASE verdict = "ok"
  <2>1. /\ kept \in Candidate /\ kept.session = c.session /\ kept.hb = c.hb
        /\ kept.score = c.score + SoftPenalty(util)
    <3>1. SoftPenalty(util) \in Int /\ c.score \in Int
      BY <1>1, <1>7, <1>10, SoftPenaltyType DEF Candidate
    <3>2. c.score + SoftPenalty(util) \in Int
      BY <3>1
    <3> QED  BY <1>1, <3>2 DEF Candidate
  <2> HIDE DEF kept
  <2>2. /\ cycle' = IF cycle.todo = {x}
                    THEN [cycle EXCEPT !.current = Absent, !.todo = {},
                                       !.result = cycle.result \cup {kept}]
                    ELSE [cycle EXCEPT !.current = kept, !.todo = cycle.todo \ {x}]
        /\ rejected' = rejected
    BY <1>6, <1>10
  <2>3. cycle' \in CycleType
    BY <1>1, <2>1, <2>2 DEF CycleType
  <2>4. /\ cycle'.pc = "constrain" /\ cycle'.at = cycle.at /\ cycle'.snaps = cycle.snaps
        /\ cycle'.required = cycle.required /\ cycle'.left = cycle.left
        /\ IF cycle.todo = {x}
           THEN cycle'.current = Absent /\ cycle'.result = cycle.result \cup {kept}
           ELSE /\ cycle'.current = kept /\ cycle'.result = cycle.result
                /\ cycle'.todo = cycle.todo \ {x}
    BY <1>1, <2>2 DEF CycleType
  <2>5. TypeOK'
    BY <1>1, <1>6, <1>8, <2>2, <2>3, TypeParts, TypeAfter
  <2>6. Shape'
    <3>1. cycle.todo # {} /\ cycle.todo \subseteq cycle.required
      BY <1>1 DEF Shape, c
    <3>2. cycle.todo # {x} => cycle.todo \ {x} # {}
      BY <3>1
    <3> QED  BY <1>1, <1>6, <2>4, <3>1, <3>2 DEF Shape
  <2>7. Keeps(x, util)
    BY <1>7, <1>10, <2>1, <2>2, <2>4 DEF Keeps, c
  <2>8. Looks(x, util)
    BY <1>5, <1>6, <2>4, <2>7 DEF Looks, c
  <2> QED  BY <1>1, <1>2, <1>4, <2>5, <2>6, <2>8 DEF c
<1> QED  BY <1>9, <1>10

-----------------------------------------------------------------------------
(* What the lookups of a cycle have shown.                                 *)

\* Session s had room on exchange x at some moment of the cycle.
HadRoom(s, x) == \E u \in Seen(s, x) : u # Absent /\ u < HardLimit

\* A candidate in the result had room on every required exchange, the one being
\* looked at on those it has behind it.
Vetted ==
    /\ cycle.pc = "constrain" =>
          \A c \in cycle.result, x \in cycle.required : HadRoom(c.session, x)
    /\ cycle.current # Absent =>
          \A x \in cycle.required \ cycle.todo : HadRoom(cycle.current.session, x)

\* There is a reason against session s.
Turned(s) ==
    \/ ~cycle.snaps[s].resolved /\ <<s, "missing_trader_db_id">> \in rejected
    \/ <<s, "resource_lookup_error">> \in rejected
    \/ \E x \in cycle.required : \E u \in Seen(s, x) : u = Absent \/ u >= HardLimit

\* The candidates the cycle still holds
Held == cycle.left \cup cycle.result \cup ({cycle.current} \ {Absent})

\* Every eligible session is still held, or there is a reason against it.
Accounted ==
    cycle.pc = "constrain" =>
        \A s \in Eligibles : Turned(s) \/ \E c \in Held : c.session = s

IInv == /\ TypeOK /\ Shape /\ Noticed
        /\ Vetted /\ LimitRespected
        /\ Accounted /\ IdleHasReason

LEMMA SeenGrows ==
    ASSUME seen \subseteq seen', NEW s, NEW x
    PROVE  /\ Seen(s, x) \subseteq Seen(s, x)'
           /\ HadRoom(s, x) => HadRoom(s, x)'
BY DEF Seen, HadRoom

LEMMA TurnedStays ==
    ASSUME seen \subseteq seen', rejected \subseteq rejected',
           cycle'.required = cycle.required, cycle'.snaps = cycle.snaps, NEW s, Turned(s)
    PROVE  Turned(s)'
BY SeenGrows DEF Turned

\* What was in force when it was looked up is in Seen.
LEMMA LookedUp ==
    ASSUME Noticed, cycle.pc = "constrain", NEW s, NEW x, NEW u \in Load \cup {Absent},
           <<TraderDBID[s], x, u>> \in InForce(resources, now)
    PROVE  u \in Seen(s, x)
BY DEF Noticed, Seen

LEMMA ElsewhereKeeps ==
    ASSUME IInv, Elsewhere, Around', Noticed'
    PROVE  IInv'
<1>1. /\ cycle' = cycle /\ selected' = selected /\ rejected' = rejected /\ cycles' = cycles
      /\ taskType' = taskType /\ seen \subseteq seen' /\ TypeOK
  BY DEF Elsewhere, IInv
<1>2. TypeOK' /\ Shape'
  BY <1>1, TypeParts, TypeAfter DEF Shape, IInv
<1>3. \A s, x : HadRoom(s, x) => HadRoom(s, x)'
  BY <1>1, SeenGrows
<1>4. \A s : Turned(s) => Turned(s)'
  BY <1>1, TurnedStays
<1>5. Vetted'
  BY <1>1, <1>3 DEF Vetted, IInv
<1>6. LimitRespected'
  BY <1>1, <1>3 DEF LimitRespected, HadRoom, IInv
<1>7. Eligibles' = Eligibles /\ Held' = Held
  BY <1>1 DEF Eligibles, Eligible, Held
<1>8. Accounted'
  BY <1>1, <1>4, <1>7 DEF Accounted, IInv
<1>9. IdleHasReason'
  BY <1>1, <1>4, <1>7 DEF IdleHasReason, Turned, IInv
<1> QED  BY <1>2, <1>5, <1>6, <1>8, <1>9 DEF IInv

LEMMA BeginKeeps == ASSUME IInv, BeginCycle PROVE IInv'
<1>1. /\ TypeOK' /\ Shape' /\ Noticed'
      /\ cycle'.pc = "resolve" /\ cycle'.current = Absent /\ selected' = Absent
  BY BeginEffect DEF IInv
<1> QED  BY <1>1 DEF IInv, Vetted, LimitRespected, Accounted, IdleHasReason

LEMMA ResolveKeeps ==
    ASSUME IInv, NEW refs \in RequiredExchanges, NEW fails \in BOOLEAN,
           ResolveRequired(refs, fails)
    PROVE  IInv'
<1>1. /\ TypeOK' /\ Shape' /\ cycle.pc = "resolve" /\ selected = Absent
      /\ \E required \in SUBSET Exchanges :
            Resolves(required, Candidates(cycle.snaps, cycle.at, required))
  BY ResolveEffect DEF IInv
<1>2. PICK required \in SUBSET Exchanges :
        Resolves(required, Candidates(cycle.snaps, cycle.at, required))
  BY <1>1
<1> DEFINE C == Candidates(cycle.snaps, cycle.at, required)
<1>3. /\ cycle'.pc = "constrain" /\ cycle'.at = cycle.at /\ cycle'.snaps = cycle.snaps
      /\ cycle'.required = required /\ cycle'.current = Absent
      /\ cycle'.left = IF required = {} THEN {} ELSE C
      /\ cycle'.result = IF required = {} THEN C ELSE {}
      /\ taskType' = taskType /\ now' = now /\ resources' = resources /\ seen' = seen
      /\ selected' = Absent
  BY <1>1, <1>2 DEF Resolves
<1>4. Noticed'
  BY <1>1, <1>3 DEF IInv, Noticed, InForce
<1>5. Vetted' /\ LimitRespected'
  BY <1>3 DEF Vetted, LimitRespected
<1>6. Eligibles' = {s \in Sessions : Eligible(cycle.snaps[s], cycle.at)}
  BY <1>3 DEF Eligibles, Eligible
<1>7. ASSUME NEW s \in Eligibles'  PROVE \E c \in C : c.session = s
  <2> DEFINE c == [session |-> s, score |-> Score(cycle.snaps[s], required),
                   hb |-> cycle.snaps[s].hb]
  <2>1. c \in C
    BY <1>6 DEF Candidates
  <2>2. c.session = s
    OBVIOUS
  <2> QED  BY <2>1, <2>2
<1> HIDE DEF C
<1>8. C \subseteq Held'
  <2>1. C \subseteq Candidate
    <3>1. cycle.snaps \in [Sessions -> Snapshot]
      BY TypeParts DEF CycleType, IInv
    <3> QED  BY <3>1, CandidatesType DEF C
  <2> QED  BY <1>3 DEF Held
<1>9. Accounted'
  BY <1>7, <1>8 DEF Accounted
<1>10. IdleHasReason'
  BY <1>3 DEF IdleHasReason
<1> QED  BY <1>1, <1>4, <1>5, <1>9, <1>10 DEF IInv

LEMMA TakeUpKeeps == ASSUME IInv, NextCandidate PROVE IInv'
<1>1. /\ TypeOK' /\ Shape' /\ cycle.pc = "constrain" /\ cycle.current = Absent
      /\ \E c \in Candidate : TakesUp(c) \/ TurnsAway(c)
  BY NextCandidateEffect DEF IInv
<1>2. PICK c \in Candidate : TakesUp(c) \/ TurnsAway(c)
  BY <1>1
<1>3. /\ c \in cycle.left
      /\ cycle'.pc = "constrain" /\ cycle'.at = cycle.at /\ cycle'.snaps = cycle.snaps
      /\ cycle'.required = cycle.required /\ cycle'.result = cycle.result
      /\ cycle'.left = cycle.left \ {c}
      /\ taskType' = taskType /\ now' = now /\ resources' = resources /\ seen' = seen
      /\ selected' = selected /\ rejected \subseteq rejected'
      /\ \/ cycle'.current = c /\ cycle'.todo = cycle.required
         \/ cycle'.current = Absent
  BY <1>2 DEF TakesUp, TurnsAway
<1>4. selected = Absent /\ c # Absent
  BY <1>1, SelectionAssumption DEF Shape, IInv
<1>5. Noticed'
  BY <1>1, <1>3 DEF IInv, Noticed, InForce
<1>6. Vetted'
  BY <1>1, <1>3, SeenGrows DEF Vetted, IInv
<1>7. LimitRespected' /\ IdleHasReason'
  BY <1>3, <1>4 DEF LimitRespected, IdleHasReason
<1>8. Eligibles' = Eligibles
  BY <1>3 DEF Eligibles, Eligible
<1>9. \A s : Turned(s) => Turned(s)'
  BY <1>3, TurnedStays
<1>10. \A d \in Held : d \in Held' \/ Turned(d.session)'
  <2>1. CASE TakesUp(c)
    <3>1. cycle'.current = c  BY <2>1 DEF TakesUp
    <3> QED  BY <1>1, <1>3, <1>4, <3>1 DEF Held
  <2>2. CASE TurnsAway(c)
    <3>1. Turned(c.session)'
      BY <2>2 DEF TurnsAway, Turned
    <3> QED  BY <1>1, <1>3, <3>1 DEF Held
  <2> QED  BY <1>2, <2>1, <2>2
<1>11. Accounted'
  BY <1>1, <1>8, <1>9, <1>10 DEF Accounted, IInv
<1> QED  BY <1>1, <1>5, <1>6, <1>7, <1>11 DEF IInv

LEMMA CheckKeeps ==
    ASSUME IInv, NEW fails \in BOOLEAN, CheckResource(fails)
    PROVE  IInv'
<1>1. /\ TypeOK' /\ Shape' /\ cycle.pc = "constrain" /\ cycle.current \in Candidate
      /\ \E x \in cycle.todo, util \in Load \cup {Absent} : Looks(x, util)
  BY CheckEffect DEF IInv
<1>2. PICK x \in cycle.todo, util \in Load \cup {Absent} : Looks(x, util)
  BY <1>1
<1>0. PICK s \in Sessions : s = cycle.current.session
  BY <1>1 DEF Candidate
<1>3. /\ <<TraderDBID[s], x, util>> \in InForce(resources, now)
      /\ cycle'.pc = "constrain" /\ cycle'.at = cycle.at /\ cycle'.snaps = cycle.snaps
      /\ cycle'.required = cycle.required
      /\ taskType' = taskType /\ now' = now /\ resources' = resources /\ seen' = seen
      /\ selected' = selected
      /\ Drops(x, util) \/ Keeps(x, util)
  BY <1>2, <1>0 DEF Looks
<1>4. cycle.current # Absent /\ selected = Absent /\ x \in cycle.required
  BY <1>1, SelectionAssumption DEF Shape, IInv
<1>5. util \in Seen(s, x)
  BY <1>1, <1>3, LookedUp DEF IInv
<1>6. Noticed'
  BY <1>1, <1>3 DEF IInv, Noticed, InForce
<1>7. LimitRespected' /\ IdleHasReason'
  BY <1>3, <1>4 DEF LimitRespected, IdleHasReason
<1>8. Eligibles' = Eligibles
  BY <1>3 DEF Eligibles, Eligible
<1>9. \A r, y : HadRoom(r, y) => HadRoom(r, y)'
  BY <1>3, SeenGrows
<1>10. rejected \subseteq rejected'
  BY <1>3 DEF Drops, Keeps
<1>11. \A r : Turned(r) => Turned(r)'
  BY <1>3, <1>10, TurnedStays
<1>12. /\ \A c \in cycle.result, y \in cycle.required : HadRoom(c.session, y)
       /\ \A y \in cycle.required \ cycle.todo : HadRoom(s, y)
  BY <1>1, <1>4, <1>0 DEF IInv, Vetted
<1>13. CASE Drops(x, util)
  <2>1. cycle'.current = Absent /\ cycle'.left = cycle.left /\ cycle'.result = cycle.result
    BY <1>13 DEF Drops
  <2>2. Turned(s)'
    <3>1. CASE rejected' = rejected \cup {<<s, "resource_lookup_error">>}
      BY <3>1 DEF Turned
    <3>2. CASE util = Absent \/ util >= HardLimit
      <4>1. Turned(s)  BY <1>4, <1>5, <3>2 DEF Turned
      <4> QED  BY <1>11, <4>1
    <3> QED  BY <1>13, <1>0, <3>1, <3>2 DEF Drops
  <2>3. Vetted'
    BY <1>3, <1>9, <1>12, <2>1 DEF Vetted
  <2>4. \A c \in Held : c.session = s \/ c \in Held'
    BY <1>0, <2>1 DEF Held
  <2>5. Accounted'
    BY <1>1, <1>8, <1>11, <2>2, <2>4 DEF Accounted, IInv
  <2> QED  BY <1>1, <1>6, <1>7, <2>3, <2>5 DEF IInv
<1>14. CASE Keeps(x, util)
  <2>1. PICK kept \in Candidate :
          /\ kept.session = s
          /\ util # Absent /\ util < HardLimit
          /\ cycle'.left = cycle.left /\ rejected' = rejected
          /\ IF cycle.todo = {x}
             THEN cycle'.current = Absent /\ cycle'.result = cycle.result \cup {kept}
             ELSE /\ cycle'.current = kept /\ cycle'.result = cycle.result
                  /\ cycle'.todo = cycle.todo \ {x}
    BY <1>14, <1>0 DEF Keeps
  <2>2. HadRoom(s, x) /\ kept # Absent
    BY <1>5, <2>1, SelectionAssumption DEF HadRoom
  <2>3. Vetted'
    <3>1. CASE cycle.todo = {x}
      <4>1. \A y \in cycle.required : HadRoom(s, y)
        BY <1>12, <2>2, <3>1
      <4> QED  BY <1>3, <1>9, <1>12, <2>1, <3>1, <4>1 DEF Vetted
    <3>2. CASE cycle.todo # {x}
      <4>1. \A y \in cycle.required \ (cycle.todo \ {x}) : HadRoom(s, y)
        BY <1>12, <2>2
      <4> QED  BY <1>3, <1>9, <1>12, <2>1, <3>2, <4>1 DEF Vetted
    <3> QED  BY <3>1, <3>2
  <2>4. kept \in Held' /\ \A c \in Held : c.session = s \/ c \in Held'
    BY <1>0, <2>1, <2>2 DEF Held
  <2>5. Accounted'
    BY <1>1, <1>8, <1>11, <2>1, <2>4 DEF Accounted, IInv
  <2> QED  BY <1>1, <1>6, <1>7, <2>3, <2>5 DEF IInv
<1> QED  BY <1>3, <1>13, <1>14

LEMMA AssignKeeps == ASSUME IInv, Assign PROVE IInv'
<1>0. /\ TypeOK' /\ Shape'
      /\ cycle.pc = "constrain" /\ cycle.current = Absent /\ cycle.left = {}
      /\ cycle'.pc = "idle" /\ cycle'.at = cycle.at /\ cycle'.snaps = cycle.snaps
      /\ cycle'.required = cycle.required /\ cycle'.current = Absent
      /\ cycle'.left = {}
      /\ IF cycle.result = {} THEN selected' = Absent
         ELSE selected' \in Firsts(cycle.result) /\ selected' # Absent
      /\ taskType' = taskType /\ rejected' = rejected /\ seen' = seen
  BY AssignEffect DEF IInv
<1>1. IF cycle.result = {} THEN selected' = Absent
      ELSE selected' \in cycle.result /\ selected' # Absent
  BY <1>0 DEF Firsts
<1>2. Noticed' /\ Vetted' /\ Accounted'
  BY <1>0, <1>1 DEF Noticed, Vetted, Accounted
<1>3. \A r, y : HadRoom(r, y) => HadRoom(r, y)'
  BY <1>0, <1>1, SeenGrows
<1>4. \A r : Turned(r) => Turned(r)'
  BY <1>0, <1>1, TurnedStays
<1>5. LimitRespected'
  <2>1. selected' # Absent => \A x \in cycle.required : HadRoom(selected'.session, x)
    BY <1>0, <1>1 DEF Vetted, IInv
  <2> QED  BY <1>0, <1>1, <1>3, <2>1 DEF LimitRespected, HadRoom
<1>6. Eligibles' = Eligibles
  BY <1>0, <1>1 DEF Eligibles, Eligible
<1>7. selected' = Absent => \A s \in Eligibles : Turned(s)
  BY <1>0, <1>1 DEF Accounted, Held, IInv
<1>8. IdleHasReason'
  BY <1>4, <1>6, <1>7 DEF IdleHasReason, Turned
<1> QED  BY <1>0, <1>1, <1>2, <1>5, <1>8 DEF IInv

LEMMA InvInit == Init => IInv
<1> SUFFICES ASSUME Init PROVE IInv
  OBVIOUS
<1>1. /\ cycle.pc = "idle" /\ cycle.left = {} /\ cycle.current = Absent /\ selected = Absent
      /\ rejected = {} /\ cycles = 0
  BY DEF Init, NoCycle
<1>2. cycle \in CycleType
  <2>1. [s \in Sessions |-> NoSnapshot] \in [Sessions -> Snapshot]
    BY NoSnapshotType
  <2> QED  BY <2>1 DEF Init, NoCycle, CycleType
<1>3. resources \in [Traders -> [Exchanges -> SUBSET UsageRow]]
  <2>1. InitialRows \subseteq SUBSET UsageRow
    BY PayloadAssumption
  <2>2. resources \in [Traders -> [Exchanges -> InitialRows]]
    BY DEF Init
  <2>3. [Exchanges -> InitialRows] \subseteq [Exchanges -> SUBSET UsageRow]
    BY <2>1
  <2> QED  BY <2>2, <2>3
<1>4. Around
  <2>1. taskType \in {"trade", "monitor"}
    BY DEF Init, normalizeTaskType
  <2>2. sessions \in [Sessions -> Snapshot]
    BY NoSnapshotType DEF Init
  <2> QED  BY <1>3, <2>1, <2>2 DEF Init, Around
<1>5. TypeOK /\ Shape
  BY <1>1, <1>2, <1>4, TypeParts DEF Shape
<1> QED
  BY <1>1, <1>5
  DEF IInv, Noticed, Vetted, LimitRespected, Accounted, IdleHasReason

LEMMA InvNext == IInv /\ [Next]_vars => IInv'
<1> SUFFICES ASSUME IInv, [Next]_vars PROVE IInv'
  OBVIOUS
<1>0. TypeOK /\ Around /\ Noticed
  BY TypeParts DEF IInv
<1>1. ASSUME NEW s \in Sessions,
             \/ \E req \in Registrations, fails \in BOOLEAN : Register(s, req, fails)
             \/ \E req \in Heartbeats : Heartbeat(s, req)
             \/ \E req \in TestResults : LatencyResult(s, req)
             \/ Disconnect(s)
      PROVE  IInv'
  <2>1. Elsewhere /\ Around' /\ UNCHANGED <<resources, now, seen>>
    BY <1>0, <1>1, EventType
  <2>2. Noticed'
    BY <1>0, <2>1 DEF Noticed, InForce, Elsewhere
  <2> QED  BY <2>1, <2>2, ElsewhereKeeps
<1>2. CASE \/ \E t \in Traders, x \in Exchanges, rows \in UsageRows : ReportUsage(t, x, rows)
           \/ Tick
  BY <1>0, <1>2, EnvironmentType, ElsewhereKeeps
<1>3. CASE BeginCycle \/ NextCandidate \/ Assign
  BY <1>3, BeginKeeps, TakeUpKeeps, AssignKeeps
<1>4. ASSUME NEW refs \in RequiredExchanges, NEW fails \in BOOLEAN,
             ResolveRequired(refs, fails)
      PROVE  IInv'
  BY <1>4, ResolveKeeps
<1>5. ASSUME NEW fails \in BOOLEAN, CheckResource(fails)
      PROVE  IInv'
  BY <1>5, CheckKeeps
<1>6. CASE UNCHANGED vars
  <2>1. Elsewhere
    BY <1>6 DEF vars, Elsewhere
  <2>2. Around' /\ Noticed'
    BY <1>0, <1>6 DEF vars, Around, Noticed, InForce
  <2> QED  BY <2>1, <2>2, ElsewhereKeeps
<1> QED  BY <1>1, <1>2, <1>3, <1>4, <1>5, <1>6 DEF Next

LEMMA InvAlways == Spec => []IInv
BY InvInit, InvNext, PTL DEF Spec

\* Every variable keeps its type: in particular every CHOOSE of the scoring has a
\* value (the percentile, the slowest and the fastest exchange, the highest
\* utilization), loads stay in their range, and scores are numbers.
THEOREM TypeCorrect == Spec => []TypeOK
<1>1. IInv => TypeOK  BY DEF IInv
<1> QED  BY <1>1, InvAlways, PTL

\* The task goes to a trader that had room below the hard limit on every required
\* exchange at some moment of the cycle, however the rows change and windows are
\* reset between the lookups (applyResourceConstraints).
THEOREM LimitsRespected == Spec => []LimitRespected
<1>1. IInv => LimitRespected  BY DEF IInv
<1> QED  BY <1>1, InvAlways, PTL

\* A cycle that assigns nothing has a reason against every session that was eligible
\* when it began, the trader that was not resolved included: none is lost between the sorts and the lookups (runCycle,
\* applyResourceConstraints).
THEOREM IdlenessHasReasons == Spec => []IdleHasReason
<1>1. IInv => IdleHasReason  BY DEF IInv
<1> QED  BY <1>1, InvAlways, PTL
=============================================================================
