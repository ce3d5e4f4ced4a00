------------------------- MODULE CandidateSelection -------------------------
(***************************************************************************)
(* Whom the scheduler picks: from the telemetry a trader reports to the    *)
(* session an assignment cycle selects.                                    *)
(*                                                                         *)
(* Registrations, heartbeats and latency results change the snapshot of a  *)
(* session while a cycle works on the copy it has taken.  The cycle then   *)
(* asks the database which exchanges the task needs, ranks the sessions,   *)
(* and looks up, one statement at a time, how much of its limits each      *)
(* trader has used; those rows change in between, too.                     *)
(*                                                                         *)
(* The code's fractions are integers here.  Loads and utilizations are     *)
(* counted in 1/Unit, scores in 1/Scale ms, where Scale is a multiple of   *)
(* every denominator in the code's formulas: no rounding is left out but   *)
(* that of float64.                                                        *)
(***************************************************************************)
EXTENDS Integers, FiniteSets

CONSTANTS Sessions,
          TraderID,        \* TraderID[s]: the rank in string order of the trader_id of session s,
                           \*     as normalizeTraderIDForProtocol leaves it: two CNs can share it
          TraderDBID,      \* TraderDBID[s]: the row of its CN in TRADER
          Exchanges,       \* a set of naturals: ids in the order of the names
          TaskTypes,       \* what Config.TaskType can be
          HealthyWindow,   \* in seconds, as is the clock
          Unit,            \* a load or utilization of 1.0
          HardLimit,       \* resourceHard, resourceSoft and resourceW, as NewEngine
          SoftLimit,       \*     leaves them
          SoftPenaltyMs,
          Catalog,         \* the exchanges ListAvailableExchanges finds enabled
          Registrations,   \* the payloads of trader.register, the trader's STATUS, and whether
                           \*     there is persistence to resolve the trader with
          Heartbeats,      \* the payloads of trader.heartbeat
          TestResults,     \* the payloads of latency.test_result
          TradeExchanges,  \* what the queries for the exchanges of active trades and
          MonitoredExchanges, \*  of active monitorings can find
          InitialRows,     \* what TRADER_EXCHANGE_RESOURCE holds for a trader and exchange
          UsageRows,       \*     at first, and what it can hold later
          Absent,          \* a nil pointer, a missing row
          MaxTime,         \* bound: the clock stops here
          MaxEvents,       \* bound: registrations, telemetry, disconnects
          MaxUsage,        \* bound: changes of the usage rows
          MaxFailures,     \* bound: statements that fail
          MaxCycles        \* bound: assignment cycles

Traders == {TraderDBID[s] : s \in Sessions}

\* A latency map: negative stands for an exchange that is not in it.
LatencyMap == [Exchanges -> Int]

Load == 0 .. Unit

\* What the cycle reads of a row of TRADER_EXCHANGE_RESOURCE: USED_VALUE / MAX_VALUE,
\* if they can be read, and RESET_AT, 0 if it is not set.
UsageRow == [util : Int \cup {Absent}, resetAt : Nat]

\* TRADER.STATUS, and "" for a trader that was not resolved
TraderStatus == {"", "pending", "active", "suspended", "decommissioned"}

\* An element of the list of candidates: session, score and last heartbeat
Candidate == [session : Sessions, score : Int, hb : Int]

ASSUME SelectionAssumption ==
    /\ IsFiniteSet(Sessions) /\ IsFiniteSet(Exchanges)
    /\ TraderID \in [Sessions -> Nat] /\ TraderDBID \in [Sessions -> Nat]
    /\ Exchanges \subseteq Nat /\ Catalog \subseteq Exchanges
    /\ TaskTypes \subseteq STRING
    /\ {HealthyWindow, MaxTime, MaxEvents, MaxUsage, MaxFailures, MaxCycles} \subseteq Nat
    /\ Absent \notin Int \cup Candidate
ASSUME LimitAssumption ==
    /\ {Unit, HardLimit, SoftLimit, SoftPenaltyMs} \subseteq Nat
    /\ 0 < SoftLimit /\ SoftLimit < HardLimit /\ HardLimit < Unit
    /\ 0 < SoftPenaltyMs
ASSUME PayloadAssumption ==
    /\ Registrations \subseteq [role : STRING, capabilities : SUBSET Exchanges,
                                load : Int \cup {Absent}, tradeLoad : Int \cup {Absent},
                                status : TraderStatus, resolved : BOOLEAN]
    /\ Heartbeats \subseteq [stats : LatencyMap, load : Int \cup {Absent},
                             tradeLoad : Int \cup {Absent}]
    /\ TestResults \subseteq [stats : LatencyMap, results : [Exchanges -> [1 .. 3 -> Int]]]
    /\ TradeExchanges \cup MonitoredExchanges \subseteq SUBSET Exchanges
    /\ InitialRows \cup UsageRows \subseteq SUBSET UsageRow

VARIABLES taskType,   \* Engine.taskType
          now,        \* the clock
          sessions,   \* Handler.sessions: the snapshot of a session, or NoSnapshot
          resources,  \* resources[t][x]: the rows of TRADER_EXCHANGE_RESOURCE
          cycle,      \* the locals of runCycle and applyResourceConstraints
          selected,   \* the candidate the last cycle handed to assignWithRetry, or Absent
          rejected,   \* the rejections this cycle has counted: <<session, reason>>
          seen,       \* history: <<t, x, u>>, a utilization in force during this cycle
          events,     \* history: how many events of the traders there were
          usage,      \* history: how often the usage rows changed
          failures,   \* history: how many statements failed
          cycles      \* Engine.cycles

vars == <<taskType, now, sessions, resources, cycle, selected, rejected, seen, events, usage, failures, cycles>>

-----------------------------------------------------------------------------
(* Latency profiles and scores.                                            *)

\* ms to scores: 0.10 of a spread, the squares of a load and of a soft excess
Scale == 10 * (Unit * Unit) * ((Unit - SoftLimit) * (Unit - SoftLimit))

Ms(v) == v * Scale

missingLatencyProfilePenalty == Ms(5000)
missingExchangePenalty == Ms(300)

\* normalizeUnitRange
Clamp(v) == IF v < 0 THEN 0 ELSE IF v > Unit THEN Unit ELSE v

\* The same of the scheduler, which trusts no snapshot and no lookup
clampUnit(v) == Clamp(v)

normalizeTaskType(v) == IF v = "monitor" THEN "monitor" ELSE "trade"

\* The role of a session, and again the scheduler's own check of it
normalizeTraderRole(v) == IF v \in {"monitor", "trade", "both"} THEN v ELSE "both"
normalizeRole(v) == normalizeTraderRole(v)

\* The exchanges a latency map holds a usable figure for
Measured(lat) == {x \in Exchanges : lat[x] >= 0}

NoLatencies == [x \in Exchanges |-> -1]

\* The element of sorted latencies at ceil(0.95 * n) - 1: at least 95% of the
\* exchanges in X are as fast, and it is the fastest of this kind.
Percentile95(lat, X) ==
    LET rank == (95 * Cardinality(X) + 99) \div 100
    IN  CHOOSE v \in {lat[x] : x \in X} :
            /\ Cardinality({x \in X : lat[x] <= v}) >= rank
            /\ Cardinality({x \in X : lat[x] < v}) < rank

Slowest(lat, X) == CHOOSE v \in {lat[x] : x \in X} : \A x \in X : lat[x] <= v
Fastest(lat, X) == CHOOSE v \in {lat[x] : x \in X} : \A x \in X : v <= lat[x]

\* p95 + 0.10 * spread over X, and a penalty for each exchange without a figure
RobustProfile(lat, X, missing) ==
    Ms(Percentile95(lat, X)) + (Slowest(lat, X) - Fastest(lat, X)) * (Scale \div 10)
        + missing * missingExchangePenalty

\* buildLatencyProfileFromLatencyMap: Absent if no exchange of the session is in
\* the map.  Without effective exchanges all of the map counts.
LatencyProfile(lat, effective) ==
    LET X == IF effective = {} THEN Measured(lat) ELSE Measured(lat) \cap effective
    IN  IF X = {} THEN Absent ELSE RobustProfile(lat, X, Cardinality(effective \ X))

\* estimateLatencyProfileMsForTask and estimateLatencyProfileMs
EstimateLatency(snap, required) ==
    LET X == required \cap Measured(snap.latencies) IN
    IF required = {}
    THEN IF snap.profile > 0 THEN snap.profile ELSE missingLatencyProfilePenalty
    ELSE IF X = {}
    THEN missingLatencyProfilePenalty + Cardinality(required) * missingExchangePenalty
    ELSE RobustProfile(snap.latencies, X, Cardinality(required \ X))

\* Mutation: the load is taken for the capacity that is free.
QuadraticOfFree(weight, load) == weight * (Unit - load) * (Unit - load) * (Scale \div (Unit * Unit))

\* weight * (load / Unit)^2
Quadratic(weight, load) == weight * load * load * (Scale \div (Unit * Unit))

scoreTrade(latency, load) == latency + Quadratic(1000, load)

monitorRolePenalty(role) ==
    CASE role = "monitor" -> 0 [] role = "trade" -> 300 [] OTHER -> 100

scoreMonitor(tradeLoad, load, role) ==
    Quadratic(1000, tradeLoad) + Quadratic(200, load) + Ms(monitorRolePenalty(role))

\* A trade load that was not reported is the load.
TradeLoad(load, tradeLoad) == IF tradeLoad = 0 THEN load ELSE tradeLoad

Score(snap, required) ==
    LET load == clampUnit(snap.load)
        tradeLoad == TradeLoad(load, clampUnit(snap.tradeLoad)) IN
    IF taskType = "monitor"
    THEN scoreMonitor(tradeLoad, load, normalizeRole(snap.role))
    ELSE scoreTrade(EstimateLatency(snap, required), load)

\* resourceW * ((util - resourceSoft) / (1 - resourceSoft))^2
SoftPenalty(util) ==
    IF util <= SoftLimit THEN 0
    ELSE SoftPenaltyMs * (util - SoftLimit) * (util - SoftLimit)
            * (Scale \div ((Unit - SoftLimit) * (Unit - SoftLimit)))

-----------------------------------------------------------------------------
(* Snapshots.                                                              *)

NoSnapshot == [state |-> "none", hb |-> 0, status |-> "", resolved |-> FALSE,
               role |-> "both", effective |-> {}, load |-> 0, tradeLoad |-> 0,
               profile |-> 0, latencies |-> NoLatencies]

\* buildEffectiveExchanges
EffectiveExchanges(capabilities, available) ==
    IF capabilities = {} THEN available ELSE capabilities \cap available

\* Bound: once the last cycle is over nothing more happens.
Going == cycle.pc # "idle" \/ cycles < MaxCycles

\* A statement of the action may fail.
Statement(fails) ==
    /\ fails => failures < MaxFailures
    /\ failures' = IF fails THEN failures + 1 ELSE failures

Reported(v) == IF v = Absent THEN 0 ELSE Clamp(v)

\* ListAvailableExchanges: if it fails, no exchange is available.
AvailableExchanges(fails) == IF fails THEN {} ELSE Catalog

\* markRegistered, setRegistrationInfo and setTelemetry of a new session
Registered(req, available) ==
    [state |-> "registered", hb |-> 0, status |-> req.status, resolved |-> req.resolved,
     role |-> normalizeTraderRole(req.role),
     effective |-> EffectiveExchanges(req.capabilities, available),
     load |-> Reported(req.load),
     tradeLoad |-> TradeLoad(Reported(req.load), Reported(req.tradeLoad)),
     profile |-> 0, latencies |-> NoLatencies]

\* trader.register, as far as the snapshot is concerned
Register(s, req, fails) ==
    /\ events < MaxEvents /\ Going
    /\ sessions[s].state = "none"
    /\ sessions' = [sessions EXCEPT ![s] = Registered(req, AvailableExchanges(fails))]
    /\ events' = events + 1
    /\ Statement(fails)
    /\ UNCHANGED <<taskType, now, resources, cycle, selected, rejected, seen, usage, cycles>>

\* setExchangeLatencies, setLatencyProfile: a map with a figure in it replaces the
\* old one as a whole, and the profile if it has one for an effective exchange.
WithLatencies(snap, lat) ==
    LET profile == LatencyProfile(lat, snap.effective) IN
    IF Measured(lat) = {} THEN snap
    ELSE [snap EXCEPT !.latencies = lat,
                      !.profile = IF profile = Absent THEN @ ELSE profile]

\* The loads of a heartbeat: a trade load that is left out follows the load.
WithLoads(snap, req) ==
    LET load == IF req.load = Absent THEN snap.load ELSE Clamp(req.load) IN
    [snap EXCEPT !.load = load,
                 !.tradeLoad = IF req.tradeLoad # Absent THEN Clamp(req.tradeLoad)
                               ELSE IF req.load # Absent THEN load ELSE @]

\* markHeartbeat
Beaten(snap) == [snap EXCEPT !.hb = now, !.state = "active"]

\* trader.heartbeat, once LAST_HEARTBEAT is written
Heartbeat(s, req) ==
    /\ events < MaxEvents /\ Going
    /\ sessions[s].state # "none"
    /\ sessions' = [sessions EXCEPT ![s] =
          WithLoads(WithLatencies(Beaten(@), req.stats), req)]
    /\ events' = events + 1
    /\ UNCHANGED <<taskType, now, resources, cycle, selected, rejected, seen, usage, failures, cycles>>

\* selectLatencyValue: the first of the WebSocket, ping and order latency there is
SelectLatency(t) ==
    IF t[1] >= 0 THEN t[1] ELSE IF t[2] >= 0 THEN t[2] ELSE IF t[3] >= 0 THEN t[3] ELSE -1

\* extractLatencyMap, else mapLatencyResults
ResultLatencies(req) ==
    IF Measured(req.stats) # {} THEN req.stats
    ELSE [x \in Exchanges |-> SelectLatency(req.results[x])]

\* latency.test_result; one without a figure is refused.
LatencyResult(s, req) ==
    /\ events < MaxEvents /\ Going
    /\ sessions[s].state # "none"
    /\ Measured(ResultLatencies(req)) # {}
    /\ sessions' = [sessions EXCEPT ![s] = WithLatencies(@, ResultLatencies(req))]
    /\ events' = events + 1
    /\ UNCHANGED <<taskType, now, resources, cycle, selected, rejected, seen, usage, failures, cycles>>

\* deleteSessionSnapshot, when the connection ends
Disconnect(s) ==
    /\ events < MaxEvents /\ Going
    /\ sessions[s].state # "none"
    /\ sessions' = [sessions EXCEPT ![s] = NoSnapshot]
    /\ events' = events + 1
    /\ UNCHANGED <<taskType, now, resources, cycle, selected, rejected, seen, usage, failures, cycles>>

\* GetTraderExchangeUtilization: the highest of the rows.  A window that has been
\* reset counts as unused; a row whose figures cannot be read does not count.
Utilization(rows, at) ==
    LET reset(r) == r.resetAt # 0 /\ at > r.resetAt
        counted  == {r \in rows : reset(r) \/ r.util # Absent}
        used     == {0} \cup {Clamp(r.util) : r \in {q \in counted : ~reset(q)}}
    IN  IF counted = {} THEN Absent ELSE CHOOSE u \in used : \A v \in used : v <= u

\* What lookups at this moment would return
InForce(rows, at) ==
    {<<t, x, Utilization(rows[t][x], at)>> : t \in Traders, x \in Exchanges}

\* The database's rows and the clock change on their own.  A utilization that
\* comes into force while a cycle runs is noted.
Noted(rows, at) ==
    seen' = IF cycle.pc = "idle" THEN seen ELSE seen \cup InForce(rows, at)

ReportUsage(t, x, rows) ==
    /\ usage < MaxUsage /\ Going
    /\ rows # resources[t][x]
    /\ resources' = [resources EXCEPT ![t][x] = rows]
    /\ Noted(resources', now)
    /\ usage' = usage + 1
    /\ UNCHANGED <<taskType, now, sessions, cycle, selected, rejected, events, failures, cycles>>

Tick ==
    /\ now < MaxTime /\ Going
    /\ now' = now + 1
    /\ Noted(resources, now')
    /\ UNCHANGED <<taskType, sessions, resources, cycle, selected, rejected, events, usage, failures, cycles>>

-----------------------------------------------------------------------------
(* The assignment cycle.                                                   *)

\* The sessions selectCandidatesInternal keeps
Eligible(snap, at) ==
    /\ snap.status \in {"", "active"}
    /\ snap.state = "active"
    /\ snap.hb > 0 /\ at - snap.hb <= HealthyWindow
    /\ ~(taskType = "trade" /\ normalizeRole(snap.role) = "monitor")

Candidates(snaps, at, required) ==
    {[session |-> s, score |-> Score(snaps[s], required), hb |-> snaps[s].hb] :
        s \in {r \in Sessions : Eligible(snaps[r], at)}}

\* The order both sorts use: score, then the later heartbeat, then the trader_id
Before(a, b) ==
    \/ a.score < b.score
    \/ a.score = b.score /\ a.hb > b.hb
    \/ a.score = b.score /\ a.hb = b.hb /\ TraderID[a.session] < TraderID[b.session]

\* Any of these can come first: the snapshots are listed in the order of a map.
Firsts(C) == {c \in C : \A d \in C : ~Before(d, c)}

\* runCycle copies the snapshots ...
BeginCycle ==
    /\ cycle.pc = "idle" /\ cycles < MaxCycles
    /\ cycle' = [cycle EXCEPT !.pc = "resolve", !.at = now, !.snaps = sessions]
    /\ selected' = Absent /\ rejected' = {}
    /\ seen' = InForce(resources, now)
    /\ cycles' = cycles + 1
    /\ UNCHANGED <<taskType, now, sessions, resources, events, usage, failures>>

ListTradeExchanges == TradeExchanges
ListMonitorExchanges == MonitoredExchanges

\* What the query for this type of task can find
RequiredExchanges == IF taskType = "monitor" THEN ListMonitorExchanges ELSE ListTradeExchanges

\* resolveRequiredExchangeRefs: an error is taken for no requirements.
RequiredRefs(refs, fails) == IF fails THEN {} ELSE refs

\* ... asks which exchanges are required and ranks the candidates.  Without
\* requirements there is nothing to look up.
ResolveRequired(refs, fails) ==
    /\ cycle.pc = "resolve"
    /\ LET required == RequiredRefs(refs, fails)
           C == Candidates(cycle.snaps, cycle.at, required) IN
       cycle' = [cycle EXCEPT !.pc = "constrain", !.required = required, !.current = Absent,
                              !.left = IF required = {} THEN {} ELSE C,
                              !.result = IF required = {} THEN C ELSE {}]
    /\ Statement(fails)
    /\ UNCHANGED <<taskType, now, sessions, resources, selected, rejected, seen, events, usage, cycles>>

\* applyResourceConstraints takes the candidates in order, turns down a trader
\* without a row in TRADER ...
NextCandidate ==
    /\ cycle.pc = "constrain" /\ cycle.current = Absent
    /\ \E c \in Firsts(cycle.left) :
          \/ /\ cycle.snaps[c.session].resolved
             /\ cycle' = [cycle EXCEPT !.left = @ \ {c}, !.current = c, !.todo = cycle.required]
             /\ UNCHANGED rejected
          \/ /\ ~cycle.snaps[c.session].resolved
             /\ cycle' = [cycle EXCEPT !.left = @ \ {c}]
             /\ rejected' = rejected \cup {<<c.session, "missing_trader_db_id">>}
    /\ UNCHANGED <<taskType, now, sessions, resources, selected, seen, events, usage, failures, cycles>>

\* Mutation: a trader at the limit passes.
VerdictAbove(util, fails) ==
    IF fails THEN "resource_lookup_error"
    ELSE IF util = Absent THEN "missing_resource"
    ELSE IF util > HardLimit THEN "hard_limit" ELSE "ok"

\* Mutation: the soft limit turns traders down.
VerdictSoft(util, fails) ==
    IF fails THEN "resource_lookup_error"
    ELSE IF util = Absent THEN "missing_resource"
    ELSE IF util >= SoftLimit THEN "hard_limit" ELSE "ok"

\* What one lookup leads to: a reason to drop the candidate, or none
Verdict(util, fails) ==
    IF fails THEN "resource_lookup_error"
    ELSE IF util = Absent THEN "missing_resource"
    ELSE IF clampUnit(util) >= HardLimit THEN "hard_limit" ELSE "ok"

\* ... and looks up its exchanges one after the other, until one speaks against it.
CheckResource(fails) ==
    LET c == cycle.current
        x == CHOOSE y \in cycle.todo : \A z \in cycle.todo : y <= z
        util == Utilization(resources[TraderDBID[c.session]][x], now)
        verdict == Verdict(util, fails)
        kept == [c EXCEPT !.score = @ + SoftPenalty(util)]
    IN
    /\ cycle.pc = "constrain" /\ c # Absent
    /\ IF verdict # "ok"
       THEN /\ cycle' = [cycle EXCEPT !.current = Absent, !.todo = {}]
            /\ rejected' = rejected \cup {<<c.session, verdict>>}
       ELSE /\ cycle' = IF cycle.todo = {x}
                        THEN [cycle EXCEPT !.current = Absent, !.todo = {}, !.result = @ \cup {kept}]
                        ELSE [cycle EXCEPT !.current = kept, !.todo = @ \ {x}]
            /\ UNCHANGED rejected
    /\ Statement(fails)
    /\ UNCHANGED <<taskType, now, sessions, resources, selected, seen, events, usage, cycles>>

\* The candidates left are sorted again, and the first is assigned the task.
Assign ==
    /\ cycle.pc = "constrain" /\ cycle.current = Absent /\ cycle.left = {}
    /\ IF cycle.result = {} THEN selected' = Absent ELSE selected' \in Firsts(cycle.result)
    /\ cycle' = [cycle EXCEPT !.pc = "idle"]
    /\ UNCHANGED <<taskType, now, sessions, resources, rejected, seen, events, usage, failures, cycles>>

-----------------------------------------------------------------------------
NoCycle == [pc |-> "idle", at |-> 0, snaps |-> [s \in Sessions |-> NoSnapshot], required |-> {},
            left |-> {}, current |-> Absent, todo |-> {}, result |-> {}]

Init ==
    /\ taskType \in {normalizeTaskType(v) : v \in TaskTypes}
    /\ now = 1
    /\ sessions = [s \in Sessions |-> NoSnapshot]
    /\ resources \in [Traders -> [Exchanges -> InitialRows]]
    /\ cycle = NoCycle
    /\ selected = Absent /\ rejected = {} /\ seen = {}
    /\ events = 0 /\ usage = 0 /\ failures = 0 /\ cycles = 0

Next ==
    \/ \E s \in Sessions :
          \/ \E req \in Registrations, fails \in BOOLEAN : Register(s, req, fails)
          \/ \E req \in Heartbeats : Heartbeat(s, req)
          \/ \E req \in TestResults : LatencyResult(s, req)
          \/ Disconnect(s)
    \/ \E t \in Traders, x \in Exchanges, rows \in UsageRows : ReportUsage(t, x, rows)
    \/ Tick
    \/ BeginCycle
    \/ \E refs \in RequiredExchanges, fails \in BOOLEAN : ResolveRequired(refs, fails)
    \/ NextCandidate
    \/ \E fails \in BOOLEAN : CheckResource(fails)
    \/ Assign

Spec == Init /\ [][Next]_vars

-----------------------------------------------------------------------------
(* Properties.                                                             *)

Snapshot == [state : {"none", "registered", "active"}, hb : Int, status : TraderStatus,
             resolved : BOOLEAN, role : {"monitor", "trade", "both"}, effective : SUBSET Exchanges,
             load : Load, tradeLoad : Load, profile : Int, latencies : LatencyMap]

Reasons == {"missing_trader_db_id", "resource_lookup_error", "missing_resource", "hard_limit"}

TypeOK ==
    /\ taskType \in {"trade", "monitor"}
    /\ now \in Nat /\ events \in Nat /\ usage \in Nat /\ failures \in Nat /\ cycles \in Nat
    /\ sessions \in [Sessions -> Snapshot]
    /\ resources \in [Traders -> [Exchanges -> SUBSET UsageRow]]
    /\ cycle \in [pc : {"idle", "resolve", "constrain"}, at : Nat, snaps : [Sessions -> Snapshot],
                  required : SUBSET Exchanges, left : SUBSET Candidate,
                  current : Candidate \cup {Absent}, todo : SUBSET Exchanges,
                  result : SUBSET Candidate]
    /\ selected \in Candidate \cup {Absent}
    /\ rejected \subseteq Sessions \X Reasons
    /\ seen \subseteq Traders \X Exchanges \X (Load \cup {Absent})

\* The utilizations session s's trader had on exchange x while the cycle ran
Seen(s, x) == {u \in Load \cup {Absent} : <<TraderDBID[s], x, u>> \in seen}

\* The sessions this cycle could choose from
Eligibles == {s \in Sessions : Eligible(cycle.snaps[s], cycle.at)}

\* The task goes to a trader that had room, below the hard limit, on every exchange
\* the cycle found required, at some moment of the cycle: not to one whose row was
\* full or missing throughout (applyResourceConstraints, with rows that change and
\* windows that are reset between its lookups).
LimitRespected ==
    selected # Absent =>
        \A x \in cycle.required : \E u \in Seen(selected.session, x) :
            u # Absent /\ u < HardLimit

\* A cycle that assigns nothing (no_candidates) has a reason for every eligible
\* session: its trader was not resolved and the cycle says so, a lookup failed, or a row
\* was full or missing on a required exchange at some moment of the cycle.
IdleHasReason ==
    cycle.pc = "idle" /\ cycles > 0 /\ selected = Absent =>
        \A s \in Eligibles :
            \/ ~cycle.snaps[s].resolved /\ <<s, "missing_trader_db_id">> \in rejected
            \/ <<s, "resource_lookup_error">> \in rejected
            \/ \E x \in cycle.required : \E u \in Seen(s, x) : u = Absent \/ u >= HardLimit

\* What README.md ranks traders by: for a trade the 95th percentile over the
\* required exchanges, their spread, the exchanges without a figure and the load;
\* for monitoring the trade load, the load and the role.
Figures(snap) ==
    LET X == cycle.required \cap Measured(snap.latencies) IN
    IF taskType = "monitor"
    THEN <<TradeLoad(snap.load, snap.tradeLoad), snap.load, monitorRolePenalty(snap.role), 0>>
    ELSE IF X = {} THEN <<EstimateLatency(snap, cycle.required), 0, 0, snap.load>>
    ELSE <<Ms(Percentile95(snap.latencies, X)),
           Ms(Slowest(snap.latencies, X) - Fastest(snap.latencies, X)),
           Cardinality(cycle.required \ X), snap.load>>

\* How far a utilization is in the soft zone
Excess(u) == IF u > SoftLimit THEN u - SoftLimit ELSE 0

\* Exchange x was never fuller for session r than for s while the cycle ran ...
NotFuller(r, s, x) ==
    \A u \in Seen(r, x), v \in Seen(s, x) :
        u # Absent /\ v # Absent /\ Excess(u) <= Excess(v)

\* ... and was always less full beyond the soft limit.
LessFull(r, s, x) ==
    \A u \in Seen(r, x), v \in Seen(s, x) :
        u # Absent /\ v # Absent /\ Excess(u) < Excess(v)

\* Session r was plainly the better choice than s: no figure is worse, no exchange is
\* fuller, and one figure is better or one exchange is further from the soft zone.
PlainlyBetter(r, s) ==
    LET F == Figures(cycle.snaps[r])
        G == Figures(cycle.snaps[s])
    IN  /\ \A i \in 1 .. 4 : F[i] <= G[i]
        /\ \A x \in cycle.required : NotFuller(r, s, x)
        /\ \/ \E i \in 1 .. 4 : F[i] < G[i]
           \/ \E x \in cycle.required : LessFull(r, s, x)

\* No eligible session that was not turned down was plainly the better choice than
\* the one assigned: neither scoring nor the second sort lets a trader pass that is
\* behind in every respect.
NoBetterLeftOut ==
    cycle.pc = "idle" /\ selected # Absent =>
        ~ \E r \in Eligibles : /\ \A reason \in Reasons : <<r, reason>> \notin rejected
                               /\ PlainlyBetter(r, selected.session)
=============================================================================
