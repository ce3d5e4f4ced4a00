------------------------ MODULE SchedulerEngineProofs ------------------------
(***************************************************************************)
(* Proofs about scheduler.Engine: its types, one outcome per cycle, a skip *)
(* only of what was assigned, the latest dead letters, where the dedup     *)
(* window covers an epoch one assignment per epoch, and the bound on what  *)
(* Stop waits for.                                                         *)
(***************************************************************************)
EXTENDS SchedulerEngine, TLAPS

-----------------------------------------------------------------------------
(* Arithmetic of seconds and epochs.                                       *)

\* Integer division: the quotient and the room the remainder leaves
LEMMA DivBounds ==
    ASSUME NEW a \in Nat, NEW b \in Nat \ {0}
    PROVE  a \div b \in Nat /\ b * (a \div b) <= a /\ a < b * (a \div b) + b
OBVIOUS

\* Integer division does not decrease with the dividend.
LEMMA DivMonotone ==
    ASSUME NEW a \in Nat, NEW c \in Nat, a <= c, NEW b \in Nat \ {0}
    PROVE  a \div b <= c \div b
<1> DEFINE q == a \div b
           r == c \div b
<1>1. q \in Nat /\ b * q <= a  BY DivBounds
<1>2. r \in Nat /\ c < b * r + b  BY DivBounds
<1> HIDE DEF q, r
<1>3. SUFFICES ASSUME r + 1 <= q PROVE FALSE  BY <1>1, <1>2 DEF q, r
<1>4. b * (r + 1) <= b * q  BY <1>1, <1>2, <1>3
<1>5. b * (r + 1) = b * r + b  BY <1>2
<1> QED  BY <1>1, <1>2, <1>4, <1>5

\* Two times a whole window of w seconds apart lie in different epochs.
LEMMA WindowsApart ==
    ASSUME NEW s \in Nat \ {0}, NEW e \in Nat \ {0}, NEW w \in Nat, NEW t \in Nat,
           NEW u \in Nat, w * s >= e + s - 1, t \div s + w <= u \div s
    PROVE  t \div e < u \div e
<1> DEFINE a == t \div s
           b == u \div s
           c == t \div e
           d == u \div e
<1>1. a \in Nat /\ t < s * a + s  BY DivBounds
<1>2. b \in Nat /\ s * b <= u  BY DivBounds
<1>3. c \in Nat /\ e * c <= t  BY DivBounds
<1>4. d \in Nat /\ u < e * d + e  BY DivBounds
<1> HIDE DEF a, b, c, d
<1>5. a + w <= b  BY DEF a, b
<1>6. s * (a + w) <= s * b  BY <1>1, <1>2, <1>5
<1>7. s * (a + w) = s * a + s * w /\ w * s = s * w  BY <1>1
<1>8. u >= t + e  BY <1>1, <1>2, <1>6, <1>7
<1>9. SUFFICES ASSUME d <= c PROVE FALSE  BY <1>3, <1>4 DEF c, d
<1>10. e * d <= e * c  BY <1>3, <1>4, <1>9
<1> QED  BY <1>3, <1>4, <1>8, <1>10

\* The engine's parameters are what NewEngine guarantees.
LEMMA Parameters ==
    /\ Second \in Nat \ {0}
    /\ DedupEpoch \in Nat \ {0}
    /\ DedupWindow \in Nat
    /\ MaxAttempts \in Nat /\ MaxAttempts >= 2
    /\ DeadLetterMaxSize \in Nat \ {0}
BY TickAssumption, RetryAssumption DEF DedupEpoch, DedupWindow, MaxAttempts

\* Unix and assignmentEpoch give natural numbers.
LEMMA TimesAreNat ==
    ASSUME NEW t \in Nat
    PROVE  Unix(t) \in Nat /\ Epoch(t) \in Nat
BY Parameters, DivBounds DEF Unix, Epoch

\* The key of a session at a time is a key.
LEMMA KeyType ==
    ASSUME NEW s \in Sessions, NEW t \in Nat
    PROVE  IdempotencyKey(s, t) \in Key
BY TimesAreNat DEF IdempotencyKey, Key, Traders

-----------------------------------------------------------------------------
(* Types.                                                                  *)

\* Where the goroutine is in assignWithRetry
Flying == pc \in {"assign", "sleep"}

\* A cycle under way has chosen a session, began in the past, and sleeps only
\* if there is an attempt left.
CycleOK ==
    /\ Flying => cycle.session \in Sessions /\ cycle.at <= now /\ cycle.attempt >= 1
    /\ pc = "sleep" => cycle.attempt < MaxAttempts

\* The end of a cycle keeps the types.
LEMMA CycleEndsTypes ==
    ASSUME TypeOK, NEW result \in Results, CycleEnds(result)
    PROVE  /\ outcomes' \in [Results -> Nat]
           /\ pc' \in {"loop", "firstSweep"}
           /\ cycle' \in Cycle
BY Parameters DEF TypeOK, CycleEnds, Publish, NoCycle, Cycle

\* What is left of the dedup map is part of it.
LEMMA EvictedSubset == ASSUME NEW at PROVE Evicted(at) \subseteq dedup
BY DEF Evicted

\* Every step keeps the types.
LEMMA TypeStep ==
    ASSUME TypeOK, CycleOK, [Next]_vars
    PROVE  TypeOK' /\ CycleOK'
<1> USE DEF CycleOK, Flying
<1>1. CASE BeginCycle
  <2>1. due' \subseteq Tickers  BY <1>1 DEF BeginCycle, Starts, TypeOK
  <2>2. PICK pool \in SUBSET Healthy :
            \/ /\ pool = {}
               /\ CycleEnds("no_candidates")
               /\ UNCHANGED dedup
            \/ \E s \in pool :
                  /\ dedup' = Evicted(Unix(now))
                  /\ IF Seen(IdempotencyKey(s, now), Unix(now))
                     THEN CycleEnds("dedup")
                     ELSE /\ pc' = "assign"
                          /\ cycle' = [at |-> now, session |-> s, attempt |-> 1, wake |-> 0]
                          /\ UNCHANGED outcomes
    BY <1>1 DEF BeginCycle
  <2>0. cycles' = cycles + 1
        /\ UNCHANGED <<now, heartbeat, booted, targets, dlq, stopping, assigned, failed>>
    BY <1>1 DEF BeginCycle
  <2>a. ASSUME NEW result \in Results, CycleEnds(result), dedup' \subseteq dedup
        PROVE  TypeOK' /\ CycleOK'
    <3>1. /\ outcomes' \in [Results -> Nat]
          /\ pc' \in {"loop", "firstSweep"}
          /\ cycle' \in Cycle
      BY <2>a, CycleEndsTypes
    <3> QED  BY <2>0, <2>1, <2>a, <3>1 DEF TypeOK
  <2>3. CASE CycleEnds("no_candidates") /\ UNCHANGED dedup
    BY <2>a, <2>3 DEF Results
  <2>4. ASSUME NEW s \in pool, dedup' = Evicted(Unix(now)), CycleEnds("dedup")
        PROVE  TypeOK' /\ CycleOK'
    BY <2>a, <2>4, EvictedSubset DEF Results
  <2>5. ASSUME NEW s \in pool, dedup' = Evicted(Unix(now)), pc' = "assign",
               cycle' = [at |-> now, session |-> s, attempt |-> 1, wake |-> 0],
               UNCHANGED outcomes
        PROVE  TypeOK' /\ CycleOK'
    BY <2>0, <2>1, <2>5, EvictedSubset, Parameters DEF TypeOK, Healthy, Cycle
  <2> QED  BY <2>2, <2>3, <2>4, <2>5
<1>2. CASE AssignSucceeds
  <2> DEFINE key == IdempotencyKey(cycle.session, cycle.at)
             at == Unix(cycle.at)
  <2>1. key \in Key /\ at \in Nat
    BY <1>2, KeyType, TimesAreNat DEF AssignSucceeds, TypeOK, Cycle
  <2>2. dedup' \subseteq [key : Key, ts : Nat] /\ assigned' \in Seq(Key)
    BY <1>2, <2>1, EvictedSubset DEF AssignSucceeds, TypeOK
  <2> QED  BY <1>2, <2>2, CycleEndsTypes DEF AssignSucceeds, TypeOK, Results
<1>3. ASSUME NEW retryable \in BOOLEAN, AssignFails(retryable)
      PROVE  TypeOK' /\ CycleOK'
  <2> DEFINE letter == [key |-> IdempotencyKey(cycle.session, cycle.at),
                        attempts |-> cycle.attempt, retryable |-> retryable]
  <2>1. letter \in DeadLetter
    BY <1>3, KeyType DEF AssignFails, TypeOK, Cycle, DeadLetter
  <2>2. dlq' = Pushed(letter) /\ failed' = Append(failed, letter)  BY <1>3 DEF AssignFails
  <2> HIDE DEF letter
  <2>3. dlq' \in Seq(DeadLetter) /\ Len(dlq') <= DeadLetterMaxSize
    BY <2>1, <2>2, Parameters DEF Pushed, TypeOK
  <2>4. failed' \in Seq(DeadLetter)  BY <2>1, <2>2 DEF TypeOK
  <2>5. CASE retryable
    BY <1>3, <2>3, <2>4, <2>5, CycleEndsTypes DEF AssignFails, TypeOK, Results
  <2>6. CASE ~retryable
    BY <1>3, <2>3, <2>4, <2>6, CycleEndsTypes DEF AssignFails, TypeOK, Results
  <2> QED  BY <2>5, <2>6
<1>4. CASE AssignRetries
  <2>1. Backoff(cycle.attempt) \in Nat
    BY <1>4, BackoffAssumption, Parameters DEF AssignRetries, TypeOK, Cycle
  <2>2. cycle' \in Cycle /\ cycle'.attempt = cycle.attempt /\ cycle'.at = cycle.at
        /\ cycle'.session = cycle.session
    <3>1. cycle \in Cycle /\ now + Backoff(cycle.attempt) \in Nat  BY <2>1 DEF TypeOK
    <3>2. cycle' = [cycle EXCEPT !.wake = now + Backoff(cycle.attempt)]
      BY <1>4 DEF AssignRetries
    <3> QED  BY <3>1, <3>2 DEF Cycle
  <2> QED  BY <1>4, <2>2 DEF AssignRetries, TypeOK
<1>5. CASE Wake
  <2>1. cycle' \in Cycle /\ cycle'.attempt >= 1 /\ cycle'.at = cycle.at
        /\ cycle'.session = cycle.session
    <3>1. cycle \in Cycle /\ cycle.attempt + 1 \in 0 .. MaxAttempts
          /\ cycle.attempt + 1 >= 1
      BY <1>5, Parameters DEF Wake, TypeOK, Cycle
    <3>2. cycle' = [cycle EXCEPT !.attempt = cycle.attempt + 1, !.wake = 0]
      BY <1>5 DEF Wake
    <3> QED  BY <3>1, <3>2 DEF Cycle
  <2> QED  BY <1>5, <2>1 DEF Wake, TypeOK
<1>6. CASE BeginSweep
  BY <1>6 DEF BeginSweep, Starts, Healthy, LatencyTestTargets, TypeOK
<1>7. ASSUME NEW s \in Sessions, Dispatch(s) PROVE TypeOK' /\ CycleOK'
  BY <1>7 DEF Dispatch, TypeOK
<1>8. CASE Stop  BY <1>8 DEF Stop, TypeOK
<1>9. CASE Exit  BY <1>9 DEF Exit, TypeOK
<1>10. CASE Tick
  <2>1. now' \in Nat /\ now' = now + 1  BY <1>10 DEF Tick, TypeOK
  <2>2. due' \subseteq Tickers  BY <1>10 DEF Tick, TypeOK
  <2>3. CycleOK'  BY <1>10, <2>1 DEF Tick, TypeOK, Cycle
  <2> QED  BY <1>10, <2>1, <2>2, <2>3 DEF Tick, TypeOK
<1>11. ASSUME NEW s \in Sessions, Snapshot(s) PROVE TypeOK' /\ CycleOK'
  <2>1. heartbeat' \in [Sessions -> Nat]
    <3>1. heartbeat \in [Sessions -> Nat] /\ Unix(now) \in Nat  BY TimesAreNat DEF TypeOK
    <3> QED  BY <1>11, <3>1 DEF Snapshot
  <2> QED  BY <1>11, <2>1 DEF Snapshot, TypeOK
<1>12. CASE UNCHANGED vars  BY <1>12 DEF vars, TypeOK
<1> QED
  BY <1>1, <1>2, <1>3, <1>4, <1>5, <1>6, <1>7, <1>8, <1>9, <1>10, <1>11, <1>12
     DEF Next, Work

\* The initial state has the types.
LEMMA TypeInit == Init => TypeOK /\ CycleOK
<1> SUFFICES ASSUME Init PROVE TypeOK /\ CycleOK  OBVIOUS
<1>1. cycle \in Cycle  BY Parameters DEF Init, NoCycle, Cycle
<1>2. now \in Nat /\ Len(dlq) <= DeadLetterMaxSize  BY Parameters DEF Init
<1>3. heartbeat \in [Sessions -> Nat] /\ outcomes \in [Results -> Nat]  BY DEF Init
<1>4. dlq \in Seq(DeadLetter) /\ assigned \in Seq(Key) /\ failed \in Seq(DeadLetter)
  BY DEF Init
<1>5. CycleOK  BY DEF Init, CycleOK, Flying
<1> QED  BY <1>1, <1>2, <1>3, <1>4, <1>5 DEF Init, TypeOK

\* The types of the engine are invariant; in particular the dead-letter queue
\* never outgrows its limit and no assignment is tried more than MaxAttempts times.
THEOREM TypeCorrect == Spec => []TypeOK
<1>1. TypeOK /\ CycleOK /\ [Next]_vars => (TypeOK /\ CycleOK)'  BY TypeStep
<1> QED  BY TypeInit, <1>1, PTL DEF Spec

-----------------------------------------------------------------------------
(* One outcome per cycle.                                                  *)

\* One more outcome adds one to their sum, and to the failures if it is one.
LEMMA PublishAddsOne ==
    ASSUME TypeOK, NEW result \in Results, Publish(result)
    PROVE  /\ Published' = Published + 1
           /\ outcomes'["failed_retry_exhausted"] + outcomes'["failed_non_retryable"]
              = outcomes["failed_retry_exhausted"] + outcomes["failed_non_retryable"]
                + IF result \in {"failed_retry_exhausted", "failed_non_retryable"}
                  THEN 1 ELSE 0
<1>1. outcomes \in [Results -> Nat]  BY DEF TypeOK
<1>2. \A r \in Results : outcomes'[r] = IF r = result THEN outcomes[r] + 1 ELSE outcomes[r]
  BY <1>1 DEF Publish
<1> QED  BY <1>1, <1>2 DEF Published, Results

\* Every step keeps the account of outcomes.
LEMMA OutcomeStep ==
    ASSUME TypeOK, OneOutcomePerCycle, [Next]_vars
    PROVE  OneOutcomePerCycle'
<1> USE DEF OneOutcomePerCycle
<1>0. Published \in Nat /\ \A r \in Results : outcomes[r] \in Nat
  BY DEF TypeOK, Published, Results
<1>1. CASE BeginCycle
  <2>1. cycles' = cycles + 1 /\ pc \notin {"assign", "sleep"} /\ failed' = failed
    BY <1>1 DEF BeginCycle, Starts
  <2>2. \/ CycleEnds("no_candidates") \/ CycleEnds("dedup")
        \/ pc' = "assign" /\ UNCHANGED outcomes
    BY <1>1 DEF BeginCycle
  <2>3. ASSUME NEW result \in {"no_candidates", "dedup"}, CycleEnds(result)
        PROVE  OneOutcomePerCycle'
    BY <1>0, <2>1, <2>3, PublishAddsOne DEF CycleEnds, Results, TypeOK
  <2>4. CASE pc' = "assign" /\ UNCHANGED outcomes
    BY <1>0, <2>1, <2>4 DEF Published, TypeOK
  <2> QED  BY <2>2, <2>3, <2>4
<1>2. CASE AssignSucceeds
  BY <1>0, <1>2, PublishAddsOne DEF AssignSucceeds, CycleEnds, Results, TypeOK
<1>3. ASSUME NEW retryable \in BOOLEAN, AssignFails(retryable)
      PROVE  OneOutcomePerCycle'
  <2> DEFINE result == IF retryable THEN "failed_retry_exhausted" ELSE "failed_non_retryable"
  <2>1. result \in Results /\ result \in {"failed_retry_exhausted", "failed_non_retryable"}
    BY DEF Results
  <2>2. Publish(result) /\ pc' \notin {"assign", "sleep"} /\ pc = "assign"
        /\ cycles' = cycles
    BY <1>3 DEF AssignFails, CycleEnds
  <2>3. Len(failed') = Len(failed) + 1  BY <1>3 DEF AssignFails, TypeOK
  <2> HIDE DEF result
  <2> QED  BY <1>0, <2>1, <2>2, <2>3, PublishAddsOne DEF TypeOK, Results
<1>4. CASE AssignRetries  BY <1>4 DEF AssignRetries, Published
<1>5. CASE Wake  BY <1>5 DEF Wake, Published
<1>6. CASE BeginSweep  BY <1>6 DEF BeginSweep, Starts, Published
<1>7. ASSUME NEW s \in Sessions, Dispatch(s) PROVE OneOutcomePerCycle'
  BY <1>7 DEF Dispatch, Published
<1>8. CASE Stop  BY <1>8 DEF Stop, Published
<1>9. CASE Exit  BY <1>9 DEF Exit, Published
<1>10. CASE Tick  BY <1>10 DEF Tick, Published
<1>11. ASSUME NEW s \in Sessions, Snapshot(s) PROVE OneOutcomePerCycle'
  BY <1>11 DEF Snapshot, Published
<1>12. CASE UNCHANGED vars  BY <1>12 DEF vars, Published
<1> QED
  BY <1>1, <1>2, <1>3, <1>4, <1>5, <1>6, <1>7, <1>8, <1>9, <1>10, <1>11, <1>12
     DEF Next, Work

\* Every cycle publishes one outcome, whatever path it takes, and every failure
\* it publishes is a dead letter (runCycle, assignWithRetry).
THEOREM OneOutcome == Spec => []OneOutcomePerCycle
<1>1. Init => OneOutcomePerCycle
  BY DEF Init, OneOutcomePerCycle, Published, Results
<1>2. TypeOK /\ OneOutcomePerCycle /\ [Next]_vars => OneOutcomePerCycle'
  BY OutcomeStep
<1> QED  BY <1>1, <1>2, TypeCorrect, PTL DEF Spec

-----------------------------------------------------------------------------
(* What the dedup map knows.                                               *)

\* The assignments, as a set of keys
Keys == {assigned[i] : i \in DOMAIN assigned}

\* Every entry of the dedup map was assigned, and its ts and epoch are those of
\* one moment.
Marks ==
    \A a \in dedup : /\ a.key \in Keys
                      /\ \E t \in Nat : a.ts = Unix(t) /\ a.key.epoch = Epoch(t)

\* Appending a key adds it to the set.
LEMMA KeysAppend ==
    ASSUME TypeOK, NEW key \in Key, assigned' = Append(assigned, key)
    PROVE  Keys' = Keys \cup {key}
<1>1. assigned \in Seq(Key)  BY DEF TypeOK
<1>2. DOMAIN assigned' = 1 .. (Len(assigned) + 1) /\ DOMAIN assigned = 1 .. Len(assigned)
  BY <1>1
<1>3. \A i \in DOMAIN assigned : assigned'[i] = assigned[i]  BY <1>1
<1>4. assigned'[Len(assigned) + 1] = key /\ Len(assigned) \in Nat  BY <1>1
<1> QED  BY <1>2, <1>3, <1>4 DEF Keys

\* Every step but AssignSucceeds leaves the assignments as they are, and the
\* dedup map as it is or smaller.
LEMMA DedupShrinks ==
    ASSUME [Next]_vars, ~AssignSucceeds
    PROVE  /\ assigned' = assigned
           /\ \/ dedup' = dedup
              \/ BeginCycle /\ dedup' = Evicted(Unix(now))
<1>1. CASE BeginCycle
  <2>1. assigned' = assigned  BY <1>1 DEF BeginCycle
  <2>2. dedup' = dedup \/ dedup' = Evicted(Unix(now))  BY <1>1 DEF BeginCycle
  <2> QED  BY <1>1, <2>1, <2>2
<1>2. CASE ~BeginCycle
  BY <1>2 DEF Next, Work, vars, AssignFails, AssignRetries, Wake, BeginSweep, Dispatch,
              Stop, Exit, Tick, Snapshot
<1> QED  BY <1>1, <1>2

\* Every step keeps Marks.
LEMMA MarksStep ==
    ASSUME TypeOK, CycleOK, Marks, [Next]_vars
    PROVE  Marks'
<1>1. CASE AssignSucceeds
  <2> DEFINE key == IdempotencyKey(cycle.session, cycle.at)
  <2>1. key \in Key /\ cycle.at \in Nat
    BY <1>1, KeyType DEF AssignSucceeds, TypeOK, CycleOK, Flying, Cycle
  <2>2. assigned' = Append(assigned, key)  BY <1>1 DEF AssignSucceeds
  <2>3. Keys' = Keys \cup {key}  BY <2>1, <2>2, KeysAppend
  <2>4. \A a \in dedup' : a \in dedup \/ a = [key |-> key, ts |-> Unix(cycle.at)]
    BY <1>1, EvictedSubset DEF AssignSucceeds
  <2>5. key.epoch = Epoch(cycle.at)  BY DEF IdempotencyKey
  <2> HIDE DEF key
  <2> QED  BY <2>1, <2>3, <2>4, <2>5 DEF Marks
<1>2. CASE ~AssignSucceeds
  <2>1. Keys' = Keys /\ dedup' \subseteq dedup
    BY <1>2, DedupShrinks, EvictedSubset DEF Keys
  <2> QED  BY <2>1 DEF Marks
<1> QED  BY <1>1, <1>2

\* The map is empty at first.
LEMMA MarksInit == Init => Marks
BY DEF Init, Marks

\* A cycle is skipped as a duplicate only if one of the sessions it could choose
\* belongs to a trader that was assigned the task in the same epoch.
LEMMA SkipStep ==
    ASSUME TypeOK, Marks, [Next]_vars, outcomes'["dedup"] > outcomes["dedup"]
    PROVE  \E s \in Healthy, i \in DOMAIN assigned : assigned[i] = IdempotencyKey(s, now)
<1>0. outcomes["dedup"] \in Nat /\ outcomes \in [Results -> Nat]  BY DEF TypeOK, Results
<1>1. CASE BeginCycle
  <2>1. ~CycleEnds("no_candidates") /\ ~UNCHANGED outcomes
    BY <1>0 DEF CycleEnds, Publish, Results
  <2>2. PICK s \in Healthy : Seen(IdempotencyKey(s, now), Unix(now))
    BY <1>1, <2>1 DEF BeginCycle
  <2>3. PICK a \in dedup : a.key = IdempotencyKey(s, now)
    BY <2>2, EvictedSubset DEF Seen
  <2> QED  BY <2>2, <2>3 DEF Marks, Keys
<1>2. CASE ~BeginCycle
  <2>1. \/ UNCHANGED outcomes
        \/ \E result \in Results \ {"dedup"} : Publish(result)
    BY <1>2 DEF Next, Work, vars, AssignSucceeds, AssignFails, AssignRetries, Wake,
                BeginSweep, Dispatch, Stop, Exit, Tick, Snapshot, CycleEnds, Results
  <2>2. outcomes'["dedup"] = outcomes["dedup"]
    BY <1>0, <2>1 DEF Publish, Results
  <2> QED  BY <1>0, <2>2
<1> QED  BY <1>1, <1>2

\* SkippedWasAssigned for every configuration: a failed assignment never makes
\* a later cycle skip the trader (seenAssignment, markAssignment).
THEOREM SkipsAreDuplicates == Spec => SkippedWasAssigned
<1>1. Init => TypeOK /\ CycleOK /\ Marks  BY TypeInit, MarksInit
<1>2. TypeOK /\ CycleOK /\ Marks /\ [Next]_vars => (TypeOK /\ CycleOK /\ Marks)'
  BY TypeStep, MarksStep
<1>3. TypeOK /\ Marks /\ [Next]_vars =>
          [outcomes'["dedup"] > outcomes["dedup"] =>
              \E s \in Healthy, i \in DOMAIN assigned :
                  assigned[i] = IdempotencyKey(s, now)]_vars
  BY SkipStep
<1> QED  BY <1>1, <1>2, <1>3, PTL DEF Spec, SkippedWasAssigned

-----------------------------------------------------------------------------
(* One assignment per epoch.                                               *)

\* Every key that was assigned is still in the dedup map, or belongs to an epoch
\* that is over for the cycle under way and for every later one.
Remembered ==
    \A k \in Keys : \/ \E a \in dedup : a.key = k
                    \/ k.epoch < Epoch(now) /\ (Flying => k.epoch < Epoch(cycle.at))

\* The cycle under way is about to assign a key that was not assigned.
NewKey == Flying => IdempotencyKey(cycle.session, cycle.at) \notin Keys

\* The inductive invariant
IInv == /\ TypeOK /\ CycleOK /\ Marks
        /\ Remembered /\ NewKey /\ AssignedOncePerEpoch

\* An entry that is evicted at a time belongs to an earlier epoch.
LEMMA EvictedIsOver ==
    ASSUME WindowCoversEpoch, TypeOK, Marks, NEW at \in Nat, NEW a \in dedup,
           a \notin Evicted(Unix(at))
    PROVE  a.key.epoch < Epoch(at)
<1>1. PICK t \in Nat : a.ts = Unix(t) /\ a.key.epoch = Epoch(t)  BY DEF Marks
<1> DEFINE w == DedupWindow \div Second
<1>2. w \in Nat  BY Parameters, DivBounds
<1>3. w * Second >= DedupEpoch + Second - 1  BY DEF WindowCoversEpoch
<1>4. ~(Unix(t) + w > Unix(at))  BY <1>1 DEF Evicted
<1>5. t \div Second + w <= at \div Second
  <2> HIDE DEF w
  <2> QED  BY <1>2, <1>4, TimesAreNat DEF Unix
<1> HIDE DEF w
<1> QED  BY <1>1, <1>2, <1>3, <1>5, WindowsApart, Parameters DEF Epoch

\* Keys have an epoch, and time does not run back.
LEMMA EpochMonotone ==
    ASSUME NEW t \in Nat, NEW u \in Nat, t <= u
    PROVE  Epoch(t) <= Epoch(u)
BY DivMonotone, Parameters DEF Epoch

\* The keys assigned are keys.
LEMMA KeysType == ASSUME TypeOK PROVE Keys \subseteq Key
<1>1. assigned \in Seq(Key)  BY DEF TypeOK
<1> QED  BY <1>1 DEF Keys

\* A new cycle remembers what was assigned, and chooses a new key.
LEMMA BeginCycleOnce ==
    ASSUME WindowCoversEpoch, IInv, BeginCycle
    PROVE  Remembered' /\ NewKey'
<1> USE DEF IInv
<1>0. now \in Nat /\ now' = now /\ Keys' = Keys /\ ~Flying
  BY DEF BeginCycle, Starts, TypeOK, Keys, Flying
<1>1. \A k \in Keys : k.epoch \in Nat  BY KeysType DEF Key
<1>2. ASSUME NEW k \in Keys
      PROVE  (\E a \in Evicted(Unix(now)) : a.key = k) \/ k.epoch < Epoch(now)
  <2>1. CASE k.epoch < Epoch(now)  BY <2>1
  <2>2. ASSUME NEW a \in dedup, a.key = k
        PROVE  (\E b \in Evicted(Unix(now)) : b.key = k) \/ k.epoch < Epoch(now)
    BY <1>0, <2>2, EvictedIsOver
  <2> QED  BY <2>1, <2>2, <1>2 DEF Remembered
<1>3. \A a \in Evicted(Unix(now)) : a \in dedup  BY EvictedSubset
<1>4. \/ dedup' = dedup /\ CycleEnds("no_candidates")
      \/ dedup' = Evicted(Unix(now)) /\ CycleEnds("dedup")
      \/ \E s \in Healthy :
            /\ dedup' = Evicted(Unix(now))
            /\ ~Seen(IdempotencyKey(s, now), Unix(now))
            /\ cycle' = [at |-> now, session |-> s, attempt |-> 1, wake |-> 0]
  BY DEF BeginCycle
<1>5. CASE CycleEnds("no_candidates") /\ dedup' = dedup
  <2>1. ~Flying'  BY <1>5 DEF CycleEnds, Flying
  <2> QED  BY <1>0, <1>5, <2>1 DEF Remembered, NewKey
<1>6. CASE CycleEnds("dedup") /\ dedup' = Evicted(Unix(now))
  <2>1. ~Flying'  BY <1>6 DEF CycleEnds, Flying
  <2> QED  BY <1>0, <1>2, <1>6, <2>1 DEF Remembered, NewKey
<1>7. ASSUME NEW s \in Healthy, dedup' = Evicted(Unix(now)),
             ~Seen(IdempotencyKey(s, now), Unix(now)),
             cycle' = [at |-> now, session |-> s, attempt |-> 1, wake |-> 0]
      PROVE  Remembered' /\ NewKey'
  <2>1. cycle'.at = now /\ cycle'.session = s  BY <1>7
  <2>2. Remembered'  BY <1>0, <1>2, <1>7, <2>1 DEF Remembered
  <2>3. IdempotencyKey(s, now) \notin Keys
    <3>1. SUFFICES ASSUME IdempotencyKey(s, now) \in Keys PROVE FALSE  OBVIOUS
    <3>2. ~(\E a \in Evicted(Unix(now)) : a.key = IdempotencyKey(s, now))
      BY <1>7 DEF Seen
    <3>3. IdempotencyKey(s, now).epoch < Epoch(now)  BY <1>2, <3>1, <3>2
    <3> QED  BY <1>0, <3>3, TimesAreNat DEF IdempotencyKey
  <2>4. IdempotencyKey(cycle.session, cycle.at)' = IdempotencyKey(s, now)
    BY <2>1 DEF IdempotencyKey, Epoch
  <2> QED  BY <1>0, <2>2, <2>3, <2>4 DEF NewKey
<1> QED  BY <1>4, <1>5, <1>6, <1>7

\* A successful cycle assigns a new key and remembers it.
LEMMA AssignOnce ==
    ASSUME WindowCoversEpoch, IInv, AssignSucceeds
    PROVE  Remembered' /\ NewKey' /\ AssignedOncePerEpoch'
<1> USE DEF IInv
<1> DEFINE key == IdempotencyKey(cycle.session, cycle.at)
<1>0. /\ Flying /\ ~Flying' /\ now' = now /\ now \in Nat
      /\ cycle.at \in Nat /\ cycle.at <= now /\ key \in Key
  BY KeyType DEF AssignSucceeds, CycleEnds, Flying, TypeOK, CycleOK, Cycle
<1>1. assigned' = Append(assigned, key)
      /\ dedup' = {a \in Evicted(Unix(cycle.at)) : a.key # key}
                  \cup {[key |-> key, ts |-> Unix(cycle.at)]}
  BY DEF AssignSucceeds
<1>2. key \notin Keys  BY <1>0 DEF NewKey
<1> HIDE DEF key
<1>3. Keys' = Keys \cup {key}  BY <1>0, <1>1, KeysAppend
<1>4. Epoch(cycle.at) <= Epoch(now) /\ Epoch(cycle.at) \in Nat /\ Epoch(now) \in Nat
  BY <1>0, EpochMonotone, TimesAreNat
<1>5. \A k \in Keys : k.epoch \in Nat  BY KeysType DEF Key
<1>6. ASSUME NEW k \in Keys'
      PROVE  (\E a \in dedup' : a.key = k) \/ k.epoch < Epoch(now)
  <2>1. CASE k = key
    <3>1. [key |-> key, ts |-> Unix(cycle.at)] \in dedup'  BY <1>1
    <3> QED  BY <2>1, <3>1
  <2>2. ASSUME NEW a \in dedup, a.key = k, k # key, k \in Keys
        PROVE  (\E b \in dedup' : b.key = k) \/ k.epoch < Epoch(now)
    <3>1. CASE a \in Evicted(Unix(cycle.at))  BY <1>1, <2>2, <3>1
    <3>2. CASE a \notin Evicted(Unix(cycle.at))
      <4>1. k.epoch < Epoch(cycle.at)  BY <1>0, <2>2, <3>2, EvictedIsOver
      <4> QED  BY <1>4, <1>5, <2>2, <4>1
    <3> QED  BY <3>1, <3>2
  <2> QED  BY <1>3, <1>6, <2>1, <2>2 DEF Remembered
<1>7. Remembered'
  BY <1>0, <1>6 DEF Remembered, Epoch
<1>8. AssignedOncePerEpoch'
  <2>1. assigned \in Seq(Key)  BY DEF TypeOK
  <2>2. /\ DOMAIN assigned' = 1 .. (Len(assigned) + 1)
        /\ DOMAIN assigned = 1 .. Len(assigned) /\ Len(assigned) \in Nat
        /\ assigned'[Len(assigned) + 1] = key
        /\ \A i \in 1 .. Len(assigned) : assigned'[i] = assigned[i]
    BY <1>0, <1>1, <2>1
  <2>3. \A i \in 1 .. Len(assigned) : assigned[i] # key  BY <1>2, <2>2 DEF Keys
  <2> QED  BY <2>2, <2>3 DEF AssignedOncePerEpoch
<1> QED  BY <1>0, <1>7, <1>8 DEF NewKey

\* Every step keeps the invariant.
LEMMA OnceStep ==
    ASSUME WindowCoversEpoch, IInv, [Next]_vars
    PROVE  IInv'
<1> USE DEF IInv
<1>1. TypeOK' /\ CycleOK' /\ Marks'  BY TypeStep, MarksStep
<1>2. CASE BeginCycle
  BY <1>1, <1>2, BeginCycleOnce DEF BeginCycle, AssignedOncePerEpoch
<1>3. CASE AssignSucceeds  BY <1>1, <1>3, AssignOnce
<1>4. CASE ~BeginCycle /\ ~AssignSucceeds
  <2>1. assigned' = assigned /\ dedup' = dedup  BY <1>4, DedupShrinks
  <2>2. Flying' => Flying /\ cycle'.at = cycle.at /\ cycle'.session = cycle.session
    <3>1. CASE AssignRetries
      BY <3>1 DEF AssignRetries, Flying, TypeOK, Cycle
    <3>2. CASE Wake
      BY <3>2 DEF Wake, Flying, TypeOK, Cycle
    <3>3. CASE ~AssignRetries /\ ~Wake
      <4>1. \/ UNCHANGED <<pc, cycle>>
            \/ pc' \in {"loop", "firstSweep", "sweep", "stopped"}
        BY <1>4, <3>3 DEF Next, Work, vars, AssignFails, BeginSweep, Dispatch, Stop, Exit,
                          Tick, Snapshot, CycleEnds
      <4> QED  BY <4>1 DEF Flying
    <3> QED  BY <3>1, <3>2, <3>3
  <2>3. now \in Nat /\ now' \in Nat /\ now <= now'
    <3>1. now \in Nat  BY DEF TypeOK
    <3>2. CASE Tick  BY <3>1, <3>2 DEF Tick
    <3>3. CASE ~Tick
      <4>1. now' = now
        BY <1>4, <3>3 DEF Next, Work, vars, AssignFails, AssignRetries, Wake, BeginSweep,
                          Dispatch, Stop, Exit, Snapshot
      <4> QED  BY <3>1, <4>1
    <3> QED  BY <3>2, <3>3
  <2>4. Epoch(now) <= Epoch(now') /\ Epoch(now) \in Nat /\ Epoch(now') \in Nat
    BY <2>3, EpochMonotone, TimesAreNat
  <2>5. Keys' = Keys /\ \A k \in Keys : k.epoch \in Nat
    BY <2>1, KeysType DEF Keys, Key
  <2>6. Remembered'
    <3>1. ASSUME NEW k \in Keys, k.epoch < Epoch(now)
          PROVE  k.epoch < Epoch(now')
      BY <2>4, <2>5, <3>1
    <3> QED  BY <2>1, <2>2, <2>5, <3>1 DEF Remembered, Epoch
  <2>7. NewKey'  BY <2>2, <2>5 DEF NewKey, IdempotencyKey, Epoch
  <2> QED  BY <1>1, <2>1, <2>6, <2>7 DEF AssignedOncePerEpoch
<1> QED  BY <1>2, <1>3, <1>4

\* AssignedOncePerEpoch for every configuration whose dedup window covers an
\* epoch, such as the defaults with an interval of whole seconds: no late cycle,
\* long retry or change of session assigns a trader twice in an epoch.
THEOREM AssignedOnce ==
    ASSUME WindowCoversEpoch
    PROVE  Spec => []AssignedOncePerEpoch
<1>1. Init => IInv
  <2>1. Init => Keys = {} /\ ~Flying /\ AssignedOncePerEpoch
    BY DEF Init, Keys, Flying, AssignedOncePerEpoch
  <2> QED  BY <2>1, TypeInit, MarksInit DEF IInv, Remembered, NewKey
<1>2. IInv /\ [Next]_vars => IInv'  BY OnceStep
<1>3. IInv => AssignedOncePerEpoch  BY DEF IInv
<1> QED  BY <1>1, <1>2, <1>3, PTL DEF Spec

-----------------------------------------------------------------------------
(* The dead-letter queue.                                                  *)

\* Entry by entry: the queue is the end of the history, and all of it while the
\* queue is not full.
Latest ==
    /\ Len(dlq) <= Len(failed)
    /\ \A i \in 1 .. Len(dlq) : dlq[i] = failed[Len(failed) - Len(dlq) + i]
    /\ Len(dlq) < DeadLetterMaxSize => Len(failed) = Len(dlq)

LEMMA LettersType ==
    ASSUME TypeOK
    PROVE  /\ dlq \in Seq(DeadLetter) /\ failed \in Seq(DeadLetter)
           /\ Len(dlq) \in Nat /\ Len(failed) \in Nat /\ Len(dlq) <= DeadLetterMaxSize
           /\ DeadLetterMaxSize \in Nat \ {0}
BY RetryAssumption DEF TypeOK

\* pushDeadLetter, with room or with the oldest entry making it
LEMMA PushedIsLatest ==
    ASSUME TypeOK, Latest, NEW letter \in DeadLetter, dlq' = Pushed(letter),
           failed' = Append(failed, letter)
    PROVE  Latest'
<1> DEFINE n == Len(dlq)
           m == Len(failed)
<1>0. /\ dlq \in Seq(DeadLetter) /\ failed \in Seq(DeadLetter)
      /\ n \in Nat /\ m \in Nat /\ n <= DeadLetterMaxSize /\ DeadLetterMaxSize \in Nat \ {0}
      /\ n <= m
  BY LettersType DEF Latest
<1>1. /\ Len(failed') = m + 1 /\ failed'[m + 1] = letter
      /\ \A i \in 1 .. m : failed'[i] = failed[i]
  BY <1>0
<1>2. CASE n < DeadLetterMaxSize
  <2>1. /\ Len(dlq') = n + 1 /\ dlq'[n + 1] = letter
        /\ \A i \in 1 .. n : dlq'[i] = dlq[i]
    BY <1>0, <1>2 DEF Pushed
  <2>2. n = m /\ \A i \in 1 .. n : dlq[i] = failed[i]
    BY <1>0, <1>2 DEF Latest
  <2>3. Len(failed') - Len(dlq') = 0 /\ Len(dlq') = Len(failed')
    BY <1>0, <1>1, <2>1, <2>2
  <2>4. ASSUME NEW i \in 1 .. n + 1  PROVE dlq'[i] = failed'[i]
    <3>1. CASE i = n + 1
      BY <1>1, <2>1, <2>2, <3>1
    <3>2. CASE i \in 1 .. n
      BY <1>1, <2>1, <2>2, <3>2
    <3> QED  BY <1>0, <3>1, <3>2
  <2>5. \A i \in 1 .. Len(dlq') : dlq'[i] = failed'[Len(failed') - Len(dlq') + i]
    BY <1>0, <2>1, <2>3, <2>4
  <2> QED  BY <1>0, <1>1, <2>1, <2>2, <2>5 DEF Latest
<1>3. CASE n >= DeadLetterMaxSize
  <2>0. n = DeadLetterMaxSize /\ n \in Nat \ {0} /\ dlq # <<>>
    BY <1>0, <1>3
  <2>1. dlq' = Append(Tail(dlq), letter)
    BY <1>3 DEF Pushed
  <2>2. /\ Tail(dlq) \in Seq(DeadLetter) /\ Len(Tail(dlq)) = n - 1
        /\ \A i \in 1 .. n - 1 : Tail(dlq)[i] = dlq[i + 1]
    BY <1>0, <2>0
  <2>3. /\ Len(dlq') = n /\ dlq'[n] = letter
        /\ \A i \in 1 .. n - 1 : dlq'[i] = dlq[i + 1]
    BY <2>0, <2>1, <2>2
  <2>4. Len(failed') - Len(dlq') = m + 1 - n
    BY <1>1, <2>3
  <2>5. ASSUME NEW i \in 1 .. n  PROVE dlq'[i] = failed'[m + 1 - n + i]
    <3>1. CASE i = n
      BY <1>0, <1>1, <2>3, <3>1
    <3>2. CASE i \in 1 .. n - 1
      <4>1. i + 1 \in 1 .. n /\ m - n + (i + 1) \in 1 .. m /\ m - n + (i + 1) = m + 1 - n + i
        BY <1>0, <3>2
      <4>2. dlq[i + 1] = failed[m - n + (i + 1)]
        BY <4>1 DEF Latest
      <4>3. failed'[m - n + (i + 1)] = failed[m - n + (i + 1)]
        BY <1>1, <4>1
      <4>4. dlq'[i] = dlq[i + 1]
        BY <2>3, <3>2
      <4> HIDE DEF m, n
      <4> QED  BY <4>1, <4>2, <4>3, <4>4
    <3>3. i = n \/ i \in 1 .. n - 1
      BY <2>0
    <3> QED  BY <3>1, <3>2, <3>3
  <2>6. \A i \in 1 .. Len(dlq') : dlq'[i] = failed'[Len(failed') - Len(dlq') + i]
    BY <2>3, <2>4, <2>5
  <2>7. Len(dlq') <= Len(failed') /\ ~(Len(dlq') < DeadLetterMaxSize)
    BY <1>0, <1>1, <2>0, <2>3
  <2> QED  BY <2>6, <2>7 DEF Latest
<1> QED  BY <1>0, <1>2, <1>3

LEMMA LatestStep ==
    ASSUME TypeOK, CycleOK, Latest, [Next]_vars
    PROVE  Latest'
<1>1. ASSUME NEW retryable \in BOOLEAN, AssignFails(retryable)
      PROVE  Latest'
  <2> DEFINE letter == [key |-> IdempotencyKey(cycle.session, cycle.at),
                        attempts |-> cycle.attempt, retryable |-> retryable]
  <2>1. dlq' = Pushed(letter) /\ failed' = Append(failed, letter)
    BY <1>1 DEF AssignFails
  <2>2. letter \in DeadLetter
    <3>1. cycle.session \in Sessions /\ cycle.at \in Nat /\ cycle.attempt \in 1 .. MaxAttempts
      BY <1>1 DEF AssignFails, TypeOK, CycleOK, Flying, Cycle
    <3>2. IdempotencyKey(cycle.session, cycle.at) \in Key
      BY <3>1, KeyType
    <3> QED  BY <3>1, <3>2 DEF DeadLetter
  <2> HIDE DEF letter
  <2> QED  BY <2>1, <2>2, PushedIsLatest
<1>2. ASSUME ~ \E retryable \in BOOLEAN : AssignFails(retryable)
      PROVE  dlq' = dlq /\ failed' = failed
  <2>1. \A s \in Sessions : Dispatch(s) \/ Snapshot(s) => UNCHANGED <<dlq, failed>>
    BY DEF Dispatch, Snapshot
  <2>2. BeginCycle \/ AssignSucceeds \/ AssignRetries \/ Wake \/ BeginSweep
          => UNCHANGED <<dlq, failed>>
    BY DEF BeginCycle, AssignSucceeds, AssignRetries, Wake, BeginSweep
  <2>3. Stop \/ Exit \/ Tick \/ UNCHANGED vars => UNCHANGED <<dlq, failed>>
    BY DEF Stop, Exit, Tick, vars
  <2> QED  BY <1>2, <2>1, <2>2, <2>3 DEF Next, Work
<1> QED  BY <1>1, <1>2 DEF Latest

\* The dead-letter queue holds the latest failures in the order they happened and
\* forgets only the oldest, and those only when it is full (pushDeadLetter).
THEOREM DeadLetters == Spec => []DeadLettersAreLatest
<1>1. Init => TypeOK /\ CycleOK /\ Latest
  BY TypeInit DEF Init, Latest
<1>2. TypeOK /\ CycleOK /\ Latest /\ [Next]_vars => (TypeOK /\ CycleOK /\ Latest)'
  BY TypeStep, LatestStep
<1>3. TypeOK /\ Latest => DeadLettersAreLatest
  <2> SUFFICES ASSUME TypeOK, Latest  PROVE DeadLettersAreLatest
    OBVIOUS
  <2> DEFINE n == Len(dlq)
             m == Len(failed)
             end == SubSeq(failed, m - n + 1, m)
  <2>1. /\ dlq \in Seq(DeadLetter) /\ failed \in Seq(DeadLetter)
        /\ n \in Nat /\ m \in Nat /\ n <= m
    BY LettersType DEF Latest
  <2>2. end \in Seq(DeadLetter) /\ Len(end) = n
    BY <2>1
  <2>3. \A i \in 1 .. n : end[i] = failed[m - n + i]
    BY <2>1
  <2>4. \A i \in 1 .. n : dlq[i] = end[i]
    BY <2>3 DEF Latest
  <2>5. dlq = end
    <3> HIDE DEF end
    <3> QED  BY <2>1, <2>2, <2>4
  <2> QED  BY <2>5 DEF Latest, DeadLettersAreLatest
<1> QED  BY <1>1, <1>2, <1>3, PTL DEF Spec

-----------------------------------------------------------------------------
(* How long Stop can have to wait.  StopReturns itself is left to TLC; what  *)
(* it rests on is an action property: what the goroutine is doing comes      *)
(* nearer to its end with each of its steps, and nobody else prolongs it.    *)

\* The attempts and backoffs the cycle under way can still make
AttemptsLeft == 2 * (MaxAttempts - cycle.attempt) + (IF pc = "assign" THEN 1 ELSE 0)

\* No backoff ends later than RetryMaxDelay from now.
Sleeps == pc = "sleep" => cycle.wake <= now + RetryMaxDelay

\* A cycle takes at most MaxAttempts attempts, with a backoff of at most RetryMaxDelay
\* between two of them.  A sweep has somebody to test, and tests nobody twice.  Only the
\* goroutine changes where it is: no tick, heartbeat or Stop sends it back.
WorkBounded ==
    /\ Flying =>
        /\ AttemptsLeft \in 1 .. 2 * MaxAttempts - 1
        /\ Work => pc' \in {"loop", "firstSweep"} \/ (Flying' /\ AttemptsLeft' < AttemptsLeft)
        /\ Sleeps
    /\ pc = "sweep" =>
        /\ targets # {}
        /\ Work => targets' \subseteq targets /\ targets' # targets
        /\ Work => pc' = "loop" \/ (pc' = "sweep" /\ targets' # {})
    /\ ~Work /\ ~Exit => UNCHANGED <<pc, cycle, targets>>

\* The delay never exceeds its limit (retryBackoff).
LEMMA BackoffLimit ==
    ASSUME NEW attempt \in 1 .. MaxAttempts
    PROVE  Backoff(attempt) \in Nat /\ Backoff(attempt) <= RetryMaxDelay
<1> DEFINE delay == RetryInitial * RetryMult ^ (attempt - 1)
<1>1. Backoff(attempt) \in Nat /\ RetryMaxDelay \in Nat
  BY BackoffAssumption, RetryAssumption
<1>2. Backoff(attempt) = IF delay >= RetryMaxDelay THEN RetryMaxDelay ELSE delay
  BY DEF Backoff
<1> HIDE DEF delay
<1> QED  BY <1>1, <1>2

\* Where the goroutine sweeps it has somebody to test.
Sweeps == pc = "sweep" => targets # {}

LEMMA EndsElsewhere ==
    ASSUME NEW result, CycleEnds(result)
    PROVE  pc' \in {"loop", "firstSweep"}
BY DEF CycleEnds

\* A new cycle does not begin with a backoff or a sweep.
LEMMA BeginsElsewhere ==
    ASSUME BeginCycle
    PROVE  pc' \in {"loop", "firstSweep", "assign"} /\ ~Flying /\ pc # "sweep"
<1>1. pc \in {"first", "loop"}  BY DEF BeginCycle, Starts
<1> QED  BY <1>1, EndsElsewhere DEF BeginCycle, Flying

LEMMA WaitsStep ==
    ASSUME TypeOK, CycleOK, Sleeps, Sweeps, [Next]_vars
    PROVE  Sleeps' /\ Sweeps'
<1> USE DEF Sleeps, Sweeps
<1>1. now \in Nat /\ cycle \in Cycle /\ RetryMaxDelay \in Nat /\ cycle.wake \in Nat
  BY RetryAssumption DEF TypeOK, Cycle
<1>2. CASE BeginCycle  BY <1>2, BeginsElsewhere
<1>3. CASE AssignSucceeds \/ \E retryable \in BOOLEAN : AssignFails(retryable)
  BY <1>3, EndsElsewhere DEF AssignSucceeds, AssignFails
<1>4. CASE AssignRetries
  <2>1. cycle.attempt \in 1 .. MaxAttempts
    BY <1>1, <1>4, Parameters DEF AssignRetries, CycleOK, Flying, Cycle
  <2>2. Backoff(cycle.attempt) \in Nat /\ Backoff(cycle.attempt) <= RetryMaxDelay
    BY <2>1, BackoffLimit
  <2>3. pc' = "sleep" /\ now' = now /\ cycle'.wake = now + Backoff(cycle.attempt)
    BY <1>1, <1>4 DEF AssignRetries, Cycle
  <2> QED  BY <1>1, <2>2, <2>3
<1>5. CASE Wake  BY <1>5 DEF Wake
<1>6. CASE BeginSweep \/ \E s \in Sessions : Dispatch(s)
  BY <1>6 DEF BeginSweep, Dispatch
<1>7. CASE Tick  BY <1>1, <1>7 DEF Tick
<1>8. CASE Exit  BY <1>8 DEF Exit
<1>9. CASE Stop \/ (\E s \in Sessions : Snapshot(s)) \/ UNCHANGED vars
  BY <1>9 DEF Stop, Snapshot, vars
<1> QED
  BY <1>2, <1>3, <1>4, <1>5, <1>6, <1>7, <1>8, <1>9 DEF Next, Work

\* Each step of a cycle under way ends it or leaves fewer attempts and backoffs.
LEMMA CycleWorks ==
    ASSUME TypeOK, CycleOK, Flying, Work
    PROVE  pc' \in {"loop", "firstSweep"} \/ (Flying' /\ AttemptsLeft' < AttemptsLeft)
<1>1. cycle \in Cycle /\ cycle.attempt \in 1 .. MaxAttempts /\ MaxAttempts \in Nat
  BY Parameters DEF TypeOK, CycleOK, Cycle
<1>2. CASE AssignSucceeds \/ \E retryable \in BOOLEAN : AssignFails(retryable)
  BY <1>2, EndsElsewhere DEF AssignSucceeds, AssignFails
<1>3. CASE AssignRetries
  <2>1. pc = "assign" /\ pc' = "sleep" /\ cycle'.attempt = cycle.attempt
    BY <1>1, <1>3 DEF AssignRetries, Cycle
  <2> QED  BY <1>1, <2>1 DEF AttemptsLeft, Flying
<1>4. CASE Wake
  <2>1. pc = "sleep" /\ pc' = "assign" /\ cycle'.attempt = cycle.attempt + 1
    BY <1>1, <1>4 DEF Wake, Cycle
  <2> QED  BY <1>1, <2>1 DEF AttemptsLeft, Flying
<1>5. ~BeginCycle /\ ~BeginSweep /\ \A s \in Sessions : ~Dispatch(s)
  BY BeginsElsewhere DEF Flying, BeginSweep, Starts, Dispatch
<1> QED  BY <1>2, <1>3, <1>4, <1>5 DEF Work

\* Stop waits for a bounded number of attempts, of backoffs of bounded length and of
\* latency tests: see WorkBounded (assignWithRetry, retryBackoff, runLatencySweep).
\* StopReturns follows with the fairness of the goroutine and of its select.
THEOREM WorkIsBounded == Spec => [][WorkBounded]_vars
<1>1. Init => TypeOK /\ CycleOK /\ Sleeps /\ Sweeps
  BY TypeInit DEF Init, Sleeps, Sweeps
<1>2. TypeOK /\ CycleOK /\ Sleeps /\ Sweeps /\ [Next]_vars =>
          (TypeOK /\ CycleOK /\ Sleeps /\ Sweeps)'
  BY TypeStep, WaitsStep
<1>3. TypeOK /\ CycleOK /\ Sleeps /\ Sweeps /\ [Next]_vars => [WorkBounded]_vars
  <2> SUFFICES ASSUME TypeOK, CycleOK, Sleeps, Sweeps, Next PROVE WorkBounded
    OBVIOUS
  <2>1. Flying => AttemptsLeft \in 1 .. 2 * MaxAttempts - 1
    <3>1. cycle \in Cycle /\ MaxAttempts \in Nat
      BY Parameters DEF TypeOK
    <3> QED  BY <3>1 DEF CycleOK, Flying, AttemptsLeft, Cycle
  <2>2. ASSUME pc = "sweep", Work
        PROVE  /\ targets' \subseteq targets /\ targets' # targets
               /\ pc' = "loop" \/ (pc' = "sweep" /\ targets' # {})
    <3>1. PICK s \in Sessions : Dispatch(s)
      BY <2>2, BeginsElsewhere DEF Work, AssignSucceeds, AssignRetries, Wake, AssignFails,
                                   BeginSweep, Starts
    <3> QED  BY <3>1 DEF Dispatch
  <2>3. ~Work /\ ~Exit => UNCHANGED <<pc, cycle, targets>>
    BY DEF Next, Stop, Tick, Snapshot
  <2> QED  BY <2>1, <2>2, <2>3, CycleWorks DEF WorkBounded, Sweeps
<1> QED  BY <1>1, <1>2, <1>3, PTL DEF Spec
=============================================================================
