--------------------------- MODULE SchedulerEngine ---------------------------
(***************************************************************************)
(* scheduler.Engine: one goroutine that runs assignment cycles and latency *)
(* sweeps off two tickers, remembers what it has assigned, retries an      *)
(* assignment that failed, and keeps the ones that failed for good.        *)
(*                                                                         *)
(* Time is counted in ticks, Second of them to a second, because the code  *)
(* mixes units: an epoch is a number of nanoseconds, the dedup window and  *)
(* the time an assignment was made are cut to whole seconds.  The clock    *)
(* runs on while the goroutine waits for the database, a trader or a       *)
(* backoff, and a tick that comes while one is pending is dropped.         *)
(*                                                                         *)
(* Which of the healthy sessions is the best candidate is left open here.  *)
(***************************************************************************)
EXTENDS Naturals, Sequences

CONSTANTS Sessions,               \* the sessions that have a runtime snapshot
          TraderOf,               \* TraderOf[s]: the trader of session s
          NoSession,
          Second,                 \* ticks to a second
          Interval,               \* Config.Interval, in ticks, as are the next ones
          LatencyCheckInterval,
          HealthyWindow,
          AssignmentDedupWindow,  \* 0: not configured, as are the next ones
          AssignmentEpoch,
          AssignmentMaxRetries,
          RetryInitial,           \* retryInitial, retryMaxDelay and retryMult
          RetryMaxDelay,
          RetryMult,
          DeadLetterMaxSize,      \* dlqMax
          MaxTime                 \* bound: the clock stops here

ASSUME SessionsAssumption == NoSession \notin Sessions
ASSUME TickAssumption ==
    /\ {Second, Interval, LatencyCheckInterval} \subseteq Nat \ {0}
    /\ {HealthyWindow, AssignmentDedupWindow, AssignmentEpoch, MaxTime} \subseteq Nat
ASSUME RetryAssumption ==
    /\ AssignmentMaxRetries \in Nat
    /\ {RetryInitial, RetryMaxDelay, RetryMult, DeadLetterMaxSize} \subseteq Nat \ {0}
    /\ RetryInitial <= RetryMaxDelay

VARIABLES now,        \* the clock
          heartbeat,  \* heartbeat[s]: LastHeartbeatUnix of the snapshot, 0 if there is none
          due,        \* the tickers with a tick pending
          pc,         \* where the goroutine is
          booted,     \* are the cycle and the sweep that Start begins with over?
          cycle,      \* the locals of runCycle and assignWithRetry
          targets,    \* the sessions runLatencySweep has still to test
          dedup,      \* dedupAssigned
          dlq,        \* the dead-letter queue
          cycles,     \* Engine.cycles
          outcomes,   \* SchedulerAssignAttempts, as published to the sink
          stopping,   \* was stopCh closed?
          assigned,   \* history: the keys assigned, in order
          failed      \* history: the dead letters, in order

vars == <<now, heartbeat, due, pc, booted, cycle, targets, dedup, dlq, cycles, outcomes,
          stopping, assigned, failed>>

-----------------------------------------------------------------------------
(* What NewEngine makes of its configuration.                              *)

DedupWindow == IF AssignmentDedupWindow = 0 THEN 2 * Interval ELSE AssignmentDedupWindow
DedupEpoch == IF AssignmentEpoch = 0 THEN Interval ELSE AssignmentEpoch
MaxAttempts == 1 + IF AssignmentMaxRetries = 0 THEN 2 ELSE AssignmentMaxRetries

\* retryBackoff: the delay grows with every attempt up to its limit.
Backoff(attempt) ==
    LET delay == RetryInitial * RetryMult ^ (attempt - 1)
    IN  IF delay >= RetryMaxDelay THEN RetryMaxDelay ELSE delay

ASSUME BackoffAssumption == \A attempt \in 1 .. MaxAttempts : Backoff(attempt) \in Nat

\* time.Time.Unix
Unix(t) == t \div Second

\* assignmentEpoch
Epoch(t) == t \div DedupEpoch

\* What the dedup window, in whole seconds, has to be for its purpose; so it is
\* with the defaults and an Interval of whole seconds.
WindowCoversEpoch == (DedupWindow \div Second) * Second >= DedupEpoch + Second - 1

-----------------------------------------------------------------------------
(* State.                                                                  *)

Period == [assign |-> Interval, latency |-> LatencyCheckInterval]
Tickers == DOMAIN Period

Results == {"success", "no_candidates", "dedup", "failed_retry_exhausted",
            "failed_non_retryable"}

Traders == {TraderOf[s] : s \in Sessions}
Key == [trader : Traders, epoch : Nat]
DeadLetter == [key : Key, attempts : 1 .. MaxAttempts, retryable : BOOLEAN]

Cycle == [at      : Nat,                          \* now of runCycle
          session : Sessions \cup {NoSession},     \* the selected candidate
          attempt : 0 .. MaxAttempts,
          wake    : Nat]                          \* the end of the backoff

NoCycle == [at |-> 0, session |-> NoSession, attempt |-> 0, wake |-> 0]

\* The engine's fields and the locals of its goroutine keep their types; in
\* particular the dead-letter queue never outgrows dlqMax.
TypeOK ==
    /\ now \in Nat
    /\ heartbeat \in [Sessions -> Nat]
    /\ due \subseteq Tickers
    /\ pc \in {"first", "firstSweep", "loop", "assign", "sleep", "sweep", "stopped"}
    /\ booted \in BOOLEAN
    /\ cycle \in Cycle
    /\ targets \subseteq Sessions
    /\ dedup \subseteq [key : Key, ts : Nat]
    /\ dlq \in Seq(DeadLetter) /\ Len(dlq) <= DeadLetterMaxSize
    /\ cycles \in Nat
    /\ outcomes \in [Results -> Nat]
    /\ stopping \in BOOLEAN
    /\ assigned \in Seq(Key)
    /\ failed \in Seq(DeadLetter)

Init ==
    /\ now = Second
    /\ heartbeat = [s \in Sessions |-> 0]
    /\ due = {}
    /\ pc = "first"
    /\ booted = FALSE
    /\ cycle = NoCycle
    /\ targets = {}
    /\ dedup = {}
    /\ dlq = <<>>
    /\ cycles = 0
    /\ outcomes = [r \in Results |-> 0]
    /\ stopping = FALSE
    /\ assigned = <<>>
    /\ failed = <<>>

-----------------------------------------------------------------------------
(* runCycle.                                                               *)

\* Active sessions whose heartbeat is recent, in whole seconds
Healthy == {s \in Sessions : /\ heartbeat[s] > 0
                             /\ Unix(now) <= heartbeat[s] + HealthyWindow \div Second}

\* Mutation: the window is read as minutes
EvictedMinutes(at) == {a \in dedup : a.ts + DedupWindow \div (60 * Second) > at}

\* evictOldAssignments
Evicted(at) == {a \in dedup : a.ts + DedupWindow \div Second > at}

\* assignmentIdempotencyKey
IdempotencyKey(s, at) == [trader |-> TraderOf[s], epoch |-> Epoch(at)]

Seen(key, at) == \E a \in Evicted(at) : a.key = key

\* Mutation: a duplicate is not counted
PublishUnlessDedup(result) ==
    outcomes' = IF result = "dedup" THEN outcomes ELSE [outcomes EXCEPT ![result] = @ + 1]

\* publishAssignOutcome
Publish(result) == outcomes' = [outcomes EXCEPT ![result] = @ + 1]

\* runCycle returns: the first cycle is followed by a sweep.
CycleEnds(result) ==
    /\ Publish(result)
    /\ pc' = IF booted THEN "loop" ELSE "firstSweep"
    /\ cycle' = NoCycle

\* The goroutine starts what the ticker asks for.
Starts(ticker, first) ==
    \/ pc = first /\ UNCHANGED due
    \/ pc = "loop" /\ ticker \in due /\ due' = due \ {ticker}

\* Up to seenAssignment.  The pool is what is left of the healthy sessions after
\* the checks of role, trader status and resources.
BeginCycle ==
    /\ Starts("assign", "first")
    /\ cycles' = cycles + 1
    /\ \E pool \in SUBSET Healthy :
          \/ /\ pool = {}
             /\ CycleEnds("no_candidates")
             /\ UNCHANGED dedup
          \/ \E s \in pool :
                /\ dedup' = Evicted(Unix(now))
                /\ IF Seen(IdempotencyKey(s, now), Unix(now))
                   THEN CycleEnds("dedup")
                   ELSE /\ pc' = "assign"
                        /\ cycle' = [at |-> now, session |-> s, attempt |-> 1, wake |-> 0]
                        /\ UNCHANGED outcomes
    /\ UNCHANGED <<now, heartbeat, booted, targets, dlq, stopping, assigned, failed>>

\* markAssignment, with the time the cycle began
AssignSucceeds ==
    /\ pc = "assign"
    /\ LET key == IdempotencyKey(cycle.session, cycle.at)
           at == Unix(cycle.at)
       IN  /\ dedup' = {a \in Evicted(at) : a.key # key} \cup {[key |-> key, ts |-> at]}
           /\ assigned' = Append(assigned, key)
    /\ CycleEnds("success")
    /\ UNCHANGED <<now, heartbeat, due, booted, targets, dlq, cycles, stopping, failed>>

\* Mutation: a full queue takes one more
PushedOneMore(letter) ==
    IF Len(dlq) > DeadLetterMaxSize THEN Append(Tail(dlq), letter) ELSE Append(dlq, letter)

\* Mutation: a full queue takes nothing
PushedOrLost(letter) ==
    IF Len(dlq) >= DeadLetterMaxSize THEN dlq ELSE Append(dlq, letter)

\* pushDeadLetter: the oldest entry makes room.
Pushed(letter) ==
    IF Len(dlq) >= DeadLetterMaxSize THEN Append(Tail(dlq), letter) ELSE Append(dlq, letter)

\* Mutation: a failed assignment is marked as well
AssignFailsMarked(retryable) ==
    /\ pc = "assign"
    /\ retryable => cycle.attempt = MaxAttempts
    /\ LET key == IdempotencyKey(cycle.session, cycle.at)
           letter == [key |-> key, attempts |-> cycle.attempt, retryable |-> retryable]
       IN  /\ dlq' = Pushed(letter) /\ failed' = Append(failed, letter)
           /\ dedup' = dedup \cup {[key |-> key, ts |-> Unix(cycle.at)]}
    /\ CycleEnds(IF retryable THEN "failed_retry_exhausted" ELSE "failed_non_retryable")
    /\ UNCHANGED <<now, heartbeat, due, booted, targets, cycles, stopping, assigned>>

\* An attempt fails for good.
AssignFails(retryable) ==
    /\ pc = "assign"
    /\ retryable => cycle.attempt = MaxAttempts
    /\ LET letter == [key |-> IdempotencyKey(cycle.session, cycle.at),
                      attempts |-> cycle.attempt, retryable |-> retryable]
       IN  dlq' = Pushed(letter) /\ failed' = Append(failed, letter)
    /\ CycleEnds(IF retryable THEN "failed_retry_exhausted" ELSE "failed_non_retryable")
    /\ UNCHANGED <<now, heartbeat, due, booted, targets, dedup, cycles, stopping, assigned>>

\* An attempt fails and will be repeated.
AssignRetries ==
    /\ pc = "assign"
    /\ cycle.attempt < MaxAttempts
    /\ pc' = "sleep"
    /\ cycle' = [cycle EXCEPT !.wake = now + Backoff(cycle.attempt)]
    /\ UNCHANGED <<now, heartbeat, due, booted, targets, dedup, dlq, cycles, outcomes,
                   stopping, assigned, failed>>

\* Mutation: the attempts are not counted
WakeUncounted ==
    /\ pc = "sleep"
    /\ now >= cycle.wake \/ now = MaxTime
    /\ pc' = "assign"
    /\ cycle' = [cycle EXCEPT !.wake = 0]
    /\ UNCHANGED <<now, heartbeat, due, booted, targets, dedup, dlq, cycles, outcomes,
                   stopping, assigned, failed>>

\* The backoff is over (at the latest when the clock stops).
Wake ==
    /\ pc = "sleep"
    /\ now >= cycle.wake \/ now = MaxTime
    /\ pc' = "assign"
    /\ cycle' = [cycle EXCEPT !.attempt = @ + 1, !.wake = 0]
    /\ UNCHANGED <<now, heartbeat, due, booted, targets, dedup, dlq, cycles, outcomes,
                   stopping, assigned, failed>>

-----------------------------------------------------------------------------
(* runLatencySweep and Stop.                                               *)

\* SelectLatencyTestTargets: the healthy sessions with effective exchanges
LatencyTestTargets(withExchanges) == Healthy \cap withExchanges

\* The targets of a sweep are copied from the snapshots.
BeginSweep ==
    /\ Starts("latency", "firstSweep")
    /\ booted' = TRUE
    /\ \E withExchanges \in SUBSET Sessions : targets' = LatencyTestTargets(withExchanges)
    /\ pc' = IF targets' = {} THEN "loop" ELSE "sweep"
    /\ UNCHANGED <<now, heartbeat, cycle, dedup, dlq, cycles, outcomes, stopping, assigned,
                   failed>>

\* DispatchLatencyTest returns, with an error or without.
Dispatch(s) ==
    /\ pc = "sweep"
    /\ s \in targets
    /\ targets' = targets \ {s}
    /\ pc' = IF targets' = {} THEN "loop" ELSE "sweep"
    /\ UNCHANGED <<now, heartbeat, due, booted, cycle, dedup, dlq, cycles, outcomes,
                   stopping, assigned, failed>>

\* Stop closes stopCh and waits for the goroutine.
Stop ==
    /\ ~stopping
    /\ stopping' = TRUE
    /\ UNCHANGED <<now, heartbeat, due, pc, booted, cycle, targets, dedup, dlq, cycles,
                   outcomes, assigned, failed>>

\* The goroutine sees stopCh closed; select may prefer a pending tick to it.
Exit ==
    /\ pc = "loop" /\ stopping
    /\ pc' = "stopped"
    /\ UNCHANGED <<now, heartbeat, due, booted, cycle, targets, dedup, dlq, cycles, outcomes,
                   stopping, assigned, failed>>

-----------------------------------------------------------------------------
(* The environment.                                                        *)

\* The tickers tick every Period; a tick is dropped while one is pending.
Tick ==
    /\ now < MaxTime
    /\ now' = now + 1
    /\ due' = due \cup {k \in Tickers : (now' - Second) % Period[k] = 0}
    /\ UNCHANGED <<heartbeat, pc, booted, cycle, targets, dedup, dlq, cycles, outcomes,
                   stopping, assigned, failed>>

\* A heartbeat of s, or the end of its session, reaches the snapshots.
Snapshot(s) ==
    /\ heartbeat' \in {[heartbeat EXCEPT ![s] = Unix(now)], [heartbeat EXCEPT ![s] = 0]}
    /\ UNCHANGED <<now, due, pc, booted, cycle, targets, dedup, dlq, cycles, outcomes,
                   stopping, assigned, failed>>

Work ==
    \/ BeginCycle \/ AssignSucceeds \/ AssignRetries \/ Wake
    \/ \E retryable \in BOOLEAN : AssignFails(retryable)
    \/ BeginSweep \/ \E s \in Sessions : Dispatch(s)

Next ==
    \/ Work \/ Stop \/ Exit
    \/ Tick \/ \E s \in Sessions : Snapshot(s)

Spec == Init /\ [][Next]_vars

\* Time passes and the goroutine runs; that the statements of a cycle, on a context
\* without a deadline, are answered is assumed of the database.  select takes a ready
\* case at random, so it does not pass over stopCh forever.
FairSpec == Spec /\ WF_vars(Tick) /\ WF_vars(Work) /\ SF_vars(Exit)

-----------------------------------------------------------------------------
(* Properties.                                                             *)

\* DEVELOPMENT_PLAN: duplicate assignments are prevented by the key task_id +
\* trader_id + epoch.  A trader gets a task at most once in an epoch, whichever
\* of its sessions is chosen, however late a cycle runs and however many
\* attempts it takes (seenAssignment, markAssignment, evictOldAssignments).
AssignedOncePerEpoch ==
    \A i, j \in DOMAIN assigned : assigned[i] = assigned[j] => i = j

\* A cycle is skipped as a duplicate only if the trader really has the task: an
\* assignment that failed is tried again in the same epoch (runCycle marks the
\* key after assignWithRetry).
SkippedWasAssigned ==
    [][outcomes'["dedup"] > outcomes["dedup"] =>
          \E s \in Healthy, i \in DOMAIN assigned :
              assigned[i] = IdempotencyKey(s, now)]_vars

\* The dead-letter queue holds the latest failures in the order they happened,
\* and forgets only the oldest (pushDeadLetter).
DeadLettersAreLatest ==
    /\ dlq = SubSeq(failed, Len(failed) - Len(dlq) + 1, Len(failed))
    /\ Len(dlq) < DeadLetterMaxSize => Len(failed) = Len(dlq)

Published == outcomes["success"] + outcomes["no_candidates"] + outcomes["dedup"]
             + outcomes["failed_retry_exhausted"] + outcomes["failed_non_retryable"]

\* Every cycle has one outcome, which is published when it is over, on every
\* path through runCycle; and every failure in them is a dead letter.
OneOutcomePerCycle ==
    /\ cycles = Published + (IF pc \in {"assign", "sleep"} THEN 1 ELSE 0)
    /\ Len(failed) = outcomes["failed_retry_exhausted"] + outcomes["failed_non_retryable"]

\* Stop returns if the database answers: the goroutine gets back to its loop through
\* every retry and sweep, and sees stopCh.
StopReturns == stopping ~> (pc = "stopped")
=============================================================================
