# cts-core: TLA+ models, checks and proofs

cts-core orchestrates distributed arbitrage traders. Traders connect over mTLS
WebSockets, register, send heartbeats and answer latency tests; the orchestrator keeps
one session per trader in MySQL, keeps a runtime snapshot of every served session, and a
scheduler assigns work to the healthy ones. This directory holds TLA+ modules of the parts
of that program where the order of steps matters, TLC configurations that check them on
small instances, and TLAPS proofs for every instance.

Paths below are relative to the repository (`internal/...`).

## 1. The system

| Part | State | Operations | Interacts with |
|---|---|---|---|
| WebSocket handler, `internal/api/ws/handler.go` (`Serve`) | per connection: `sessionRuntime`, rate, dedup and unknown-action windows, `wsConnectionEntry` (seq counters, two mutexes); shared: `connections`, `connectionsByConn`, `sessions` | accept, read loop (`trader.register`, `trader.heartbeat`, `latency.test_result`), `sendEnvelope`, `DispatchLatencyTest`, `CloseAll`, ping loop | persistence (calls), scheduler (reads `sessions`, sends latency tests), state manager (`syncRuntimeState`), main (`CloseAll`) |
| Session persistence, `internal/api/rest/ws_persistence.go`, `internal/db/repository/trader_session.go`, migration 003 | rows of `TRADER` and `TRADER_SESSION` | `ResolveOrCreateTraderByCN`, `CreateSession`, `tryRecoverStaleActiveSession`, `UpdateHeartbeat`, `FinalizeSession` | called by one goroutine per connection, in any interleaving |
| Connection registry and disconnect counters, `handler.go` | `connections`, `disconnectTotal`, `disconnectByReason`; their copy in the state manager | `addConnection`, `recordDisconnect`, `syncRuntimeDisconnect`, `removeConnection`, `CloseAll` | all connections, main, `/health` and `/metrics` |
| Scheduler engine, `internal/scheduler/scheduler.go` | dedup map, dead-letter queue, counters, one goroutine with two tickers | `runCycle`, `assignWithRetry`, `runLatencySweep`, `Stop` | reads snapshots and resources, writes through the handler |
| Candidate selection, `scheduler.go`, `main.go` (providers), telemetry in `handler.go` and `session.go` | snapshots with loads, latencies and profile; `TRADER_EXCHANGE_RESOURCE` rows | `selectCandidatesInternal`, scores, `applyResourceConstraints`, `GetTraderExchangeUtilization` | snapshots change while a cycle runs on a copy; one statement per lookup |
| State manager, `internal/state` | the state in memory, the state file, its backups | `Load`, `Save`, setters, background sync, `Close` | written by the WebSocket handler, the health handler and main |
| Start and shutdown, `cmd/cts-core/main.go` | - | database pings, first query, HSM self-test; scheduler stop, `CloseAll`, HTTP shutdown, last save | all of the above |
| HSM client, `internal/hsm/client.go` | - | `doRequest` with retries, called by `Health`, `Encrypt`, `Decrypt` | main's start, health handler |
| Health, `internal/api/rest/health.go` | one context of 3 s per request | database ping, two HSM calls, verdict | HSM client, state manager |
| REST rate limiter, `internal/api/middleware/rate_limit.go` | counters per client and window | middleware | Gin |
| Repositories of tasks, reencryption jobs, resources, audit | database rows | CRUD and status changes | scheduler, REST |
| Metrics, logging, configuration, http2, requestid | - | I/O | - |

What is hard in this code, and would hardly be reached by a test:

* Two connections of one trader register at once, or a new one takes over the session of
  an old one that is still open. Every SQL statement is its own transaction, so the
  goroutines interleave between them, and a unique key is the only arbiter.
* A statement can commit while its caller sees an error (the 3 s context of
  `withDBWriteRetry`), and the retry then meets its own row; or there is no retry left, and
  `Serve` reads on without knowing of its row.
* What a handler does in memory comes after its statements: a session can be taken over
  between the UPDATE of a heartbeat and the snapshot that shows it.
* `Serve` has seven ways to return, and only one of them finalizes the session.
* Two goroutines write to one socket; the number of a message is taken under one mutex and
  the message written under another; the entry that owns both mutexes can be removed in
  between.
* Four windows (rate, request ids, unknown actions, sequence) look at every frame in a
  fixed order, and a frame refused by an early one is invisible to a later one.
* The process can stop between any two statements.
* Counters are copied under one lock and published under another; `CloseAll` waits for
  each connection, but not forever, while handlers are still finishing.
* A cycle ranks copies of snapshots that go on changing, and judges traders by rows it
  reads one statement at a time, while usage is reported and windows are reset.
* A request to the HSM is retried while its caller's context runs out.
* The scheduler's one goroutine sleeps between retries while its tickers run on, and it
  compares times in nanoseconds (epochs) with times in whole seconds (the dedup window).

`PROJECT.json` lists these hazards at the lines where they bite, with the properties that
would notice them going wrong.

## 2. The modules

### SessionSlot and TraderSession - the life of a trader session

`SessionSlot` is the abstract specification: a trader has one slot; a session takes it
when it is free, gives it up once, and is never seen again.

`TraderSession` models `Serve` (one goroutine per connection), the statements it sends
through `wsSessionPersistence`, and `Handler.sessions`.

* `rows` is `TRADER_SESSION`: status (no row, `ENDED_AT` NULL, ended), `LAST_HEARTBEAT`,
  `DISCONNECT_REASON`. `traders` is `TRADER`. `snapshots` is `Handler.sessions`.
* `conn[s]` holds the locals of `Serve`: where it is (`pc`), `sessionRuntime.state`,
  the last heartbeat, `persistedSession`, the read deadline, the attempt of
  `withDBWriteRetry`, and the stale session it has found.
* One action per SQL statement of `withDBWriteRetry` (`ResolveTrader`, `CreateSession`,
  `LookupActive`, `EndStale`, `RecreateSession`, `PersistRelease`, `PersistHeartbeat`,
  `Finalize`), because other goroutines run between statements. Each takes an outcome: `ok`,
  `lost` (not executed, error) or `late` (executed, error).
* `LoadCatalog` is the query for the exchanges at a registration, which is outside
  `withDBWriteRetry` and may never be answered. `FinishRegister` and `ShowHeartbeat` are
  what a handler does in memory after its last statement; a take-over can come before.
* One action per kind of frame or read error (`Register`, `Heartbeat`, `LatencyResult`,
  `OtherFrame`, `ReadFails`, `SequenceGap`, `ActionFlood`). What `ReadFails` may give as
  a reason is what `classifyWSDisconnectReason` can return.
* `Crash` loses everything but the database.

A connection and its session are one object, since `Serve` generates a session id per
connection. Payloads are left out; a message that is only answered with an error is
`OtherFrame`.

### WSOutbound - what goes out on one connection

Two writers, `Serve` and the scheduler (`DispatchLatencyTest`), call `sendEnvelope`:
`Stamp` (`nextOutboundSeqAck` under `seqMu`), `Lock` (`writeMu`), `Write`. Around them are
close frames (`Gap`, `Dismiss`, `CloseAll`), a failing ping, `RemoveConnection` and the
deferred `CloseSocket`. The gorilla connection is external, and modelled by what the code
relies on: after a close frame or a failed write it refuses data messages, and it supports
one concurrent writer. `wire` is the sequence of messages written. Looking up the entry
and using it are one step: only `Serve` removes the entry, and it writes nothing after.

### WSIngress - what comes in on one connection

One frame at a time passes the checks in the code's order: size, rate, encoding,
`request_id`, type, sequence, action. There is one action per outcome (`TooLarge`,
`RateLimited`, `Undecodable`, `DuplicateRequest`, `WrongType`, `SequenceGap`,
`OutOfOrder`, `KnownAction`, `UnknownAction`). `handled`, `passed` (the times at which
frames passed the rate check) and `peer` are history variables, which the properties use and no guard of the code reads (`peer.frames` bounds
the run). A frame is a record of the fields the checks look at.

### SchedulerEngine - assignment cycles

The goroutine of `scheduler.Engine`: the cycle and the sweep it starts with, then
`BeginCycle` and `BeginSweep` off two tickers, each with room for one pending tick.
`BeginCycle` is `runCycle` up to `seenAssignment`; `AssignSucceeds`, `AssignRetries`,
`AssignFails` and `Wake` are the attempts of `assignWithRetry` and what follows them;
`Dispatch` is one latency test of a sweep; `Stop` and `Exit` are the two sides of `stopCh`.
`Tick` may come between any of them, since the database, the trader and the backoff take
time. Time is in ticks, `Second` of them to a second, so that the truncations of
`time.Time.Unix` and `Duration.Seconds` are visible. Which healthy session is the best
candidate is left open: any subset of the healthy ones may pass the other checks, and any
of these may be selected. `assigned` and `failed` are history.

### StateStore - the state file

The state manager and `main` from its `select` to the exit. `mem` is `Manager.state`, a
server status and a revision: every setter changes some field, and `Set` keeps no more of
it than that. `file` and `tmp` are the state file and the temporary file, missing, whole
or half written. The two savers, the background goroutine and `Close`, go through `Save`
and `Backup` one file operation at a time (`Marshal`, `OpenTmp`, `WriteTmp`, `RenameTmp`,
`WriteBackup`, `RemoveOldest`, `Rotated`), each of which can fail; an error is logged by
the goroutine and ends `main` with 1 (`Finish`). `Signal`, `ServerFailed`, `Drained`,
`CloseStops`, `CloseSaves` and `Exit` are the steps of `main`; `SyncSaves` and `SyncStops`
the branches of the goroutine's `select`. Setters run as long as the process does, since
`Shutdown` does not wait for upgraded connections. `Crash` is the death of the process:
the files stay as they are. A power failure, after which a renamed file may be empty
because nothing is synced to the disk, is not modelled. The contents of backups are left
out: no code reads them.

### CandidateSelection - whom a cycle selects

What `SchedulerEngine` leaves open. Traders change their snapshots: `Register`
(`buildEffectiveExchanges`, with a catalog query that may fail), `Heartbeat` (loads and
latencies), `LatencyResult` (`selectLatencyValue`, the map replaced as a whole, the profile
only when there is one) and `Disconnect`. A session has two identities. `TraderDBID` is the `TRADER` row of its CN, by which usage is
looked up; `TraderID` is what `normalizeTraderIDForProtocol` makes of the CN, which breaks
ties in the sorts, and which two CNs can share (`x` and `x-cts-client`). A trader that was
not resolved, as happens without persistence, has no row. The rows of
`TRADER_EXCHANGE_RESOURCE` change in
`ReportUsage`, and windows are reset by the clock. A cycle copies the snapshots
(`BeginCycle`), asks for the required exchanges (`ResolveRequired`, an error counts as no
requirements), takes the candidates in the order of the first sort and turns away those
without a row (`NextCandidate`), looks up one exchange per step (`CheckResource`), and takes the first of the second sort
(`Assign`). Scores are exact: loads are counted in 1/`Unit`, scores in 1/`Scale` ms, with
`Scale` a multiple of every denominator in the formulas, so that only the rounding of
`float64` is left out. Percentiles, spreads and maxima are stated by what they are, not by
a sort. `taskType` is what `Config.TaskType` is normalized to; main leaves it empty, which
is `trade`. `seen` is history: the utilizations in force at any moment of the cycle.

### HSMClient, Connections and ServiceRuntime - the process as a whole

`HSMClient` is one call of `doRequest`: `Send`, `Receive` (success, an undecodable success,
a client error, another status), `Lose` (no connection, a timeout, the context) and `Wake`
after the backoff, up to `MaxAttempts`. `Connections` is every call of `Serve` from the
upgrade to its return, reduced to what the registry, the counters and the shutdown see: a
session is inserted, with or without `Serve` hearing of it (`OpenSession`), and shown
(`ShowSession`); a disconnect is counted and copied (`RecordDisconnect`), published
(`SyncRuntimeDisconnect`), the session finished (`FinishSession`) and the entry removed
(`RemoveConnection`); `CloseAll` copies the entries and waits for each (`SendClose`,
`SeesClosed`, `WaitTimesOut`). `Load` puts the counters of a state file in the state
manager, where they stay until the first disconnect is published. `ServiceRuntime` composes both with main and the health
request: the start (`PingFails`, `PingAnswers`, `ListTraders`, the four calls of the
self-test, `Prepare`, `StartAborts`), the request (`PingDatabase`, `TradingChecked`, `TwoFAChecked`, `Respond`,
one context for all, which may end at any moment) and the shutdown (`Signal` or
`ServerFails`, `SchedulerStopped` when `Stop` has returned, `Close`, `Shutdown`, `Exit`). `/ready` runs the same checks as `/health`.
`last` and `evidence` are history: what the service really answered.

`MCTraderSession`, `MCWSIngress`, `MCSchedulerEngine`, `MCCandidateSelection` and
`MCServiceRuntime` give the constants and the symmetry sets.

## 3. The runs

| Run | What it shows |
|---|---|
| `trader_session` | Three connections of one trader, one failed statement, one crash. `SingleActiveSession`, `EndedRowIsFinal`, `CleanDisconnectEndsRow`, `SnapshotOnlyWhileServed`, `SnapshotNotAheadOfRow`, `TakenOverStaysSilent`. |
| `trader_session_fair` | Two connections, two failed statements, with fairness. `SlotSpec`: the table implements the slot. `HandlerReturns`: every handler gets back to reading or returns, also against a row that has ended, unless its catalog query is never answered. |
| `ws_outbound` | Three received messages and two latency tests. Every number is used once (`SeqUsedOnce`), a missing number is in the hands of a writer (`NoSeqSkipped`), messages overtake each other, but never more than one is overtaken (`OneOvertaken`), acknowledgements agree with the numbers (`AckFollowsSeq`), an unnumbered message is the last (`UnnumberedIsLast`), one writer at a time (`NoConcurrentWrite`), every send returns (`SendReturns`). |
| `ws_ingress` | Five frames over four ticks. `HandledInOrder`, `RequestsApart`, `RateBounded`, and `GapHasCause`: when a connection is closed for a gap. |
| `scheduler_engine` | Two sessions of one trader, late cycles, failing assignments. A trader is assigned once in an epoch (`AssignedOncePerEpoch`) and skipped only if it was (`SkippedWasAssigned`); `DeadLettersAreLatest`; every cycle is counted once (`OneOutcomePerCycle`); `StopReturns`. |
| `state_store` | Two starts, a setter, a failing file operation, a crash at any point. The file is whole (`TypeOK`) and only moves forward (`FileMovesForward`); exit code 0 means that everything is in it (`CleanExitSaved`); the newest backups are kept (`RotationKeepsNewest`); `ShutdownEnds`. |
| `candidate_selection` | Two sessions of two traders that share a `trader_id`, two exchanges, one cycle, with telemetry, usage, the clock and a failing statement in between. The selected trader had room on every required exchange (`LimitRespected`); a cycle that assigns nothing has a reason for every eligible session (`IdleHasReason`); nobody who is plainly better is passed over (`NoBetterLeftOut`). |
| `service_runtime` | A start with or without a state file, two clients, a shutdown or a server error. The disconnect counters of one `GetState` belong together, and from the first publication on they are this process's (`CopiesConsistent`); a connection that `CloseAll` saw close has finished its session, unless `Serve` never heard of it (`ClosedMeansFinished`); a health verdict rests on this request's answers (`VerdictEarned`); what is left of a start, a request and a shutdown when the database has answered and the scheduler has stopped comes to an end (`EverythingEnds`). |
| `sub_second_dedup` | Expected violation, finding 3. |
| `null_means_connected` | Expected violation, finding 1. |
| `one_served_connection` | Expected violation, finding 2. |
| `total_keeps_up` | Expected violation, finding 4. |

Each passing property also has a mutant in `PROJECT.json`: a definition marked `Mutation:`
in the modules that changes the code's behaviour the way a plausible mistake would, and
that makes TLC find the property violated.

### Findings

1. Migration 001 says of `ENDED_AT` "NULL = still connected". After a sequence gap or an
   action flood `Serve` returns without `FinalizeSession`, and a client's close code 4009
   has no `DISCONNECT_REASON`: the row stays active although nobody is connected.
2. `README.md` says that a second simultaneous connection with the same certificate gets
   `DUPLICATE_CONNECTION`. A connection kept open by pongs, but without heartbeats, is
   taken over, and then both are served.
3. `DEVELOPMENT_PLAN.md` says that the key task, trader and epoch with a dedup window
   protects from duplicate assignments. The window is twice the assignment interval cut to
   whole seconds: for an interval below 500 ms, which the configuration accepts, it is
   empty, and a late cycle of the same epoch assigns again.
4. `metrics.go` describes the total of disconnects as "Total websocket disconnects observed
   by server". Two handlers count one disconnect each and publish in the other order: the
   older copy stays in the state manager, and the exported total is one behind until the
   next disconnect.

### Observations

What the models show and no document contradicts:

* `request_id` is looked at before seq, so an unchanged retransmission is answered
  `DUPLICATE_REQUEST`, while one with a new id is ignored.
* If the query for the required exchanges fails, the cycle has no requirements: it ranks by
  the overall profile and applies no resource limits. `DEVELOPMENT_PLAN.md` asks for limits
  but does not say what an error means.
* A trader that is faster on every exchange can lose against one that is slower: the score
  adds a tenth of the spread. A slow figure can cost more than a missing one (300 ms). A
  profile of 0 ms counts as missing (5000 ms).
* If the catalog query fails at the registration, the session has no effective exchanges
  for its life, and every exchange of a latency map counts.
* Two certificates with the CNs `x` and `x-cts-client` are two traders in `TRADER` but have
  one `trader_id`. They share the dedup key of an epoch, and if score and heartbeat are
  equal, too, the order of a Go map decides between them.
* A heartbeat whose UPDATE was executed just before a take-over is shown to the scheduler
  just after it: the old session looks alive for one more healthy window.
* If the last attempt of `create_session` commits and fails, `Serve` reads on without
  `persistedSession`, and no disconnect ends the row. It is taken over when it is stale.
* After a restart `/health` and `/metrics` show the disconnect counters of the state file,
  until the first disconnect replaces them by the counters of the new process, which start
  at 0. A `/metrics` scrape calls `GetState` for the reasons, the total and close 4009
  separately, so one scrape can show figures of two moments.
* The MySQL DSN has no timeouts. The pings (`mysql.go`, `health.go`) take no context, the
  first query of main and the statements of a scheduler cycle run on
  `context.Background()`, and the catalog query on the context of the upgraded request. A
  database that accepts and never answers holds up the start, a health request, a
  registration or `Stop`, and with it the shutdown, without end.
* Main sets no `TaskType`: monitor tasks, their role penalties and
  `ListMonitorExchanges` are reached only through another configuration of the engine.
* `server_shutdown` is never recorded as a reason: `CloseAll` sends close code 1000, and
  the trader's answer is classified as `client_close`.
* A connection accepted after `CloseAll` has copied the entries is cut off when the process
  exits, and its row stays active until it is stale.
* The three checks of a health request share 3 s: a slow database leaves no time for the
  HSM, which is then reported as failed after attempts that were never sent.
* `hsm.timeout` is neither given a default nor checked. With 0 the HTTP client has no
  timeout, and the start, whose context has none either, waits for an HSM that does not
  answer.

### Bounds

* Three connections are a victim and two competitors for its slot; a fourth would repeat
  one of them. One trader, because traders share no state but the clock.
* `HeartbeatTimeout = 2` and `MaxTime = 3`: a session registered at 1 is stale at 3, and
  one with a heartbeat at 2 is not. The run with fairness and the two violations use 1 and
  2, which is enough for a session to become stale.
* `MaxAttempts = 2` (the first and one retry), with one or two faults: an operation can
  succeed, succeed after a retry, and fail for good.
* Three received messages allow register, heartbeat and one more; two latency tests allow
  one that overtakes an answer and one that is under way at `RemoveConnection`.
* Five frames over four ticks with windows of 1 and 2 ticks cross two windows, and limits
  of 2 are exceeded in one of them.
* The scheduler runs for two and a half seconds of two ticks: three cycles on time, of
  which two can fall into one epoch when one is late, and three failures overflow a
  dead-letter queue of two.
* Two starts of the process are a run and the one that loads what it left; one setter can
  come before, during and after each save; one failure hits any file operation; two
  seconds and `MaxBackups = 1` make one rotation, which a failure or a crash can cut off.
* Two sessions of two traders with one `trader_id`, whose registrations, heartbeats and
  results give them equal or different loads, roles and latencies. Resolved and unresolved
  traders occur in one run, although a process has persistence for all or for none; two exchanges, both required for a trade, one
  for monitoring, none when the query fails; a soft limit of 1/4 and a hard limit of 3/4
  with rows that are unused after a reset, between the limits, at the hard limit, or cannot
  be read. Four events make two candidates with telemetry; one change of a row, one tick
  and one failing statement can fall between any two lookups.
* Two clients are two connections, two requests or one of each; two attempts are a first
  and a last one. Three pings are the code's own constant. One kind of read error and the
  sequence gap are two reasons to count. The state file is missing, or it holds three
  disconnects for two reasons, more than the run can count.
* TLC checks no deadlock: connections end, and the bounds stop the clock.

### Fairness

* `TraderSession`: weak fairness of the steps of a handler under way, except `LoadCatalog`.
  The Go runtime schedules every goroutine, and the statements of `withDBWriteRetry` have a
  context of 3 s. The catalog query has none, so `HandlerReturns` allows a handler that waits
  for it forever. No frame, tick or crash is assumed to happen.
* `WSOutbound`: weak fairness of the deferred calls, and strong fairness of a writer's
  steps: a write ends at its deadline, and `sync.Mutex` hands over to a waiter in
  starvation mode, so a waiter is not passed over forever.
* `SchedulerEngine`: weak fairness of the clock and of the goroutine, and strong fairness
  of seeing `stopCh`: `select` takes one of the ready cases at random. The statements of a
  cycle have no deadline, so this assumes that the database answers them.
* `StateStore`: weak fairness of `main` and of the goroutine's save, since `Shutdown` has
  its grace as a deadline and makes the server return, and strong fairness of seeing
  `stopCh`, as above. `ShutdownEnds` begins when the scheduler has stopped: its `Signal` is
  the step that sets the status `stopping`.
* `ServiceRuntime`: weak fairness of the steps of main, of the health handler and of
  `doRequest` that no database has to answer: the HTTP client returns at its timeout, and
  the timer of `waitForConnectionClose` fires. This takes a positive `hsm.timeout`. Nothing
  is assumed of pings, of the first query, of `Stop`, which waits for the statements of a
  cycle, or of any call of `Serve`; no client, signal or end of the context is assumed to
  come. `EverythingEnds` therefore begins behind these waits.

`HandlerReturns`, `SendReturns`, `StopReturns`, `ShutdownEnds` and `EverythingEnds` claim no
more than that a started operation ends.

## 4. The proofs

All theorems hold for every value of the constants that satisfies the named assumptions of
the module (`CN` maps sessions to traders, bounds are naturals, timeouts are positive).

`TraderSessionProofs`

* `TypeCorrect`: `Spec => []TypeOK`, one step per action.
* `SingleActive`: `SingleActiveSession`. The invariant is inductive with `TypeOK`. The
  argument goes through a lemma on the table alone: whatever an action does, it leaves the
  rows, inserts one for a trader without an active row, changes the heartbeat of an active
  row, or ends an active row. The uniqueness follows from those four cases.
* `EndedRowFinality`: `EndedRowIsFinal`, from the same lemma.
* `ImplementsSlot`: `SlotSpec`, by the refinement mapping `holder` = the active rows of a
  trader, `spent` = the ended rows. Inserting takes the slot, ending gives it up, and
  everything else stutters.
* `CleanDisconnects` (`CleanDisconnectEndsRow`), `SnapshotsServed`
  (`SnapshotOnlyWhileServed`), `SnapshotsBehindRows` (`SnapshotNotAheadOfRow`) and the
  action property `TakenOverSilence` (`TakenOverStaysSilent`) follow from one invariant,
  `ServeInv`, which relates the row, the locals of `Serve` and the snapshot of each session.
  None of the properties is inductive alone. `TimesAgree`: no row is ahead of the clock, no
  connection or snapshot ahead of its row, and the snapshot shows what `Serve` holds.
  `PersistedAgrees`: a session that counts as persisted has a row, and that flag together
  with the session's state decides where `Serve` can be. `EndsAgree`: the first two
  properties, for one session. The proof divides what an action does to a session into
  three cases: it goes on serving (`Serves`), it shows itself to the scheduler (`Shows`), or
  `Serve` returns (`Returns`).
* `HandlersAreBounded`: a handler under way has between 1 and `6 * MaxAttempts + 2` steps
  left (`StepsLeft`: the catalog query, the attempts to resolve, to create and to store the
  release, and the end), each of its steps leaves fewer, and no other step but a crash
  touches it. That the catalog query is one of these steps says nothing of how long it takes. It holds without the bounds on faults and time. The invariant is that a handler under
  way is in an attempt that was counted.

`WSOutboundProofs`

* `TypeCorrect`: the types, in particular that `Serve` sends exactly the answers it owes.
  `replies` stays in `0 .. 2` only because a writer is under way exactly while answers are
  owed, which is why `Sending` is part of the inductive invariant.
* `OneWriter`: `NoConcurrentWrite`. It is not inductive alone: without the entry a writer
  takes no lock. The strengthening says that the entry is there until `Serve` is in its
  deferred calls (`EntryKept`), that `Serve` writes nothing then (`Sending`), and that,
  while the entry is there, a writer in `WriteMessage` holds `writeMu` (`HolderWrites`).
* `SeqsAreUnique` (`SeqUsedOnce`), `SeqsAreComplete` (`NoSeqSkipped`), `AcksFollowSeqs`
  (`AckFollowsSeq`) and `UnnumberedComesLast` (`UnnumberedIsLast`) share the invariant
  `Numbering`. It adds what the properties about the wire leave out: numbers on the wire and
  in the hands of writers, and their acknowledgements, are at most the counters (`Bounded`);
  acknowledgements agree with the numbers also for messages not yet written
  (`Acknowledging`); a message without a number exists only once the entry is removed, and
  when it is written nobody is left to write another (`Unnumbered`).
* `OneIsOvertaken` (`OneOvertaken`) follows from `Numbering` and `NoSeqSkipped`: when a
  message is written, every lower number that is missing is in the other writer's hands, and
  that is one at most.
* `SendsAreBounded`: a writer has at most six steps left for the messages it owes, each of
  its steps leaves fewer, nobody else touches its message, and all it may have to wait for
  is the other's `WriteMessage`. The invariant is that `writeMu` is held only by a writer
  that is in `WriteMessage` (`HolderIsWriting`), also when a write fails or the entry is
  removed under way.

`WSIngressProofs`

* `TypeCorrect`, for every set of frames.
* `HandledInOrderAlways`: `HandledInOrder`, with `Tracks`: `inboundSeq` is the
  number of the last message acted on.
* `RequestsApartAlways`: `RequestsApart`, with `Remembered`: an id that was acted on is in
  the map with that time or a later one, or its window is over. The step that matters is the
  pruning of old ids (`FreshRemembers`).
* `GapHasCauseAlways`: `GapHasCause`, with the invariant that, unless a frame was left out or
  refused, what the trader sends next is no more than what the connection expects.
* `RateBoundedAlways`: `RateBounded`. It is not inductive: the windows of the code are gone
  when the frames they let pass are counted. `Windows` says of the passed frames
  what the code remembers of them: the last ones, as many as the window has counted, passed
  in it and the others before it began; and those that are a limit's worth older still
  passed a second before it began.

`SchedulerEngineProofs`

* `TypeCorrect`, with `CycleOK` (a cycle under way has a session, and sleeps only if an
  attempt is left), without which `Wake` could exceed the attempts.
* `OneOutcome`: `OneOutcomePerCycle`, inductive with the types.
* `SkipsAreDuplicates`: `SkippedWasAssigned`, from `Marks`: every entry of the dedup map
  was assigned.
* `AssignedOnce`: `AssignedOncePerEpoch`, assuming `WindowCoversEpoch`, that the window in
  whole seconds is at least an epoch and one second less a tick. The defaults satisfy it
  for every interval of whole seconds; finding 3 is a configuration that does not. The
  inductive invariant says that a key that was assigned is still in the map or belongs to
  an epoch that is over both for the clock and for the cycle under way (`Remembered`), and
  that the cycle under way holds a key that was not assigned (`NewKey`). The step that
  matters is an eviction: by `WindowsApart`, an arithmetic lemma on the two divisions, what
  is evicted belongs to an earlier epoch. The theorem's only other assumption on values,
  `BackoffAssumption`, says that backoffs are natural numbers, since the prover does not
  know exponentiation.
* `DeadLetters`: `DeadLettersAreLatest`, for every capacity. `SubSeq` is opaque to the
  provers, so the invariant, `Latest`, says it element by element; `PushedIsLatest` is the
  lemma that `pushDeadLetter` keeps it, at the limit and below.
* `WorkIsBounded`: every attempt and every backoff of a cycle leaves fewer of at most
  `2 * MaxAttempts - 1`, no backoff ends later than `RetryMaxDelay` from now, a sweep's
  targets shrink with every test, and only the goroutine changes where it is.

`StateStoreProofs`

* `TypeCorrect`, `CleanExit` (`CleanExitSaved`) and `ForwardOnly` (`FileMovesForward`)
  follow from one inductive invariant. `Alone`: `Close` saves only after the goroutine has
  ended, so one saver uses the temporary file. `TmpIsData`: hence what is renamed is what
  was marshalled. `Ordered`: the file is no newer than what is about to replace it, nor
  that than the memory. `Closing`: from the call of `Close` on, first the memory, then what
  was marshalled, then the file holds all that was there at the call, and the status
  `stopped` unless an error has settled the exit code.
* `RotationSound`: `RotationKeepsNewest`, inductive with the finiteness of the files. The
  lemma `RemoveOldestKeeps` is the argument: if the oldest of more than `MaxBackups` files
  is newer than a file that is gone, so are the others.
* `ShutdownIsBounded`: from the signal on, a step of main brings it nearer to its exit
  (`StepsToExit`) or removes one of finitely many backups; anybody else's step ends the
  process or leaves main and its rotation alone; and while `Close` waits for the goroutine,
  `stopCh` is closed.

`CandidateSelectionProofs`

* `TypeCorrect`: the types of snapshots, of the copy a cycle works on and of what it notes,
  for every payload, row and limit. Percentiles, maxima and first elements are `CHOOSE`s, so
  the proof rests on lemmas that what is chosen exists: `LowestExists`, `HighestExists`,
  `SlowestExists` and `FiguresExist`, for any finite set.
  `Shape` says in which of its phases a cycle holds a candidate, a list or a selection.
* `LimitsRespected` (`LimitRespected`) and `IdlenessHasReasons` (`IdleHasReason`). The
  inductive invariant has three parts besides. `Noticed`: while a cycle runs, the
  utilizations in force are in `seen`, so what a lookup returns has been noted. `Vetted`: a
  candidate that is kept, or is being checked, had room on the exchanges looked up so far.
  `Accounted`: every eligible session is still waiting, being checked, kept, or turned down
  for a reason that holds, that its trader was not resolved included.

`CandidateRankingProofs`

* `BetterIsNotLeftOut`: `NoBetterLeftOut`. A trader is plainly better than another if it is
  no worse in any figure that the code scores or compares, and no fuller on any required
  exchange, and really better in one of them. The figures are the documented ones, with the
  95th percentile of the latencies; the slowest latency would not do, since from 20
  exchanges on the percentile may pass it over. The proof has two halves. The static one:
  the latency and load scores are monotone in the figures, by arithmetic on products
  (`ProductsOrdered`). The other compares the penalties two candidates have collected over
  the exchanges. `Ranked` says that the score a cycle holds is a *tally*: a sequence of
  running totals, one per exchange looked up, that starts at the static score and grows by
  that exchange's penalty. `TotalsOrdered` compares two tallies at the first exchange where
  their order fails, which cannot exist, and so needs no induction over the exchanges.
  `Settled` says that a cycle still holds or has refused every eligible session. The
  invariant, `RankInv`, is these two, the property, and the invariant of
  `CandidateSelectionProofs`. It takes `0 < SoftPenaltyMs`, which
  `normalizeResourceSoftPenalty` guarantees: with no penalty a fuller trader would be tied.

`ServiceRuntimeProofs`

* `TypeCorrect`, with the pings that are left while main tries the database.
* `CopiesConsistentAlways`: `CopiesConsistent`, from the invariant that every set of
  counters that is around (counted, copied, published, loaded) is consistent and, unless it
  was loaded and nothing is published yet, not ahead of what was counted. It takes that
  nobody is served before `Load`, and that a dismissed connection publishes nothing.
  That the files themselves hold consistent counters is an assumption, `ConnAssumption`:
  they were written by an earlier process from one copy of its state.
* `ClosedMeansFinishedAlways`: `ClosedMeansFinished`, from the invariant that a connection
  that is being removed has finished its session, as far as `Serve` knew of it, and that no
  channel is closed before.
* `VerdictEarnedAlways`: `VerdictEarned`, for any number of attempts, none included. The
  invariant says what must have come back for `doRequest` to be where it is, that result
  and evidence agree afterwards, and that no request is served before the start is over,
  so that the calls of the start and of the request do not mix.
* `EndsAreBounded`: the start has at most `12 * MaxAttempts + 9` steps left and a health
  request at most `6 * MaxAttempts + 5`, and each of their steps and of the HSM call they wait
  for leaves fewer. A shutdown waits for the scheduler; then `CloseAll` has two steps for
  each entry of the registry (`CloseLeft`), each of its steps leaves fewer, and main moves on
  when none is left. Nobody else's step holds them up. Steps that only the database can end
  are counted like others: the theorem bounds the number of steps, not the time they take.
  The invariant is that an HSM call under way is in an attempt that was counted, and backs
  off only before another one, and that the registry and its copy are finite.

Only model-checked: the five liveness properties `HandlerReturns`, `SendReturns`,
`StopReturns`, `ShutdownEnds` and `EverythingEnds`, since liveness under fairness and
`ENABLED` are out of the prover's reach. The part of each that is about steps is proved:
`HandlersAreBounded`, `SendsAreBounded`, `WorkIsBounded`, `ShutdownIsBounded` and
`EndsAreBounded` say that what must end has finitely many steps left and is not set back.
What remains for TLC is that the next of these steps is enabled and, by fairness, taken.

## 5. Not modelled

* The decoding of messages and the wording of answers, logging, the layout of `/metrics`,
  TLS and the certificate check before `Serve`: no state that outlives the call.
* The gauge of active connections, `lastSeen`, ping times and round trips, which are
  published like the disconnect counters and read by nobody but the operator.
* `PerIPRateLimit`: one map of windows under one lock that no other part reads. Its windows
  are never removed.
* The checks and defaults of the configuration: predicates on one record.
* HTTP handlers and repositories that are one statement per call; tasks and reencryption
  jobs, which no running code writes.
* Ping frames and their timing, except that a ping can fail and that a pong moves the read
  deadline.
* The rounding of `float64` in the scores.

## 6. Plan

1. `TraderSession`, `SessionSlot`, `WSOutbound`, `WSIngress`, `SchedulerEngine`,
   `StateStore` and the first proofs (done).
2. `CandidateSelection`, `HSMClient`, `Connections`, `ServiceRuntime` and the proofs of the
   latter (done).
3. The safety properties of `WSOutbound`, `WSIngress`, `TraderSession`, `SchedulerEngine`
   and `CandidateSelection`, as above (done).
4. `NoBetterLeftOut`, and the bounds on the remaining steps behind the liveness properties
   (done).
