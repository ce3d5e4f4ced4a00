---------------------------- MODULE TraderSession ----------------------------
(***************************************************************************)
(* The life of trader sessions: the goroutines of ws.Handler.Serve (one    *)
(* per WebSocket connection), the rows of TRADER_SESSION they write        *)
(* through rest.wsSessionPersistence, and the runtime snapshots            *)
(* (Handler.sessions) from which the scheduler takes its candidates.       *)
(*                                                                         *)
(* A connection and its session are one thing (Serve generates a session   *)
(* id per connection), so both are a member of Sessions.  Every SQL        *)
(* statement is a step of its own, because the goroutines of two           *)
(* connections interleave between statements.  A statement may be lost, or *)
(* take effect while its caller sees an error (the 3s context of           *)
(* withDBWriteRetry expires after the commit).                             *)
(***************************************************************************)
EXTENDS Naturals

CONSTANTS Traders,           \* rows of TRADER, identified by certificate CN
          Sessions,          \* the connections ever accepted
          CN,                \* CN[s]: the trader whose certificate s presents
          NoSession,
          HeartbeatTimeout,  \* read deadline, and staleAfter of the persistence
          MaxAttempts,       \* DBRetryConfig.MaxAttempts
          MaxTime,           \* bound: the clock stops here
          MaxFaults,         \* bound: failed database calls in a behaviour
          MaxCrashes         \* bound: process crashes in a behaviour

ASSUME CNAssumption == CN \in [Sessions -> Traders]
ASSUME NoSessionAssumption == NoSession \notin Sessions
ASSUME HeartbeatTimeoutAssumption == HeartbeatTimeout \in Nat \ {0}
ASSUME MaxAttemptsAssumption == MaxAttempts \in Nat \ {0}
ASSUME BoundsAssumption == MaxTime \in Nat /\ MaxFaults \in Nat /\ MaxCrashes \in Nat

VARIABLES now,        \* the clock
          traders,    \* the TRADER rows that exist
          rows,       \* TRADER_SESSION, by SESSION_ID
          conn,       \* the local state of Serve, by connection
          snapshots,  \* Handler.sessions
          faults,     \* failed database calls so far
          crashes     \* crashes so far

vars == <<now, traders, rows, conn, snapshots, faults, crashes>>

-----------------------------------------------------------------------------
(* State.                                                                  *)

\* Where Serve returned: the last two after FinalizeSession succeeded (or was
\* not needed) and after it failed MaxAttempts times.
Gone == {"gap", "flood", "duplicate", "crashed", "disconnected", "unfinalized"}

\* Where Serve is inside a handler: before a database statement, or between the
\* last one and what the handler then does in memory ("finish", "show").
Busy == {"catalog", "resolve", "create", "lookup", "endStale", "recreate", "release",
         "finish", "heartbeat", "show", "finalize"}

Locations == {"idle", "reading"} \cup Busy \cup Gone

SessionStates == {"connected", "registered", "active", "timed_out", "disconnected"}

\* What classifyWSDisconnectReason can return for a failed read.
ReadErrors == {"client_close", "timeout", "read_error", "close_4009"}

\* mapDisconnectReason: close_4009 has no DISCONNECT_REASON.
MapDisconnectReason ==
    [r \in ReadErrors \ {"close_4009"} |->
        CASE r = "client_close" -> "graceful"
          [] r = "timeout" -> "timeout"
          [] r = "read_error" -> "error"]

Row == [status : {"none", "active", "ended"},   \* none: no such row
        hb     : Nat,                            \* LAST_HEARTBEAT
        reason : {"null", "graceful", "timeout", "error"}]

Snapshot == [state : {"none", "registered", "active"}, hb : Nat]

Attempts == 0 .. MaxAttempts
Targets == Sessions \cup {NoSession}
Causes == ReadErrors \cup {"none"}

Conn == [pc        : Locations,
         state     : SessionStates,    \* sessionRuntime.state
         hb        : Nat,              \* sessionRuntime.lastHeartbeatMs
         persisted : BOOLEAN,          \* persistedSession
         lastRead  : Nat,              \* the read deadline is lastRead + HeartbeatTimeout
         at        : Nat,              \* nowMs of the request being handled
         attempt   : Attempts,         \* attempt of withDBWriteRetry
         target    : Targets,          \* the stale session found
         reason    : Causes]           \* why the read failed

NoSnapshot == [state |-> "none", hb |-> 0]

\* The columns, the locals of Serve and the snapshots keep their types; in
\* particular no operation is attempted more than MaxAttempts times.
TypeOK ==
    /\ now \in Nat
    /\ traders \subseteq Traders
    /\ rows \in [Sessions -> Row]
    /\ conn \in [Sessions -> Conn]
    /\ snapshots \in [Sessions -> Snapshot]
    /\ faults \in Nat
    /\ crashes \in Nat

Init ==
    /\ now = 1
    /\ traders = {}
    /\ rows = [s \in Sessions |-> [status |-> "none", hb |-> 0, reason |-> "null"]]
    /\ conn = [s \in Sessions |->
                  [pc |-> "idle", state |-> "connected", hb |-> 0, persisted |-> FALSE,
                   lastRead |-> 0, at |-> 0, attempt |-> 0, target |-> NoSession,
                   reason |-> "none"]]
    /\ snapshots = [s \in Sessions |-> NoSnapshot]
    /\ faults = 0
    /\ crashes = 0

-----------------------------------------------------------------------------
(* The database.                                                           *)

\* The outcome of a statement: executed and answered, not executed, or
\* executed with the answer lost.
Outcomes == {"ok", "lost", "late"}

Executed(out) == out # "lost"

DBCall(out) ==
    /\ out # "ok" => faults < MaxFaults
    /\ faults' = IF out = "ok" THEN faults ELSE faults + 1

\* traderRepo.GetOrCreateByCertificateCN
GetOrCreate(t, out) == traders' = IF Executed(out) THEN traders \cup {t} ELSE traders

ActiveRows(t) == {r \in Sessions : CN[r] = t /\ rows[r].status = "active"}

\* Mutation: without the unique key of migration 003
DuplicateSessionId(s) == rows[s].status # "none"

\* Mutation: without the unique key on SESSION_ID
DuplicateSlot(s) == ActiveRows(CN[s]) # {}

\* Error 1062: SESSION_ID is unique, and so is the active slot of a trader
\* (migration 003).
DuplicateEntry(s) == rows[s].status # "none" \/ ActiveRows(CN[s]) # {}

\* traderSessionRepo.Create: INSERT, when it violates no unique key
InsertRow(s, out) ==
    rows' = IF Executed(out) /\ ~DuplicateEntry(s)
            THEN [rows EXCEPT ![s] = [status |-> "active", hb |-> conn[s].at,
                                      reason |-> "null"]]
            ELSE rows

\* Mutation: EndSession without "AND ENDED_AT IS NULL"
EndRowAgain(r, why, out) ==
    rows' = IF Executed(out) /\ rows[r].status # "none"
            THEN [rows EXCEPT ![r].status = "ended", ![r].reason = why]
            ELSE rows

\* traderSessionRepo.EndSession: a session that has ended stays as it is.
EndRow(r, why, out) ==
    rows' = IF Executed(out) /\ rows[r].status = "active"
            THEN [rows EXCEPT ![r].status = "ended", ![r].reason = why]
            ELSE rows

\* traderSessionRepo.UpdateHeartbeat: an active session gets the time of the statement.
BeatRow(r, out) ==
    rows' = IF Executed(out) /\ rows[r].status = "active"
            THEN [rows EXCEPT ![r].hb = now]
            ELSE rows

\* isSessionStale at the time the register request was received
Stale(r, at) == rows[r].hb + HeartbeatTimeout <= at

-----------------------------------------------------------------------------
(* Serve.                                                                  *)

\* Serve goes back to ReadMessage.
Reading(s) == [conn[s] EXCEPT !.pc = "reading", !.at = 0, !.attempt = 0,
                              !.target = NoSession]

\* Serve returns; of its locals only persistedSession is kept, for the properties.
Returned(s, where) ==
    [pc |-> where, state |-> "disconnected", hb |-> 0, persisted |-> conn[s].persisted,
     lastRead |-> 0, at |-> 0, attempt |-> 0, target |-> NoSession, reason |-> "none"]

\* Mutation: one attempt too many
RetryOnceMore(s, op, failed) ==
    conn' = [conn EXCEPT ![s] =
                IF conn[s].attempt <= MaxAttempts
                THEN [conn[s] EXCEPT !.pc = op, !.attempt = @ + 1, !.target = NoSession]
                ELSE failed]

\* Mutation: the attempt is not counted
RetryForever(s, op, failed) ==
    conn' = [conn EXCEPT ![s] = [conn[s] EXCEPT !.pc = op, !.target = NoSession]]

\* withDBWriteRetry: run op again, or carry on in the caller as in failed.
Retry(s, op, failed) ==
    conn' = [conn EXCEPT ![s] =
                IF conn[s].attempt < MaxAttempts
                THEN [conn[s] EXCEPT !.pc = op, !.attempt = @ + 1, !.target = NoSession]
                ELSE failed]

\* A connection is accepted.
Accept(s) ==
    /\ conn[s].pc = "idle"
    /\ conn' = [conn EXCEPT ![s].pc = "reading", ![s].lastRead = now]
    /\ UNCHANGED <<now, traders, rows, snapshots, faults, crashes>>

\* A frame that only moves the read deadline: ping, pong, a duplicate, or a
\* message that is answered with an error and skipped.
OtherFrame(s) ==
    /\ conn[s].pc = "reading"
    /\ conn' = [conn EXCEPT ![s].lastRead = now]
    /\ UNCHANGED <<now, traders, rows, snapshots, faults, crashes>>

\* A message that starts a database operation is received.
Begin(s, op) == [conn[s] EXCEPT !.pc = op, !.at = now, !.attempt = 1, !.lastRead = now]

\* trader.register is received by a connection that is not registered.
Register(s) ==
    /\ conn[s].pc = "reading"
    /\ conn[s].state = "connected"
    /\ conn' = [conn EXCEPT ![s] = Begin(s, "catalog")]
    /\ UNCHANGED <<now, traders, rows, snapshots, faults, crashes>>

\* ListAvailableExchanges, outside withDBWriteRetry: its context is the request's
\* and has no deadline.  Without an answer the handler stays here; after an error
\* it goes on, with no exchanges.
LoadCatalog(s) ==
    /\ conn[s].pc = "catalog"
    /\ conn' = [conn EXCEPT ![s].pc = "resolve"]
    /\ UNCHANGED <<now, traders, rows, snapshots, faults, crashes>>

\* ResolveOrCreateTraderByCN: the TRADER row is created on first contact.
ResolveTrader(s, out) ==
    /\ conn[s].pc = "resolve"
    /\ DBCall(out)
    /\ GetOrCreate(CN[s], out)
    /\ IF out = "ok"
       THEN conn' = [conn EXCEPT ![s].pc = "create", ![s].attempt = 1]
       ELSE Retry(s, "resolve", Reading(s))
    /\ UNCHANGED <<now, rows, snapshots, crashes>>

\* An INSERT of CreateSession: answered 1062, done, or failed.  When it is done the
\* release of the client is stored, if the request names one.  After the last
\* failed attempt the register request is answered INTERNAL_ERROR.
Insert(s, out, refused) ==
    /\ DBCall(out)
    /\ InsertRow(s, out)
    /\ \/ /\ out = "ok" /\ DuplicateEntry(s)
          /\ conn' = [conn EXCEPT ![s] = refused]
       \/ /\ out = "ok" /\ ~DuplicateEntry(s)
          /\ \E next \in {"release", "finish"} :
                 conn' = [conn EXCEPT ![s].pc = next, ![s].persisted = TRUE,
                                      ![s].attempt = 1]
       \/ /\ out # "ok"
          /\ Retry(s, "create", Reading(s))
    /\ UNCHANGED <<now, traders, snapshots, crashes>>

\* CreateSession: on 1062 the active session is looked at.
CreateSession(s, out) ==
    /\ conn[s].pc = "create"
    /\ Insert(s, out, [conn[s] EXCEPT !.pc = "lookup"])

\* tryRecoverStaleActiveSession: SELECT the active session of the trader.  If
\* there is none any more, or it is not stale, the connection is refused with
\* DUPLICATE_CONNECTION and closed.
LookupActive(s, out) ==
    /\ conn[s].pc = "lookup"
    /\ DBCall(out)
    /\ IF out # "ok"
       THEN Retry(s, "create", Reading(s))
       ELSE \/ \E r \in ActiveRows(CN[s]) :
                  /\ Stale(r, conn[s].at)
                  /\ conn' = [conn EXCEPT ![s].pc = "endStale", ![s].target = r]
            \/ /\ \A r \in ActiveRows(CN[s]) : ~Stale(r, conn[s].at)
               /\ conn' = [conn EXCEPT ![s] = Returned(s, "duplicate")]
    /\ UNCHANGED <<now, traders, rows, snapshots, crashes>>

\* tryRecoverStaleActiveSession: EndSession of the session found stale
EndStale(s, out) ==
    /\ conn[s].pc = "endStale"
    /\ DBCall(out)
    /\ EndRow(conn[s].target, "timeout", out)
    /\ IF out = "ok"
       THEN conn' = [conn EXCEPT ![s].pc = "recreate", ![s].target = NoSession]
       ELSE Retry(s, "create", Reading(s))
    /\ UNCHANGED <<now, traders, snapshots, crashes>>

\* CreateSession: the second INSERT, after a stale session was ended.  On 1062
\* the connection is refused.
RecreateSession(s, out) ==
    /\ conn[s].pc = "recreate"
    /\ Insert(s, out, Returned(s, "duplicate"))

\* UpdateTraderRelease: a failure is retried, and in the end only logged.
PersistRelease(s, out) ==
    /\ conn[s].pc = "release"
    /\ DBCall(out)
    /\ IF out = "ok"
       THEN conn' = [conn EXCEPT ![s].pc = "finish"]
       ELSE Retry(s, "release", [conn[s] EXCEPT !.pc = "finish"])
    /\ UNCHANGED <<now, traders, rows, snapshots, crashes>>

\* After the database: markRegistered, the first snapshot, the acknowledgement.
FinishRegister(s) ==
    /\ conn[s].pc = "finish"
    /\ conn' = [conn EXCEPT ![s] = [Reading(s) EXCEPT !.state = "registered",
                                                      !.lastRead = now]]
    /\ snapshots' = [snapshots EXCEPT ![s] = [state |-> "registered", hb |-> conn[s].hb]]
    /\ UNCHANGED <<now, traders, rows, faults, crashes>>

\* trader.heartbeat is received by a registered connection.
Heartbeat(s) ==
    /\ conn[s].pc = "reading"
    /\ conn[s].state \in {"registered", "active"}
    /\ conn' = [conn EXCEPT ![s] = Begin(s, "heartbeat")]
    /\ UNCHANGED <<now, traders, rows, snapshots, faults, crashes>>

\* Mutation: UpdateHeartbeat without the check for an ended session
PersistHeartbeatUnchecked(s, out) ==
    /\ conn[s].pc = "heartbeat"
    /\ DBCall(out)
    /\ BeatRow(s, out)
    /\ IF out = "ok"
       THEN conn' = [conn EXCEPT ![s].pc = "show"]
       ELSE Retry(s, "heartbeat", Reading(s))
    /\ UNCHANGED <<now, traders, snapshots, crashes>>

\* UpdateHeartbeat.  A row that has ended is an error, retried like any other;
\* after the last attempt the heartbeat is answered INTERNAL_ERROR and the
\* session and its snapshot stay as they were.
PersistHeartbeat(s, out) ==
    /\ conn[s].pc = "heartbeat"
    /\ DBCall(out)
    /\ BeatRow(s, out)
    /\ IF out = "ok" /\ rows[s].status = "active"
       THEN conn' = [conn EXCEPT ![s].pc = "show"]
       ELSE Retry(s, "heartbeat", Reading(s))
    /\ UNCHANGED <<now, traders, snapshots, crashes>>

\* After the UPDATE: markHeartbeat, upsertSessionSnapshot, the read deadline and the
\* acknowledgement.  The row may have been ended by another connection meanwhile.
ShowHeartbeat(s) ==
    /\ conn[s].pc = "show"
    /\ conn' = [conn EXCEPT ![s] = [Reading(s) EXCEPT !.state = "active",
                                                      !.hb = conn[s].at,
                                                      !.lastRead = now]]
    /\ snapshots' = [snapshots EXCEPT ![s] = [state |-> "active", hb |-> conn[s].at]]
    /\ UNCHANGED <<now, traders, rows, faults, crashes>>

\* latency.test_result is received by a registered connection.
LatencyResult(s) ==
    /\ conn[s].pc = "reading"
    /\ conn[s].state \in {"registered", "active"}
    /\ conn' = [conn EXCEPT ![s].lastRead = now]
    /\ snapshots' = [snapshots EXCEPT ![s] = [state |-> conn[s].state, hb |-> conn[s].hb]]
    /\ UNCHANGED <<now, traders, rows, faults, crashes>>

\* Mutation: only a session that has sent a heartbeat is finalized
ReadFailsUnlessActive(s, reason) ==
    /\ conn[s].pc = "reading"
    /\ reason = "timeout" => now >= conn[s].lastRead + HeartbeatTimeout
    /\ IF conn[s].state = "active"
       THEN /\ conn' = [conn EXCEPT ![s].pc = "finalize", ![s].attempt = 1,
                                    ![s].reason = reason]
            /\ UNCHANGED snapshots
       ELSE /\ conn' = [conn EXCEPT ![s] = Returned(s, "disconnected")]
            /\ snapshots' = [snapshots EXCEPT ![s] = NoSnapshot]
    /\ UNCHANGED <<now, traders, rows, faults, crashes>>

\* ReadMessage fails.  A session that has a row is finalized first; without
\* one Serve cleans up and returns at once.
ReadFails(s, reason) ==
    /\ conn[s].pc = "reading"
    /\ reason = "timeout" => now >= conn[s].lastRead + HeartbeatTimeout
    /\ IF conn[s].persisted
       THEN /\ conn' = [conn EXCEPT ![s] =
                            [conn[s] EXCEPT !.pc = "finalize", !.attempt = 1,
                                            !.reason = reason,
                                            !.state = IF reason = "timeout"
                                                      THEN "timed_out" ELSE @]]
            /\ UNCHANGED snapshots
       ELSE /\ conn' = [conn EXCEPT ![s] = Returned(s, "disconnected")]
            /\ snapshots' = [snapshots EXCEPT ![s] = NoSnapshot]
    /\ UNCHANGED <<now, traders, rows, faults, crashes>>

\* Mutation: the snapshot is deleted only if the row was finalized
FinalizeKeepsSnapshot(s, out) ==
    /\ conn[s].pc = "finalize"
    /\ IF conn[s].reason \in DOMAIN MapDisconnectReason
       THEN DBCall(out) /\ EndRow(s, MapDisconnectReason[conn[s].reason], out)
       ELSE out = "lost" /\ UNCHANGED <<faults, rows>>
    /\ IF out = "ok"
       THEN /\ conn' = [conn EXCEPT ![s] = Returned(s, "disconnected")]
            /\ snapshots' = [snapshots EXCEPT ![s] = NoSnapshot]
       ELSE /\ Retry(s, "finalize", Returned(s, "unfinalized"))
            /\ UNCHANGED snapshots
    /\ UNCHANGED <<now, traders, crashes>>

\* FinalizeSession.  A reason without a DISCONNECT_REASON fails before any
\* statement is sent, on every attempt.  Then, finalized or not: markDisconnected,
\* deleteSessionSnapshot, removeConnection, return.
Finalize(s, out) ==
    /\ conn[s].pc = "finalize"
    /\ IF conn[s].reason \in DOMAIN MapDisconnectReason
       THEN DBCall(out) /\ EndRow(s, MapDisconnectReason[conn[s].reason], out)
       ELSE out = "lost" /\ UNCHANGED <<faults, rows>>
    /\ IF out = "ok"
       THEN conn' = [conn EXCEPT ![s] = Returned(s, "disconnected")]
       ELSE Retry(s, "finalize", Returned(s, "unfinalized"))
    /\ snapshots' = IF conn'[s].pc \in Gone
                    THEN [snapshots EXCEPT ![s] = NoSnapshot]
                    ELSE snapshots
    /\ UNCHANGED <<now, traders, crashes>>

\* A sequence gap: close 4009 is written and Serve returns from the loop.
SequenceGap(s) ==
    /\ conn[s].pc = "reading"
    /\ conn' = [conn EXCEPT ![s] = Returned(s, "gap")]
    /\ UNCHANGED <<now, traders, rows, snapshots, faults, crashes>>

\* Too many unknown actions: ACTION_FLOOD is sent and Serve returns.
ActionFlood(s) ==
    /\ conn[s].pc = "reading"
    /\ conn' = [conn EXCEPT ![s] = Returned(s, "flood")]
    /\ UNCHANGED <<now, traders, rows, snapshots, faults, crashes>>

-----------------------------------------------------------------------------
(* The environment.                                                        *)

\* The process dies and is started again: only the database survives.
Crash ==
    /\ crashes < MaxCrashes
    /\ crashes' = crashes + 1
    /\ conn' = [s \in Sessions |-> IF conn[s].pc \in {"idle"} \cup Gone
                                   THEN conn[s] ELSE Returned(s, "crashed")]
    /\ snapshots' = [s \in Sessions |-> NoSnapshot]
    /\ UNCHANGED <<now, traders, rows, faults>>

Tick ==
    /\ now < MaxTime
    /\ now' = now + 1
    /\ UNCHANGED <<traders, rows, conn, snapshots, faults, crashes>>

\* The frames the peer of s may send, and what ReadMessage makes of them
Receive(s) ==
    \/ Accept(s) \/ OtherFrame(s) \/ Register(s) \/ Heartbeat(s) \/ LatencyResult(s)
    \/ SequenceGap(s) \/ ActionFlood(s)
    \/ \E reason \in ReadErrors : ReadFails(s, reason)

\* The steps a handler under way makes by itself, or by withDBWriteRetry
TimedStep(s) ==
    \/ FinishRegister(s) \/ ShowHeartbeat(s)
    \/ \E out \in Outcomes :
          \/ ResolveTrader(s, out) \/ CreateSession(s, out) \/ LookupActive(s, out)
          \/ EndStale(s, out) \/ RecreateSession(s, out) \/ PersistRelease(s, out)
          \/ PersistHeartbeat(s, out) \/ Finalize(s, out)

\* The steps of a handler that is under way
Step(s) == LoadCatalog(s) \/ TimedStep(s)

Next == Crash \/ Tick \/ \E s \in Sessions : Receive(s) \/ Step(s)

Spec == Init /\ [][Next]_vars

\* The Go scheduler runs every goroutine, and a statement of withDBWriteRetry
\* returns within the 3 seconds of its context.  The catalog query has no such
\* context, so nothing is assumed of LoadCatalog.
FairSpec == Spec /\ \A s \in Sessions : WF_vars(TimedStep(s))

-----------------------------------------------------------------------------
(* Properties.                                                             *)

\* At most one TRADER_SESSION row of a trader has ENDED_AT NULL, however the
\* registrations of its connections interleave (migration 003; CreateSession,
\* tryRecoverStaleActiveSession).
SingleActiveSession ==
    \A s, r \in Sessions :
        rows[s].status = "active" /\ rows[r].status = "active" /\ CN[s] = CN[r] => s = r

\* A row that has ended is never written again: a take-over by a newer
\* connection, a late heartbeat and the old connection's own FinalizeSession
\* may come in any order, and the first one to end the row decides its
\* DISCONNECT_REASON (EndSession, UpdateHeartbeat).
EndedRowIsFinal ==
    [][\A s \in Sessions : rows[s].status = "ended" => rows'[s] = rows[s]]_vars

\* When Serve returns after a finalize that succeeded, the session's row has
\* ended, whatever was retried or lost on the way (Serve's read-error path).
CleanDisconnectEndsRow ==
    \A s \in Sessions :
        conn[s].pc = "disconnected" /\ conn[s].persisted => rows[s].status = "ended"

\* The scheduler sees only sessions that were persisted, and no session of a
\* connection that was refused, crashed or went through the read-error path,
\* even when its row could not be finalized (upsertSessionSnapshot,
\* deleteSessionSnapshot).
SnapshotOnlyWhileServed ==
    \A s \in Sessions :
        snapshots[s] # NoSnapshot =>
            /\ conn[s].persisted /\ rows[s].status # "none"
            /\ conn[s].pc \notin {"disconnected", "unfinalized", "duplicate", "crashed"}

\* The heartbeat the scheduler relies on has reached the database: the snapshot
\* is never ahead of LAST_HEARTBEAT, so a session the scheduler counts as
\* healthy is not stale for a newer connection of the same trader.
SnapshotNotAheadOfRow ==
    \A s \in Sessions : snapshots[s].hb <= rows[s].hb

\* Once a session was taken over, its connection cannot make it look alive: no
\* further heartbeat is accepted, and the snapshot gets no new heartbeat but the one
\* whose UPDATE was executed before the take-over and which Serve had not shown yet
\* (UpdateHeartbeat's check for an ended session, upsertSessionSnapshot after it).
TakenOverStaysSilent ==
    [][\A s \in Sessions :
          rows[s].status = "ended" =>
              /\ conn'[s].pc = "show" => conn[s].pc = "show"
              /\ snapshots'[s].hb # snapshots[s].hb /\ snapshots'[s] # NoSnapshot
                     => conn[s].pc = "show"]_vars

\* The refinement mapping to the abstract slot of a trader
SlotHolder == [t \in Traders |-> ActiveRows(t)]
SlotSpent == {s \in Sessions : rows[s].status = "ended"}

Slot == INSTANCE SessionSlot WITH holder <- SlotHolder, spent <- SlotSpent

\* The rows implement the abstract slot of a trader: it is taken when free,
\* given up once, and never passed on in one step.
SlotSpec == Slot!Spec

\* Serve always gets back to reading or returns, unless the catalog query of a
\* registration is never answered: the retries of a database operation are bounded,
\* also against a row that has ended or a reason that cannot be stored
\* (withDBWriteRetry).
HandlerReturns ==
    \A s \in Sessions :
        (conn[s].pc \in Busy) ~> (conn[s].pc \notin Busy \/ [](conn[s].pc = "catalog"))

\* Column comment of TRADER_SESSION.ENDED_AT: "NULL = still connected".
NullMeansConnected ==
    \A s \in Sessions : rows[s].status = "active" => conn[s].pc \notin Gone

\* README: a second simultaneous connection with the same certificate gets
\* DUPLICATE_CONNECTION, so two connections of a trader are never both served.
OneServedConnection ==
    \A s, r \in Sessions :
        /\ CN[s] = CN[r]
        /\ {conn[s].pc, conn[r].pc} = {"reading"}
        /\ {conn[s].state, conn[r].state} \subseteq {"registered", "active"}
        => s = r
=============================================================================
