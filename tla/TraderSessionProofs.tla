------------------------- MODULE TraderSessionProofs -------------------------
(* Theorems about TraderSession, for any traders, connections and bounds. *)
EXTENDS TraderSession, TLAPS

\* Members of the sets the record of a connection is built from
LEMMA Values ==
    /\ 0 \in Attempts /\ 1 \in Attempts /\ NoSession \in Targets
    /\ Sessions \subseteq Targets /\ "none" \in Causes /\ ReadErrors \subseteq Causes
    /\ Gone \subseteq Locations /\ Busy \subseteq Locations
    /\ {"idle", "reading"} \subseteq Locations
    /\ \A n \in Attempts : n \in Nat /\ (n < MaxAttempts => n + 1 \in Attempts)
BY MaxAttemptsAssumption DEF Attempts, Targets, Causes, Locations

LEMMA ReturnedType ==
    ASSUME TypeOK, NEW s \in Sessions, NEW where \in Gone
    PROVE  Returned(s, where) \in Conn
BY Values DEF TypeOK, Returned, Conn, SessionStates

LEMMA ReadingType ==
    ASSUME TypeOK, NEW s \in Sessions
    PROVE  Reading(s) \in Conn
BY Values DEF TypeOK, Reading, Conn

LEMMA BeginType ==
    ASSUME TypeOK, NEW s \in Sessions, NEW op \in Busy
    PROVE  Begin(s, op) \in Conn
BY Values DEF TypeOK, Begin, Conn

LEMMA RetryType ==
    ASSUME TypeOK, NEW s \in Sessions, NEW op \in Busy, NEW failed \in Conn,
           Retry(s, op, failed)
    PROVE  conn' \in [Sessions -> Conn]
<1>1. ASSUME conn[s].attempt < MaxAttempts
      PROVE  [conn[s] EXCEPT !.pc = op, !.attempt = @ + 1, !.target = NoSession] \in Conn
  BY <1>1, Values DEF TypeOK, Conn
<1>2. QED
  BY <1>1 DEF TypeOK, Retry

LEMMA InsertType ==
    ASSUME TypeOK, NEW s \in Sessions, NEW out \in Outcomes, NEW refused \in Conn,
           Insert(s, out, refused)
    PROVE  TypeOK'
<1>1. rows' \in [Sessions -> Row]
  BY DEF TypeOK, Insert, InsertRow, Row, Conn
<1>2. faults' \in Nat
  BY DEF TypeOK, Insert, DBCall
<1>3. conn' \in [Sessions -> Conn]
  <2>1. CASE conn' = [conn EXCEPT ![s] = refused]
    BY <2>1 DEF TypeOK
  <2>2. ASSUME NEW next \in {"release", "finish"},
               conn' = [conn EXCEPT ![s].pc = next, ![s].persisted = TRUE, ![s].attempt = 1]
        PROVE  conn' \in [Sessions -> Conn]
    BY <2>2, Values DEF TypeOK, Conn, Busy
  <2>3. CASE Retry(s, "create", Reading(s))
    BY <2>3, ReadingType, RetryType DEF Busy
  <2>4. QED
    BY <2>1, <2>2, <2>3 DEF Insert
<1>4. QED
  BY <1>1, <1>2, <1>3 DEF TypeOK, Insert

LEMMA EndRowType ==
    ASSUME TypeOK, NEW r, NEW why \in {"graceful", "timeout", "error"}, NEW out,
           EndRow(r, why, out)
    PROVE  rows' \in [Sessions -> Row]
BY DEF TypeOK, EndRow, Row

LEMMA DBCallType ==
    ASSUME TypeOK, NEW out, DBCall(out)
    PROVE  faults' \in Nat
BY DEF TypeOK, DBCall

LEMMA ReceiveType ==
    ASSUME TypeOK, NEW s \in Sessions, Receive(s)
    PROVE  TypeOK'
<1>1. CASE Accept(s)
  BY <1>1, Values DEF TypeOK, Accept, Conn
<1>2. CASE OtherFrame(s)
  BY <1>2 DEF TypeOK, OtherFrame, Conn
<1>3. CASE Register(s)
  BY <1>3, BeginType DEF TypeOK, Register, Busy
<1>4. CASE Heartbeat(s)
  BY <1>4, BeginType DEF TypeOK, Heartbeat, Busy
<1>5. CASE LatencyResult(s)
  BY <1>5 DEF TypeOK, LatencyResult, Conn, Snapshot
<1>6. CASE SequenceGap(s)
  BY <1>6, ReturnedType DEF TypeOK, SequenceGap, Gone
<1>7. CASE ActionFlood(s)
  BY <1>7, ReturnedType DEF TypeOK, ActionFlood, Gone
<1>8. ASSUME NEW reason \in ReadErrors, ReadFails(s, reason)
      PROVE  TypeOK'
  <2>1. CASE conn[s].persisted
    <3> DEFINE state == IF reason = "timeout" THEN "timed_out" ELSE conn[s].state
    <3>1. state \in SessionStates
      BY DEF TypeOK, Conn, SessionStates
    <3> DEFINE c == [conn[s] EXCEPT !.pc = "finalize", !.attempt = 1, !.reason = reason,
                                    !.state = state]
    <3>2. conn' = [conn EXCEPT ![s] = c]
      BY <1>8, <2>1 DEF ReadFails
    <3> HIDE DEF state
    <3>3. c \in Conn
      BY <3>1, Values DEF TypeOK, Conn, Busy
    <3> HIDE DEF c
    <3>4. QED
      BY <1>8, <2>1, <3>2, <3>3 DEF ReadFails, TypeOK
  <2>2. CASE ~conn[s].persisted
    BY <1>8, <2>2, ReturnedType DEF ReadFails, TypeOK, Gone, NoSnapshot, Snapshot
  <2>3. QED
    BY <2>1, <2>2
<1>9. QED
  BY <1>1, <1>2, <1>3, <1>4, <1>5, <1>6, <1>7, <1>8 DEF Receive

LEMMA StepType ==
    ASSUME TypeOK, NEW s \in Sessions, Step(s)
    PROVE  TypeOK'
<1>1. CASE FinishRegister(s)
  <2>1. [Reading(s) EXCEPT !.state = "registered", !.lastRead = now] \in Conn
    BY ReadingType DEF TypeOK, Conn, SessionStates
  <2>2. QED
    BY <1>1, <2>1 DEF TypeOK, FinishRegister, Snapshot, Conn
<1>2. ASSUME NEW out \in Outcomes, ResolveTrader(s, out)
      PROVE  TypeOK'
  <2>1. conn' \in [Sessions -> Conn]
    <3>1. CASE out = "ok"
      BY <1>2, <3>1, Values DEF TypeOK, ResolveTrader, GetOrCreate, Conn, Busy
    <3>2. CASE out # "ok"
      BY <1>2, <3>2, ReadingType, RetryType DEF ResolveTrader, GetOrCreate, Busy
    <3>3. QED
      BY <3>1, <3>2
  <2>2. traders' \subseteq Traders
    BY <1>2, CNAssumption DEF TypeOK, ResolveTrader, GetOrCreate
  <2>3. QED
    BY <1>2, <2>1, <2>2, DBCallType DEF TypeOK, ResolveTrader, GetOrCreate
<1>3. ASSUME NEW out \in Outcomes, CreateSession(s, out)
      PROVE  TypeOK'
  <2>1. [conn[s] EXCEPT !.pc = "lookup"] \in Conn
    BY Values DEF TypeOK, Conn, Busy
  <2>2. QED
    BY <1>3, <2>1, InsertType DEF CreateSession
<1>4. ASSUME NEW out \in Outcomes, LookupActive(s, out)
      PROVE  TypeOK'
  <2>1. conn' \in [Sessions -> Conn]
    <3>1. CASE out # "ok"
      BY <1>4, <3>1, ReadingType, RetryType DEF LookupActive, Busy
    <3>2. ASSUME NEW r \in ActiveRows(CN[s]),
                 conn' = [conn EXCEPT ![s].pc = "endStale", ![s].target = r]
          PROVE  conn' \in [Sessions -> Conn]
      <4>1. r \in Targets
        BY Values DEF ActiveRows
      <4>2. QED
        BY <3>2, <4>1, Values DEF TypeOK, Conn, Busy
    <3>3. CASE conn' = [conn EXCEPT ![s] = Returned(s, "duplicate")]
      BY <3>3, ReturnedType DEF TypeOK, Gone
    <3>4. QED
      BY <1>4, <3>1, <3>2, <3>3 DEF LookupActive
  <2>2. QED
    BY <1>4, <2>1, DBCallType DEF TypeOK, LookupActive
<1>5. ASSUME NEW out \in Outcomes, EndStale(s, out)
      PROVE  TypeOK'
  <2>1. conn' \in [Sessions -> Conn]
    <3>1. CASE out = "ok"
      BY <1>5, <3>1, Values DEF TypeOK, EndStale, Conn, Busy
    <3>2. CASE out # "ok"
      BY <1>5, <3>2, ReadingType, RetryType DEF EndStale, Busy
    <3>3. QED
      BY <3>1, <3>2
  <2>2. QED
    BY <1>5, <2>1, DBCallType, EndRowType DEF TypeOK, EndStale
<1>6. ASSUME NEW out \in Outcomes, RecreateSession(s, out)
      PROVE  TypeOK'
  BY <1>6, InsertType, ReturnedType DEF RecreateSession, Gone
<1>7. ASSUME NEW out \in Outcomes, PersistHeartbeat(s, out)
      PROVE  TypeOK'
  <2>1. rows' \in [Sessions -> Row]
    BY <1>7 DEF TypeOK, PersistHeartbeat, BeatRow, Row
  <2>2. conn' \in [Sessions -> Conn]
    <3>1. CASE conn' = [conn EXCEPT ![s].pc = "show"]
      BY <3>1, Values DEF TypeOK, Conn, Busy
    <3>2. CASE Retry(s, "heartbeat", Reading(s))
      BY <3>2, ReadingType, RetryType DEF Busy
    <3>3. QED
      BY <1>7, <3>1, <3>2 DEF PersistHeartbeat
  <2>3. QED
    BY <1>7, <2>1, <2>2, DBCallType DEF TypeOK, PersistHeartbeat
<1>8. ASSUME NEW out \in Outcomes, Finalize(s, out)
      PROVE  TypeOK'
  <2>1. rows' \in [Sessions -> Row] /\ faults' \in Nat
    BY <1>8, DBCallType, EndRowType DEF TypeOK, Finalize, MapDisconnectReason, ReadErrors
  <2>2. conn' \in [Sessions -> Conn]
    <3>1. CASE out = "ok"
      BY <1>8, <3>1, ReturnedType DEF TypeOK, Finalize, Gone
    <3>2. CASE out # "ok"
      BY <1>8, <3>2, ReturnedType, RetryType DEF Finalize, Busy, Gone
    <3>3. QED
      BY <3>1, <3>2
  <2>3. snapshots' \in [Sessions -> Snapshot]
    BY <1>8 DEF TypeOK, Finalize, Snapshot, NoSnapshot
  <2>4. QED
    BY <1>8, <2>1, <2>2, <2>3 DEF TypeOK, Finalize
<1>9. CASE LoadCatalog(s)
  BY <1>9, Values DEF TypeOK, LoadCatalog, Conn, Busy
<1>10. CASE ShowHeartbeat(s)
  <2> DEFINE c == [Reading(s) EXCEPT !.state = "active", !.hb = conn[s].at, !.lastRead = now]
  <2>1. c \in Conn /\ conn[s].at \in Nat
    BY ReadingType DEF TypeOK, Conn, SessionStates
  <2>2. conn' = [conn EXCEPT ![s] = c]
    BY <1>10 DEF ShowHeartbeat
  <2> HIDE DEF c
  <2>3. QED
    BY <1>10, <2>1, <2>2 DEF TypeOK, ShowHeartbeat, Snapshot
<1>11. ASSUME NEW out \in Outcomes, PersistRelease(s, out)
       PROVE  TypeOK'
  <2>1. conn' \in [Sessions -> Conn]
    <3>1. [conn[s] EXCEPT !.pc = "finish"] \in Conn
      BY Values DEF TypeOK, Conn, Busy
    <3>2. CASE conn' = [conn EXCEPT ![s].pc = "finish"]
      BY <3>2, Values DEF TypeOK, Conn, Busy
    <3>3. CASE Retry(s, "release", [conn[s] EXCEPT !.pc = "finish"])
      BY <3>1, <3>3, RetryType DEF Busy
    <3>4. QED
      BY <1>11, <3>2, <3>3 DEF PersistRelease
  <2>2. QED
    BY <1>11, <2>1, DBCallType DEF TypeOK, PersistRelease
<1>12. QED
  BY <1>1, <1>2, <1>3, <1>4, <1>5, <1>6, <1>7, <1>8, <1>9, <1>10, <1>11 DEF Step, TimedStep

LEMMA CrashType ==
    ASSUME TypeOK, Crash
    PROVE  TypeOK'
<1>1. conn' \in [Sessions -> Conn]
  BY ReturnedType DEF TypeOK, Crash, Gone
<1>2. QED
  BY <1>1 DEF TypeOK, Crash, NoSnapshot, Snapshot

LEMMA NextType == TypeOK /\ [Next]_vars => TypeOK'
<1>1. ASSUME TypeOK, Next
      PROVE  TypeOK'
  BY <1>1, CrashType, ReceiveType, StepType DEF Next, Tick, TypeOK
<1>2. CASE UNCHANGED vars
  BY <1>2 DEF vars, TypeOK
<1>3. QED
  BY <1>1, <1>2

\* Every variable keeps its type: in particular no operation runs more than
\* MaxAttempts times, and only a session that exists is taken over.
THEOREM TypeCorrect == Spec => []TypeOK
<1>1. Init => TypeOK
  BY Values DEF Init, TypeOK, Conn, Row, Snapshot, NoSnapshot, SessionStates
<1>2. QED
  BY <1>1, NextType, PTL DEF Spec

-----------------------------------------------------------------------------
(* What a step can do to TRADER_SESSION.                                   *)

Inserts(s) ==
    /\ rows[s].status = "none"
    /\ ActiveRows(CN[s]) = {}
    /\ rows' = [rows EXCEPT ![s] = [status |-> "active", hb |-> conn[s].at,
                                    reason |-> "null"]]

Refreshes(s) ==
    /\ rows[s].status = "active"
    /\ rows' = [rows EXCEPT ![s].hb = now]

Ends(s) ==
    /\ rows[s].status = "active"
    /\ \E why \in {"graceful", "timeout", "error"} :
          rows' = [rows EXCEPT ![s].status = "ended", ![s].reason = why]

RowsStep ==
    \/ UNCHANGED rows
    \/ \E s \in Sessions : Inserts(s) \/ Refreshes(s) \/ Ends(s)

LEMMA InsertRows ==
    ASSUME NEW s \in Sessions, NEW out, NEW refused, Insert(s, out, refused)
    PROVE  RowsStep
BY DEF Insert, InsertRow, DuplicateEntry, RowsStep, Inserts

LEMMA EndRows ==
    ASSUME TypeOK, NEW r, NEW why \in {"graceful", "timeout", "error"}, NEW out,
           EndRow(r, why, out)
    PROVE  RowsStep
<1>1. CASE r \in Sessions
  BY <1>1 DEF EndRow, RowsStep, Ends
<1>2. CASE r \notin Sessions
  BY <1>2 DEF EndRow, RowsStep, TypeOK
<1>3. QED
  BY <1>1, <1>2

LEMMA NextRows == TypeOK /\ [Next]_vars => RowsStep
<1> SUFFICES ASSUME TypeOK, [Next]_vars
             PROVE  RowsStep
  OBVIOUS
<1>1. CASE Crash \/ Tick \/ UNCHANGED vars
  BY <1>1 DEF Crash, Tick, vars, RowsStep
<1>2. ASSUME NEW s \in Sessions, Receive(s)
      PROVE  RowsStep
  BY <1>2 DEF Receive, Accept, OtherFrame, Register, Heartbeat, LatencyResult,
              SequenceGap, ActionFlood, ReadFails, RowsStep
<1>3. ASSUME NEW s \in Sessions, Step(s)
      PROVE  RowsStep
  <2>1. CASE LoadCatalog(s) \/ FinishRegister(s) \/ ShowHeartbeat(s)
    BY <2>1 DEF LoadCatalog, FinishRegister, ShowHeartbeat, RowsStep
  <2>2. ASSUME NEW out \in Outcomes,
               ResolveTrader(s, out) \/ LookupActive(s, out) \/ PersistRelease(s, out)
        PROVE  RowsStep
    BY <2>2 DEF ResolveTrader, GetOrCreate, LookupActive, PersistRelease, RowsStep
  <2>3. ASSUME NEW out \in Outcomes, CreateSession(s, out) \/ RecreateSession(s, out)
        PROVE  RowsStep
    BY <2>3, InsertRows DEF CreateSession, RecreateSession
  <2>4. ASSUME NEW out \in Outcomes, EndStale(s, out)
        PROVE  RowsStep
    BY <2>4, EndRows DEF EndStale
  <2>5. ASSUME NEW out \in Outcomes, PersistHeartbeat(s, out)
        PROVE  RowsStep
    BY <2>5 DEF PersistHeartbeat, BeatRow, RowsStep, Refreshes
  <2>6. ASSUME NEW out \in Outcomes, Finalize(s, out)
        PROVE  RowsStep
    <3>1. CASE conn[s].reason \in DOMAIN MapDisconnectReason
      BY <2>6, <3>1, EndRows DEF Finalize, MapDisconnectReason, ReadErrors
    <3>2. CASE conn[s].reason \notin DOMAIN MapDisconnectReason
      BY <2>6, <3>2 DEF Finalize, RowsStep
    <3>3. QED
      BY <3>1, <3>2
  <2>7. QED
    BY <1>3, <2>1, <2>2, <2>3, <2>4, <2>5, <2>6 DEF Step, TimedStep
<1>4. QED
  BY <1>1, <1>2, <1>3 DEF Next

\* Once a TRADER_SESSION row has ended nothing writes to it again: neither the
\* connection that owned it nor one that takes over (EndSession, UpdateHeartbeat
\* and the unique keys).
THEOREM EndedRowFinality == Spec => EndedRowIsFinal
<1>1. TypeOK /\ [Next]_vars
        => [\A s \in Sessions : rows[s].status = "ended" => rows'[s] = rows[s]]_vars
  BY NextRows DEF RowsStep, Inserts, Refreshes, Ends, TypeOK
<1>2. QED
  BY <1>1, TypeCorrect, PTL DEF Spec, EndedRowIsFinal

LEMMA SingleActiveStep == TypeOK /\ SingleActiveSession /\ RowsStep => SingleActiveSession'
<1> SUFFICES ASSUME TypeOK, SingleActiveSession, RowsStep
             PROVE  SingleActiveSession'
  OBVIOUS
<1>1. CASE UNCHANGED rows
  BY <1>1 DEF SingleActiveSession
<1>2. ASSUME NEW s \in Sessions, Inserts(s)
      PROVE  SingleActiveSession'
  BY <1>2 DEF Inserts, ActiveRows, SingleActiveSession, TypeOK
<1>3. ASSUME NEW s \in Sessions, Refreshes(s) \/ Ends(s)
      PROVE  SingleActiveSession'
  <2>1. \A r \in Sessions : rows'[r].status = "active" => rows[r].status = "active"
    BY <1>3 DEF Refreshes, Ends, TypeOK, Row
  <2>2. QED
    BY <2>1 DEF SingleActiveSession
<1>4. QED
  BY <1>1, <1>2, <1>3 DEF RowsStep

\* A trader never has two active sessions in TRADER_SESSION, however many of its
\* connections register, recover stale sessions, fail and retry at once.
THEOREM SingleActive == Spec => []SingleActiveSession
<1>1. Init => SingleActiveSession
  BY DEF Init, SingleActiveSession
<1>2. TypeOK /\ SingleActiveSession /\ [Next]_vars => SingleActiveSession'
  BY NextRows, SingleActiveStep
<1>3. QED
  BY <1>1, <1>2, TypeCorrect, PTL DEF Spec

-----------------------------------------------------------------------------
(* Refinement: the rows implement the slots of module SessionSlot.         *)

LEMMA SlotStep ==
    ASSUME TypeOK, SingleActiveSession, RowsStep
    PROVE  [Slot!Next]_<<SlotHolder, SlotSpent>>
<1>1. CASE UNCHANGED rows
  BY <1>1 DEF SlotHolder, SlotSpent, ActiveRows
<1>2. ASSUME NEW s \in Sessions, Refreshes(s)
      PROVE  UNCHANGED <<SlotHolder, SlotSpent>>
  <2>1. \A r \in Sessions : rows'[r].status = rows[r].status
    BY <1>2 DEF Refreshes, TypeOK, Row
  <2>2. QED
    BY <2>1 DEF SlotHolder, SlotSpent, ActiveRows
<1>3. ASSUME NEW s \in Sessions, Inserts(s)
      PROVE  Slot!Acquire(CN[s], s)
  <2>1. CN[s] \in Traders
    BY CNAssumption
  <2>2. \A r \in Sessions : rows'[r].status = IF r = s THEN "active" ELSE rows[r].status
    BY <1>3 DEF Inserts, TypeOK, Row
  <2>3. SlotHolder' = [SlotHolder EXCEPT ![CN[s]] = {s}]
    <3>1. \A t \in Traders : ActiveRows(t)' = IF t = CN[s] THEN {s} ELSE ActiveRows(t)
      BY <1>3, <2>2 DEF ActiveRows, Inserts
    <3>2. QED
      BY <3>1 DEF SlotHolder
  <2>4. SlotSpent' = SlotSpent
    BY <1>3, <2>2 DEF SlotSpent, Inserts
  <2>5. SlotHolder[CN[s]] = {} /\ s \notin SlotSpent
    BY <1>3, <2>1 DEF SlotHolder, SlotSpent, Inserts
  <2>6. \A u \in Traders : s \notin SlotHolder[u]
    BY <1>3 DEF SlotHolder, ActiveRows, Inserts
  <2>7. QED
    BY <2>3, <2>4, <2>5, <2>6 DEF Slot!Acquire
<1>4. ASSUME NEW s \in Sessions, Ends(s)
      PROVE  Slot!Release(CN[s], s)
  <2>1. CN[s] \in Traders
    BY CNAssumption
  <2>2. \A r \in Sessions : rows'[r].status = IF r = s THEN "ended" ELSE rows[r].status
    BY <1>4 DEF Ends, TypeOK, Row
  <2>3. SlotHolder[CN[s]] = {s}
    BY <1>4, <2>1 DEF SlotHolder, ActiveRows, Ends, SingleActiveSession
  <2>4. SlotHolder' = [SlotHolder EXCEPT ![CN[s]] = {}]
    <3>1. \A t \in Traders : ActiveRows(t)' = IF t = CN[s] THEN {} ELSE ActiveRows(t)
      BY <1>4, <2>2 DEF ActiveRows, Ends, SingleActiveSession
    <3>2. QED
      BY <3>1 DEF SlotHolder
  <2>5. SlotSpent' = SlotSpent \cup {s}
    BY <2>2 DEF SlotSpent
  <2>6. QED
    BY <2>3, <2>4, <2>5 DEF Slot!Release
<1>5. QED
  BY <1>1, <1>2, <1>3, <1>4, CNAssumption DEF RowsStep, Slot!Next

\* The statements on TRADER_SESSION, with their losses and retries, implement the
\* abstract slot: taken when free, given up once, never passed on in one step.
THEOREM ImplementsSlot == Spec => SlotSpec
<1>1. Init => Slot!Init
  BY DEF Init, Slot!Init, SlotHolder, SlotSpent, ActiveRows
<1>2. TypeOK /\ SingleActiveSession /\ [Next]_vars => [Slot!Next]_<<SlotHolder, SlotSpent>>
  BY NextRows, SlotStep
<1>3. QED
  BY <1>1, <1>2, TypeCorrect, SingleActive, PTL
  DEF Spec, SlotSpec, Slot!Spec

-----------------------------------------------------------------------------
(* Rows, connections and snapshots.                                        *)

\* Where Serve is before its session has a row
Unregistered == {"idle", "catalog", "resolve", "create", "lookup", "endStale", "recreate"}

\* Where Serve is only when its session has a row
Registered == {"release", "finish", "heartbeat", "show", "finalize"}

\* Where Serve leaves no snapshot behind
Cleaned == {"disconnected", "unfinalized", "duplicate", "crashed"}

\* No heartbeat is ahead of the clock, and neither the connection nor the snapshot
\* knows of one that the row does not, nor is about to; they know of the same one.
TimesAgree(s) ==
    /\ conn[s].at <= now /\ rows[s].hb <= now
    /\ rows[s].status = "none" => rows[s].hb = 0
    /\ conn[s].hb <= rows[s].hb /\ snapshots[s].hb <= rows[s].hb
    /\ conn[s].pc = "show" => conn[s].at <= rows[s].hb
    /\ conn[s].pc \notin Gone => snapshots[s].hb = conn[s].hb

\* A connection that is not registered, and one that is
Fresh(s) == ~conn[s].persisted /\ conn[s].state = "connected"
Live(s) == conn[s].persisted /\ conn[s].state \in {"registered", "active"}

\* persistedSession is set only when the row was written, and decides together
\* with the session's state what Serve may be doing.
PersistedAgrees(s) ==
    /\ conn[s].persisted => rows[s].status # "none"
    /\ conn[s].pc \in Unregistered => Fresh(s)
    /\ conn[s].pc = "reading" => Fresh(s) \/ Live(s)
    /\ conn[s].pc \in {"heartbeat", "show"} => Live(s)
    /\ conn[s].pc \in Registered => conn[s].persisted

\* SnapshotOnlyWhileServed and CleanDisconnectEndsRow of one session
EndsAgree(s) ==
    /\ snapshots[s] # NoSnapshot => conn[s].persisted /\ conn[s].pc \notin Cleaned
    /\ conn[s].pc = "disconnected" /\ conn[s].persisted => rows[s].status = "ended"

Agrees(s) == TimesAgree(s) /\ PersistedAgrees(s) /\ EndsAgree(s)

ServeInv == \A s \in Sessions : Agrees(s)

\* What any step does to the row of session r
RowMoves(r) ==
    /\ rows[r].hb <= rows'[r].hb /\ rows'[r].hb <= now'
    /\ rows'[r].status = "none" => rows'[r].hb = 0
    /\ rows[r].status # "none" => rows'[r].status # "none"
    /\ rows[r].status = "ended" => rows'[r].status = "ended"

\* The numbers of a session are numbers.
LEMMA Times ==
    ASSUME TypeOK, NEW r \in Sessions
    PROVE  /\ now \in Nat /\ rows[r].hb \in Nat /\ conn[r].hb \in Nat /\ conn[r].at \in Nat
           /\ snapshots[r].hb \in Nat
BY DEF TypeOK, Row, Conn, Snapshot

LEMMA RowsMove ==
    ASSUME TypeOK, ServeInv, RowsStep, now' \in Nat, now <= now', NEW r \in Sessions
    PROVE  RowMoves(r)
<1>1. /\ now \in Nat /\ rows[r].hb \in Nat /\ conn[r].at \in Nat
      /\ conn[r].at <= now /\ rows[r].hb <= now
      /\ rows[r].status = "none" => rows[r].hb = 0
  BY Times DEF ServeInv, Agrees, TimesAgree
<1>2. CASE rows'[r] = rows[r]
  BY <1>1, <1>2 DEF RowMoves
<1>3. CASE Inserts(r)
  <2>1. rows[r].status = "none" /\ rows'[r].hb = conn[r].at /\ rows'[r].status = "active"
    BY <1>3 DEF Inserts, TypeOK
  <2>2. QED
    BY <1>1, <2>1 DEF RowMoves
<1>4. CASE Refreshes(r)
  <2>1. rows[r].status = "active" /\ rows'[r].hb = now /\ rows'[r].status = "active"
    BY <1>4 DEF Refreshes, TypeOK, Row
  <2>2. QED
    BY <1>1, <2>1 DEF RowMoves
<1>5. CASE Ends(r)
  <2>1. rows[r].status = "active" /\ rows'[r].hb = rows[r].hb /\ rows'[r].status = "ended"
    BY <1>5 DEF Ends, TypeOK, Row
  <2>2. QED
    BY <1>1, <2>1 DEF RowMoves
<1>6. ASSUME NEW s \in Sessions, s # r, Inserts(s) \/ Refreshes(s) \/ Ends(s)
      PROVE  rows'[r] = rows[r]
  BY <1>6 DEF Inserts, Refreshes, Ends, TypeOK
<1>7. QED
  BY <1>2, <1>3, <1>4, <1>5, <1>6 DEF RowsStep

\* A session whose connection and snapshot do not change
LEMMA OthersAgree ==
    ASSUME TypeOK, ServeInv, NEW r \in Sessions, RowMoves(r), now' \in Nat, now <= now',
           conn'[r] = conn[r], snapshots'[r] = snapshots[r], rows'[r].hb \in Nat
    PROVE  Agrees(r)'
<1>1. Agrees(r)
  BY DEF ServeInv
<1>2. TimesAgree(r)'
  BY <1>1, Times DEF RowMoves, Agrees, TimesAgree
<1>3. PersistedAgrees(r)'
  BY <1>1 DEF RowMoves, Agrees, PersistedAgrees, Fresh, Live
<1>4. EndsAgree(r)'
  BY <1>1 DEF RowMoves, Agrees, EndsAgree
<1>5. QED
  BY <1>2, <1>3, <1>4 DEF Agrees

\* The clock does not run back, and what a step of one connection leaves alone
LEMMA ClockMoves ==
    ASSUME TypeOK, [Next]_vars
    PROVE  now' \in Nat /\ now <= now'
<1>1. now \in Nat
  BY DEF TypeOK
<1>2. CASE Tick
  BY <1>1, <1>2 DEF Tick
<1>3. CASE Crash \/ UNCHANGED vars
  BY <1>1, <1>3 DEF Crash, vars
<1>4. ASSUME NEW s \in Sessions, Receive(s)
      PROVE  now' = now
  BY <1>4 DEF Receive, Accept, OtherFrame, Register, Heartbeat, LatencyResult, SequenceGap,
              ActionFlood, ReadFails
<1>5. ASSUME NEW s \in Sessions, Step(s)
      PROVE  now' = now
  <2>1. LoadCatalog(s) \/ FinishRegister(s) \/ ShowHeartbeat(s) => now' = now
    BY DEF LoadCatalog, FinishRegister, ShowHeartbeat
  <2>2. \A c : \A out \in Outcomes : Insert(s, out, c) => now' = now
    BY DEF Insert
  <2>3. \A out \in Outcomes :
          /\ ResolveTrader(s, out) => now' = now
          /\ LookupActive(s, out) => now' = now
          /\ EndStale(s, out) => now' = now
          /\ PersistRelease(s, out) => now' = now
    BY DEF ResolveTrader, LookupActive, EndStale, PersistRelease
  <2>4. \A out \in Outcomes :
          /\ PersistHeartbeat(s, out) => now' = now
          /\ Finalize(s, out) => now' = now
    BY DEF PersistHeartbeat, Finalize
  <2>5. QED
    BY <1>5, <2>1, <2>2, <2>3, <2>4 DEF Step, TimedStep, CreateSession, RecreateSession
<1>6. QED
  BY <1>1, <1>2, <1>3, <1>4, <1>5 DEF Next

\* A step of connection s touches no other connection or snapshot.
Touches(s) ==
    \A r \in Sessions : r # s => conn'[r] = conn[r] /\ snapshots'[r] = snapshots[r]

LEMMA StepTouches ==
    ASSUME TypeOK, NEW s \in Sessions, Receive(s) \/ Step(s)
    PROVE  Touches(s)
<1>1. \A c : conn' = [conn EXCEPT ![s] = c] =>
                 \A r \in Sessions : r # s => conn'[r] = conn[r]
  BY DEF TypeOK
<1>2. \A c : snapshots' = [snapshots EXCEPT ![s] = c] =>
                 \A r \in Sessions : r # s => snapshots'[r] = snapshots[r]
  BY DEF TypeOK
<1>3. \/ snapshots' = snapshots
      \/ \E c : snapshots' = [snapshots EXCEPT ![s] = c]
  <2>1. CASE Receive(s)
    BY <2>1 DEF Receive, Accept, OtherFrame, Register, Heartbeat, LatencyResult, SequenceGap,
                ActionFlood, ReadFails
  <2>2. CASE Step(s)
    BY <2>2 DEF Step, TimedStep, LoadCatalog, FinishRegister, ShowHeartbeat, ResolveTrader,
                CreateSession, LookupActive, EndStale, RecreateSession, Insert,
                PersistRelease, PersistHeartbeat, Finalize
  <2>3. QED
    BY <2>1, <2>2
<1>4. \E c : conn' = [conn EXCEPT ![s] = c]
  <2>1. CASE Receive(s)
    BY <2>1 DEF Receive, Accept, OtherFrame, Register, Heartbeat, LatencyResult, SequenceGap,
                ActionFlood, ReadFails
  <2>2. CASE Step(s)
    BY <2>2 DEF Step, TimedStep, LoadCatalog, FinishRegister, ShowHeartbeat, ResolveTrader,
                CreateSession, LookupActive, EndStale, RecreateSession, Insert,
                PersistRelease, PersistHeartbeat, Finalize, Retry
  <2>3. QED
    BY <2>1, <2>2
<1>5. QED
  BY <1>1, <1>2, <1>3, <1>4 DEF Touches

-----------------------------------------------------------------------------
(* What a step does to its own session: it serves on, it shows a heartbeat  *)
(* to the scheduler, or Serve returns.                                      *)

\* Serve goes on, and the snapshot stays as it is.
Serves(s) ==
    /\ conn[s].pc \notin Gone /\ conn'[s].pc \notin Gone
    /\ conn'[s].hb = conn[s].hb /\ conn'[s].at <= now
    /\ conn'[s].pc = "show" => conn'[s].at <= rows'[s].hb
    /\ conn[s].persisted => conn'[s].persisted
    /\ snapshots'[s] = snapshots[s]
    /\ PersistedAgrees(s)'

\* Serve goes back to reading, and the snapshot is replaced.
Shows(s) ==
    /\ Live(s)' /\ conn'[s].pc = "reading" /\ conn'[s].at <= now
    /\ rows[s].status # "none"
    /\ conn'[s].hb \in Nat /\ conn'[s].hb <= rows'[s].hb
    /\ snapshots'[s] = [state |-> conn'[s].state, hb |-> conn'[s].hb]

\* Serve returns.
Returns(s) ==
    \E where \in Gone :
        /\ conn'[s] = Returned(s, where)
        /\ snapshots'[s] \in {snapshots[s], NoSnapshot}
        /\ where \in Cleaned => snapshots'[s] = NoSnapshot
        /\ where = "disconnected" /\ conn[s].persisted => rows'[s].status = "ended"

LEMMA ServesAgree ==
    ASSUME TypeOK, ServeInv, NEW s \in Sessions, RowMoves(s), now' \in Nat, now <= now',
           TypeOK', Serves(s)
    PROVE  Agrees(s)'
<1>1. Agrees(s)
  BY DEF ServeInv
<1>2. /\ now \in Nat /\ rows[s].hb \in Nat /\ conn[s].hb \in Nat /\ snapshots[s].hb \in Nat
      /\ rows'[s].hb \in Nat /\ conn'[s].at \in Nat
  BY Times DEF TypeOK, Row, Conn
<1>3. TimesAgree(s)'
  BY <1>1, <1>2 DEF Serves, RowMoves, Agrees, TimesAgree
<1>4. EndsAgree(s)'
  <2>1. "disconnected" \in Gone /\ Cleaned \subseteq Gone
    BY DEF Gone, Cleaned
  <2>2. QED
    BY <1>1, <2>1 DEF Serves, Agrees, EndsAgree
<1>5. QED
  BY <1>3, <1>4 DEF Serves, Agrees

LEMMA ShowsAgree ==
    ASSUME TypeOK, ServeInv, NEW s \in Sessions, RowMoves(s), now' \in Nat, now <= now',
           TypeOK', Shows(s)
    PROVE  Agrees(s)'
<1>1. snapshots'[s].hb = conn'[s].hb
  BY DEF Shows
<1>2. rows'[s].hb \in Nat /\ conn'[s].at <= now'
  BY Times DEF Shows, TypeOK, Row, Conn
<1>3. TimesAgree(s)'
  BY <1>1, <1>2 DEF Shows, RowMoves, TimesAgree
<1>4. PersistedAgrees(s)'
  BY DEF Shows, RowMoves, PersistedAgrees, Unregistered, Registered, Live
<1>5. EndsAgree(s)'
  BY DEF Shows, EndsAgree, Cleaned, Live
<1>6. QED
  BY <1>3, <1>4, <1>5 DEF Agrees

LEMMA ReturnsAgree ==
    ASSUME TypeOK, ServeInv, NEW s \in Sessions, RowMoves(s), now' \in Nat, now <= now',
           TypeOK', Returns(s)
    PROVE  Agrees(s)'
<1>1. Agrees(s)
  BY DEF ServeInv
<1>2. PICK where \in Gone :
        /\ conn'[s] = Returned(s, where)
        /\ snapshots'[s] \in {snapshots[s], NoSnapshot}
        /\ where \in Cleaned => snapshots'[s] = NoSnapshot
        /\ where = "disconnected" /\ conn[s].persisted => rows'[s].status = "ended"
  BY DEF Returns
<1>3. /\ conn'[s].pc = where /\ conn'[s].hb = 0 /\ conn'[s].at = 0
      /\ conn'[s].persisted = conn[s].persisted
  BY <1>2 DEF Returned
<1>4. /\ rows'[s].hb \in Nat /\ rows[s].hb \in Nat /\ snapshots[s].hb \in Nat
  BY Times DEF TypeOK, Row
<1>5. snapshots'[s].hb <= rows'[s].hb
  <2>1. CASE snapshots'[s] = snapshots[s]
    BY <1>1, <1>4, <2>1 DEF RowMoves, Agrees, TimesAgree
  <2>2. CASE snapshots'[s] = NoSnapshot
    BY <1>4, <2>2 DEF NoSnapshot
  <2>3. QED
    BY <1>2, <2>1, <2>2
<1>6. TimesAgree(s)'
  BY <1>3, <1>4, <1>5 DEF RowMoves, TimesAgree
<1>7. PersistedAgrees(s)'
  BY <1>1, <1>3 DEF RowMoves, Agrees, PersistedAgrees, Gone, Unregistered, Registered
<1>8. EndsAgree(s)'
  BY <1>1, <1>2, <1>3 DEF Agrees, EndsAgree
<1>9. QED
  BY <1>6, <1>7, <1>8 DEF Agrees

\* One of the three, which is what a step of s does
Moves(s) == Serves(s) \/ Shows(s) \/ Returns(s)

\* What the invariant says about connection s, where Serve reads
LEMMA WhileReading ==
    ASSUME TypeOK, ServeInv, NEW s \in Sessions, conn[s].pc = "reading"
    PROVE  /\ Fresh(s) \/ Live(s)
           /\ conn[s].persisted => rows[s].status # "none"
           /\ ~conn[s].persisted => snapshots[s] = NoSnapshot
           /\ conn[s].at <= now /\ conn[s].hb <= rows[s].hb /\ snapshots[s].hb = conn[s].hb
BY DEF ServeInv, Agrees, TimesAgree, PersistedAgrees, EndsAgree, Gone

\* A message that only moves the read deadline or starts a handler
LEMMA FrameMoves ==
    ASSUME TypeOK, ServeInv, NEW s \in Sessions, RowMoves(s),
           Accept(s) \/ OtherFrame(s) \/ Register(s) \/ Heartbeat(s)
    PROVE  Serves(s)
<1>1. now \in Nat /\ conn[s].at \in Nat /\ conn[s] \in Conn
  BY Times DEF TypeOK
<1>2. Agrees(s)
  BY DEF ServeInv
<1>3. CASE Accept(s)
  <2>1. /\ conn'[s].pc = "reading" /\ conn'[s].hb = conn[s].hb /\ conn'[s].at = conn[s].at
        /\ conn'[s].persisted = conn[s].persisted /\ conn'[s].state = conn[s].state
        /\ conn[s].pc = "idle" /\ snapshots' = snapshots
    BY <1>1, <1>3 DEF Accept, TypeOK, Conn
  <2>2. PersistedAgrees(s)'
    BY <1>2, <2>1 DEF Agrees, PersistedAgrees, Fresh, Unregistered, Registered
  <2>3. QED
    BY <1>2, <2>1, <2>2 DEF Serves, Agrees, TimesAgree, Gone
<1>4. CASE OtherFrame(s)
  <2>1. /\ conn'[s].pc = "reading" /\ conn'[s].hb = conn[s].hb /\ conn'[s].at = conn[s].at
        /\ conn'[s].persisted = conn[s].persisted /\ conn'[s].state = conn[s].state
        /\ conn[s].pc = "reading" /\ snapshots' = snapshots
    BY <1>1, <1>4 DEF OtherFrame, TypeOK, Conn
  <2>2. PersistedAgrees(s)'
    BY <1>2, <2>1 DEF RowMoves, Agrees, PersistedAgrees, Fresh, Live, Unregistered, Registered
  <2>3. QED
    BY <1>2, <2>1, <2>2 DEF Serves, Agrees, TimesAgree, Gone
<1>5. CASE Register(s)
  <2>1. /\ conn'[s].pc = "catalog" /\ conn'[s].hb = conn[s].hb /\ conn'[s].at = now
        /\ conn'[s].persisted = conn[s].persisted /\ conn'[s].state = conn[s].state
        /\ conn[s].pc = "reading" /\ conn[s].state = "connected" /\ snapshots' = snapshots
    BY <1>1, <1>5 DEF Register, Begin, TypeOK, Conn
  <2>2. PersistedAgrees(s)'
    BY <1>2, <2>1 DEF Agrees, PersistedAgrees, Fresh, Live, Unregistered, Registered
  <2>3. QED
    BY <1>1, <2>1, <2>2 DEF Serves, Gone
<1>6. CASE Heartbeat(s)
  <2>1. /\ conn'[s].pc = "heartbeat" /\ conn'[s].hb = conn[s].hb /\ conn'[s].at = now
        /\ conn'[s].persisted = conn[s].persisted /\ conn'[s].state = conn[s].state
        /\ conn[s].pc = "reading" /\ conn[s].state \in {"registered", "active"}
        /\ snapshots' = snapshots
    BY <1>1, <1>6 DEF Heartbeat, Begin, TypeOK, Conn
  <2>2. PersistedAgrees(s)'
    BY <1>2, <2>1 DEF RowMoves, Agrees, PersistedAgrees, Fresh, Live, Unregistered, Registered
  <2>3. QED
    BY <1>1, <2>1, <2>2 DEF Serves, Gone
<1>7. QED
  BY <1>3, <1>4, <1>5, <1>6

LEMMA LatencyMoves ==
    ASSUME TypeOK, ServeInv, NEW s \in Sessions, RowMoves(s), LatencyResult(s)
    PROVE  Moves(s)
<1>1. conn[s] \in Conn /\ conn[s].hb \in Nat /\ rows[s].hb \in Nat
  BY Times DEF TypeOK
<1>2. /\ conn'[s].pc = "reading" /\ conn'[s].hb = conn[s].hb /\ conn'[s].at = conn[s].at
      /\ conn'[s].persisted = conn[s].persisted /\ conn'[s].state = conn[s].state
      /\ conn[s].pc = "reading" /\ conn[s].state \in {"registered", "active"}
      /\ snapshots'[s] = [state |-> conn'[s].state, hb |-> conn'[s].hb] /\ rows' = rows
  BY <1>1 DEF LatencyResult, TypeOK, Conn
<1>3. Live(s) /\ conn[s].persisted /\ rows[s].status # "none" /\ conn[s].hb <= rows[s].hb
  BY <1>2, WhileReading DEF Fresh, Live
<1>4. Shows(s)
  BY <1>1, <1>2, <1>3, WhileReading DEF Shows, Live
<1>5. QED
  BY <1>4 DEF Moves

LEMMA ReadEndMoves ==
    ASSUME TypeOK, ServeInv, NEW s \in Sessions, RowMoves(s),
           \/ SequenceGap(s) \/ ActionFlood(s)
           \/ \E reason \in ReadErrors : ReadFails(s, reason)
    PROVE  Moves(s)
<1>1. conn[s] \in Conn /\ conn \in [Sessions -> Conn] /\ conn[s].pc = "reading"
  BY DEF TypeOK, SequenceGap, ActionFlood, ReadFails
<1>2. CASE SequenceGap(s) \/ ActionFlood(s)
  <2>1. \E where \in {"gap", "flood"} :
          conn'[s] = Returned(s, where) /\ snapshots' = snapshots
    BY <1>1, <1>2 DEF SequenceGap, ActionFlood
  <2>2. QED
    BY <2>1 DEF Moves, Returns, Gone, Cleaned
<1>3. ASSUME NEW reason \in ReadErrors, ReadFails(s, reason), conn[s].persisted
      PROVE  Serves(s)
  <2> DEFINE state == IF reason = "timeout" THEN "timed_out" ELSE conn[s].state
  <2>1. conn'[s] = [conn[s] EXCEPT !.pc = "finalize", !.attempt = 1, !.reason = reason,
                                   !.state = state]
    BY <1>1, <1>3 DEF ReadFails
  <2> HIDE DEF state
  <2>2. /\ conn'[s].pc = "finalize" /\ conn'[s].hb = conn[s].hb /\ conn'[s].at = conn[s].at
        /\ conn'[s].persisted = conn[s].persisted
    BY <1>1, <2>1 DEF Conn
  <2>3. snapshots' = snapshots
    BY <1>3 DEF ReadFails
  <2>4. PersistedAgrees(s)'
    BY <1>1, <1>3, <2>2, WhileReading DEF PersistedAgrees, RowMoves, Unregistered, Registered
  <2>5. QED
    BY <1>1, <2>2, <2>3, <2>4, WhileReading DEF Serves, Gone
<1>4. ASSUME NEW reason \in ReadErrors, ReadFails(s, reason), ~conn[s].persisted
      PROVE  Returns(s)
  <2>1. conn'[s] = Returned(s, "disconnected") /\ snapshots'[s] = NoSnapshot
    BY <1>1, <1>4 DEF ReadFails, TypeOK
  <2>2. QED
    BY <1>4, <2>1 DEF Returns, Gone
<1>5. QED
  BY <1>2, <1>3, <1>4 DEF Moves

\* A failed attempt: the operation runs again or, given up, Serve reads on.
LEMMA RetryMoves ==
    ASSUME TypeOK, ServeInv, NEW s \in Sessions, RowMoves(s), NEW op,
           \/ conn[s].pc \in Unregistered \ {"idle"} /\ op \in Unregistered \ {"idle"}
           \/ conn[s].pc = "heartbeat" /\ op = "heartbeat",
           Retry(s, op, Reading(s)), snapshots' = snapshots
    PROVE  Serves(s)
<1>1. conn[s] \in Conn /\ conn \in [Sessions -> Conn] /\ Agrees(s) /\ now \in Nat
  BY DEF TypeOK, ServeInv
<1>2. \/ conn'[s] = [conn[s] EXCEPT !.pc = op, !.attempt = @ + 1, !.target = NoSession]
      \/ conn'[s] = Reading(s)
  BY <1>1 DEF Retry
<1>3. /\ \/ conn'[s].pc = op /\ conn'[s].at = conn[s].at
         \/ conn'[s].pc = "reading" /\ conn'[s].at = 0
      /\ conn'[s].hb = conn[s].hb
      /\ conn'[s].persisted = conn[s].persisted /\ conn'[s].state = conn[s].state
  BY <1>1, <1>2 DEF Reading, Conn
<1>4. PersistedAgrees(s)'
  BY <1>1, <1>3 DEF Agrees, PersistedAgrees, RowMoves, Unregistered, Registered, Fresh, Live
<1>5. /\ conn[s].pc \notin Gone /\ conn'[s].pc \notin Gone \cup {"show"}
      /\ conn'[s].at <= now
  BY <1>1, <1>3 DEF Unregistered, Gone, Agrees, TimesAgree
<1>6. QED
  BY <1>3, <1>4, <1>5 DEF Serves

\* What the invariant says before the session is registered
LEMMA WhileRegistering ==
    ASSUME ServeInv, NEW s \in Sessions, conn[s].pc \in Unregistered
    PROVE  Fresh(s) /\ snapshots[s] = NoSnapshot /\ conn[s].at <= now
BY DEF ServeInv, Agrees, TimesAgree, PersistedAgrees, EndsAgree, Fresh

LEMMA InsertMoves ==
    ASSUME TypeOK, ServeInv, NEW s \in Sessions, RowMoves(s), NEW out \in Outcomes,
           CreateSession(s, out) \/ RecreateSession(s, out)
    PROVE  Moves(s)
<1>1. /\ conn[s] \in Conn /\ conn \in [Sessions -> Conn] /\ rows \in [Sessions -> Row]
      /\ conn[s].pc \in {"create", "recreate"}
      /\ snapshots' = snapshots
  BY DEF TypeOK, CreateSession, RecreateSession, Insert
<1>2. conn[s].pc \in Unregistered /\ conn[s].pc \notin Gone
  BY <1>1 DEF Unregistered, Gone
<1>3. Fresh(s) /\ snapshots[s] = NoSnapshot /\ conn[s].at <= now
  BY <1>2, WhileRegistering
<1>4. CASE conn' = [conn EXCEPT ![s] = [conn[s] EXCEPT !.pc = "lookup"]]
  <2>1. /\ conn'[s].pc = "lookup" /\ conn'[s].hb = conn[s].hb /\ conn'[s].at = conn[s].at
        /\ conn'[s].persisted = conn[s].persisted /\ conn'[s].state = conn[s].state
    BY <1>1, <1>4 DEF Conn
  <2>2. PersistedAgrees(s)'
    BY <1>3, <2>1 DEF PersistedAgrees, Fresh, Unregistered, Registered
  <2>3. QED
    BY <1>1, <1>2, <1>3, <2>1, <2>2 DEF Moves, Serves, Gone
<1>5. CASE conn' = [conn EXCEPT ![s] = Returned(s, "duplicate")]
  <2>1. conn'[s] = Returned(s, "duplicate")
    BY <1>1, <1>5
  <2>2. QED
    BY <1>1, <1>3, <2>1 DEF Moves, Returns, Gone
<1>6. CASE /\ InsertRow(s, out)
           /\ out = "ok" /\ ~DuplicateEntry(s)
           /\ \E next \in {"release", "finish"} :
                  conn' = [conn EXCEPT ![s].pc = next, ![s].persisted = TRUE,
                                       ![s].attempt = 1]
  <2>1. /\ conn'[s].pc \in {"release", "finish"} /\ conn'[s].hb = conn[s].hb /\ conn'[s].at = conn[s].at
        /\ conn'[s].persisted /\ conn'[s].state = conn[s].state
    BY <1>1, <1>6 DEF Conn
  <2>2. rows'[s].status = "active"
    BY <1>1, <1>6 DEF InsertRow, Executed
  <2>3. PersistedAgrees(s)'
    BY <2>1, <2>2 DEF PersistedAgrees, Unregistered, Registered
  <2>4. QED
    BY <1>1, <1>2, <1>3, <2>1, <2>3 DEF Moves, Serves, Gone
<1>7. CASE Retry(s, "create", Reading(s))
  BY <1>1, <1>7, RetryMoves DEF Moves, Unregistered
<1>8. QED
  BY <1>4, <1>5, <1>6, <1>7 DEF CreateSession, RecreateSession, Insert

\* The other statements of CreateSession, and the resolution before it
LEMMA RegisterMoves ==
    ASSUME TypeOK, ServeInv, NEW s \in Sessions, RowMoves(s), NEW out \in Outcomes,
           \/ LoadCatalog(s) \/ ResolveTrader(s, out)
           \/ LookupActive(s, out) \/ EndStale(s, out)
    PROVE  Moves(s)
<1>1. /\ conn[s] \in Conn /\ conn \in [Sessions -> Conn]
      /\ conn[s].pc \in {"catalog", "resolve", "lookup", "endStale"}
      /\ snapshots' = snapshots
  BY DEF TypeOK, LoadCatalog, ResolveTrader, LookupActive, EndStale
<1>2. conn[s].pc \in Unregistered /\ conn[s].pc \notin Gone
  BY <1>1 DEF Unregistered, Gone
<1>3. Fresh(s) /\ snapshots[s] = NoSnapshot /\ conn[s].at <= now
  BY <1>2, WhileRegistering
<1>4. ASSUME /\ conn'[s].pc \in Unregistered \ {"idle"}
             /\ conn'[s].hb = conn[s].hb /\ conn'[s].at = conn[s].at
             /\ conn'[s].persisted = conn[s].persisted /\ conn'[s].state = conn[s].state
      PROVE  Moves(s)
  <2>1. PersistedAgrees(s)'
    BY <1>3, <1>4 DEF PersistedAgrees, Fresh, Unregistered, Registered
  <2>2. conn'[s].pc \notin Gone \cup {"show"}
    BY <1>4 DEF Unregistered, Gone
  <2>3. QED
    BY <1>1, <1>2, <1>3, <1>4, <2>1, <2>2 DEF Moves, Serves
<1>5. CASE Retry(s, "create", Reading(s)) \/ Retry(s, "resolve", Reading(s))
  BY <1>1, <1>5, RetryMoves DEF Moves, Unregistered
<1>6. CASE conn' = [conn EXCEPT ![s] = Returned(s, "duplicate")]
  <2>1. conn'[s] = Returned(s, "duplicate")
    BY <1>1, <1>6
  <2>2. QED
    BY <1>1, <1>3, <2>1 DEF Moves, Returns, Gone
<1>7. CASE ResolveTrader(s, out)
  <2>1. conn' = [conn EXCEPT ![s].pc = "create", ![s].attempt = 1] => Moves(s)
    BY <1>1, <1>4 DEF Conn, Unregistered
  <2>2. QED
    BY <1>5, <1>7, <2>1 DEF ResolveTrader
<1>8. CASE LookupActive(s, out)
  <2>1. \A r : conn' = [conn EXCEPT ![s].pc = "endStale", ![s].target = r] => Moves(s)
    BY <1>1, <1>4 DEF Conn, Unregistered
  <2>2. QED
    BY <1>5, <1>6, <1>8, <2>1 DEF LookupActive
<1>9. CASE EndStale(s, out)
  <2>1. conn' = [conn EXCEPT ![s].pc = "recreate", ![s].target = NoSession] => Moves(s)
    BY <1>1, <1>4 DEF Conn, Unregistered
  <2>2. QED
    BY <1>5, <1>9, <2>1 DEF EndStale
<1>10. CASE LoadCatalog(s)
  BY <1>1, <1>4, <1>10 DEF LoadCatalog, Conn, Unregistered
<1>11. QED
  BY <1>7, <1>8, <1>9, <1>10

\* The release is stored, tried again or given up; the registration goes on.
LEMMA ReleaseMoves ==
    ASSUME TypeOK, ServeInv, NEW s \in Sessions, RowMoves(s), NEW out \in Outcomes,
           PersistRelease(s, out)
    PROVE  Moves(s)
<1>1. /\ conn[s] \in Conn /\ conn \in [Sessions -> Conn] /\ Agrees(s)
      /\ conn[s].pc = "release" /\ rows' = rows /\ snapshots' = snapshots
  BY DEF TypeOK, ServeInv, PersistRelease
<1>2. /\ conn'[s].pc \in {"release", "finish"} /\ conn'[s].hb = conn[s].hb
      /\ conn'[s].at = conn[s].at /\ conn'[s].persisted = conn[s].persisted
  <2>1. CASE conn' = [conn EXCEPT ![s].pc = "finish"]
    BY <1>1, <2>1 DEF Conn
  <2>2. CASE Retry(s, "release", [conn[s] EXCEPT !.pc = "finish"])
    <3>1. \/ conn'[s] = [conn[s] EXCEPT !.pc = "finish"]
          \/ conn'[s] = [conn[s] EXCEPT !.pc = "release", !.attempt = @ + 1,
                                        !.target = NoSession]
      BY <1>1, <2>2 DEF Retry
    <3>2. QED
      BY <1>1, <3>1 DEF Conn
  <2>3. QED
    BY <2>1, <2>2 DEF PersistRelease
<1>3. conn[s].persisted /\ rows[s].status # "none" /\ conn[s].at <= now
  BY <1>1 DEF Agrees, TimesAgree, PersistedAgrees, Registered
<1>4. PersistedAgrees(s)'
  BY <1>1, <1>2, <1>3 DEF PersistedAgrees, Unregistered, Registered
<1>5. QED
  BY <1>1, <1>2, <1>3, <1>4 DEF Moves, Serves, Gone

LEMMA FinishMoves ==
    ASSUME TypeOK, ServeInv, NEW s \in Sessions, RowMoves(s), FinishRegister(s)
    PROVE  Moves(s)
<1>1. conn[s] \in Conn /\ conn \in [Sessions -> Conn] /\ Agrees(s)
  BY DEF TypeOK, ServeInv
<1>2. conn[s].pc = "finish" /\ rows' = rows /\ now \in Nat
  BY DEF FinishRegister, TypeOK
<1>3. conn[s].persisted /\ rows[s].status # "none" /\ conn[s].hb <= rows[s].hb
  BY <1>1, <1>2 DEF Agrees, TimesAgree, PersistedAgrees, Registered
<1>4. /\ conn'[s].pc = "reading" /\ conn'[s].state = "registered" /\ conn'[s].at = 0
      /\ conn'[s].hb = conn[s].hb /\ conn'[s].persisted = conn[s].persisted
  BY <1>1 DEF FinishRegister, Reading, Conn
<1>5. snapshots'[s] = [state |-> "registered", hb |-> conn[s].hb] /\ conn[s].hb \in Nat
  BY Times DEF FinishRegister, TypeOK
<1>6. Shows(s)
  BY <1>2, <1>3, <1>4, <1>5 DEF Shows, Live
<1>7. QED
  BY <1>6 DEF Moves

LEMMA HeartbeatMoves ==
    ASSUME TypeOK, ServeInv, NEW s \in Sessions, RowMoves(s), NEW out \in Outcomes,
           PersistHeartbeat(s, out)
    PROVE  Moves(s)
<1>1. /\ conn[s] \in Conn /\ conn \in [Sessions -> Conn] /\ rows \in [Sessions -> Row]
      /\ Agrees(s) /\ conn[s].pc = "heartbeat" /\ snapshots' = snapshots
  BY DEF TypeOK, ServeInv, PersistHeartbeat
<1>2. CASE out = "ok" /\ rows[s].status = "active"
  <2>1. /\ conn'[s].pc = "show" /\ conn'[s].hb = conn[s].hb /\ conn'[s].at = conn[s].at
        /\ conn'[s].persisted = conn[s].persisted /\ conn'[s].state = conn[s].state
    <3>1. conn' = [conn EXCEPT ![s].pc = "show"]
      BY <1>2 DEF PersistHeartbeat
    <3>2. QED
      BY <1>1, <3>1 DEF Conn
  <2>2. rows'[s].hb = now
    BY <1>1, <1>2 DEF PersistHeartbeat, BeatRow, Executed, Row
  <2>3. conn[s].at <= now /\ Live(s) /\ conn[s].persisted /\ rows[s].status # "none"
    BY <1>1 DEF Agrees, TimesAgree, PersistedAgrees, Registered
  <2>4. PersistedAgrees(s)'
    BY <2>1, <2>3 DEF PersistedAgrees, RowMoves, Live, Unregistered, Registered
  <2>5. QED
    BY <1>1, <2>1, <2>2, <2>3, <2>4 DEF Moves, Serves, Gone
<1>3. CASE ~(out = "ok" /\ rows[s].status = "active")
  <2>1. Retry(s, "heartbeat", Reading(s))
    BY <1>3 DEF PersistHeartbeat
  <2>2. QED
    BY <1>1, <2>1, RetryMoves DEF Moves
<1>4. QED
  BY <1>2, <1>3

LEMMA ShowMoves ==
    ASSUME TypeOK, ServeInv, NEW s \in Sessions, RowMoves(s), ShowHeartbeat(s)
    PROVE  Moves(s)
<1>1. conn[s] \in Conn /\ conn \in [Sessions -> Conn] /\ Agrees(s)
  BY DEF TypeOK, ServeInv
<1>2. conn[s].pc = "show" /\ rows' = rows /\ now \in Nat /\ conn[s].at \in Nat
  BY Times DEF ShowHeartbeat, TypeOK
<1>3. conn[s].persisted /\ rows[s].status # "none" /\ conn[s].at <= rows[s].hb
  BY <1>1, <1>2 DEF Agrees, TimesAgree, PersistedAgrees, Registered
<1>4. /\ conn'[s].pc = "reading" /\ conn'[s].state = "active" /\ conn'[s].at = 0
      /\ conn'[s].hb = conn[s].at /\ conn'[s].persisted = conn[s].persisted
  <2>1. conn'[s] = [Reading(s) EXCEPT !.state = "active", !.hb = conn[s].at,
                                      !.lastRead = now]
    BY <1>1 DEF ShowHeartbeat
  <2>2. QED
    BY <1>1, <2>1 DEF Reading, Conn
<1>5. snapshots'[s] = [state |-> "active", hb |-> conn[s].at]
  BY DEF ShowHeartbeat, TypeOK
<1>6. Shows(s)
  BY <1>2, <1>3, <1>4, <1>5 DEF Shows, Live
<1>7. QED
  BY <1>6 DEF Moves

LEMMA FinalizeMoves ==
    ASSUME TypeOK, ServeInv, NEW s \in Sessions, RowMoves(s), NEW out \in Outcomes,
           Finalize(s, out)
    PROVE  Moves(s)
<1>1. /\ conn[s] \in Conn /\ conn \in [Sessions -> Conn] /\ rows \in [Sessions -> Row]
      /\ snapshots \in [Sessions -> Snapshot]
      /\ Agrees(s) /\ conn[s].pc = "finalize"
  BY DEF TypeOK, ServeInv, Finalize
<1>2. conn[s].persisted /\ rows[s].status # "none" /\ conn[s].at <= now
  BY <1>1 DEF Agrees, PersistedAgrees, TimesAgree, Registered
<1>3. snapshots' = IF conn'[s].pc \in Gone
                   THEN [snapshots EXCEPT ![s] = NoSnapshot] ELSE snapshots
  BY DEF Finalize
<1>4. ASSUME NEW where \in Gone, conn'[s] = Returned(s, where)
      PROVE  snapshots'[s] = NoSnapshot
  BY <1>1, <1>3, <1>4 DEF Returned
<1>5. CASE out = "ok"
  <2>1. conn'[s] = Returned(s, "disconnected")
    BY <1>1, <1>5 DEF Finalize
  <2>2. EndRow(s, MapDisconnectReason[conn[s].reason], out)
    BY <1>5 DEF Finalize
  <2>3. rows'[s].status = "ended"
    <3>1. CASE rows[s].status = "active"
      BY <1>1, <1>5, <2>2, <3>1 DEF EndRow, Executed, Row
    <3>2. CASE rows[s].status = "ended"
      BY <2>2, <3>2 DEF EndRow
    <3>3. QED
      BY <1>1, <1>2, <3>1, <3>2 DEF Row
  <2>4. QED
    BY <1>4, <2>1, <2>3 DEF Moves, Returns, Gone
<1>6. CASE out # "ok"
  <2>1. \/ conn'[s] = [conn[s] EXCEPT !.pc = "finalize", !.attempt = @ + 1,
                                      !.target = NoSession]
        \/ conn'[s] = Returned(s, "unfinalized")
    BY <1>1, <1>6 DEF Finalize, Retry
  <2>2. CASE conn'[s] = Returned(s, "unfinalized")
    BY <1>4, <2>2 DEF Moves, Returns, Gone
  <2>3. CASE conn'[s] = [conn[s] EXCEPT !.pc = "finalize", !.attempt = @ + 1,
                                        !.target = NoSession]
    <3>1. /\ conn'[s].pc = "finalize" /\ conn'[s].hb = conn[s].hb
          /\ conn'[s].at = conn[s].at /\ conn'[s].persisted = conn[s].persisted
      BY <1>1, <2>3 DEF Conn
    <3>2. PersistedAgrees(s)'
      BY <1>2, <3>1 DEF PersistedAgrees, RowMoves, Unregistered, Registered
    <3>3. "finalize" \notin Gone
      BY DEF Gone
    <3>4. QED
      BY <1>1, <1>2, <1>3, <3>1, <3>2, <3>3 DEF Moves, Serves
  <2>4. QED
    BY <2>1, <2>2, <2>3
<1>7. QED
  BY <1>5, <1>6

LEMMA SessionMoves ==
    ASSUME TypeOK, ServeInv, NEW s \in Sessions, RowMoves(s), Receive(s) \/ Step(s)
    PROVE  Moves(s)
<1>1. CASE Receive(s)
  <2>1. CASE Accept(s) \/ OtherFrame(s) \/ Register(s) \/ Heartbeat(s)
    BY <2>1, FrameMoves DEF Moves
  <2>2. CASE LatencyResult(s)
    BY <2>2, LatencyMoves
  <2>3. CASE \/ SequenceGap(s) \/ ActionFlood(s)
             \/ \E reason \in ReadErrors : ReadFails(s, reason)
    BY <2>3, ReadEndMoves
  <2>4. QED
    BY <1>1, <2>1, <2>2, <2>3 DEF Receive
<1>2. CASE Step(s)
  <2>1. CASE LoadCatalog(s)
    BY <2>1, RegisterMoves DEF Outcomes
  <2>2. CASE TimedStep(s)
    BY <2>2, FinishMoves, RegisterMoves, InsertMoves, ReleaseMoves, HeartbeatMoves, ShowMoves,
       FinalizeMoves DEF TimedStep
  <2>3. QED
    BY <1>2, <2>1, <2>2 DEF Step
<1>3. QED
  BY <1>1, <1>2

LEMMA CrashReturns ==
    ASSUME TypeOK, ServeInv, Crash, NEW s \in Sessions, RowMoves(s), now' \in Nat,
           now <= now', TypeOK'
    PROVE  Agrees(s)'
<1>1. /\ snapshots'[s] = NoSnapshot
      /\ conn'[s] = IF conn[s].pc \in {"idle"} \cup Gone
                    THEN conn[s] ELSE Returned(s, "crashed")
  BY DEF Crash
<1>2. CASE conn'[s] = Returned(s, "crashed")
  <2>1. Returns(s)
    BY <1>1, <1>2 DEF Returns, Gone
  <2>2. QED
    BY <2>1, ReturnsAgree
<1>3. CASE conn'[s] = conn[s] /\ conn[s].pc \in {"idle"} \cup Gone
  <2>1. Agrees(s)
    BY DEF ServeInv
  <2>2. snapshots[s] # NoSnapshot => conn[s].pc \in Gone
    BY <1>3, <2>1 DEF Agrees, PersistedAgrees, EndsAgree, Unregistered, Fresh
  <2>3. /\ rows[s].hb \in Nat /\ rows'[s].hb \in Nat /\ conn[s].hb \in Nat
        /\ conn[s].at \in Nat /\ now \in Nat
    BY Times DEF TypeOK, Row
  <2>4. TimesAgree(s)'
    BY <1>1, <1>3, <2>1, <2>2, <2>3 DEF Agrees, TimesAgree, RowMoves, NoSnapshot
  <2>5. PersistedAgrees(s)'
    BY <1>3, <2>1 DEF Agrees, PersistedAgrees, RowMoves, Fresh, Live
  <2>6. EndsAgree(s)'
    BY <1>1, <1>3, <2>1 DEF Agrees, EndsAgree, RowMoves
  <2>7. QED
    BY <2>4, <2>5, <2>6 DEF Agrees
<1>4. QED
  BY <1>1, <1>2, <1>3

LEMMA NextAgrees == TypeOK /\ ServeInv /\ [Next]_vars => ServeInv'
<1> SUFFICES ASSUME TypeOK, ServeInv, [Next]_vars, NEW r \in Sessions
             PROVE  Agrees(r)'
  BY DEF ServeInv
<1>1. TypeOK' /\ RowsStep /\ now' \in Nat /\ now <= now'
  BY NextType, NextRows, ClockMoves
<1>2. RowMoves(r) /\ rows'[r].hb \in Nat
  BY <1>1, RowsMove DEF TypeOK, Row
<1>3. CASE Crash
  BY <1>1, <1>2, <1>3, CrashReturns
<1>4. CASE Tick \/ UNCHANGED vars
  BY <1>1, <1>2, <1>4, OthersAgree DEF Tick, vars
<1>5. ASSUME NEW s \in Sessions, Receive(s) \/ Step(s)
      PROVE  Agrees(r)'
  <2>1. CASE r = s
    BY <1>1, <1>2, <1>5, <2>1, SessionMoves, ServesAgree, ShowsAgree, ReturnsAgree DEF Moves
  <2>2. CASE r # s
    BY <1>1, <1>2, <1>5, <2>2, StepTouches, OthersAgree DEF Touches
  <2>3. QED
    BY <2>1, <2>2
<1>6. QED
  BY <1>3, <1>4, <1>5 DEF Next

LEMMA InitAgrees == Init => ServeInv
BY DEF Init, ServeInv, Agrees, TimesAgree, PersistedAgrees, EndsAgree, Fresh, Live,
       Unregistered, Registered, Cleaned, Gone, NoSnapshot

LEMMA AlwaysAgrees == Spec => []ServeInv
BY InitAgrees, NextAgrees, TypeCorrect, PTL DEF Spec

\* When Serve returns cleanly from a read error its row has ended, whichever of
\* the retries, the lost answers and a take-over ended it (FinalizeSession).
THEOREM CleanDisconnects == Spec => []CleanDisconnectEndsRow
<1>1. ServeInv => CleanDisconnectEndsRow
  BY DEF ServeInv, Agrees, EndsAgree, CleanDisconnectEndsRow
<1>2. QED
  BY <1>1, AlwaysAgrees, PTL

\* The scheduler is shown only sessions with a row, and none of a connection that
\* was refused, crashed or went through the read-error path.
THEOREM SnapshotsServed == Spec => []SnapshotOnlyWhileServed
<1>1. ServeInv => SnapshotOnlyWhileServed
  BY DEF ServeInv, Agrees, EndsAgree, PersistedAgrees, Cleaned, SnapshotOnlyWhileServed
<1>2. QED
  BY <1>1, AlwaysAgrees, PTL

\* The heartbeat in a snapshot is never ahead of LAST_HEARTBEAT of the row.
THEOREM SnapshotsBehindRows == Spec => []SnapshotNotAheadOfRow
<1>1. ServeInv => SnapshotNotAheadOfRow
  BY DEF ServeInv, Agrees, TimesAgree, SnapshotNotAheadOfRow
<1>2. QED
  BY <1>1, AlwaysAgrees, PTL

\* A step that shows a new heartbeat is ShowHeartbeat: the other steps that replace
\* a snapshot show the heartbeat it already had.
LEMMA OnlyBeatsShow ==
    ASSUME TypeOK, ServeInv, NEW s \in Sessions, Receive(s) \/ Step(s),
           snapshots'[s].hb # snapshots[s].hb, snapshots'[s] # NoSnapshot
    PROVE  conn[s].pc = "show"
<1>1. snapshots \in [Sessions -> Snapshot] /\ Agrees(s) /\ snapshots' # snapshots
  BY DEF TypeOK, ServeInv
<1>2. CASE FinishRegister(s) \/ LatencyResult(s)
  <2>1. conn[s].pc \notin Gone /\ snapshots'[s].hb = conn[s].hb
    BY <1>1, <1>2 DEF FinishRegister, LatencyResult, Gone
  <2>2. QED
    BY <1>1, <2>1 DEF Agrees, TimesAgree
<1>3. ASSUME NEW reason \in ReadErrors, ReadFails(s, reason)
      PROVE  FALSE
  BY <1>1, <1>3 DEF ReadFails
<1>4. ASSUME NEW out \in Outcomes, Finalize(s, out)
      PROVE  FALSE
  <2>1. snapshots' = IF conn'[s].pc \in Gone
                     THEN [snapshots EXCEPT ![s] = NoSnapshot] ELSE snapshots
    BY <1>4 DEF Finalize
  <2>2. QED
    BY <1>1, <2>1
<1>5. CASE ShowHeartbeat(s)
  BY <1>5 DEF ShowHeartbeat
<1>6. Receive(s) => LatencyResult(s) \/ \E reason \in ReadErrors : ReadFails(s, reason)
  BY <1>1 DEF Receive, Accept, OtherFrame, Register, Heartbeat, SequenceGap, ActionFlood
<1>7. Step(s) => \/ FinishRegister(s) \/ ShowHeartbeat(s)
                 \/ \E out \in Outcomes : Finalize(s, out)
  BY <1>1 DEF Step, TimedStep, LoadCatalog, ResolveTrader, CreateSession, LookupActive,
              EndStale, RecreateSession, Insert, PersistRelease, PersistHeartbeat
<1>8. QED
  BY <1>2, <1>3, <1>4, <1>5, <1>6, <1>7

\* A heartbeat is accepted only while the row is active.
LEMMA OnlyActiveAccepted ==
    ASSUME TypeOK, NEW s \in Sessions, Receive(s) \/ Step(s),
           conn[s].pc # "show", conn'[s].pc = "show"
    PROVE  rows[s].status = "active"
<1>1. conn \in [Sessions -> Conn] /\ conn[s] \in Conn
  BY DEF TypeOK
<1>2. \A where \in Gone : Returned(s, where).pc # "show"
  BY DEF Returned, Gone
<1>3. Reading(s).pc = "reading"
  BY <1>1 DEF Reading, Conn
<1>4. \A op, failed : Retry(s, op, failed) => conn'[s].pc = op \/ conn'[s] = failed
  BY <1>1 DEF Retry, Conn
<1>5. Receive(s) => FALSE
  <2>1. CASE Accept(s) \/ OtherFrame(s) \/ LatencyResult(s)
    BY <1>1, <2>1 DEF Accept, OtherFrame, LatencyResult, Conn
  <2>2. CASE Register(s) \/ Heartbeat(s)
    BY <1>1, <2>2 DEF Register, Heartbeat, Begin, Conn
  <2>3. CASE SequenceGap(s) \/ ActionFlood(s)
    BY <1>1, <1>2, <2>3 DEF SequenceGap, ActionFlood, Gone
  <2>4. ASSUME NEW reason \in ReadErrors, ReadFails(s, reason)
        PROVE  FALSE
    <3>1. CASE conn[s].persisted
      <4>1. PICK state : conn'[s] = [conn[s] EXCEPT !.pc = "finalize", !.attempt = 1,
                                        !.reason = reason, !.state = state]
        BY <1>1, <2>4, <3>1 DEF ReadFails
      <4>2. QED
        BY <1>1, <4>1 DEF Conn
    <3>2. CASE ~conn[s].persisted
      BY <1>1, <1>2, <2>4, <3>2 DEF ReadFails, Gone
    <3>3. QED
      BY <3>1, <3>2
  <2>5. QED
    BY <2>1, <2>2, <2>3, <2>4 DEF Receive
<1>6. LoadCatalog(s) \/ FinishRegister(s) \/ ShowHeartbeat(s) => FALSE
  BY <1>1 DEF LoadCatalog, FinishRegister, ShowHeartbeat, Reading, Conn
<1>7. ASSUME NEW out \in Outcomes, ResolveTrader(s, out) \/ EndStale(s, out)
      PROVE  FALSE
  BY <1>1, <1>3, <1>4, <1>7 DEF ResolveTrader, EndStale, Conn
<1>8. ASSUME NEW out \in Outcomes, LookupActive(s, out)
      PROVE  FALSE
  BY <1>1, <1>2, <1>3, <1>4, <1>8 DEF LookupActive, Conn, Gone
<1>9. ASSUME NEW out \in Outcomes, CreateSession(s, out) \/ RecreateSession(s, out)
      PROVE  FALSE
  BY <1>1, <1>2, <1>3, <1>4, <1>9 DEF CreateSession, RecreateSession, Insert, Conn, Gone
<1>10. ASSUME NEW out \in Outcomes, PersistRelease(s, out)
       PROVE  FALSE
  <2>1. [conn[s] EXCEPT !.pc = "finish"].pc = "finish"
    BY <1>1 DEF Conn
  <2>2. CASE conn' = [conn EXCEPT ![s].pc = "finish"]
    BY <1>1, <2>2 DEF Conn
  <2>3. CASE Retry(s, "release", [conn[s] EXCEPT !.pc = "finish"])
    BY <1>4, <2>1, <2>3
  <2>4. QED
    BY <1>10, <2>2, <2>3 DEF PersistRelease
<1>11. ASSUME NEW out \in Outcomes, Finalize(s, out)
       PROVE  FALSE
  BY <1>1, <1>2, <1>4, <1>11 DEF Finalize, Gone
<1>12. ASSUME NEW out \in Outcomes, PersistHeartbeat(s, out)
       PROVE  rows[s].status = "active"
  BY <1>1, <1>3, <1>4, <1>12 DEF PersistHeartbeat
<1>13. QED
  BY <1>5, <1>6, <1>7, <1>8, <1>9, <1>10, <1>11, <1>12 DEF Step, TimedStep

\* Once a session was taken over its connection cannot make it look alive: no further
\* heartbeat is accepted, and the scheduler is shown none but one whose UPDATE came
\* before the take-over (UpdateHeartbeat, upsertSessionSnapshot).
THEOREM TakenOverSilence == Spec => TakenOverStaysSilent
<1>1. TypeOK /\ ServeInv /\ [Next]_vars =>
        [\A s \in Sessions :
            rows[s].status = "ended" =>
                /\ conn'[s].pc = "show" => conn[s].pc = "show"
                /\ snapshots'[s].hb # snapshots[s].hb /\ snapshots'[s] # NoSnapshot
                       => conn[s].pc = "show"]_vars
  <2> SUFFICES ASSUME TypeOK, ServeInv, Next, NEW s \in Sessions, rows[s].status = "ended",
                      conn[s].pc # "show"
               PROVE  /\ conn'[s].pc # "show"
                      /\ snapshots'[s].hb = snapshots[s].hb \/ snapshots'[s] = NoSnapshot
    OBVIOUS
  <2>1. CASE Crash
    BY <2>1 DEF Crash, Returned
  <2>2. CASE Tick
    BY <2>2 DEF Tick
  <2>3. ASSUME NEW r \in Sessions, Receive(r) \/ Step(r), r # s
        PROVE  conn'[s] = conn[s] /\ snapshots'[s] = snapshots[s]
    BY <2>3, StepTouches DEF Touches
  <2>4. CASE Receive(s) \/ Step(s)
    BY <2>4, OnlyBeatsShow, OnlyActiveAccepted
  <2>5. QED
    BY <2>1, <2>2, <2>3, <2>4 DEF Next
<1>2. QED
  BY <1>1, TypeCorrect, AlwaysAgrees, PTL DEF Spec, TakenOverStaysSilent

-----------------------------------------------------------------------------
(* How long a handler can take.  Liveness itself is left to TLC, but the     *)
(* argument behind HandlerReturns, that the retries are bounded and nobody   *)
(* else keeps a handler busy, is an action property.                         *)

\* Where CreateSession is in the statements of one attempt, and how many of them
\* are left
Statements == [create |-> 4, lookup |-> 3, endStale |-> 2, recreate |-> 1]

\* A bound on the steps a handler still makes from c: what is left of this attempt
\* of withDBWriteRetry, all of the later attempts, the release and the end of the
\* registration, or the snapshot after a heartbeat.
StepsLeft(c) ==
    LET later == MaxAttempts - c.attempt
    IN  CASE c.pc = "catalog" -> 6 * MaxAttempts + 2
          [] c.pc = "resolve" -> 1 + later + (5 * MaxAttempts + 1)
          [] c.pc \in DOMAIN Statements -> Statements[c.pc] + 4 * later + MaxAttempts + 1
          [] c.pc = "release" -> 2 + later
          [] c.pc \in {"finish", "show"} -> 1
          [] c.pc = "heartbeat" -> 2 + later
          [] c.pc = "finalize" -> 1 + later
          [] OTHER -> 0

\* A handler under way is in an attempt that was counted.
Counted(s) == conn[s].pc \in Busy => conn[s].attempt \in 1 .. MaxAttempts

\* A handler has work left exactly while it is under way, and never more than
\* MaxAttempts attempts of its three operations, the catalog query before them and
\* the snapshot after them; each of its own steps leaves less; and no other step
\* touches it, unless the process dies.
Bounded(s) ==
    /\ StepsLeft(conn[s]) \in 0 .. 6 * MaxAttempts + 2
    /\ conn[s].pc \in Busy <=> StepsLeft(conn[s]) > 0
    /\ Step(s) => StepsLeft(conn'[s]) < StepsLeft(conn[s])
    /\ conn[s].pc \in Busy /\ ~Step(s) => conn'[s] \in {conn[s], Returned(s, "crashed")}

\* What StepsLeft is at each place, for any attempt that was counted
LEMMA StepsLeftValues ==
    ASSUME NEW c \in Conn
    PROVE  /\ c.pc \in Locations /\ c.attempt \in 0 .. MaxAttempts
           /\ c.pc = "catalog" => StepsLeft(c) = 6 * MaxAttempts + 2
           /\ c.pc = "resolve" => StepsLeft(c) = 6 * MaxAttempts + 2 - c.attempt
           /\ c.pc = "create" => StepsLeft(c) = 5 + 5 * MaxAttempts - 4 * c.attempt
           /\ c.pc = "lookup" => StepsLeft(c) = 4 + 5 * MaxAttempts - 4 * c.attempt
           /\ c.pc = "endStale" => StepsLeft(c) = 3 + 5 * MaxAttempts - 4 * c.attempt
           /\ c.pc = "recreate" => StepsLeft(c) = 2 + 5 * MaxAttempts - 4 * c.attempt
           /\ c.pc \in {"release", "heartbeat"} => StepsLeft(c) = 2 + MaxAttempts - c.attempt
           /\ c.pc \in {"finish", "show"} => StepsLeft(c) = 1
           /\ c.pc = "finalize" => StepsLeft(c) = 1 + MaxAttempts - c.attempt
           /\ c.pc \notin Busy => StepsLeft(c) = 0
<1>1. /\ c.pc \in Locations /\ c.attempt \in 0 .. MaxAttempts /\ MaxAttempts \in Nat
      /\ DOMAIN Statements = {"create", "lookup", "endStale", "recreate"}
  BY MaxAttemptsAssumption DEF Conn, Attempts, Statements
<1>2. ASSUME c.pc \in DOMAIN Statements
      PROVE  StepsLeft(c) = Statements[c.pc] + 4 * (MaxAttempts - c.attempt) + MaxAttempts + 1
  BY <1>1, <1>2 DEF StepsLeft
<1>3. c.pc \in DOMAIN Statements =>
          Statements[c.pc] = CASE c.pc = "create" -> 4 [] c.pc = "lookup" -> 3
                               [] c.pc = "endStale" -> 2 [] c.pc = "recreate" -> 1
  BY DEF Statements
<1>4. /\ c.pc = "catalog" => StepsLeft(c) = 6 * MaxAttempts + 2
      /\ c.pc = "resolve" => StepsLeft(c) = 6 * MaxAttempts + 2 - c.attempt
      /\ c.pc \in {"finish", "show"} => StepsLeft(c) = 1
      /\ c.pc \in {"release", "heartbeat"} => StepsLeft(c) = 2 + MaxAttempts - c.attempt
      /\ c.pc = "finalize" => StepsLeft(c) = 1 + MaxAttempts - c.attempt
      /\ c.pc \notin Busy => StepsLeft(c) = 0
  BY <1>1 DEF StepsLeft, Busy
<1>5. QED
  BY <1>1, <1>2, <1>3, <1>4

\* What a step of a handler does to its work
Works(s) == StepsLeft(conn'[s]) < StepsLeft(conn[s]) /\ Counted(s)'

\* Another attempt leaves less to do, and so does giving up.
LEMMA RetryWorks ==
    ASSUME TypeOK, TypeOK', NEW s \in Sessions, Counted(s), NEW op, NEW failed,
           \/ conn[s].pc \in {"resolve", "heartbeat", "finalize"} /\ op = conn[s].pc
           \/ conn[s].pc \in DOMAIN Statements /\ op = "create",
           failed.pc \notin Busy, Retry(s, op, failed)
    PROVE  Works(s)
<1>1. /\ conn \in [Sessions -> Conn] /\ conn[s] \in Conn /\ conn'[s] \in Conn
      /\ MaxAttempts \in Nat \ {0} /\ conn[s].pc \in Busy
      /\ DOMAIN Statements = {"create", "lookup", "endStale", "recreate"}
  BY MaxAttemptsAssumption DEF TypeOK, Busy, Statements
<1>2. conn[s].attempt \in 1 .. MaxAttempts
  BY <1>1 DEF Counted
<1>3. CASE conn[s].attempt < MaxAttempts
  <2>1. conn'[s].pc = op /\ conn'[s].attempt = conn[s].attempt + 1
    BY <1>1, <1>3 DEF Retry, Conn
  <2>2. StepsLeft(conn'[s]) < StepsLeft(conn[s])
    BY <1>1, <1>2, <1>3, <2>1, StepsLeftValues
  <2>3. QED
    BY <1>1, <1>2, <1>3, <2>1, <2>2 DEF Works, Counted
<1>4. CASE ~(conn[s].attempt < MaxAttempts)
  <2>1. conn'[s] = failed
    BY <1>1, <1>4 DEF Retry
  <2>2. StepsLeft(conn'[s]) = 0
    BY <1>1, <2>1, StepsLeftValues
  <2>3. StepsLeft(conn[s]) > 0
    BY <1>1, <1>2, StepsLeftValues
  <2>4. QED
    BY <2>1, <2>2, <2>3 DEF Works, Counted
<1>5. QED
  BY <1>3, <1>4

\* So does a handler that returns, or goes back to reading.
LEMMA EndWorks ==
    ASSUME TypeOK, TypeOK', NEW s \in Sessions, Counted(s), conn[s].pc \in Busy,
           conn'[s].pc \notin Busy
    PROVE  Works(s)
<1>1. conn[s] \in Conn /\ conn'[s] \in Conn /\ MaxAttempts \in Nat \ {0}
  BY MaxAttemptsAssumption DEF TypeOK
<1>2. conn[s].attempt \in 1 .. MaxAttempts
  BY DEF Counted
<1>3. StepsLeft(conn'[s]) = 0 /\ StepsLeft(conn[s]) > 0
  BY <1>1, <1>2, StepsLeftValues DEF Busy
<1>4. QED
  BY <1>3 DEF Works, Counted

\* So does going on to the next statement of the same attempt.
LEMMA NextStatementWorks ==
    ASSUME TypeOK, TypeOK', NEW s \in Sessions, Counted(s),
           \/ conn[s].pc = "create" /\ conn'[s].pc = "lookup"
           \/ conn[s].pc = "lookup" /\ conn'[s].pc = "endStale"
           \/ conn[s].pc = "endStale" /\ conn'[s].pc = "recreate"
           \/ conn[s].pc = "heartbeat" /\ conn'[s].pc = "show"
           \/ conn[s].pc = "catalog" /\ conn'[s].pc = "resolve",
           conn'[s].attempt = conn[s].attempt
    PROVE  Works(s)
<1>1. conn[s] \in Conn /\ conn'[s] \in Conn /\ MaxAttempts \in Nat \ {0}
  BY MaxAttemptsAssumption DEF TypeOK
<1>2. conn[s].attempt \in 1 .. MaxAttempts
  BY DEF Counted, Busy
<1>3. StepsLeft(conn'[s]) < StepsLeft(conn[s])
  BY <1>1, <1>2, StepsLeftValues
<1>4. QED
  BY <1>2, <1>3 DEF Works, Counted

LEMMA InsertWorks ==
    ASSUME TypeOK, TypeOK', NEW s \in Sessions, Counted(s), NEW out, NEW refused,
           conn[s].pc \in {"create", "recreate"}, Insert(s, out, refused),
           \/ conn[s].pc = "create" /\ refused = [conn[s] EXCEPT !.pc = "lookup"]
           \/ conn[s].pc = "recreate" /\ refused.pc \notin Busy
    PROVE  Works(s)
<1>1. conn \in [Sessions -> Conn] /\ conn[s] \in Conn
  BY DEF TypeOK
<1>2. CASE conn' = [conn EXCEPT ![s] = refused]
  <2>1. conn'[s] = refused
    BY <1>1, <1>2
  <2>2. CASE conn[s].pc = "create"
    <3>1. conn'[s].pc = "lookup" /\ conn'[s].attempt = conn[s].attempt
      BY <1>1, <2>1, <2>2 DEF Conn
    <3>2. QED
      BY <2>2, <3>1, NextStatementWorks
  <2>3. CASE conn[s].pc = "recreate"
    BY <2>1, <2>3, EndWorks DEF Busy
  <2>4. QED
    BY <2>2, <2>3
<1>3. ASSUME NEW next \in {"release", "finish"},
             conn' = [conn EXCEPT ![s].pc = next, ![s].persisted = TRUE, ![s].attempt = 1]
      PROVE  Works(s)
  <2>1. conn'[s].pc \in {"release", "finish"} /\ conn'[s].attempt = 1
    BY <1>1, <1>3 DEF Conn
  <2>2. conn[s].attempt \in 1 .. MaxAttempts /\ MaxAttempts \in Nat \ {0} /\ conn'[s] \in Conn
    BY MaxAttemptsAssumption DEF Counted, Busy, TypeOK
  <2>3. StepsLeft(conn'[s]) <= MaxAttempts + 1 /\ StepsLeft(conn[s]) >= MaxAttempts + 2
    BY <1>1, <2>1, <2>2, StepsLeftValues
  <2>4. StepsLeft(conn'[s]) \in Nat /\ StepsLeft(conn[s]) \in Nat
    BY <1>1, <2>1, <2>2, StepsLeftValues
  <2>5. QED
    BY <2>1, <2>2, <2>3, <2>4 DEF Works, Counted
<1>4. CASE Retry(s, "create", Reading(s))
  <2>1. Reading(s).pc \notin Busy /\ conn[s].pc \in DOMAIN Statements
    BY <1>1 DEF Reading, Conn, Busy, Statements
  <2>2. QED
    BY <1>4, <2>1, RetryWorks
<1>5. QED
  BY <1>2, <1>3, <1>4 DEF Insert

\* Every step of a handler leaves it less to do.
LEMMA StepWorks ==
    ASSUME TypeOK, TypeOK', NEW s \in Sessions, Counted(s), Step(s)
    PROVE  Works(s)
<1>1. conn \in [Sessions -> Conn] /\ conn[s] \in Conn /\ conn'[s] \in Conn
  BY DEF TypeOK
<1>2. /\ Reading(s).pc \notin Busy
      /\ \A where \in Gone : Returned(s, where).pc \notin Busy
  BY <1>1 DEF Reading, Returned, Conn, Busy, Gone
<1>3. CASE FinishRegister(s)
  <2>1. conn[s].pc \in Busy /\ conn'[s].pc = "reading"
    BY <1>1, <1>3 DEF FinishRegister, Reading, Conn, Busy
  <2>2. QED
    BY <2>1, EndWorks DEF Busy
<1>4. ASSUME NEW out \in Outcomes, ResolveTrader(s, out)
      PROVE  Works(s)
  <2>1. CASE out = "ok"
    <3>1. conn[s].pc = "resolve" /\ conn'[s].pc = "create" /\ conn'[s].attempt = 1
      BY <1>1, <1>4, <2>1 DEF ResolveTrader, Conn
    <3>2. conn[s].attempt \in 1 .. MaxAttempts /\ MaxAttempts \in Nat \ {0}
      BY <3>1, MaxAttemptsAssumption DEF Counted, Busy
    <3>3. QED
      BY <1>1, <3>1, <3>2, StepsLeftValues DEF Works, Counted
  <2>2. CASE out # "ok"
    BY <1>2, <1>4, <2>2, RetryWorks DEF ResolveTrader
  <2>3. QED
    BY <2>1, <2>2
<1>5. ASSUME NEW out \in Outcomes, CreateSession(s, out)
      PROVE  Works(s)
  BY <1>5, InsertWorks DEF CreateSession
<1>6. ASSUME NEW out \in Outcomes, RecreateSession(s, out)
      PROVE  Works(s)
  BY <1>2, <1>6, InsertWorks DEF RecreateSession, Gone
<1>7. ASSUME NEW out \in Outcomes, LookupActive(s, out)
      PROVE  Works(s)
  <2>1. conn[s].pc = "lookup" /\ conn[s].pc \in DOMAIN Statements /\ conn[s].pc \in Busy
    BY <1>7 DEF LookupActive, Statements, Busy
  <2>2. CASE Retry(s, "create", Reading(s))
    BY <1>2, <2>1, <2>2, RetryWorks
  <2>3. ASSUME NEW r, conn' = [conn EXCEPT ![s].pc = "endStale", ![s].target = r]
        PROVE  Works(s)
    <3>1. conn'[s].pc = "endStale" /\ conn'[s].attempt = conn[s].attempt
      BY <1>1, <2>3 DEF Conn
    <3>2. QED
      BY <2>1, <3>1, NextStatementWorks
  <2>4. CASE conn' = [conn EXCEPT ![s] = Returned(s, "duplicate")]
    BY <1>1, <1>2, <2>1, <2>4, EndWorks DEF Gone
  <2>5. QED
    BY <1>7, <2>2, <2>3, <2>4 DEF LookupActive
<1>8. ASSUME NEW out \in Outcomes, EndStale(s, out)
      PROVE  Works(s)
  <2>1. conn[s].pc = "endStale" /\ conn[s].pc \in DOMAIN Statements
    BY <1>8 DEF EndStale, Statements
  <2>2. CASE Retry(s, "create", Reading(s))
    BY <1>2, <2>1, <2>2, RetryWorks
  <2>3. CASE conn' = [conn EXCEPT ![s].pc = "recreate", ![s].target = NoSession]
    <3>1. conn'[s].pc = "recreate" /\ conn'[s].attempt = conn[s].attempt
      BY <1>1, <2>3 DEF Conn
    <3>2. QED
      BY <2>1, <3>1, NextStatementWorks
  <2>4. QED
    BY <1>8, <2>2, <2>3 DEF EndStale
<1>9. ASSUME NEW out \in Outcomes, PersistHeartbeat(s, out)
      PROVE  Works(s)
  <2>1. conn[s].pc = "heartbeat" /\ conn[s].pc \in Busy
    BY <1>9 DEF PersistHeartbeat, Busy
  <2>2. CASE Retry(s, "heartbeat", Reading(s))
    BY <1>2, <2>1, <2>2, RetryWorks
  <2>3. CASE conn' = [conn EXCEPT ![s].pc = "show"]
    <3>1. conn'[s].pc = "show" /\ conn'[s].attempt = conn[s].attempt
      BY <1>1, <2>3 DEF Conn
    <3>2. QED
      BY <2>1, <3>1, NextStatementWorks
  <2>4. QED
    BY <1>9, <2>2, <2>3 DEF PersistHeartbeat
<1>10. ASSUME NEW out \in Outcomes, Finalize(s, out)
       PROVE  Works(s)
  <2>1. conn[s].pc = "finalize" /\ conn[s].pc \in Busy
    BY <1>10 DEF Finalize, Busy
  <2>2. CASE Retry(s, "finalize", Returned(s, "unfinalized"))
    BY <1>2, <2>1, <2>2, RetryWorks DEF Gone
  <2>3. CASE conn' = [conn EXCEPT ![s] = Returned(s, "disconnected")]
    BY <1>1, <1>2, <2>1, <2>3, EndWorks DEF Gone
  <2>4. QED
    BY <1>10, <2>2, <2>3 DEF Finalize
<1>11. CASE LoadCatalog(s)
  <2>1. /\ conn[s].pc = "catalog" /\ conn'[s].pc = "resolve"
        /\ conn'[s].attempt = conn[s].attempt
    BY <1>1, <1>11 DEF LoadCatalog, Conn
  <2>2. QED
    BY <2>1, NextStatementWorks
<1>12. CASE ShowHeartbeat(s)
  <2>1. conn[s].pc \in Busy /\ conn'[s].pc = "reading"
    BY <1>1, <1>12 DEF ShowHeartbeat, Reading, Conn, Busy
  <2>2. QED
    BY <2>1, EndWorks DEF Busy
<1>13. ASSUME NEW out \in Outcomes, PersistRelease(s, out)
       PROVE  Works(s)
  <2>1. /\ conn[s].pc = "release" /\ conn[s].attempt \in 1 .. MaxAttempts
        /\ MaxAttempts \in Nat \ {0}
    BY <1>13, MaxAttemptsAssumption DEF PersistRelease, Counted, Busy
  <2>2. \/ conn'[s].pc = "finish" /\ conn'[s].attempt = conn[s].attempt
        \/ /\ conn[s].attempt < MaxAttempts
           /\ conn'[s].pc = "release" /\ conn'[s].attempt = conn[s].attempt + 1
    BY <1>1, <1>13 DEF PersistRelease, Retry, Conn
  <2>3. StepsLeft(conn'[s]) < StepsLeft(conn[s])
    BY <1>1, <2>1, <2>2, StepsLeftValues
  <2>4. QED
    BY <2>1, <2>2, <2>3 DEF Works, Counted
<1>14. QED
  BY <1>3, <1>4, <1>5, <1>6, <1>7, <1>8, <1>9, <1>10, <1>11, <1>12, <1>13 DEF Step, TimedStep

\* What the peer sends is read only by a connection that is not busy, and what it
\* starts is a first attempt.
LEMMA ReceiveStarts ==
    ASSUME TypeOK, NEW s \in Sessions, Receive(s)
    PROVE  conn[s].pc \notin Busy /\ Counted(s)'
<1>1. conn \in [Sessions -> Conn] /\ conn[s] \in Conn /\ MaxAttempts \in Nat \ {0}
  BY MaxAttemptsAssumption DEF TypeOK
<1>2. conn[s].pc \in {"idle", "reading"}
  BY DEF Receive, Accept, OtherFrame, Register, Heartbeat, LatencyResult, SequenceGap,
         ActionFlood, ReadFails
<1>3. CASE Accept(s) \/ OtherFrame(s) \/ LatencyResult(s)
  <2>1. conn'[s].pc = "reading"
    BY <1>1, <1>3 DEF Accept, OtherFrame, LatencyResult, Conn
  <2>2. QED
    BY <1>2, <2>1 DEF Counted, Busy
<1>4. CASE Register(s) \/ Heartbeat(s)
  <2>1. conn'[s].attempt = 1
    BY <1>1, <1>4 DEF Register, Heartbeat, Begin, Conn
  <2>2. QED
    BY <1>1, <1>2, <2>1 DEF Counted, Busy
<1>5. CASE SequenceGap(s) \/ ActionFlood(s)
  <2>1. conn'[s].pc \in Gone
    BY <1>1, <1>5 DEF SequenceGap, ActionFlood, Returned, Gone
  <2>2. QED
    BY <1>2, <2>1 DEF Counted, Busy, Gone
<1>6. ASSUME NEW reason \in ReadErrors, ReadFails(s, reason)
      PROVE  conn[s].pc \notin Busy /\ Counted(s)'
  <2>1. conn'[s].attempt = 1 \/ conn'[s].pc = "disconnected"
    <3>1. CASE conn[s].persisted
      <4>1. PICK state : conn'[s] = [conn[s] EXCEPT !.pc = "finalize", !.attempt = 1,
                                        !.reason = reason, !.state = state]
        BY <1>1, <1>6, <3>1 DEF ReadFails
      <4>2. QED
        BY <1>1, <4>1 DEF Conn
    <3>2. CASE ~conn[s].persisted
      BY <1>1, <1>6, <3>2 DEF ReadFails, Returned
    <3>3. QED
      BY <3>1, <3>2
  <2>2. QED
    BY <1>1, <1>2, <2>1 DEF Counted, Busy
<1>7. QED
  BY <1>3, <1>4, <1>5, <1>6 DEF Receive

CountedInv == \A s \in Sessions : Counted(s)

LEMMA CrashStops ==
    ASSUME TypeOK, Crash, NEW s \in Sessions
    PROVE  /\ conn'[s] \in {conn[s], Returned(s, "crashed")}
           /\ conn'[s].pc \notin Busy
<1>1. conn'[s] = IF conn[s].pc \in {"idle"} \cup Gone THEN conn[s] ELSE Returned(s, "crashed")
  BY DEF Crash
<1>2. QED
  BY <1>1 DEF Returned, Busy, Gone

LEMMA NextCounted == TypeOK /\ TypeOK' /\ CountedInv /\ [Next]_vars => CountedInv'
<1> SUFFICES ASSUME TypeOK, TypeOK', CountedInv, [Next]_vars, NEW r \in Sessions
             PROVE  Counted(r)'
  BY DEF CountedInv
<1>1. Counted(r)
  BY DEF CountedInv
<1>2. conn'[r] = conn[r] => Counted(r)'
  BY <1>1 DEF Counted
<1>3. CASE Crash
  BY <1>3, CrashStops DEF Counted
<1>4. CASE Tick \/ UNCHANGED vars
  BY <1>2, <1>4 DEF Tick, vars
<1>5. ASSUME NEW s \in Sessions, Receive(s) \/ Step(s)
      PROVE  Counted(r)'
  <2>1. CASE r = s
    BY <1>1, <1>5, <2>1, ReceiveStarts, StepWorks DEF Works
  <2>2. CASE r # s
    BY <1>2, <1>5, <2>2, StepTouches DEF Touches
  <2>3. QED
    BY <2>1, <2>2
<1>6. QED
  BY <1>3, <1>4, <1>5 DEF Next

LEMMA AlwaysCounted == Spec => []CountedInv
<1>1. Init => CountedInv
  BY DEF Init, CountedInv, Counted, Busy
<1>2. QED
  BY <1>1, NextCounted, TypeCorrect, PTL DEF Spec

\* A handler takes at most 6 * MaxAttempts + 2 steps, whatever fails, whatever the
\* other connections do and however often: the catalog query, the attempts of
\* ResolveOrCreateTraderByCN, CreateSession and UpdateTraderRelease, and the snapshot.
\* Each of its steps leaves it less to do, and nothing but a crash interferes
\* (withDBWriteRetry).  HandlerReturns follows from this and from the fairness of
\* TimedStep, without MaxFaults, MaxTime or the number of connections.
THEOREM HandlersAreBounded == Spec => [][\A s \in Sessions : Bounded(s)]_vars
<1>1. TypeOK /\ TypeOK' /\ CountedInv /\ [Next]_vars => [\A s \in Sessions : Bounded(s)]_vars
  <2> SUFFICES ASSUME TypeOK, TypeOK', CountedInv, Next, NEW s \in Sessions
               PROVE  Bounded(s)
    OBVIOUS
  <2>1. /\ conn[s] \in Conn /\ Counted(s) /\ MaxAttempts \in Nat \ {0}
    BY MaxAttemptsAssumption DEF TypeOK, CountedInv
  <2>2. StepsLeft(conn[s]) \in 0 .. 6 * MaxAttempts + 2
    BY <2>1, StepsLeftValues DEF Counted, Busy
  <2>3. conn[s].pc \in Busy <=> StepsLeft(conn[s]) > 0
    BY <2>1, StepsLeftValues DEF Counted, Busy
  <2>4. Step(s) => StepsLeft(conn'[s]) < StepsLeft(conn[s])
    BY <2>1, StepWorks DEF Works
  <2>5. ASSUME conn[s].pc \in Busy, ~Step(s)
        PROVE  conn'[s] \in {conn[s], Returned(s, "crashed")}
    <3>1. CASE Crash
      BY <3>1, CrashStops
    <3>2. CASE Tick
      BY <3>2 DEF Tick
    <3>3. ASSUME NEW r \in Sessions, Receive(r) \/ Step(r)
          PROVE  conn'[s] = conn[s]
      <4>1. r # s
        BY <2>5, <3>3, ReceiveStarts
      <4>2. QED
        BY <3>3, <4>1, StepTouches DEF Touches
    <3>4. QED
      BY <3>1, <3>2, <3>3 DEF Next
  <2>6. QED
    BY <2>2, <2>3, <2>4, <2>5 DEF Bounded
<1>2. QED
  BY <1>1, TypeCorrect, AlwaysCounted, PTL DEF Spec
=============================================================================
