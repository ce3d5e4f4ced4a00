---------------------------- MODULE Connections ----------------------------
(***************************************************************************)
(* The connections of the WebSocket handler as a whole: from the upgrade   *)
(* to the return of Serve, with the registry, the disconnect counters and  *)
(* their copy in the state manager, and CloseAll.                          *)
(*                                                                         *)
(* The counters are changed and copied under one lock, and the copy is     *)
(* given to the state manager under another, in a later step.  What a      *)
(* connection sends, and how its session is stored, is in WSOutbound,      *)
(* WSIngress and TraderSession; here a session is its row in the database, *)
(* whether Serve knows of it, and its snapshot.                            *)
(***************************************************************************)
EXTENDS Naturals

CONSTANTS Conns, None,
          Failures,      \* the read errors that occur
          SavedCounts    \* the disconnect counters a state file can hold

ReadErrors == {"close 1000", "close 1001", "close 1005", "close 1006", "close 4009",
               "other close code", "i/o timeout", "EOF", "unexpected EOF", "other"}

Reasons == {"client_close", "timeout", "read_error", "close_4009"}

Counts == [total : Nat, close4009 : Nat, byReason : [Reasons -> Nat]]
NoCounts == [total |-> 0, close4009 |-> 0, byReason |-> [r \in Reasons |-> 0]]

\* The parts of a set of counters belong together.
Consistent(k) ==
    /\ k.total = k.byReason["client_close"] + k.byReason["timeout"]
                   + k.byReason["read_error"] + k.byReason["close_4009"]
    /\ k.close4009 = k.byReason["close_4009"]

\* A file holds what an earlier process had, all of it read under one lock.
ASSUME ConnAssumption ==
    /\ None \notin Conns /\ Failures \subseteq ReadErrors
    /\ SavedCounts \subseteq Counts /\ \A k \in SavedCounts : Consistent(k)

VARIABLES serve,     \* where each call of Serve is
          cause,     \* why it leaves its loop
          local,     \* the copy of the disconnect counters it is about to publish
          counts,    \* disconnectTotal, disconnectClose4009, disconnectByReason
          runtime,   \* state manager: the same counters in RuntimeState
          registry,  \* Handler.connections
          closed,    \* the entries whose channel closed is closed
          row,       \* external: the TRADER_SESSION row of the connection
          persisted, \* persistedSession: the calls of Serve that know of their row
          snapshots, \* Handler.sessions
          closer     \* CloseAll: the entries it has still to close, and the one it waits for

connVars == <<serve, cause, local, counts, runtime, registry, closed, row, persisted,
              snapshots, closer>>

\* classifyWSDisconnectReason and classifyDisconnectReason
Classify(err) ==
    CASE err = "close 4009" -> "close_4009"
      [] err \in {"close 1000", "close 1001", "close 1005", "close 1006",
                  "EOF", "unexpected EOF"} -> "client_close"
      [] err = "i/o timeout" -> "timeout"
      [] OTHER -> "read_error"

Locations == {"idle", "accepted", "reading", "registering", "recorded", "finishing",
              "removing", "gone"}

ConnTypeOK ==
    /\ serve \in [Conns -> Locations]
    /\ cause \in [Conns -> Reasons \cup {"none", "gap", "dismissed", "unfinalized"}]
    /\ local \in [Conns -> Counts]
    /\ counts \in Counts
    /\ runtime \in Counts
    /\ registry \subseteq Conns /\ closed \subseteq Conns
    /\ persisted \subseteq Conns /\ snapshots \subseteq Conns
    /\ row \in [Conns -> {"none", "open", "ended"}]
    /\ closer \in [left : SUBSET Conns, waiting : Conns \cup {None}, seen : SUBSET Conns]

ConnInit ==
    /\ serve = [c \in Conns |-> "idle"]
    /\ cause = [c \in Conns |-> "none"]
    /\ local = [c \in Conns |-> NoCounts]
    /\ counts = NoCounts
    /\ runtime = NoCounts
    /\ registry = {} /\ closed = {} /\ persisted = {} /\ snapshots = {}
    /\ row = [c \in Conns |-> "none"]
    /\ closer = [left |-> {}, waiting |-> None, seen |-> {}]

Goto(c, from, to) == serve[c] = from /\ serve' = [serve EXCEPT ![c] = to]

-----------------------------------------------------------------------------
(* Serve.                                                                  *)

\* The upgrade is done ...
Accept(c) ==
    /\ Goto(c, "idle", "accepted")
    /\ UNCHANGED <<cause, local, counts, runtime, registry, closed, row, persisted, snapshots, closer>>

\* ... and the connection is entered in the registry.
AddConnection(c) ==
    /\ Goto(c, "accepted", "reading")
    /\ registry' = registry \cup {c}
    /\ UNCHANGED <<cause, local, counts, runtime, closed, row, persisted, snapshots, closer>>

\* trader.register, as far as the shutdown is concerned: the INSERT takes effect, and
\* Serve hears of it, or the last attempt fails all the same and Serve reads on.
OpenSession(c, heard) ==
    /\ serve[c] = "reading" /\ row[c] = "none"
    /\ row' = [row EXCEPT ![c] = "open"]
    /\ IF heard THEN /\ Goto(c, "reading", "registering")
                     /\ persisted' = persisted \cup {c}
       ELSE UNCHANGED <<serve, persisted>>
    /\ UNCHANGED <<cause, local, counts, runtime, registry, closed, snapshots, closer>>

\* markRegistered and upsertSessionSnapshot, once the release is written or not
ShowSession(c) ==
    /\ Goto(c, "registering", "reading")
    /\ snapshots' = snapshots \cup {c}
    /\ UNCHANGED <<cause, local, counts, runtime, registry, closed, row, persisted, closer>>

Counted(reason) ==
    [total |-> counts.total + 1,
     close4009 |-> counts.close4009 + (IF reason = "close_4009" THEN 1 ELSE 0),
     byReason |-> [counts.byReason EXCEPT ![reason] = @ + 1]]

\* recordDisconnect: counted and copied under metricsMu
RecordDisconnect(c, reason, why) ==
    /\ Goto(c, "reading", "recorded")
    /\ counts' = Counted(reason)
    /\ local' = [local EXCEPT ![c] = counts']
    /\ cause' = [cause EXCEPT ![c] = why]
    /\ UNCHANGED <<runtime, registry, closed, row, persisted, snapshots, closer>>

ReadFails(c, err) == RecordDisconnect(c, Classify(err), Classify(err))

\* closeOnSequenceGap: the disconnect is recorded, the session is not finished.
SequenceGap(c) == RecordDisconnect(c, "close_4009", "gap")

\* ACTION_FLOOD and DUPLICATE_CONNECTION: Serve returns and records nothing.
Dismiss(c) ==
    /\ Goto(c, "reading", "removing")
    /\ cause' = [cause EXCEPT ![c] = "dismissed"]
    /\ UNCHANGED <<local, counts, runtime, registry, closed, row, persisted, snapshots, closer>>

\* Mutation: the reasons are read again when they are published.
SyncRuntimeDisconnectLate(c) ==
    /\ Goto(c, "recorded", IF cause[c] = "gap" THEN "removing" ELSE "finishing")
    /\ runtime' = [local[c] EXCEPT !.byReason = counts.byReason]
    /\ local' = [local EXCEPT ![c] = NoCounts]
    /\ UNCHANGED <<cause, counts, registry, closed, row, persisted, snapshots, closer>>

\* syncRuntimeDisconnect
SyncRuntimeDisconnect(c) ==
    /\ Goto(c, "recorded", IF cause[c] = "gap" THEN "removing" ELSE "finishing")
    /\ runtime' = local[c]
    /\ local' = [local EXCEPT ![c] = NoCounts]
    /\ UNCHANGED <<cause, counts, registry, closed, row, persisted, snapshots, closer>>

\* FinalizeSession for a persisted session, and deleteSessionSnapshot.  The retries
\* may all fail; for close 4009, which has no DISCONNECT_REASON, they do.
FinishSession(c, ok) ==
    /\ Goto(c, "finishing", "removing")
    /\ IF c \in persisted
       THEN /\ ok => cause[c] # "close_4009"
            /\ row' = [row EXCEPT ![c] = IF ok THEN "ended" ELSE @]
            /\ cause' = [cause EXCEPT ![c] = IF ok THEN @ ELSE "unfinalized"]
       ELSE ok /\ UNCHANGED <<row, cause>>
    /\ snapshots' = snapshots \ {c}
    /\ UNCHANGED <<local, counts, runtime, registry, closed, persisted, closer>>

\* Mutation: a connection is removed before its session is finished.
RemoveConnectionFirst(c) ==
    /\ \/ Goto(c, "removing", "gone")
       \/ serve[c] = "finishing" /\ c \notin closed /\ UNCHANGED serve
    /\ registry' = registry \ {c}
    /\ closed' = closed \cup {c}
    /\ UNCHANGED <<cause, local, counts, runtime, row, persisted, snapshots, closer>>

\* removeConnection and markClosed
RemoveConnection(c) ==
    /\ Goto(c, "removing", "gone")
    /\ registry' = registry \ {c}
    /\ closed' = closed \cup {c}
    /\ UNCHANGED <<cause, local, counts, runtime, row, persisted, snapshots, closer>>

\* What the trader or the network brings about, once the connection is accepted
ConnInput(c) ==
    \/ SequenceGap(c) \/ Dismiss(c)
    \/ \E heard \in BOOLEAN : OpenSession(c, heard)
    \/ \E err \in Failures : ReadFails(c, err)

\* What Serve does by itself
ConnStep(c) ==
    \/ AddConnection(c) \/ ShowSession(c)
    \/ SyncRuntimeDisconnect(c) \/ RemoveConnection(c)
    \/ \E ok \in BOOLEAN : FinishSession(c, ok)

-----------------------------------------------------------------------------
\* Manager.Load: the counters of the file replace those of the empty state, if there
\* is a file and it can be read.
Load ==
    /\ runtime' \in SavedCounts \cup {NoCounts}
    /\ UNCHANGED <<serve, cause, local, counts, registry, closed, row, persisted, snapshots,
                   closer>>

-----------------------------------------------------------------------------
(* CloseAll.                                                               *)

servesUnchanged == UNCHANGED <<serve, cause, local, counts, runtime, registry, closed,
                               row, persisted, snapshots>>

\* The entries are copied under connectionsMu.
StartCloseAll ==
    /\ closer' = [left |-> registry, waiting |-> None, seen |-> {}]
    /\ servesUnchanged

\* closeConnection: the close frame is sent, or it fails; either way CloseAll waits.
SendClose(c) ==
    /\ closer.waiting = None /\ c \in closer.left
    /\ closer' = [closer EXCEPT !.left = @ \ {c}, !.waiting = c]
    /\ servesUnchanged

\* waitForConnectionClose: the channel is closed ...
SeesClosed ==
    /\ closer.waiting \in closed
    /\ closer' = [closer EXCEPT !.waiting = None, !.seen = @ \cup {closer.waiting}]
    /\ servesUnchanged

\* Mutation: there is no timer.
WaitForever ==
    /\ closer.waiting \in closed
    /\ closer' = [closer EXCEPT !.waiting = None]
    /\ servesUnchanged

\* ... or the timer fires first.
WaitTimesOut ==
    /\ closer.waiting # None
    /\ closer' = [closer EXCEPT !.waiting = None]
    /\ servesUnchanged

CloseAllStep == SeesClosed \/ WaitTimesOut \/ \E c \in Conns : SendClose(c)

AllClosed == closer.left = {} /\ closer.waiting = None
=============================================================================
