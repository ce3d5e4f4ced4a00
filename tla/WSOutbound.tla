------------------------------ MODULE WSOutbound ------------------------------
(***************************************************************************)
(* The outbound side of one WebSocket connection of ws.Handler.  Two       *)
(* goroutines write messages to it: Serve, which answers what the trader   *)
(* sends, and the scheduler, whose latency sweep calls                     *)
(* DispatchLatencyTest.  sendEnvelope stamps a message with the next seq   *)
(* under seqMu and writes it under writeMu: two critical sections, so      *)
(* messages may overtake each other in between.  When Serve returns it     *)
(* removes the connection entry first and closes the socket later; a       *)
(* writer that is under way then finds no entry, neither to stamp the      *)
(* message nor to lock.                                                    *)
(*                                                                         *)
(* A look-up of the entry and the step that uses it are one action: only   *)
(* Serve removes the entry, and it writes nothing afterwards.              *)
(***************************************************************************)
EXTENDS Naturals, Sequences

CONSTANTS MaxReceived,     \* bound: messages Serve receives
          MaxDispatches    \* bound: latency tests the scheduler sends

ASSUME BoundsAssumption == MaxReceived \in Nat /\ MaxDispatches \in Nat

VARIABLES serve,       \* where Serve is
          replies,     \* the messages Serve has still to send
          session,     \* sessionRuntime.state
          entry,       \* is the connection in connections and connectionsByConn?
          socket,      \* the gorilla connection, as its writers see it
          inbound,     \* wsConnectionEntry.inboundSeq
          outbound,    \* wsConnectionEntry.outboundSeq
          writeMu,     \* the holder of wsConnectionEntry.writeMu
          writer,      \* writer[w]: the sendEnvelope call w is in
          wire,        \* the messages written so far
          received,    \* messages received so far
          dispatched   \* latency tests sent so far

vars == <<serve, replies, session, entry, socket, inbound, outbound, writeMu, writer,
          wire, received, dispatched>>

Writers == {"serve", "dispatch"}

\* In the loop; sending answers, to go on, to return, or to close and return;
\* and then what the deferred calls do.
ServeLocations == {"reading", "replying", "parting", "dismissing",
                   "leaving", "closing", "returned"}

Call == [pc : {"idle", "stamp", "write", "writing"}, seq : Nat, ack : Nat]

Message == [seq : Nat, ack : Nat]

\* The locals of the two writers, the entry's fields and the messages on the
\* wire keep their types (wsConnectionEntry, sendEnvelope).
TypeOK ==
    /\ serve \in ServeLocations
    /\ replies \in 0 .. 2
    /\ session \in {"connected", "registered", "active"}
    /\ entry \in BOOLEAN
    /\ socket \in {"open", "closing", "broken", "closed"}
    /\ inbound \in Nat
    /\ outbound \in Nat
    /\ writeMu \in Writers \cup {"free"}
    /\ writer \in [Writers -> Call]
    /\ wire \in Seq(Message)
    /\ received \in Nat
    /\ dispatched \in Nat

\* The entry was added, and "connected" written without a seq.
Init ==
    /\ serve = "reading"
    /\ replies = 0
    /\ session = "connected"
    /\ entry = TRUE
    /\ socket = "open"
    /\ inbound = 0
    /\ outbound = 0
    /\ writeMu = "free"
    /\ writer = [w \in Writers |-> [pc |-> "idle", seq |-> 0, ack |-> 0]]
    /\ wire = <<>>
    /\ received = 0
    /\ dispatched = 0

-----------------------------------------------------------------------------
(* Serve.                                                                  *)

\* A message is received and will be answered with n messages, after which
\* Serve goes on to where.  Its seq, if it has one that is in order, is noted
\* first.
Answer(n, where) ==
    /\ serve = "reading"
    /\ received < MaxReceived
    /\ received' = received + 1
    /\ inbound' \in {inbound, inbound + 1}
    /\ replies' = n
    /\ serve' = IF n = 0 THEN "reading" ELSE where
    /\ writer' = IF n = 0 THEN writer ELSE [writer EXCEPT !["serve"].pc = "stamp"]
    /\ UNCHANGED <<entry, socket, outbound, writeMu, wire, dispatched>>

\* Mutation: a latency.test before and after register_ack
RegisterTestsTwice ==
    /\ session = "connected"
    /\ session' = "registered"
    /\ \E n \in 1 .. 3 : Answer(n, "replying")

\* trader.register succeeds: register_ack and the first latency.test
Register ==
    /\ session = "connected"
    /\ session' = "registered"
    /\ \E n \in 1 .. 2 : Answer(n, "replying")

\* trader.heartbeat, as a request or as an event
Heartbeat ==
    /\ session # "connected"
    /\ session' = "active"
    /\ \E n \in 0 .. 1 : Answer(n, "replying")

\* Any other message: an error answer, an ack, or nothing
Other ==
    /\ UNCHANGED session
    /\ \E n \in 0 .. 1 : Answer(n, "replying")

\* UNKNOWN_ACTION, then ACTION_FLOOD, and Serve returns.
Flood ==
    /\ UNCHANGED session
    /\ Answer(2, "parting")

\* DUPLICATE_CONNECTION, then a close frame, and Serve returns.
Duplicate ==
    /\ session = "connected"
    /\ UNCHANGED session
    /\ Answer(1, "dismissing")

\* A close frame is written under writeMu; the connection refuses data
\* messages from then on.
CloseFrame ==
    /\ writeMu = "free"
    /\ socket' = IF socket = "open" THEN "closing" ELSE socket

\* closeOnSequenceGap, and Serve returns.
Gap ==
    /\ serve = "reading"
    /\ CloseFrame
    /\ serve' = "leaving"
    /\ UNCHANGED <<replies, session, entry, inbound, outbound, writeMu, writer, wire,
                   received, dispatched>>

\* closeConnection after DUPLICATE_CONNECTION
Dismiss ==
    /\ serve = "dismissing" /\ replies = 0
    /\ CloseFrame
    /\ serve' = "leaving"
    /\ UNCHANGED <<replies, session, entry, inbound, outbound, writeMu, writer, wire,
                   received, dispatched>>

\* ReadMessage fails and Serve returns.
ReadFails ==
    /\ serve = "reading"
    /\ serve' = "leaving"
    /\ UNCHANGED <<replies, session, entry, socket, inbound, outbound, writeMu, writer,
                   wire, received, dispatched>>

RemoveConnection ==
    /\ serve = "leaving"
    /\ serve' = "closing"
    /\ entry' = FALSE
    /\ UNCHANGED <<replies, session, socket, inbound, outbound, writeMu, writer, wire,
                   received, dispatched>>

\* The deferred conn.Close
CloseSocket ==
    /\ serve = "closing"
    /\ serve' = "returned"
    /\ socket' = "closed"
    /\ UNCHANGED <<replies, session, entry, inbound, outbound, writeMu, writer, wire,
                   received, dispatched>>

-----------------------------------------------------------------------------
(* Other goroutines.                                                       *)

\* Mutation: the sweep trusts its snapshot and does not look the session up
DispatchUnchecked ==
    /\ session = "active"
    /\ writer["dispatch"].pc = "idle"
    /\ dispatched < MaxDispatches
    /\ dispatched' = dispatched + 1
    /\ writer' = [writer EXCEPT !["dispatch"].pc = "stamp"]
    /\ UNCHANGED <<serve, replies, session, entry, socket, inbound, outbound, writeMu,
                   wire, received>>

\* DispatchLatencyTest to a session whose snapshot was active; it fails if the
\* session has no entry any more.
Dispatch ==
    /\ session = "active"
    /\ entry
    /\ writer["dispatch"].pc = "idle"
    /\ dispatched < MaxDispatches
    /\ dispatched' = dispatched + 1
    /\ writer' = [writer EXCEPT !["dispatch"].pc = "stamp"]
    /\ UNCHANGED <<serve, replies, session, entry, socket, inbound, outbound, writeMu,
                   wire, received>>

\* CloseAll at shutdown: a close frame, while the entry is there.
CloseAll ==
    /\ entry /\ socket = "open"
    /\ CloseFrame
    /\ UNCHANGED <<serve, replies, session, entry, inbound, outbound, writeMu, writer,
                   wire, received, dispatched>>

\* runPingLoop: a ping could not be written, so the socket is closed.
PingFails ==
    /\ serve # "returned" /\ socket # "closed"
    /\ writeMu = "free"
    /\ socket' = "closed"
    /\ UNCHANGED <<serve, replies, session, entry, inbound, outbound, writeMu, writer,
                   wire, received, dispatched>>

-----------------------------------------------------------------------------
(* sendEnvelope.                                                           *)

\* Mutation: the scheduler's increment of outboundSeq is lost
StampLost(w) ==
    /\ writer[w].pc = "stamp"
    /\ outbound' = IF entry /\ w = "serve" THEN outbound + 1 ELSE outbound
    /\ writer' = [writer EXCEPT ![w] =
                     [pc |-> "write", seq |-> IF entry THEN outbound + 1 ELSE 0,
                      ack |-> IF entry THEN inbound ELSE 0]]
    /\ UNCHANGED <<serve, replies, session, entry, socket, inbound, writeMu, wire,
                   received, dispatched>>

\* Mutation: the scheduler's message carries no ack
StampNoAck(w) ==
    /\ writer[w].pc = "stamp"
    /\ outbound' = IF entry THEN outbound + 1 ELSE outbound
    /\ writer' = [writer EXCEPT ![w] =
                     [pc |-> "write", seq |-> IF entry THEN outbound + 1 ELSE 0,
                      ack |-> IF entry /\ w = "serve" THEN inbound ELSE 0]]
    /\ UNCHANGED <<serve, replies, session, entry, socket, inbound, writeMu, wire,
                   received, dispatched>>

\* nextOutboundSeqAck, if the connection still has its entry
Stamp(w) ==
    /\ writer[w].pc = "stamp"
    /\ outbound' = IF entry THEN outbound + 1 ELSE outbound
    /\ writer' = [writer EXCEPT ![w] =
                     [pc |-> "write", seq |-> IF entry THEN outbound + 1 ELSE 0,
                      ack |-> IF entry THEN inbound ELSE 0]]
    /\ UNCHANGED <<serve, replies, session, entry, socket, inbound, writeMu, wire,
                   received, dispatched>>

\* Mutation: writeMessage does not lock
LockNothing(w) ==
    /\ writer[w].pc = "write"
    /\ writer' = [writer EXCEPT ![w].pc = "writing"]
    /\ UNCHANGED <<serve, replies, session, entry, socket, inbound, outbound, writeMu,
                   wire, received, dispatched>>

\* Mutation: the scheduler gives up when the lock is taken
LockOrDrop(w) ==
    /\ writer[w].pc = "write"
    /\ IF entry /\ writeMu = "free"
       THEN writeMu' = w /\ writer' = [writer EXCEPT ![w].pc = "writing"]
       ELSE /\ w = "dispatch"
            /\ UNCHANGED writeMu
            /\ writer' = [writer EXCEPT ![w].pc = "idle", ![w].seq = 0, ![w].ack = 0]
    /\ UNCHANGED <<serve, replies, session, entry, socket, inbound, outbound, wire,
                   received, dispatched>>

\* writeMessage: under writeMu, if the connection still has its entry
Lock(w) ==
    /\ writer[w].pc = "write"
    /\ IF entry THEN writeMu = "free" /\ writeMu' = w ELSE UNCHANGED writeMu
    /\ writer' = [writer EXCEPT ![w].pc = "writing"]
    /\ UNCHANGED <<serve, replies, session, entry, socket, inbound, outbound, wire,
                   received, dispatched>>

\* Where Serve goes when its last answer is sent
Afterwards == CASE serve = "replying" -> "reading"
                [] serve = "parting" -> "leaving"
                [] OTHER -> serve

\* Where Serve is once a message of its own is written or has failed
AfterWrite == IF replies > 1 THEN serve ELSE Afterwards

\* WriteMessage and the unlock.  A failed write is logged; it leaves the
\* connection broken for good.
WriteEnds(w, ok, mu) ==
    /\ writer[w].pc = "writing"
    /\ ok => socket = "open"
    /\ wire' = IF ok THEN Append(wire, [seq |-> writer[w].seq, ack |-> writer[w].ack])
                     ELSE wire
    /\ socket' = IF ~ok /\ socket = "open" THEN "broken" ELSE socket
    /\ writeMu' = mu
    /\ writer' = [writer EXCEPT ![w] =
                     [pc |-> IF w = "serve" /\ replies > 1 THEN "stamp" ELSE "idle",
                      seq |-> 0, ack |-> 0]]
    /\ replies' = IF w = "serve" THEN replies - 1 ELSE replies
    /\ serve' = IF w = "serve" THEN AfterWrite ELSE serve
    /\ UNCHANGED <<session, entry, inbound, outbound, received, dispatched>>

\* Mutation: a failed write returns without unlocking
WriteUnlocksOnSuccess(w, ok) ==
    WriteEnds(w, ok, IF writeMu = w /\ ok THEN "free" ELSE writeMu)

Write(w, ok) == WriteEnds(w, ok, IF writeMu = w THEN "free" ELSE writeMu)

SendStep(w) == Stamp(w) \/ Lock(w) \/ \E ok \in BOOLEAN : Write(w, ok)

Receive == Register \/ Heartbeat \/ Other \/ Flood \/ Duplicate \/ Gap \/ ReadFails

Leave == Dismiss \/ RemoveConnection \/ CloseSocket

Next ==
    \/ Receive \/ Leave
    \/ Dispatch \/ CloseAll \/ PingFails
    \/ \E w \in Writers : SendStep(w)

Spec == Init /\ [][Next]_vars

\* Every goroutine is scheduled, a write ends at its deadline, and a waiter gets
\* writeMu in the end (sync.Mutex hands it over in starvation mode).
FairSpec == Spec /\ WF_vars(Leave) /\ \A w \in Writers : SF_vars(SendStep(w))

-----------------------------------------------------------------------------
(* Properties.                                                             *)

\* The connection supports one concurrent writer of data messages.  Serve and the
\* scheduler are never both in WriteMessage, although the write after
\* removeConnection takes no lock.
NoConcurrentWrite ==
    ~(writer["serve"].pc = "writing" /\ writer["dispatch"].pc = "writing")

Seqs == {wire[i].seq : i \in DOMAIN wire}

Held == {writer[w].seq : w \in Writers}

\* No two messages carry the same seq, on the wire or about to be written.
SeqUsedOnce ==
    /\ \A i, j \in DOMAIN wire : wire[i].seq = wire[j].seq /\ wire[i].seq # 0 => i = j
    /\ Seqs \cap Held \subseteq {0}
    /\ writer["serve"].seq = writer["dispatch"].seq => writer["serve"].seq = 0

\* A seq missing on the wire of a healthy connection is in the hands of a writer:
\* what looks like a gap to the trader is a message that was overtaken, never
\* one that was dropped.
NoSeqSkipped ==
    socket = "open" => 1 .. outbound \subseteq Seqs \cup Held

\* The order on the wire: sendEnvelope lets a message overtake another between seqMu
\* and writeMu, but no more than one is ever overtaken.  Whatever number has just been
\* written, the trader is missing at most one below it, however often the other writer
\* gets ahead.
OneOvertaken ==
    \A i \in DOMAIN wire :
        LET written == {wire[j].seq : j \in 1 .. i}
        IN  \A m, n \in 1 .. wire[i].seq : m \notin written /\ n \notin written => m = n

\* Acknowledgements agree with the numbering: of two messages the one with the
\* higher seq acknowledges at least as much, in whatever order they were written.
AckFollowsSeq ==
    \A i, j \in DOMAIN wire :
        0 < wire[i].seq /\ wire[i].seq < wire[j].seq => wire[i].ack <= wire[j].ack

\* A message without seq can slip out between removeConnection and conn.Close;
\* it is the last one, so it never hides in the middle of numbered messages.
UnnumberedIsLast ==
    \A i \in DOMAIN wire : wire[i].seq = 0 => i = Len(wire)

\* A goroutine that sends a message gets through: Serve goes back to reading or
\* returns, and the scheduler's sweep goes on, also when writes fail.
SendReturns ==
    \A w \in Writers : (writer[w].pc # "idle") ~> (writer[w].pc = "idle")
=============================================================================
