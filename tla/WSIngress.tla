------------------------------ MODULE WSIngress ------------------------------
(***************************************************************************)
(* The inbound side of one WebSocket connection: the checks Serve makes of *)
(* a frame before it acts on it, in the order it makes them (size, rate,   *)
(* encoding, request_id, type, seq, action), with their time windows, and  *)
(* the sequence numbers of wsConnectionEntry.                              *)
(*                                                                         *)
(* The trader that sends the frames may be arbitrary; peer records in what *)
(* respect it was.  A time is never 0, so 0 stands for "no such entry".    *)
(***************************************************************************)
EXTENDS Naturals, Sequences, FiniteSets

CONSTANTS RequestIds, NoId,
          Second,              \* ticks in a second
          MaxMessagesPerSec,
          DedupWindow,         \* requestDedupWindow
          UnknownWindow,       \* unknownActionWindow
          MaxUnknownActions,
          MaxSeq,              \* bound: sequence numbers
          MaxFrames,           \* bound: frames received
          MaxTime              \* bound: the clock stops here

ASSUME NoIdAssumption == NoId \notin RequestIds
ASSUME WindowsAssumption ==
    /\ Second \in Nat \ {0} /\ DedupWindow \in Nat \ {0} /\ UnknownWindow \in Nat \ {0}
    /\ MaxMessagesPerSec \in Nat \ {0} /\ MaxUnknownActions \in Nat \ {0}
ASSUME BoundsAssumption == MaxSeq \in Nat /\ MaxFrames \in Nat /\ MaxTime \in Nat

VARIABLES now,
          rate,         \* rateWindowStart, rateWindowCount
          unknown,      \* unknownWindowStart, unknownActionCount
          requestIDs,   \* requestIDs[i]: when i was noted, or 0
          seq,          \* seqTrackingEnabled, inboundSeq, peerAck
          status,       \* is Serve in its loop, or why it returned?
          handled,      \* history: the messages that reached their action
          passed,       \* history: when the rate limit let frames through, in order
          peer          \* history: what the trader sent

vars == <<now, rate, unknown, requestIDs, seq, status, handled, passed, peer>>

\* What a frame is, as far as the checks tell frames apart: too large; not text,
\* not JSON or of another protocol version; or an envelope.  The request_id
\* matters in requests only; the ack is stored and read by nothing.
Frame ==
    LET Frames(flaws, types, ids, acks, actions) ==
            [flaw : flaws, type : types, id : ids, seq : 0 .. MaxSeq, ack : acks,
             action : actions]
    IN  Frames({"size", "encoding"}, {"other"}, {NoId}, {0}, {"known"})
        \cup Frames({"none"}, {"request"}, RequestIds \cup {NoId}, {1}, {"known", "unknown"})
        \cup Frames({"none"}, {"event"}, {NoId}, {0}, {"known", "unknown"})
        \cup Frames({"none"}, {"other"}, {NoId}, {0}, {"known"})

Window == [start : Nat, count : Nat]

Handled == [seq : Nat, id : RequestIds \cup {NoId}, action : {"known", "unknown"}, at : Nat]

\* The locals of Serve and the fields of wsConnectionEntry keep their types.
TypeOK ==
    /\ now \in Nat \ {0}
    /\ rate \in Window /\ unknown \in Window
    /\ requestIDs \in [RequestIds -> Nat]
    /\ seq \in [tracking : BOOLEAN, inbound : Nat, peerAck : Nat]
    /\ status \in {"open", "gap", "flood", "disconnected"}
    /\ handled \in Seq(Handled)
    /\ passed \in Seq(Nat)
    /\ peer \in [frames : Nat, next : Nat, skipped : BOOLEAN, refused : BOOLEAN]

Init ==
    /\ now = 1
    /\ rate = [start |-> 1, count |-> 0]
    /\ unknown = [start |-> 1, count |-> 0]
    /\ requestIDs = [i \in RequestIds |-> 0]
    /\ seq = [tracking |-> FALSE, inbound |-> 0, peerAck |-> 0]
    /\ status = "open"
    /\ handled = <<>>
    /\ passed = <<>>
    /\ peer = [frames |-> 0, next |-> 1, skipped |-> FALSE, refused |-> FALSE]

-----------------------------------------------------------------------------
(* The checks.                                                             *)

\* Mutation: the window is restarted by every event
CountedAlone(w, length) == [start |-> now, count |-> 1]

\* An event counted in a window that restarts with the first event at or after
\* its end
Counted(w, length) ==
    IF w.start + length <= now THEN [start |-> now, count |-> 1]
                               ELSE [w EXCEPT !.count = @ + 1]

WithinRate == Counted(rate, Second).count <= MaxMessagesPerSec

Deduplicated(f) == f.type = "request" /\ f.id # NoId

\* Mutation: an id noted exactly DedupWindow ago is forgotten
FreshUntilWindow == [i \in RequestIds |->
                        IF requestIDs[i] + DedupWindow <= now THEN 0 ELSE requestIDs[i]]

\* Mutation: the window is subtracted from the entry, not from the clock
FreshShifted == [i \in RequestIds |-> requestIDs[i] - DedupWindow]

\* The request ids left after those noted before the window are forgotten
Fresh == [i \in RequestIds |->
             IF requestIDs[i] + DedupWindow < now THEN 0 ELSE requestIDs[i]]

\* Mutation: the last message is expected again
ExpectedAgain == seq.inbound

Expected == seq.inbound + 1

\* Mutation: a duplicate counts as the next message
InOrderOrOlder(q) == IF q = 0 THEN ~seq.tracking ELSE q <= Expected

\* observeInboundSeq: a message without seq is in order until one has a seq
InOrder(q) == IF q = 0 THEN ~seq.tracking ELSE q = Expected

-----------------------------------------------------------------------------
(* History.                                                                *)

\* The trader sends f: its next message, one it sent before, one without seq,
\* or one that leaves out others.
Sends(f, refused) ==
    /\ peer.frames < MaxFrames
    /\ peer' = [frames |-> peer.frames + 1,
                next |-> IF f.seq >= peer.next THEN f.seq + 1 ELSE peer.next,
                skipped |-> peer.skipped \/ f.seq > peer.next,
                refused |-> peer.refused \/ refused]

-----------------------------------------------------------------------------
(* Serve, from ReadMessage on.                                             *)

\* MESSAGE_TOO_LARGE; the frame does not count against the rate.
TooLarge(f) ==
    /\ f.flaw = "size"
    /\ Sends(f, TRUE)
    /\ UNCHANGED <<now, rate, unknown, requestIDs, seq, status, handled, passed>>

\* RATE_LIMITED
RateLimited(f) ==
    /\ f.flaw # "size"
    /\ ~WithinRate
    /\ rate' = Counted(rate, Second)
    /\ Sends(f, TRUE)
    /\ UNCHANGED <<now, unknown, requestIDs, seq, status, handled, passed>>

\* The frame passes the size and rate checks.
Passes(f) ==
    /\ f.flaw # "size"
    /\ WithinRate
    /\ rate' = Counted(rate, Second)
    /\ passed' = Append(passed, now)

\* INVALID_MESSAGE or UNSUPPORTED_VERSION
Undecodable(f) ==
    /\ f.flaw = "encoding"
    /\ Passes(f)
    /\ Sends(f, TRUE)
    /\ UNCHANGED <<now, unknown, requestIDs, seq, status, handled>>

\* DUPLICATE_REQUEST
DuplicateRequest(f) ==
    /\ f.flaw = "none" /\ Deduplicated(f)
    /\ Passes(f)
    /\ Fresh[f.id] # 0
    /\ requestIDs' = Fresh
    /\ Sends(f, TRUE)
    /\ UNCHANGED <<now, unknown, seq, status, handled>>

\* The request_id is new, and is noted, or the message has none.
Noted(f) ==
    /\ f.flaw = "none"
    /\ Passes(f)
    /\ IF Deduplicated(f)
       THEN Fresh[f.id] = 0 /\ requestIDs' = [Fresh EXCEPT ![f.id] = now]
       ELSE UNCHANGED requestIDs

\* INVALID_MESSAGE: neither a request nor an event
WrongType(f) ==
    /\ Noted(f)
    /\ f.type = "other"
    /\ Sends(f, TRUE)
    /\ UNCHANGED <<now, unknown, seq, status, handled>>

\* closeOnSequenceGap: tracking is on, and Serve returns.
SequenceGap(f) ==
    /\ Noted(f) /\ f.type # "other"
    /\ f.seq > Expected
    /\ seq' = [seq EXCEPT !.tracking = TRUE]
    /\ status' = "gap"
    /\ Sends(f, FALSE)
    /\ UNCHANGED <<now, unknown, handled>>

\* A duplicate is ignored; INVALID_MESSAGE for a message that lacks a seq.
OutOfOrder(f) ==
    /\ Noted(f) /\ f.type # "other"
    /\ ~InOrder(f.seq) /\ f.seq < Expected
    /\ Sends(f, FALSE)
    /\ UNCHANGED <<now, unknown, seq, status, handled>>

\* The message reaches its action.
Reaches(f) ==
    /\ Noted(f) /\ f.type # "other"
    /\ InOrder(f.seq)
    /\ seq' = [tracking |-> seq.tracking \/ f.seq # 0,
               inbound |-> IF f.seq = 0 THEN seq.inbound ELSE f.seq,
               peerAck |-> IF f.ack > seq.peerAck THEN f.ack ELSE seq.peerAck]
    /\ handled' = Append(handled,
                         [seq |-> f.seq, id |-> IF Deduplicated(f) THEN f.id ELSE NoId,
                          action |-> f.action, at |-> now])
    /\ Sends(f, FALSE)

\* trader.register, trader.heartbeat, latency.test_result
KnownAction(f) ==
    /\ f.action = "known"
    /\ Reaches(f)
    /\ UNCHANGED <<now, unknown, status>>

\* UNKNOWN_ACTION; with the last one allowed in the window ACTION_FLOOD, and
\* Serve returns.
UnknownAction(f) ==
    /\ f.action = "unknown"
    /\ Reaches(f)
    /\ unknown' = Counted(unknown, UnknownWindow)
    /\ status' = IF unknown'.count >= MaxUnknownActions THEN "flood" ELSE status
    /\ UNCHANGED now

\* ReadMessage fails and Serve returns.
ReadFails ==
    /\ status = "open"
    /\ status' = "disconnected"
    /\ UNCHANGED <<now, rate, unknown, requestIDs, seq, handled, passed, peer>>

Tick ==
    /\ now < MaxTime
    /\ now' = now + 1
    /\ UNCHANGED <<rate, unknown, requestIDs, seq, status, handled, passed, peer>>

Receive(f) ==
    /\ status = "open"
    /\ \/ TooLarge(f) \/ RateLimited(f) \/ Undecodable(f) \/ DuplicateRequest(f)
       \/ WrongType(f) \/ SequenceGap(f) \/ OutOfOrder(f)
       \/ KnownAction(f) \/ UnknownAction(f)

Next == Tick \/ ReadFails \/ \E f \in Frame : Receive(f)

Spec == Init /\ [][Next]_vars

-----------------------------------------------------------------------------
(* Properties.                                                             *)

\* Of the numbered messages each is acted on once and in order: the numbers of
\* the handled ones are 1, 2, 3, ... without repetition, and messages without a
\* number come before them, whatever is repeated, refused or left out
\* (observeInboundSeq).
HandledInOrder ==
    \A i \in DOMAIN handled :
        handled[i].seq = IF i = 1 THEN IF handled[1].seq = 0 THEN 0 ELSE 1
                         ELSE IF handled[i].seq = 0 THEN handled[i - 1].seq
                         ELSE handled[i - 1].seq + 1

\* A request_id is acted on again only when the window has passed, however the
\* ids of other requests are noted and forgotten in between.
RequestsApart ==
    \A i, j \in DOMAIN handled :
        i < j /\ handled[i].id = handled[j].id /\ handled[i].id # NoId
            => handled[i].at + DedupWindow < handled[j].at

\* In no second, wherever it begins, do more than two windows' worth of frames
\* pass the rate limit: of so many and one more the last comes a second or more
\* after the first.
RateBounded ==
    \A i, j \in DOMAIN passed :
        j = i + 2 * MaxMessagesPerSec => passed[i] + Second <= passed[j]

\* A connection closed for a sequence gap really missed a message: the trader
\* left one out, or one was refused before its seq was looked at (too large, too
\* fast, undecodable, a repeated request_id, a wrong type), so that the next one
\* seems to come too early.
GapHasCause ==
    status = "gap" => peer.skipped \/ peer.refused
=============================================================================
