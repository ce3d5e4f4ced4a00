--------------------------- MODULE WSIngressProofs ---------------------------
(***************************************************************************)
(* Proofs about the checks of the inbound side of a connection, for every  *)
(* window, limit and clock and for every trader, whatever it sends.        *)
(***************************************************************************)
EXTENDS WSIngress, TLAPS

\* The fields of a frame
LEMMA FrameFields ==
    ASSUME NEW f \in Frame
    PROVE  /\ f.seq \in Nat /\ f.ack \in Nat
           /\ f.id \in RequestIds \cup {NoId}
           /\ f.action \in {"known", "unknown"}
BY BoundsAssumption DEF Frame

\* Only requests with an id are looked up.
LEMMA DeduplicatedId ==
    ASSUME NEW f \in Frame, Deduplicated(f)
    PROVE  f.id \in RequestIds
BY FrameFields DEF Deduplicated

-----------------------------------------------------------------------------
(* Types.                                                                  *)

LEMMA CountedType ==
    ASSUME NEW w \in Window, NEW length, now \in Nat
    PROVE  Counted(w, length) \in Window
BY DEF Counted, Window

LEMMA FreshType ==
    ASSUME requestIDs \in [RequestIds -> Nat]
    PROVE  Fresh \in [RequestIds -> Nat]
BY DEF Fresh

LEMMA SendsType ==
    ASSUME TypeOK, NEW f \in Frame, NEW refused \in BOOLEAN, Sends(f, refused)
    PROVE  peer' \in [frames : Nat, next : Nat, skipped : BOOLEAN, refused : BOOLEAN]
<1>1. f.seq \in Nat
  BY FrameFields
<1>2. (peer.skipped \/ f.seq > peer.next) \in BOOLEAN
  BY DEF TypeOK
<1>3. (peer.refused \/ refused) \in BOOLEAN
  BY DEF TypeOK
<1>4. peer.frames + 1 \in Nat
      /\ (IF f.seq >= peer.next THEN f.seq + 1 ELSE peer.next) \in Nat
  BY <1>1 DEF TypeOK
<1>5. QED
  BY <1>2, <1>3, <1>4 DEF Sends

LEMMA PassesType ==
    ASSUME TypeOK, NEW f, Passes(f)
    PROVE  rate' \in Window /\ passed' \in Seq(Nat)
BY CountedType DEF TypeOK, Passes

LEMMA NotedType ==
    ASSUME TypeOK, NEW f \in Frame, Noted(f)
    PROVE  rate' \in Window /\ passed' \in Seq(Nat) /\ requestIDs' \in [RequestIds -> Nat]
<1>1. requestIDs' \in [RequestIds -> Nat]
  BY FreshType, DeduplicatedId DEF TypeOK, Noted
<1>2. QED
  BY <1>1, PassesType DEF Noted

LEMMA ReachesType ==
    ASSUME TypeOK, NEW f \in Frame, Reaches(f)
    PROVE  /\ rate' \in Window /\ passed' \in Seq(Nat) /\ requestIDs' \in [RequestIds -> Nat]
           /\ seq' \in [tracking : BOOLEAN, inbound : Nat, peerAck : Nat]
           /\ handled' \in Seq(Handled)
           /\ peer' \in [frames : Nat, next : Nat, skipped : BOOLEAN, refused : BOOLEAN]
<1>1. seq' \in [tracking : BOOLEAN, inbound : Nat, peerAck : Nat]
  BY FrameFields DEF Reaches, TypeOK
<1>2. handled' \in Seq(Handled)
  <2> DEFINE id == IF Deduplicated(f) THEN f.id ELSE NoId
             h == [seq |-> f.seq, id |-> id, action |-> f.action, at |-> now]
  <2>1. id \in RequestIds \cup {NoId}
    BY DeduplicatedId
  <2> HIDE DEF id
  <2>2. h \in Handled
    BY <2>1, FrameFields DEF Handled, TypeOK
  <2>3. handled' = Append(handled, h)
    BY DEF Reaches, id
  <2> HIDE DEF h
  <2>4. QED
    BY <2>2, <2>3 DEF TypeOK
<1>3. QED
  BY <1>1, <1>2, NotedType, SendsType DEF Reaches

LEMMA ReceiveType ==
    ASSUME TypeOK, NEW f \in Frame, Receive(f)
    PROVE  TypeOK'
<1>1. CASE TooLarge(f)
  BY <1>1, SendsType DEF TooLarge, TypeOK
<1>2. CASE RateLimited(f)
  BY <1>2, SendsType, CountedType DEF RateLimited, TypeOK
<1>3. CASE Undecodable(f)
  BY <1>3, SendsType, PassesType DEF Undecodable, TypeOK
<1>4. CASE DuplicateRequest(f)
  BY <1>4, SendsType, PassesType, FreshType DEF DuplicateRequest, TypeOK
<1>5. CASE WrongType(f)
  BY <1>5, SendsType, NotedType DEF WrongType, TypeOK
<1>6. CASE SequenceGap(f)
  <2>1. seq' \in [tracking : BOOLEAN, inbound : Nat, peerAck : Nat]
    BY <1>6 DEF SequenceGap, TypeOK
  <2>2. QED
    BY <1>6, <2>1, SendsType, NotedType DEF SequenceGap, TypeOK
<1>7. CASE OutOfOrder(f)
  BY <1>7, SendsType, NotedType DEF OutOfOrder, TypeOK
<1>8. CASE KnownAction(f)
  BY <1>8, ReachesType DEF KnownAction, TypeOK
<1>9. CASE UnknownAction(f)
  <2>1. unknown' \in Window
    BY <1>9, CountedType DEF UnknownAction, TypeOK
  <2>2. status' \in {"open", "gap", "flood", "disconnected"}
    BY <1>9 DEF UnknownAction, TypeOK
  <2>3. QED
    BY <1>9, <2>1, <2>2, ReachesType DEF UnknownAction, TypeOK
<1>10. QED
  BY <1>1, <1>2, <1>3, <1>4, <1>5, <1>6, <1>7, <1>8, <1>9 DEF Receive

LEMMA NextType == TypeOK /\ [Next]_vars => TypeOK'
<1> SUFFICES ASSUME TypeOK, [Next]_vars
             PROVE  TypeOK'
  OBVIOUS
<1>1. CASE Tick
  BY <1>1 DEF Tick, TypeOK
<1>2. CASE ReadFails \/ UNCHANGED vars
  BY <1>2 DEF ReadFails, vars, TypeOK
<1>3. QED
  BY <1>1, <1>2, ReceiveType DEF Next

\* The locals of Serve and the fields of the connection keep their types, for
\* every trader.
THEOREM TypeCorrect == Spec => []TypeOK
<1>1. Init => TypeOK
  BY DEF Init, TypeOK, Window
<1>2. QED
  BY <1>1, NextType, PTL DEF Spec

-----------------------------------------------------------------------------
(* What a step can do to the messages handled.                             *)

\* The entry that Reaches appends
Entry(f) == [seq |-> f.seq, id |-> IF Deduplicated(f) THEN f.id ELSE NoId,
             action |-> f.action, at |-> now]

\* A message reaches its action, as far as what has been handled is concerned.
Handles(f) ==
    /\ DOMAIN handled = 1 .. Len(handled) /\ Len(handled) \in Nat
    /\ DOMAIN handled' = 1 .. Len(handled) + 1 /\ Len(handled') = Len(handled) + 1
    /\ \A i \in 1 .. Len(handled) : handled'[i] = handled[i]
    /\ handled'[Len(handled) + 1] = Entry(f)

LEMMA ReachesHandles ==
    ASSUME TypeOK, NEW f \in Frame, Reaches(f)
    PROVE  Handles(f)
<1>1. handled \in Seq(Handled) /\ handled' \in Seq(Handled)
  BY ReachesType DEF TypeOK
<1>2. handled' = Append(handled, Entry(f))
  BY DEF Reaches, Entry
<1>3. QED
  BY <1>1, <1>2 DEF Handles

\* What was handled is a sequence of records.
LEMMA HandledFields ==
    ASSUME TypeOK
    PROVE  /\ DOMAIN handled = 1 .. Len(handled) /\ Len(handled) \in Nat
           /\ \A i \in DOMAIN handled : /\ handled[i].seq \in Nat /\ handled[i].at \in Nat
                                        /\ handled[i].id \in RequestIds \cup {NoId}
<1>1. handled \in Seq(Handled)
  BY DEF TypeOK
<1>2. \A i \in DOMAIN handled : handled[i] \in Handled
  BY <1>1
<1>3. QED
  BY <1>1, <1>2 DEF Handled

\* A frame reaches its action, or nothing is handled.
LEMMA ReceiveHandles ==
    ASSUME NEW f \in Frame, Receive(f)
    PROVE  Reaches(f) \/ UNCHANGED handled
BY DEF Receive, TooLarge, RateLimited, Undecodable, DuplicateRequest, WrongType, SequenceGap,
       OutOfOrder, KnownAction, UnknownAction

-----------------------------------------------------------------------------
(* Order: the last message handled carries inboundSeq.                     *)

\* Until a message has a seq none is expected; then inboundSeq is the last seq
\* that was acted on.
Tracks ==
    /\ seq.inbound # 0 => seq.tracking
    /\ handled = <<>> => seq.inbound = 0
    /\ handled # <<>> => seq.inbound = handled[Len(handled)].seq

OrderInv == Tracks /\ HandledInOrder

LEMMA OrderStep == TypeOK /\ OrderInv /\ [Next]_vars => OrderInv'
<1> SUFFICES ASSUME TypeOK, OrderInv, [Next]_vars
             PROVE  OrderInv'
  OBVIOUS
<1> USE DEF OrderInv
<1>1. ASSUME NEW f \in Frame, Reaches(f)
      PROVE  OrderInv'
  <2> DEFINE n == Len(handled)
  <2>1. /\ n \in Nat /\ DOMAIN handled = 1 .. n
        /\ DOMAIN handled' = 1 .. n + 1 /\ Len(handled') = n + 1
        /\ \A i \in 1 .. n : handled'[i] = handled[i]
        /\ handled'[n + 1].seq = f.seq
    <3>1. Handles(f)
      BY <1>1, ReachesHandles
    <3>2. QED
      BY <3>1 DEF Handles, Entry
  <2>2. /\ f.seq \in Nat /\ seq.inbound \in Nat
        /\ seq'.tracking = (seq.tracking \/ f.seq # 0)
        /\ seq'.inbound = IF f.seq = 0 THEN seq.inbound ELSE f.seq
        /\ f.seq = 0 => ~seq.tracking
        /\ f.seq # 0 => f.seq = seq.inbound + 1
    BY <1>1, FrameFields DEF Reaches, TypeOK, InOrder, Expected
  <2>3. handled = <<>> <=> n = 0
    <3>1. handled \in Seq(Handled)
      BY DEF TypeOK
    <3>2. QED
      BY <3>1
  <2>4. handled' # <<>>
    BY <2>1
  <2> HIDE DEF n
  <2>5. seq'.inbound = f.seq
    BY <2>2 DEF Tracks
  <2>6. Tracks'
    BY <2>1, <2>2, <2>4, <2>5 DEF Tracks
  <2>7. n # 0 => seq.inbound = handled[n].seq
    BY <2>3 DEF Tracks, n
  <2>8. HandledInOrder'
    <3>1. ASSUME NEW i \in 1 .. n + 1
          PROVE  handled'[i].seq = IF i = 1 THEN IF handled'[1].seq = 0 THEN 0 ELSE 1
                                   ELSE IF handled'[i].seq = 0 THEN handled'[i - 1].seq
                                   ELSE handled'[i - 1].seq + 1
      <4>1. CASE i \in 1 .. n
        <5>1. handled'[i] = handled[i] /\ handled'[1] = handled[1]
              /\ (i # 1 => handled'[i - 1] = handled[i - 1])
          BY <2>1, <4>1
        <5>2. QED
          BY <2>1, <4>1, <5>1 DEF HandledInOrder
      <4>2. CASE i = n + 1 /\ n = 0
        BY <2>1, <2>2, <2>3, <4>2 DEF Tracks
      <4>3. CASE i = n + 1 /\ n # 0
        <5>1. i # 1 /\ i - 1 = n /\ handled'[n] = handled[n]
          BY <2>1, <4>3
        <5>2. QED
          BY <2>1, <2>2, <2>7, <4>3, <5>1 DEF Tracks
      <4>4. QED
        BY <2>1, <4>1, <4>2, <4>3
    <3>2. QED
      BY <2>1, <3>1 DEF HandledInOrder
  <2>9. QED
    BY <2>6, <2>8
<1>2. ASSUME NEW f \in Frame, SequenceGap(f)
      PROVE  OrderInv'
  <2>1. seq'.tracking /\ seq'.inbound = seq.inbound /\ handled' = handled
    BY <1>2 DEF SequenceGap, TypeOK
  <2>2. QED
    BY <2>1 DEF Tracks, HandledInOrder
<1>3. CASE UNCHANGED <<seq, handled>>
  BY <1>3 DEF Tracks, HandledInOrder
<1>4. \/ UNCHANGED <<seq, handled>>
      \/ \E f \in Frame : Reaches(f) \/ SequenceGap(f)
  BY DEF Next, Tick, ReadFails, vars, Receive, TooLarge, RateLimited, Undecodable,
         DuplicateRequest, WrongType, OutOfOrder, KnownAction, UnknownAction
<1>5. QED
  BY <1>1, <1>2, <1>3, <1>4

\* For every trader and any number of messages each numbered message is acted on
\* once and in order (observeInboundSeq).
THEOREM HandledInOrderAlways == Spec => []HandledInOrder
<1>1. Init => OrderInv
  BY DEF Init, OrderInv, Tracks, HandledInOrder
<1>2. OrderInv => HandledInOrder
  BY DEF OrderInv
<1>3. QED
  BY <1>1, <1>2, OrderStep, TypeCorrect, PTL DEF Spec

-----------------------------------------------------------------------------
(* Request ids: what was handled is still noted, or out of the window.     *)

Remembered ==
    \A i \in DOMAIN handled :
        /\ 0 < handled[i].at /\ handled[i].at <= now
        /\ handled[i].id # NoId =>
              \/ handled[i].at <= requestIDs[handled[i].id]
              \/ handled[i].at + DedupWindow < now

\* Forgetting the ids that are out of the window changes nothing.
LEMMA FreshRemembers ==
    ASSUME TypeOK, Remembered, NEW i \in DOMAIN handled, handled[i].id # NoId
    PROVE  /\ handled[i].at <= Fresh[handled[i].id] \/ handled[i].at + DedupWindow < now
           /\ Fresh[handled[i].id] = 0 => handled[i].at + DedupWindow < now
<1> DEFINE id == handled[i].id
<1>1. id \in RequestIds /\ handled[i].at \in Nat
  BY HandledFields
<1>2. requestIDs[id] \in Nat /\ now \in Nat /\ DedupWindow \in Nat
  BY <1>1, WindowsAssumption DEF TypeOK
<1>3. Fresh[id] = IF requestIDs[id] + DedupWindow < now THEN 0 ELSE requestIDs[id]
  BY <1>1 DEF Fresh
<1>4. 0 < handled[i].at
      /\ (handled[i].at <= requestIDs[id] \/ handled[i].at + DedupWindow < now)
  BY DEF Remembered
<1> HIDE DEF id
<1>5. /\ handled[i].at <= Fresh[id] \/ handled[i].at + DedupWindow < now
      /\ Fresh[id] = 0 => handled[i].at + DedupWindow < now
  BY <1>1, <1>2, <1>3, <1>4
<1>6. QED
  BY <1>5 DEF id

RequestsInv == Remembered /\ RequestsApart

\* Nothing is handled: the ids stay, are forgotten when they may be, or a newer
\* one is noted.
LEMMA RequestsQuiet ==
    ASSUME TypeOK, RequestsInv, UNCHANGED <<now, handled>>,
           \/ UNCHANGED requestIDs
           \/ requestIDs' = Fresh
           \/ \E id \in RequestIds : requestIDs' = [Fresh EXCEPT ![id] = now]
    PROVE  RequestsInv'
<1> USE DEF RequestsInv
<1>1. RequestsApart'
  BY DEF RequestsApart
<1>2. ASSUME NEW i \in DOMAIN handled, handled[i].id # NoId
      PROVE  handled[i].at <= requestIDs'[handled[i].id] \/ handled[i].at + DedupWindow < now
  <2>1. handled[i].at <= now /\ handled[i].id \in RequestIds
    BY <1>2, HandledFields DEF Remembered
  <2>2. CASE UNCHANGED requestIDs
    BY <1>2, <2>2 DEF Remembered
  <2>3. CASE requestIDs' = Fresh
    BY <1>2, <2>3, FreshRemembers
  <2>4. ASSUME NEW id \in RequestIds, requestIDs' = [Fresh EXCEPT ![id] = now]
        PROVE  handled[i].at <= requestIDs'[handled[i].id]
               \/ handled[i].at + DedupWindow < now
    <3>1. requestIDs'[handled[i].id] = IF handled[i].id = id THEN now ELSE Fresh[handled[i].id]
      BY <2>1, <2>4, FreshType DEF TypeOK
    <3>2. QED
      BY <1>2, <2>1, <3>1, FreshRemembers
  <2>5. QED
    BY <2>2, <2>3, <2>4
<1>3. Remembered'
  BY <1>2 DEF Remembered
<1>4. QED
  BY <1>1, <1>3

LEMMA RequestsReach ==
    ASSUME TypeOK, RequestsInv, NEW f \in Frame, Reaches(f), now' = now
    PROVE  RequestsInv'
<1> USE DEF RequestsInv
<1> DEFINE n == Len(handled)
           id == IF Deduplicated(f) THEN f.id ELSE NoId
<1>1. /\ n \in Nat /\ DOMAIN handled = 1 .. n
      /\ DOMAIN handled' = 1 .. n + 1
      /\ \A i \in 1 .. n : handled'[i] = handled[i]
      /\ handled'[n + 1].id = id /\ handled'[n + 1].at = now
  <2>1. Handles(f)
    BY ReachesHandles
  <2>2. QED
    BY <2>1 DEF Handles, Entry
<1>2. now \in Nat \ {0} /\ \A i \in 1 .. n : handled[i].at \in Nat
                                             /\ handled[i].id \in RequestIds \cup {NoId}
  BY <1>1, HandledFields DEF TypeOK
<1>3. id # NoId => /\ id \in RequestIds
                   /\ Fresh[id] = 0
                   /\ requestIDs' = [Fresh EXCEPT ![id] = now]
  BY DeduplicatedId DEF Reaches, Noted
<1>4. id = NoId => requestIDs' = requestIDs
  BY NoIdAssumption, DeduplicatedId DEF Reaches, Noted
<1> HIDE DEF n, id
<1>5. ASSUME NEW i \in 1 .. n, handled[i].id # NoId
      PROVE  /\ handled[i].at <= requestIDs'[handled[i].id]
                \/ handled[i].at + DedupWindow < now
             /\ handled[i].id = id => handled[i].at + DedupWindow < now
  <2>1. i \in DOMAIN handled /\ handled[i].at <= now
    BY <1>1 DEF Remembered
  <2>2. CASE id = NoId
    BY <1>4, <1>5, <2>1, <2>2 DEF Remembered
  <2>3. CASE id # NoId
    <3>1. requestIDs'[handled[i].id] = IF handled[i].id = id THEN now ELSE Fresh[handled[i].id]
      BY <1>2, <1>3, <1>5, <2>3, FreshType DEF TypeOK
    <3>2. QED
      BY <1>3, <1>5, <2>1, <2>3, <3>1, FreshRemembers
  <2>4. QED
    BY <2>2, <2>3
<1>6. id # NoId => requestIDs'[id] = now
  BY <1>3, FreshType DEF TypeOK
<1>7. Remembered'
  <2>1. ASSUME NEW i \in 1 .. n + 1
        PROVE  /\ 0 < handled'[i].at /\ handled'[i].at <= now
               /\ handled'[i].id # NoId =>
                     \/ handled'[i].at <= requestIDs'[handled'[i].id]
                     \/ handled'[i].at + DedupWindow < now
    <3>1. CASE i \in 1 .. n
      BY <1>1, <1>5, <3>1 DEF Remembered
    <3>2. CASE i = n + 1
      BY <1>1, <1>2, <1>6, <3>2
    <3>3. QED
      BY <1>1, <3>1, <3>2
  <2>2. QED
    BY <1>1, <2>1 DEF Remembered
<1>8. RequestsApart'
  <2>1. ASSUME NEW i \in 1 .. n + 1, NEW j \in 1 .. n + 1, i < j,
               handled'[i].id = handled'[j].id, handled'[i].id # NoId
        PROVE  handled'[i].at + DedupWindow < handled'[j].at
    <3>1. i \in 1 .. n
      BY <1>1, <2>1
    <3>2. CASE j \in 1 .. n
      BY <1>1, <2>1, <3>1, <3>2 DEF RequestsApart
    <3>3. CASE j = n + 1
      BY <1>1, <1>5, <2>1, <3>1, <3>3
    <3>4. QED
      BY <1>1, <3>2, <3>3
  <2>2. QED
    BY <1>1, <2>1 DEF RequestsApart
<1>9. QED
  BY <1>7, <1>8

LEMMA RequestsStep == TypeOK /\ RequestsInv /\ [Next]_vars => RequestsInv'
<1> SUFFICES ASSUME TypeOK, RequestsInv, [Next]_vars
             PROVE  RequestsInv'
  OBVIOUS
<1>1. CASE Tick
  <2>1. now \in Nat /\ now' = now + 1 /\ UNCHANGED <<handled, requestIDs>>
    BY <1>1 DEF Tick, TypeOK
  <2>2. \A i \in DOMAIN handled : handled[i].at \in Nat
    BY HandledFields
  <2>3. DedupWindow \in Nat
    BY WindowsAssumption
  <2>4. QED
    BY <2>1, <2>2, <2>3 DEF RequestsInv, Remembered, RequestsApart
<1>2. CASE ReadFails \/ UNCHANGED vars
  BY <1>2, RequestsQuiet DEF ReadFails, vars
<1>3. ASSUME NEW f \in Frame, Receive(f)
      PROVE  RequestsInv'
  <2>1. now' = now
    BY <1>3 DEF Receive, TooLarge, RateLimited, Undecodable, DuplicateRequest, WrongType,
                SequenceGap, OutOfOrder, KnownAction, UnknownAction
  <2>2. Reaches(f) \/ UNCHANGED handled
    BY <1>3, ReceiveHandles
  <2>3. CASE UNCHANGED handled
    <3>1. Noted(f) => \/ UNCHANGED requestIDs
                      \/ \E id \in RequestIds : requestIDs' = [Fresh EXCEPT ![id] = now]
      BY DeduplicatedId DEF Noted
    <3>2. UNCHANGED requestIDs \/ requestIDs' = Fresh \/ Noted(f)
      BY <1>3 DEF Receive, TooLarge, RateLimited, Undecodable, DuplicateRequest, WrongType,
                  SequenceGap, OutOfOrder, KnownAction, UnknownAction, Reaches
    <3>3. QED
      BY <2>1, <2>3, <3>1, <3>2, RequestsQuiet
  <2>4. QED
    BY <2>1, <2>2, <2>3, RequestsReach
<1>4. QED
  BY <1>1, <1>2, <1>3 DEF Next

\* For every DedupWindow, trader and clock: two actions on one request_id are more
\* than the window apart.
THEOREM RequestsApartAlways == Spec => []RequestsApart
<1>1. Init => RequestsInv
  BY DEF Init, RequestsInv, Remembered, RequestsApart
<1>2. RequestsInv => RequestsApart
  BY DEF RequestsInv
<1>3. QED
  BY <1>1, <1>2, RequestsStep, TypeCorrect, PTL DEF Spec

-----------------------------------------------------------------------------
(* Gaps: a trader that left out nothing and was refused nothing has had all *)
(* its messages received.                                                  *)

GapInv ==
    peer.skipped \/ peer.refused \/ (status # "gap" /\ peer.next <= seq.inbound + 1)

LEMMA GapStep == TypeOK /\ GapInv /\ [Next]_vars => GapInv'
<1> SUFFICES ASSUME TypeOK, GapInv, [Next]_vars
             PROVE  GapInv'
  OBVIOUS
<1>1. seq.inbound \in Nat /\ peer.next \in Nat
  BY DEF TypeOK
<1>2. ASSUME NEW f \in Frame, Sends(f, FALSE), ~peer'.skipped, ~peer'.refused, status = "open"
      PROVE  /\ f.seq <= peer.next /\ peer.next <= seq.inbound + 1
             /\ peer'.next = IF f.seq >= peer.next THEN f.seq + 1 ELSE peer.next
  <2>1. /\ ~peer.skipped /\ ~(f.seq > peer.next) /\ ~peer.refused
        /\ peer'.next = IF f.seq >= peer.next THEN f.seq + 1 ELSE peer.next
    BY <1>2 DEF Sends
  <2>2. QED
    BY <1>1, <2>1, FrameFields DEF GapInv
<1>3. ASSUME NEW f \in Frame, Sends(f, TRUE)
      PROVE  GapInv'
  BY <1>3 DEF Sends, GapInv
<1>4. ASSUME NEW f \in Frame, SequenceGap(f), status = "open"
      PROVE  GapInv'
  <2>1. Sends(f, FALSE) /\ f.seq > seq.inbound + 1 /\ f.seq \in Nat
    BY <1>4, FrameFields DEF SequenceGap, Expected
  <2>2. CASE peer'.skipped \/ peer'.refused
    BY <2>2 DEF GapInv
  <2>3. CASE ~peer'.skipped /\ ~peer'.refused
    <3>1. f.seq <= peer.next /\ peer.next <= seq.inbound + 1
      BY <1>2, <1>4, <2>1, <2>3
    <3>2. QED
      BY <1>1, <2>1, <3>1
  <2>4. QED
    BY <2>2, <2>3
<1>5. ASSUME NEW f \in Frame, OutOfOrder(f), status = "open"
      PROVE  GapInv'
  <2>1. Sends(f, FALSE) /\ f.seq < seq.inbound + 1 /\ UNCHANGED <<seq, status>> /\ f.seq \in Nat
    BY <1>5, FrameFields DEF OutOfOrder, Expected
  <2>2. CASE peer'.skipped \/ peer'.refused
    BY <2>2 DEF GapInv
  <2>3. CASE ~peer'.skipped /\ ~peer'.refused
    <3>1. /\ f.seq <= peer.next /\ peer.next <= seq.inbound + 1
          /\ peer'.next = IF f.seq >= peer.next THEN f.seq + 1 ELSE peer.next
      BY <1>2, <1>5, <2>1, <2>3
    <3>2. peer'.next <= seq'.inbound + 1
      BY <1>1, <2>1, <3>1
    <3>3. QED
      BY <1>5, <2>1, <3>2 DEF GapInv
  <2>4. QED
    BY <2>2, <2>3
<1>6. ASSUME NEW f \in Frame, Reaches(f), status = "open", status' # "gap"
      PROVE  GapInv'
  <2>1. /\ Sends(f, FALSE) /\ f.seq \in Nat
        /\ f.seq = 0 \/ f.seq = seq.inbound + 1
        /\ seq'.inbound = IF f.seq = 0 THEN seq.inbound ELSE f.seq
    BY <1>6, FrameFields DEF Reaches, InOrder, Expected
  <2>2. CASE peer'.skipped \/ peer'.refused
    BY <2>2 DEF GapInv
  <2>3. CASE ~peer'.skipped /\ ~peer'.refused
    <3>1. /\ f.seq <= peer.next /\ peer.next <= seq.inbound + 1
          /\ peer'.next = IF f.seq >= peer.next THEN f.seq + 1 ELSE peer.next
      BY <1>2, <1>6, <2>1, <2>3
    <3>2. peer'.next <= seq'.inbound + 1
      BY <1>1, <2>1, <3>1
    <3>3. QED
      BY <1>6, <3>2 DEF GapInv
  <2>4. QED
    BY <2>2, <2>3
<1>7. ASSUME NEW f \in Frame, Receive(f)
      PROVE  GapInv'
  <2>1. status = "open"
    BY <1>7 DEF Receive
  <2>2. CASE TooLarge(f) \/ RateLimited(f) \/ Undecodable(f) \/ DuplicateRequest(f)
             \/ WrongType(f)
    BY <1>3, <2>2 DEF TooLarge, RateLimited, Undecodable, DuplicateRequest, WrongType
  <2>3. CASE KnownAction(f) \/ UnknownAction(f)
    BY <1>6, <2>1, <2>3 DEF KnownAction, UnknownAction
  <2>4. QED
    BY <1>4, <1>5, <1>7, <2>1, <2>2, <2>3 DEF Receive
<1>8. CASE Tick \/ ReadFails \/ UNCHANGED vars
  BY <1>8 DEF Tick, ReadFails, vars, GapInv
<1>9. QED
  BY <1>7, <1>8 DEF Next

\* For every trader: a connection is closed for a gap only if the trader left a
\* message out or one was refused before its seq was looked at (closeOnSequenceGap).
THEOREM GapHasCauseAlways == Spec => []GapHasCause
<1>1. Init => GapInv
  BY DEF Init, GapInv
<1>2. GapInv => GapHasCause
  BY DEF GapInv, GapHasCause
<1>3. QED
  BY <1>1, <1>2, GapStep, TypeCorrect, PTL DEF Spec

-----------------------------------------------------------------------------
(* The rate: every window lets MaxMessagesPerSec frames through and begins *)
(* a second or more after the one before.                                  *)

\* The frames the current window has let through
InWindow == IF rate.count < MaxMessagesPerSec THEN rate.count ELSE MaxMessagesPerSec

\* The last InWindow frames passed in the current window and the others before it
\* began; those that are a window's worth older still, a second before.
Windows ==
    LET n == Len(passed) - InWindow
    IN  /\ 0 <= n
        /\ rate.start <= now
        /\ \A i \in DOMAIN passed : passed[i] <= now
        /\ \A i \in DOMAIN passed : i > n => rate.start <= passed[i]
        /\ \A i \in DOMAIN passed : i <= n => passed[i] <= rate.start
        /\ \A i \in DOMAIN passed : i + MaxMessagesPerSec <= n
                                        => passed[i] + Second <= rate.start

RateInv == Windows /\ RateBounded

\* A frame is counted; it passes if the window has room.
LEMMA RateCounts ==
    ASSUME TypeOK, RateInv, UNCHANGED now, rate' = Counted(rate, Second),
           passed' = IF WithinRate THEN Append(passed, now) ELSE passed
    PROVE  RateInv'
<1> USE DEF RateInv
<1> DEFINE M == MaxMessagesPerSec
           l == Len(passed)
           p == InWindow
<1>1. /\ M \in Nat /\ M >= 1 /\ Second \in Nat /\ Second >= 1 /\ now \in Nat
      /\ rate.start \in Nat /\ rate.count \in Nat
      /\ l \in Nat /\ DOMAIN passed = 1 .. l
      /\ \A i \in 1 .. l : passed[i] \in Nat
  <2>1. passed \in Seq(Nat)
    BY DEF TypeOK
  <2>2. l \in Nat /\ DOMAIN passed = 1 .. l /\ \A i \in 1 .. l : passed[i] \in Nat
    BY <2>1
  <2>3. QED
    BY <2>2, WindowsAssumption DEF TypeOK, Window
<1>2. p = (IF rate.count < M THEN rate.count ELSE M) /\ p \in Nat /\ p <= M
  BY <1>1 DEF InWindow
<1>3. /\ p <= l
      /\ rate.start <= now
      /\ \A i \in 1 .. l : passed[i] <= now
      /\ \A i \in 1 .. l : i > l - p => rate.start <= passed[i]
      /\ \A i \in 1 .. l : i <= l - p => passed[i] <= rate.start
      /\ \A i \in 1 .. l : i + M <= l - p => passed[i] + Second <= rate.start
      /\ \A i, j \in 1 .. l : j = i + 2 * M => passed[i] + Second <= passed[j]
  <2>1. 0 <= l - p
    BY DEF Windows
  <2>2. p <= l
    <3> HIDE DEF l, p
    <3> QED
      BY <1>1, <1>2, <2>1
  <2>3. QED
    BY <1>1, <2>2 DEF Windows, RateBounded
<1>4. ASSUME WithinRate
      PROVE  /\ DOMAIN passed' = 1 .. l + 1 /\ Len(passed') = l + 1
             /\ \A i \in 1 .. l : passed'[i] = passed[i]
             /\ passed'[l + 1] = now
  <2>1. passed' = Append(passed, now) /\ passed \in Seq(Nat) /\ now \in Nat
    BY <1>4 DEF TypeOK
  <2>2. QED
    BY <2>1
<1> HIDE DEF l, p
<1>5. CASE rate.start + Second <= now
  <2>1. rate'.start = now /\ rate'.count = 1 /\ WithinRate
    BY <1>1, <1>5 DEF Counted, WithinRate
  <2>2. InWindow' = 1
    BY <1>1, <2>1 DEF InWindow
  <2>3. \A i \in 1 .. l : i <= l - p => passed[i] + Second <= now
    BY <1>1, <1>2, <1>3, <1>5
  <2>4. \A i \in 1 .. l : i + M <= l => passed[i] + Second <= now
    BY <1>1, <1>2, <2>3
  <2>5. Windows'
    BY <1>1, <1>3, <1>4, <2>1, <2>2, <2>4 DEF Windows
  <2>6. RateBounded'
    BY <1>1, <1>3, <1>4, <2>1, <2>4 DEF RateBounded
  <2>7. QED
    BY <2>5, <2>6
<1>6. CASE ~(rate.start + Second <= now) /\ WithinRate
  <2>1. rate'.start = rate.start /\ rate'.count = rate.count + 1 /\ rate.count + 1 <= M
    BY <1>1, <1>6 DEF Counted, WithinRate, TypeOK, Window
  <2>2. p = rate.count /\ InWindow' = p + 1
    BY <1>1, <1>2, <2>1 DEF InWindow
  <2>3. Windows'
    <3>1. Len(passed') - InWindow' = l - p
      <4>1. Len(passed') = l + 1 /\ InWindow' = p + 1
        BY <1>4, <1>6, <2>2
      <4>2. l \in Nat /\ p \in Nat
        BY <1>1, <1>2
      <4>3. \A a, b \in Nat : (a + 1) - (b + 1) = a - b
        OBVIOUS
      <4>4. QED
        BY <4>1, <4>2, <4>3
    <3>2. 0 <= l - p /\ ~(l + 1 <= l - p) /\ ~(l + 1 + M <= l - p)
      BY <1>1, <1>2, <1>3
    <3>3. DOMAIN passed' = 1 .. l + 1
      BY <1>4, <1>6
    <3>4. ASSUME NEW i \in 1 .. l + 1
          PROVE  /\ passed'[i] <= now
                 /\ i > l - p => rate.start <= passed'[i]
                 /\ i <= l - p => passed'[i] <= rate.start
                 /\ i + M <= l - p => passed'[i] + Second <= rate.start
      <4>1. CASE i \in 1 .. l
        BY <1>3, <1>4, <1>6, <4>1
      <4>2. CASE i = l + 1
        BY <1>1, <1>3, <1>4, <1>6, <3>2, <4>2
      <4>3. QED
        BY <1>1, <4>1, <4>2
    <3>5. QED
      BY <1>3, <2>1, <3>1, <3>2, <3>3, <3>4 DEF Windows
  <2>4. RateBounded'
    <3>1. ASSUME NEW i \in 1 .. l, l + 1 = i + 2 * M
          PROVE  passed[i] + Second <= now
      <4>1. i + M <= l - p
        BY <1>1, <1>2, <2>1, <2>2, <3>1
      <4>2. QED
        BY <1>1, <1>3, <4>1
    <3>2. ASSUME NEW i \in 1 .. l + 1, NEW j \in 1 .. l + 1, j = i + 2 * M
          PROVE  passed'[i] + Second <= passed'[j]
      <4>1. i \in 1 .. l
        BY <1>1, <3>2
      <4>2. CASE j \in 1 .. l
        BY <1>3, <1>4, <1>6, <3>2, <4>1, <4>2
      <4>3. CASE j = l + 1
        BY <1>4, <1>6, <3>1, <3>2, <4>1, <4>3
      <4>4. QED
        BY <1>1, <4>2, <4>3
    <3>3. QED
      BY <1>4, <1>6, <3>2 DEF RateBounded
  <2>5. QED
    BY <2>3, <2>4
<1>7. CASE ~(rate.start + Second <= now) /\ ~WithinRate
  <2>1. rate'.start = rate.start /\ rate'.count = rate.count + 1 /\ ~(rate.count + 1 <= M)
    BY <1>1, <1>7 DEF Counted, WithinRate, TypeOK, Window
  <2>2. InWindow' = p
    BY <1>1, <1>2, <2>1 DEF InWindow
  <2>3. QED
    BY <1>1, <1>3, <1>7, <2>1, <2>2 DEF Windows, RateBounded, l, p
<1>8. QED
  BY <1>5, <1>6, <1>7

LEMMA RateStep == TypeOK /\ RateInv /\ [Next]_vars => RateInv'
<1> SUFFICES ASSUME TypeOK, RateInv, [Next]_vars
             PROVE  RateInv'
  OBVIOUS
<1>1. CASE UNCHANGED <<rate, passed>> /\ now' \in {now, now + 1}
  <2>1. now \in Nat /\ rate.start \in Nat /\ \A i \in DOMAIN passed : passed[i] \in Nat
    BY DEF TypeOK, Window
  <2>2. rate.start <= now' /\ \A i \in DOMAIN passed : passed[i] <= now'
    BY <1>1, <2>1 DEF RateInv, Windows
  <2>3. QED
    BY <1>1, <2>2 DEF RateInv, Windows, RateBounded, InWindow
<1>2. ASSUME NEW f \in Frame, Receive(f)
      PROVE  RateInv'
  <2>1. CASE TooLarge(f)
    BY <1>1, <2>1 DEF TooLarge
  <2>2. CASE RateLimited(f)
    BY <2>2, RateCounts DEF RateLimited
  <2>3. CASE ~TooLarge(f) /\ ~RateLimited(f)
    <3>1. Passes(f) /\ now' = now
      BY <1>2, <2>3 DEF Receive, Undecodable, DuplicateRequest, WrongType, SequenceGap,
                        OutOfOrder, KnownAction, UnknownAction, Reaches, Noted
    <3>2. QED
      BY <3>1, RateCounts DEF Passes
  <2>4. QED
    BY <2>1, <2>2, <2>3
<1>3. CASE Tick \/ ReadFails \/ UNCHANGED vars
  BY <1>1, <1>3 DEF Tick, ReadFails, vars
<1>4. QED
  BY <1>2, <1>3 DEF Next

\* For every limit and every trader no second, wherever it begins, lets more than
\* twice MaxMessagesPerSec frames pass.
THEOREM RateBoundedAlways == Spec => []RateBounded
<1>1. Init => RateInv
  BY WindowsAssumption DEF Init, RateInv, Windows, RateBounded, InWindow
<1>2. RateInv => RateBounded
  BY DEF RateInv
<1>3. QED
  BY <1>1, <1>2, RateStep, TypeCorrect, PTL DEF Spec
=============================================================================
