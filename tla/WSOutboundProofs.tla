--------------------------- MODULE WSOutboundProofs ---------------------------
(***************************************************************************)
(* Proofs about module WSOutbound, for every number of messages.           *)
(***************************************************************************)
EXTENDS WSOutbound, TLAPS

\* Serve is inside sendEnvelope exactly while it has messages to send.
Sending ==
    /\ writer["serve"].pc = "idle" <=> replies = 0
    /\ replies # 0 => serve \in {"replying", "parting", "dismissing"}
    /\ serve \in {"replying", "parting"} => replies # 0

\* The entry is there until Serve removes it, after its last message.
EntryKept == entry <=> serve \notin {"closing", "returned"}

\* While the entry is there, only the holder of writeMu writes.
HolderWrites ==
    \A w \in Writers : writer[w].pc = "writing" /\ entry => writeMu = w

\* A writer holds a seq only between stamping and writing a message.
SeqHeld ==
    \A w \in Writers : writer[w].pc \in {"idle", "stamp"} => writer[w].seq = 0

IInv == TypeOK /\ Sending /\ EntryKept /\ HolderWrites /\ SeqHeld

LEMMA InitIInv == Init => IInv
  BY DEF Init, IInv, TypeOK, Sending, EntryKept, HolderWrites, SeqHeld, Writers,
         ServeLocations, Call, Message

LEMMA AnswerStep ==
    ASSUME IInv, NEW n \in 0 .. 2, NEW where \in {"replying", "parting", "dismissing"},
           Answer(n, where), session' \in {"connected", "registered", "active"}
    PROVE  IInv'
<1> USE DEF IInv
<1>1. PICK k \in {inbound, inbound + 1} : inbound' = k
  BY DEF Answer
<1>2. TypeOK'
  <2>1. writer' \in [Writers -> Call]
    BY DEF TypeOK, Answer, Call, Writers
  <2>2. QED
    BY <1>1, <2>1 DEF TypeOK, Answer, ServeLocations
<1>3. Sending'
  BY DEF TypeOK, Answer, Sending, Call, Writers
<1>4. EntryKept'
  BY DEF Answer, EntryKept
<1>5. HolderWrites' /\ SeqHeld'
  BY DEF TypeOK, Answer, HolderWrites, SeqHeld, Sending, Call, Writers
<1>6. QED
  BY <1>2, <1>3, <1>4, <1>5

LEMMA StampStep == ASSUME IInv, NEW w \in Writers, Stamp(w) PROVE IInv'
<1> USE DEF IInv
<1>1. TypeOK'
  BY DEF TypeOK, Stamp, Call, Writers
<1>2. Sending' /\ EntryKept' /\ HolderWrites' /\ SeqHeld'
  BY DEF TypeOK, Stamp, Call, Writers, Sending, EntryKept, HolderWrites, SeqHeld
<1>3. QED
  BY <1>1, <1>2

LEMMA LockStep == ASSUME IInv, NEW w \in Writers, Lock(w) PROVE IInv'
<1> USE DEF IInv
<1>1. TypeOK'
  BY DEF TypeOK, Lock, Call, Writers
<1>2. Sending' /\ EntryKept' /\ HolderWrites' /\ SeqHeld'
  BY DEF TypeOK, Lock, Call, Writers, Sending, EntryKept, HolderWrites, SeqHeld
<1>3. QED
  BY <1>1, <1>2

LEMMA WriteStep == ASSUME IInv, NEW w \in Writers, NEW ok \in BOOLEAN, Write(w, ok)
                   PROVE  IInv'
<1> USE DEF IInv
<1>1. w = "serve" => replies \in 1 .. 2 /\ serve \in {"replying", "parting", "dismissing"}
  BY DEF Write, WriteEnds, Sending, TypeOK
<1>2. TypeOK'
  <2>1. wire' \in Seq(Message)
    <3> DEFINE msg == [seq |-> writer[w].seq, ack |-> writer[w].ack]
    <3>1. msg \in Message
      BY DEF TypeOK, Call, Message
    <3>2. wire' = Append(wire, msg) \/ wire' = wire
      BY DEF Write, WriteEnds
    <3> HIDE DEF msg
    <3>3. QED
      BY <3>1, <3>2 DEF TypeOK
  <2>2. writer' \in [Writers -> Call]
    <3> DEFINE after == [pc |-> IF w = "serve" /\ replies > 1 THEN "stamp" ELSE "idle",
                         seq |-> 0, ack |-> 0]
    <3>1. after \in Call
      BY DEF Call
    <3>2. writer' = [writer EXCEPT ![w] = after]
      BY DEF Write, WriteEnds
    <3> HIDE DEF after
    <3>3. QED
      BY <3>1, <3>2 DEF TypeOK
  <2>3. QED
    BY <1>1, <2>1, <2>2 DEF Write, WriteEnds, TypeOK, AfterWrite, Afterwards, ServeLocations
<1>3. Sending'
  <2>1. CASE w = "serve"
    <3>1. /\ writer'["serve"].pc = IF replies > 1 THEN "stamp" ELSE "idle"
          /\ replies' = replies - 1
          /\ serve' = AfterWrite
      BY <2>1 DEF Write, WriteEnds, TypeOK
    <3>2. CASE replies = 1
      BY <1>1, <2>1, <3>1, <3>2 DEF Sending, AfterWrite, Afterwards
    <3>3. CASE replies = 2
      <4>1. serve' = serve /\ replies' = 1 /\ writer'["serve"].pc = "stamp"
        BY <3>1, <3>3 DEF AfterWrite
      <4>2. QED
        BY <1>1, <2>1, <4>1 DEF Sending
    <3>4. QED
      BY <1>1, <2>1, <3>2, <3>3
  <2>2. CASE w = "dispatch"
    <3>1. writer'["serve"] = writer["serve"] /\ replies' = replies /\ serve' = serve
      BY <2>2 DEF Write, WriteEnds, TypeOK, Writers
    <3>2. QED
      BY <3>1 DEF Sending
  <2>3. QED
    BY <2>1, <2>2 DEF Writers
<1>4. EntryKept'
  BY <1>1 DEF Write, WriteEnds, AfterWrite, Afterwards, EntryKept
<1>5. \A v \in Writers : IF v = w THEN writer'[v].pc # "writing" /\ writer'[v].seq = 0
                                   ELSE writer'[v] = writer[v]
  BY DEF Write, WriteEnds, TypeOK
<1>6. HolderWrites'
  BY <1>5 DEF Write, WriteEnds, HolderWrites
<1>7. SeqHeld'
  BY <1>5 DEF SeqHeld
<1>8. QED
  BY <1>2, <1>3, <1>4, <1>6, <1>7

LEMMA NextIInv == IInv /\ [Next]_vars => IInv'
<1> SUFFICES ASSUME IInv, [Next]_vars
             PROVE  IInv'
  OBVIOUS
<1>1. CASE Register
  BY <1>1, AnswerStep DEF Register
<1>2. CASE Heartbeat
  BY <1>2, AnswerStep DEF Heartbeat
<1>3. CASE Other
  BY <1>3, AnswerStep DEF Other, IInv, TypeOK
<1>4. CASE Flood \/ Duplicate
  BY <1>4, AnswerStep DEF Flood, Duplicate, IInv, TypeOK
<1>5. CASE Gap \/ ReadFails \/ Dismiss \/ RemoveConnection \/ CloseSocket
  <2> USE DEF IInv, TypeOK, Sending, EntryKept, HolderWrites, SeqHeld, ServeLocations
  <2>1. CASE Gap
    BY <2>1 DEF Gap, CloseFrame
  <2>2. CASE ReadFails
    BY <2>2 DEF ReadFails
  <2>3. CASE Dismiss
    BY <2>3 DEF Dismiss, CloseFrame
  <2>4. CASE RemoveConnection
    BY <2>4 DEF RemoveConnection
  <2>5. CASE CloseSocket
    BY <2>5 DEF CloseSocket
  <2>6. QED
    BY <1>5, <2>1, <2>2, <2>3, <2>4, <2>5
<1>6. CASE CloseAll \/ PingFails
  BY <1>6 DEF CloseAll, PingFails, CloseFrame, IInv, TypeOK, Sending, EntryKept,
              HolderWrites, SeqHeld
<1>7. CASE Dispatch
  BY <1>7 DEF Dispatch, IInv, TypeOK, Sending, EntryKept, HolderWrites, SeqHeld, Call,
              Writers
<1>8. ASSUME NEW w \in Writers, SendStep(w)
      PROVE  IInv'
  BY <1>8, StampStep, LockStep, WriteStep DEF SendStep
<1>9. CASE UNCHANGED vars
  BY <1>9 DEF vars, IInv, TypeOK, Sending, EntryKept, HolderWrites, SeqHeld
<1>10. QED
  BY <1>1, <1>2, <1>3, <1>4, <1>5, <1>6, <1>7, <1>8, <1>9 DEF Next, Receive, Leave

LEMMA InvariantHolds == Spec => []IInv
  BY InitIInv, NextIInv, PTL DEF Spec

\* The state of the connection keeps its type; in particular Serve never sends
\* more answers than it owes.
THEOREM TypeCorrect == Spec => []TypeOK
<1>1. IInv => TypeOK
  BY DEF IInv
<1>2. QED
  BY <1>1, InvariantHolds, PTL

\* Serve and the scheduler are never in WriteMessage at once: while the entry
\* exists writeMu excludes it, and Serve, which alone removes the entry, has
\* nothing left to write by then.
THEOREM OneWriter == Spec => []NoConcurrentWrite
<1>1. IInv => NoConcurrentWrite
  BY DEF IInv, TypeOK, Sending, EntryKept, HolderWrites, NoConcurrentWrite, Writers
<1>2. QED
  BY <1>1, InvariantHolds, PTL

-----------------------------------------------------------------------------
(* Sequence numbers and acknowledgements.                                  *)

\* No message, written or about to be, is ahead of the counters.
Bounded ==
    /\ \A i \in DOMAIN wire : wire[i].seq <= outbound /\ wire[i].ack <= inbound
    /\ \A w \in Writers : writer[w].seq <= outbound /\ writer[w].ack <= inbound

\* Of two stamped messages the one with the higher seq acknowledges no less.
AckOrder(m, n) == 0 < m.seq /\ m.seq < n.seq => m.ack <= n.ack

\* AckFollowsSeq, for the messages about to be written as well
Acknowledging ==
    /\ AckFollowsSeq
    /\ \A i \in DOMAIN wire, w \in Writers :
          AckOrder(wire[i], writer[w]) /\ AckOrder(writer[w], wire[i])
    /\ \A v, w \in Writers : AckOrder(writer[v], writer[w])

\* A message without seq is stamped only once the entry is gone, and when it has
\* been written nobody is left to write another.
Unnumbered ==
    /\ \A w \in Writers : writer[w].pc \in {"write", "writing"} /\ writer[w].seq = 0 => ~entry
    /\ \A i \in DOMAIN wire : wire[i].seq = 0 =>
          ~entry /\ \A w \in Writers : writer[w].pc = "idle"
    /\ UnnumberedIsLast

Numbering == Bounded /\ SeqUsedOnce /\ NoSeqSkipped /\ Acknowledging /\ Unnumbered

\* The numbers are numbers.
LEMMA Numbers ==
    ASSUME TypeOK
    PROVE  /\ inbound \in Nat /\ outbound \in Nat
           /\ \A i \in DOMAIN wire : wire[i].seq \in Nat /\ wire[i].ack \in Nat
           /\ \A w \in Writers : writer[w].seq \in Nat /\ writer[w].ack \in Nat
<1>1. ASSUME NEW i \in DOMAIN wire
      PROVE  wire[i].seq \in Nat /\ wire[i].ack \in Nat
  <2>1. wire \in Seq(Message)
    BY DEF TypeOK
  <2>2. wire[i] \in Message
    BY <2>1
  <2>3. QED
    BY <2>2 DEF Message
<1>2. QED
  BY <1>1 DEF TypeOK, Call

LEMMA InitNumbering == Init => Numbering
  BY DEF Init, Numbering, Bounded, SeqUsedOnce, NoSeqSkipped, Acknowledging, AckOrder,
         AckFollowsSeq, Unnumbered, UnnumberedIsLast, Seqs, Held, Writers

\* A step that stamps and writes nothing: it may note a message received, start a
\* sendEnvelope or take the lock, and remove the entry or spoil the socket.
Quiet ==
    /\ UNCHANGED <<wire, outbound>>
    /\ inbound' \in Nat /\ inbound' >= inbound
    /\ \A w \in Writers : writer'[w].seq = writer[w].seq /\ writer'[w].ack = writer[w].ack
    /\ \A w \in Writers : writer'[w].pc \in {"write", "writing"}
                              => writer[w].pc \in {"write", "writing"}
    /\ entry' => entry
    /\ (\A w \in Writers : writer'[w].pc = writer[w].pc)
          \/ entry \/ \E w \in Writers : writer[w].pc # "idle"
    /\ socket' = "open" => socket = "open"

LEMMA QuietStep == ASSUME IInv, Numbering, Quiet PROVE Numbering'
<1> USE DEF Numbering, Quiet
<1>1. /\ inbound \in Nat /\ outbound \in Nat
      /\ \A i \in DOMAIN wire : wire[i].ack \in Nat
      /\ \A w \in Writers : writer[w].ack \in Nat
  BY Numbers DEF IInv
<1>2. Bounded'
  BY <1>1 DEF Bounded
<1>3. Seqs' = Seqs /\ Held' = Held
  BY DEF Seqs, Held
<1>4. SeqUsedOnce' /\ NoSeqSkipped'
  BY <1>3 DEF SeqUsedOnce, NoSeqSkipped, Writers
<1>5. Acknowledging'
  BY DEF Acknowledging, AckOrder, AckFollowsSeq
<1>6. Unnumbered'
  BY DEF Unnumbered, UnnumberedIsLast
<1>7. QED
  BY <1>2, <1>4, <1>5, <1>6

LEMMA StampNumbers == ASSUME IInv, Numbering, NEW w \in Writers, Stamp(w) PROVE Numbering'
<1> USE DEF Numbering
<1> DEFINE q == IF entry THEN outbound + 1 ELSE 0
           k == IF entry THEN inbound ELSE 0
<1>1. /\ outbound \in Nat /\ inbound \in Nat
      /\ \A i \in DOMAIN wire : wire[i].seq \in Nat /\ wire[i].ack \in Nat
      /\ \A v \in Writers : writer[v].seq \in Nat /\ writer[v].ack \in Nat
  BY Numbers DEF IInv
<1>2. /\ UNCHANGED <<wire, inbound, entry, socket>>
      /\ outbound' = IF entry THEN outbound + 1 ELSE outbound
      /\ writer[w].pc = "stamp" /\ writer[w].seq = 0
  BY DEF Stamp, IInv, SeqHeld
<1>3. \A v \in Writers : writer'[v] = IF v = w THEN [pc |-> "write", seq |-> q, ack |-> k]
                                               ELSE writer[v]
  BY DEF Stamp, IInv, TypeOK
<1>4. /\ q \in Nat /\ k \in Nat /\ k <= inbound /\ q <= outbound'
      /\ q # 0 => entry /\ q = outbound + 1 /\ k = inbound
      /\ q = 0 => ~entry
      /\ writer'[w].seq = q /\ writer'[w].ack = k /\ writer'[w].pc = "write"
      /\ \A v \in Writers : v # w => writer'[v] = writer[v]
      /\ outbound' >= outbound /\ outbound' \in Nat
  BY <1>1, <1>2, <1>3
<1> HIDE DEF q, k
<1>5. Bounded'
  BY <1>1, <1>2, <1>4 DEF Bounded
<1>6. /\ q # 0 => (\A i \in DOMAIN wire : wire[i].seq < q)
                  /\ \A v \in Writers : v # w => writer[v].seq < q
      /\ q # 0 => (\A i \in DOMAIN wire : wire[i].ack <= k)
                  /\ \A v \in Writers : v # w => writer[v].ack <= k
  BY <1>1, <1>4 DEF Bounded
<1>7. Seqs' = Seqs /\ Held' \subseteq Held \cup {q}
  BY <1>2, <1>4 DEF Seqs, Held
<1>8. q # 0 => q \notin Seqs
  BY <1>1, <1>4, <1>6 DEF Seqs
<1>9. SeqUsedOnce'
  <2>1. (Seqs \cap Held \subseteq {0})'
    BY <1>7, <1>8 DEF SeqUsedOnce
  <2>2. (writer["serve"].seq = writer["dispatch"].seq => writer["serve"].seq = 0)'
    BY <1>1, <1>4, <1>6 DEF SeqUsedOnce, Writers
  <2>3. QED
    BY <1>2, <2>1, <2>2 DEF SeqUsedOnce
<1>10. NoSeqSkipped'
  <2>1. SUFFICES ASSUME socket' = "open", NEW n \in 1 .. outbound'
                 PROVE  n \in Seqs' \cup Held'
    BY DEF NoSeqSkipped
  <2>2. CASE n \in 1 .. outbound
    <3>1. n \in Seqs \/ \E v \in Writers : writer[v].seq = n
      BY <1>2, <2>1, <2>2 DEF NoSeqSkipped, Held
    <3>2. ASSUME NEW v \in Writers, writer[v].seq = n
          PROVE  writer'[v].seq = n
      BY <1>2, <1>4, <2>2, <3>2
    <3>3. QED
      BY <1>7, <3>1, <3>2 DEF Held
  <2>3. CASE n \notin 1 .. outbound
    <3>1. entry /\ n = outbound + 1
      BY <1>1, <1>2, <2>1, <2>3
    <3>2. n = q
      BY <1>4, <3>1
    <3>3. QED
      BY <1>4, <3>2 DEF Held
  <2>4. QED
    BY <2>2, <2>3
<1>11. Acknowledging'
  <2>1. AckFollowsSeq'
    BY <1>2 DEF Acknowledging, AckFollowsSeq
  <2>2. ASSUME NEW i \in DOMAIN wire, NEW v \in Writers
        PROVE  AckOrder(wire[i], writer'[v]) /\ AckOrder(writer'[v], wire[i])
    <3>1. CASE v = w
      BY <1>1, <1>4, <1>6, <3>1 DEF AckOrder
    <3>2. CASE v # w
      BY <1>4, <3>2 DEF Acknowledging, AckOrder
    <3>3. QED
      BY <3>1, <3>2
  <2>3. ASSUME NEW u \in Writers, NEW v \in Writers
        PROVE  AckOrder(writer'[u], writer'[v])
    <3>1. CASE u # w /\ v # w
      BY <1>4, <3>1 DEF Acknowledging, AckOrder
    <3>2. CASE u = w /\ v # w
      BY <1>1, <1>4, <1>6, <3>2 DEF AckOrder
    <3>3. CASE u # w /\ v = w
      BY <1>1, <1>4, <1>6, <3>3 DEF AckOrder
    <3>4. CASE u = w /\ v = w
      BY <1>4, <3>4 DEF AckOrder
    <3>5. QED
      BY <3>1, <3>2, <3>3, <3>4
  <2>4. QED
    BY <1>2, <2>1, <2>2, <2>3 DEF Acknowledging, AckOrder
<1>12. Unnumbered'
  <2>1. \A i \in DOMAIN wire : wire[i].seq # 0
    BY <1>2 DEF Unnumbered
  <2>2. QED
    BY <1>2, <1>4, <2>1 DEF Unnumbered, UnnumberedIsLast
<1>13. QED
  BY <1>5, <1>9, <1>10, <1>11, <1>12

\* What WriteMessage does to the messages, as far as their numbers are concerned
Wrote(w, ok) ==
    /\ UNCHANGED <<inbound, outbound, entry>>
    /\ writer[w].pc = "writing"
    /\ socket' = "open" => ok /\ socket = "open"
    /\ writer'[w].seq = 0 /\ writer'[w].ack = 0
    /\ writer'[w].pc \in {"idle", "stamp"}
    /\ ~entry => w = "dispatch" /\ \A v \in Writers : writer'[v].pc = "idle"
    /\ \A v \in Writers : v # w => writer'[v] = writer[v]
    /\ ~ok => wire' = wire
    /\ ok => /\ DOMAIN wire = 1 .. Len(wire) /\ Len(wire) \in Nat
             /\ DOMAIN wire' = 1 .. Len(wire) + 1 /\ Len(wire') = Len(wire) + 1
             /\ \A i \in DOMAIN wire : wire'[i] = wire[i]
             /\ wire'[Len(wire) + 1] = [seq |-> writer[w].seq, ack |-> writer[w].ack]

LEMMA WriteEffect ==
    ASSUME IInv, NEW w \in Writers, NEW ok \in BOOLEAN, Write(w, ok)
    PROVE  Wrote(w, ok)
<1> USE DEF IInv
<1>1. /\ UNCHANGED <<inbound, outbound, entry>>
      /\ writer[w].pc = "writing"
      /\ socket' = "open" => ok /\ socket = "open"
      /\ ~ok => wire' = wire
  BY DEF Write, WriteEnds
<1>2. /\ writer'[w] = [pc |-> IF w = "serve" /\ replies > 1 THEN "stamp" ELSE "idle",
                       seq |-> 0, ack |-> 0]
      /\ \A v \in Writers : v # w => writer'[v] = writer[v]
  BY DEF Write, WriteEnds, TypeOK
<1>3. ~entry => writer["serve"].pc = "idle"
  BY DEF EntryKept, Sending
<1>4. ~entry => w = "dispatch" /\ \A v \in Writers : writer'[v].pc = "idle"
  BY <1>1, <1>2, <1>3 DEF Writers
<1>5. ASSUME ok
      PROVE  /\ DOMAIN wire = 1 .. Len(wire) /\ Len(wire) \in Nat
             /\ DOMAIN wire' = 1 .. Len(wire) + 1 /\ Len(wire') = Len(wire) + 1
             /\ \A i \in DOMAIN wire : wire'[i] = wire[i]
             /\ wire'[Len(wire) + 1] = [seq |-> writer[w].seq, ack |-> writer[w].ack]
  <2> DEFINE msg == [seq |-> writer[w].seq, ack |-> writer[w].ack]
  <2>1. wire' = Append(wire, msg) /\ wire \in Seq(Message)
    BY <1>5 DEF Write, WriteEnds, TypeOK
  <2>2. msg \in Message
    BY DEF TypeOK, Call, Message
  <2> HIDE DEF msg
  <2>3. /\ DOMAIN wire = 1 .. Len(wire) /\ Len(wire) \in Nat
        /\ DOMAIN wire' = 1 .. Len(wire) + 1 /\ Len(wire') = Len(wire) + 1
        /\ \A i \in DOMAIN wire : wire'[i] = wire[i]
        /\ wire'[Len(wire) + 1] = msg
    BY <2>1, <2>2
  <2>4. QED
    BY <2>3 DEF msg
<1>6. QED
  BY <1>1, <1>2, <1>4, <1>5 DEF Wrote

LEMMA WriteNumbers ==
    ASSUME IInv, Numbering, NEW w \in Writers, NEW ok \in BOOLEAN, Write(w, ok)
    PROVE  Numbering'
<1> USE DEF Numbering
<1> DEFINE n == Len(wire) + 1
           q == writer[w].seq
           k == writer[w].ack
<1>0. /\ inbound \in Nat /\ outbound \in Nat
      /\ \A i \in DOMAIN wire : wire[i].seq \in Nat /\ wire[i].ack \in Nat
      /\ \A v \in Writers : writer[v].seq \in Nat /\ writer[v].ack \in Nat
  BY Numbers DEF IInv
<1>a. Wrote(w, ok)
  BY WriteEffect
<1>1. /\ UNCHANGED <<inbound, outbound, entry>>
      /\ writer[w].pc = "writing"
      /\ socket' = "open" => ok /\ socket = "open"
      /\ writer'[w].seq = 0 /\ writer'[w].ack = 0 /\ writer'[w].pc \in {"idle", "stamp"}
      /\ ~entry => w = "dispatch" /\ \A v \in Writers : writer'[v].pc = "idle"
      /\ \A v \in Writers : v # w => writer'[v] = writer[v]
      /\ ~ok => wire' = wire
  BY <1>a DEF Wrote
<1>2. ok => /\ DOMAIN wire' = DOMAIN wire \cup {n} /\ n \notin DOMAIN wire
            /\ Len(wire') = n
            /\ \A i \in DOMAIN wire : wire'[i] = wire[i]
            /\ wire'[n].seq = q /\ wire'[n].ack = k
  BY <1>a DEF Wrote
<1>3. q \in Nat /\ k \in Nat
  BY <1>0
<1>4. /\ \A i \in DOMAIN wire : /\ wire[i].seq = q => q = 0
                                /\ AckOrder(wire[i], writer[w])
                                /\ AckOrder(writer[w], wire[i])
                                /\ wire[i].seq # 0
      /\ \A v \in Writers : v # w /\ writer[v].seq = q => q = 0
      /\ q <= outbound /\ k <= inbound
      /\ q = 0 => ~entry
  <2>1. \A i \in DOMAIN wire : wire[i].seq = q => q = 0
    BY DEF SeqUsedOnce, Seqs, Held
  <2>2. \A v \in Writers : v # w /\ writer[v].seq = q => q = 0
    BY DEF SeqUsedOnce, Writers
  <2>3. QED
    BY <1>1, <2>1, <2>2 DEF Acknowledging, Bounded, Unnumbered
<1> HIDE DEF n, q, k
<1>5. Bounded'
  BY <1>0, <1>1, <1>2, <1>4 DEF Bounded
<1>6. /\ Seqs' = IF ok THEN Seqs \cup {q} ELSE Seqs
      /\ Held' \subseteq Held \cup {0}
      /\ Held \subseteq Held' \cup {q}
      /\ q \in Held' => q = 0
  <2>1. Seqs' = IF ok THEN Seqs \cup {q} ELSE Seqs
    <3>1. CASE ok
      <4>1. \A x : x \in Seqs' <=> \E i \in DOMAIN wire \cup {n} : wire'[i].seq = x
        BY <1>2, <3>1 DEF Seqs
      <4>2. QED
        BY <1>2, <3>1, <4>1 DEF Seqs
    <3>2. CASE ~ok
      BY <1>1, <3>2 DEF Seqs
    <3>3. QED
      BY <3>1, <3>2
  <2>2. Held' \subseteq Held \cup {0}
    BY <1>1 DEF Held
  <2>3. Held \subseteq Held' \cup {q}
    BY <1>1 DEF Held, q
  <2>4. q \in Held' => q = 0
    BY <1>1, <1>4 DEF Held
  <2>5. QED
    BY <2>1, <2>2, <2>3, <2>4
<1>7. SeqUsedOnce'
  <2>1. (\A i, j \in DOMAIN wire : wire[i].seq = wire[j].seq /\ wire[i].seq # 0 => i = j)'
    BY <1>1, <1>2, <1>4 DEF SeqUsedOnce
  <2>2. (Seqs \cap Held \subseteq {0})'
    BY <1>6 DEF SeqUsedOnce
  <2>3. (writer["serve"].seq = writer["dispatch"].seq => writer["serve"].seq = 0)'
    BY <1>1 DEF SeqUsedOnce, Writers
  <2>4. QED
    BY <2>1, <2>2, <2>3 DEF SeqUsedOnce
<1>8. NoSeqSkipped'
  BY <1>1, <1>6 DEF NoSeqSkipped
<1>9. Acknowledging'
  <2>1. AckFollowsSeq'
    <3>1. CASE ~ok
      BY <1>1, <3>1 DEF Acknowledging, AckFollowsSeq
    <3>2. CASE ok
      <4>1. ASSUME NEW i \in DOMAIN wire', NEW j \in DOMAIN wire',
                   0 < wire'[i].seq, wire'[i].seq < wire'[j].seq
            PROVE  wire'[i].ack <= wire'[j].ack
        <5>1. CASE i \in DOMAIN wire /\ j \in DOMAIN wire
          BY <1>2, <3>2, <4>1, <5>1 DEF Acknowledging, AckFollowsSeq
        <5>2. CASE i \in DOMAIN wire /\ j = n
          BY <1>2, <1>4, <3>2, <4>1, <5>2 DEF AckOrder, q, k
        <5>3. CASE i = n /\ j \in DOMAIN wire
          BY <1>2, <1>4, <3>2, <4>1, <5>3 DEF AckOrder, q, k
        <5>4. CASE i = n /\ j = n
          BY <1>2, <1>3, <3>2, <4>1, <5>4
        <5>5. QED
          BY <1>2, <3>2, <5>1, <5>2, <5>3, <5>4
      <4>2. QED
        BY <4>1 DEF AckFollowsSeq
    <3>3. QED
      BY <3>1, <3>2
  <2>2. ASSUME NEW i \in DOMAIN wire', NEW v \in Writers
        PROVE  AckOrder(wire'[i], writer'[v]) /\ AckOrder(writer'[v], wire'[i])
    <3>1. wire'[i].seq \in Nat
      BY <1>0, <1>1, <1>2, <1>3
    <3>2. CASE v = w
      BY <1>1, <3>1, <3>2 DEF AckOrder
    <3>3. CASE v # w /\ i \in DOMAIN wire
      BY <1>1, <1>2, <3>3 DEF Acknowledging, AckOrder
    <3>4. CASE v # w /\ i \notin DOMAIN wire
      BY <1>1, <1>2, <3>4 DEF Acknowledging, AckOrder, q, k
    <3>5. QED
      BY <3>2, <3>3, <3>4
  <2>3. ASSUME NEW u \in Writers, NEW v \in Writers
        PROVE  AckOrder(writer'[u], writer'[v])
    BY <1>0, <1>1 DEF Acknowledging, AckOrder
  <2>4. QED
    BY <2>1, <2>2, <2>3 DEF Acknowledging, AckOrder
<1>10. Unnumbered'
  BY <1>1, <1>2, <1>4 DEF Unnumbered, UnnumberedIsLast
<1>11. QED
  BY <1>5, <1>7, <1>8, <1>9, <1>10

LEMMA NextNumbering == IInv /\ Numbering /\ [Next]_vars => Numbering'
<1> SUFFICES ASSUME IInv, Numbering, [Next]_vars
             PROVE  Numbering'
  OBVIOUS
<1> USE DEF IInv, TypeOK, Quiet
<1>1. ASSUME NEW n \in 0 .. 2, NEW where, Answer(n, where)
      PROVE  Quiet
  <2>1. inbound' \in Nat /\ inbound' >= inbound
    BY <1>1 DEF Answer
  <2>2. serve = "reading" /\ entry /\ entry' = entry
    BY <1>1 DEF Answer, EntryKept
  <2>3. writer["serve"].pc = "idle"
    BY <2>2 DEF Sending
  <2>4. \A w \in Writers : /\ writer'[w].seq = writer[w].seq /\ writer'[w].ack = writer[w].ack
                           /\ writer'[w].pc = writer[w].pc \/ writer'[w].pc = "stamp"
    BY <1>1 DEF Answer, Call
  <2>5. QED
    BY <1>1, <2>1, <2>2, <2>4 DEF Answer
<1>2. CASE Register \/ Heartbeat \/ Other \/ Flood \/ Duplicate
  BY <1>1, <1>2, QuietStep DEF Register, Heartbeat, Other, Flood, Duplicate
<1>3. CASE Gap \/ ReadFails \/ Dismiss \/ RemoveConnection \/ CloseSocket
  <2>1. Quiet
    BY <1>3 DEF Gap, ReadFails, Dismiss, RemoveConnection, CloseSocket, CloseFrame
  <2>2. QED
    BY <2>1, QuietStep
<1>4. CASE CloseAll \/ PingFails \/ UNCHANGED vars
  <2>1. Quiet
    BY <1>4 DEF CloseAll, PingFails, CloseFrame, vars
  <2>2. QED
    BY <2>1, QuietStep
<1>5. CASE Dispatch
  <2>1. \A w \in Writers : /\ writer'[w].seq = writer[w].seq /\ writer'[w].ack = writer[w].ack
                           /\ writer'[w].pc = writer[w].pc \/ writer'[w].pc = "stamp"
    BY <1>5 DEF Dispatch, Call
  <2>2. Quiet
    BY <1>5, <2>1 DEF Dispatch
  <2>3. QED
    BY <2>2, QuietStep
<1>6. ASSUME NEW w \in Writers, Lock(w)
      PROVE  Numbering'
  <2>1. \A v \in Writers : /\ writer'[v].seq = writer[v].seq /\ writer'[v].ack = writer[v].ack
                           /\ v # w => writer'[v].pc = writer[v].pc
    BY <1>6 DEF Lock, Call
  <2>2. writer[w].pc = "write"
    BY <1>6 DEF Lock
  <2>3. Quiet
    BY <1>6, <2>1, <2>2 DEF Lock
  <2>4. QED
    BY <2>3, QuietStep
<1>7. ASSUME NEW w \in Writers, SendStep(w)
      PROVE  Numbering'
  BY <1>6, <1>7, StampNumbers, WriteNumbers DEF SendStep
<1>8. QED
  BY <1>2, <1>3, <1>4, <1>5, <1>7 DEF Next, Receive, Leave

LEMMA NumberingHolds == Spec => []Numbering
<1>1. Init => IInv /\ Numbering
  BY InitIInv, InitNumbering
<1>2. (IInv /\ Numbering) /\ [Next]_vars => (IInv /\ Numbering)'
  BY NextIInv, NextNumbering
<1>3. QED
  BY <1>1, <1>2, PTL DEF Spec

\* For any number of messages no seq is given out twice, although the number is
\* taken under one lock and the message written under another (nextOutboundSeqAck).
THEOREM SeqsAreUnique == Spec => []SeqUsedOnce
<1>1. Numbering => SeqUsedOnce
  BY DEF Numbering
<1>2. QED
  BY <1>1, NumberingHolds, PTL

\* For any number of messages a seq the trader misses on a healthy connection is
\* still in the hands of a writer (sendEnvelope drops no stamped message).
THEOREM SeqsAreComplete == Spec => []NoSeqSkipped
<1>1. Numbering => NoSeqSkipped
  BY DEF Numbering
<1>2. QED
  BY <1>1, NumberingHolds, PTL

\* When a message is written, every lower number that is not on the wire is the other
\* writer's.
LEMMA WriteOvertakesOne ==
    ASSUME IInv, Numbering, OneOvertaken, NEW w \in Writers, NEW ok \in BOOLEAN, Write(w, ok)
    PROVE  OneOvertaken'
<1>1. Wrote(w, ok)
  BY WriteEffect
<1>2. CASE ~ok
  <2>1. wire' = wire
    BY <1>1, <1>2 DEF Wrote
  <2>2. QED
    BY <2>1 DEF OneOvertaken
<1>3. CASE ok
  <2> DEFINE new == Len(wire) + 1
             q == writer[w].seq
  <2>1. /\ DOMAIN wire = 1 .. Len(wire) /\ Len(wire) \in Nat
        /\ DOMAIN wire' = 1 .. new
        /\ \A i \in DOMAIN wire : wire'[i] = wire[i]
        /\ wire'[new].seq = q
    BY <1>1, <1>3 DEF Wrote
  <2>2. outbound \in Nat /\ q \in Nat /\ q <= outbound
    BY Numbers DEF IInv, Numbering, Bounded
  <2>3. 1 .. outbound \subseteq Seqs \cup Held
    BY <1>3 DEF Numbering, NoSeqSkipped, Write, WriteEnds
  <2> HIDE DEF q
  <2>4. SUFFICES ASSUME NEW i \in DOMAIN wire',
                        NEW m \in 1 .. wire'[i].seq, NEW n \in 1 .. wire'[i].seq,
                        \A j \in 1 .. i : wire'[j].seq # m /\ wire'[j].seq # n
                 PROVE  m = n
    BY DEF OneOvertaken
  <2>5. CASE i \in DOMAIN wire
    <3>1. \A j \in 1 .. i : wire'[j] = wire[j]
      BY <2>1, <2>5
    <3>2. QED
      BY <2>1, <2>4, <2>5, <3>1 DEF OneOvertaken
  <2>6. CASE i = new
    <3>1. \A j \in DOMAIN wire : wire[j].seq # m /\ wire[j].seq # n
      BY <2>1, <2>4, <2>6
    <3>2. m # q /\ n # q /\ m \in 1 .. outbound /\ n \in 1 .. outbound
      BY <2>1, <2>2, <2>4, <2>6
    <3>3. m \in Held /\ n \in Held
      BY <2>3, <3>1, <3>2 DEF Seqs
    <3>4. QED
      BY <3>2, <3>3 DEF Held, Writers, q
  <2>7. QED
    BY <2>1, <2>5, <2>6
<1>4. QED
  BY <1>2, <1>3

\* For any number of messages the trader is never missing more than one number below
\* the one it has just got: a message is overtaken only while the other writer sends
\* (sendEnvelope between seqMu and writeMu).
THEOREM OneIsOvertaken == Spec => []OneOvertaken
<1>1. Init => OneOvertaken
  BY DEF Init, OneOvertaken
<1>2. IInv /\ Numbering /\ OneOvertaken /\ [Next]_vars => OneOvertaken'
  <2> SUFFICES ASSUME IInv, Numbering, OneOvertaken, [Next]_vars
               PROVE  OneOvertaken'
    OBVIOUS
  <2>1. wire' = wire => OneOvertaken'
    BY DEF OneOvertaken
  <2>2. ASSUME NEW w \in Writers, SendStep(w)
        PROVE  OneOvertaken'
    BY <2>1, <2>2, WriteOvertakesOne DEF SendStep, Stamp, Lock
  <2>3. CASE Receive \/ Leave \/ Dispatch \/ CloseAll \/ PingFails \/ UNCHANGED vars
    BY <2>1, <2>3 DEF Receive, Register, Heartbeat, Other, Flood, Duplicate, Answer, Gap,
                      ReadFails, Leave, Dismiss, RemoveConnection, CloseSocket, Dispatch,
                      CloseAll, PingFails, vars
  <2>4. QED
    BY <2>2, <2>3 DEF Next
<1>3. QED
  BY <1>1, <1>2, InvariantHolds, NumberingHolds, PTL DEF Spec

\* For any number of messages acknowledgements grow with the seq, in whatever order
\* the messages reach the wire.
THEOREM AcksFollowSeqs == Spec => []AckFollowsSeq
<1>1. Numbering => AckFollowsSeq
  BY DEF Numbering, Acknowledging
<1>2. QED
  BY <1>1, NumberingHolds, PTL

\* A message that slips out without a number, after removeConnection, is the last.
THEOREM UnnumberedComesLast == Spec => []UnnumberedIsLast
<1>1. Numbering => UnnumberedIsLast
  BY DEF Numbering, Unnumbered
<1>2. QED
  BY <1>1, NumberingHolds, PTL

-----------------------------------------------------------------------------
(* How long a send takes.                                                  *)

\* The steps a writer has still to take: for its message, and for the n messages that
\* Serve owes, of which this is the first.
SendLeft(w, call, n) ==
    (CASE call.pc = "stamp" -> 3
       [] call.pc = "write" -> 2
       [] call.pc = "writing" -> 1
       [] OTHER -> 0) + (IF w = "serve" /\ n = 2 THEN 3 ELSE 0)

\* writeMu is held by a writer that is in WriteMessage, never by one that has returned.
HolderIsWriting == \A w \in Writers : writeMu = w => writer[w].pc = "writing"

\* A writer has at most two messages to send, each of its steps leaves it less to do,
\* nobody else's step touches its message, and what it may have to wait for is the
\* other's WriteMessage.
SendBounded(w) ==
    /\ writer[w].pc # "idle" =>
        /\ SendLeft(w, writer[w], replies) \in 1 .. 6
        /\ SendStep(w) => SendLeft(w, writer'[w], replies') < SendLeft(w, writer[w], replies)
        /\ ~SendStep(w) => writer'[w] = writer[w] /\ (w = "serve" => replies' = replies)
    /\ writer[w].pc = "write" /\ writeMu # "free" =>
        \E v \in Writers \ {w} : writeMu = v /\ writer[v].pc = "writing"

\* Only a writer's own steps, and the receipt or the sweep that starts it, touch it.
LEMMA ForeignSteps ==
    ASSUME IInv, [Next]_vars, NEW w \in Writers, ~SendStep(w)
    PROVE  /\ writer[w].pc # "idle" =>
                  writer'[w] = writer[w] /\ (w = "serve" => replies' = replies)
           /\ writeMu' = writeMu \/ \E v \in Writers \ {w} : SendStep(v)
<1> USE DEF IInv, TypeOK, Writers
<1>1. ASSUME NEW n \in 0 .. 2, NEW where, Answer(n, where)
      PROVE  /\ writer'["dispatch"] = writer["dispatch"] /\ writer["serve"].pc = "idle"
             /\ writeMu' = writeMu
  BY <1>1 DEF Answer, Sending
<1>2. CASE Register \/ Heartbeat \/ Other \/ Flood \/ Duplicate
  <2>1. \E n \in 0 .. 2 : \E where \in {"replying", "parting", "dismissing"} : Answer(n, where)
    BY <1>2 DEF Register, Heartbeat, Other, Flood, Duplicate
  <2> QED  BY <1>1, <2>1
<1>3. CASE Gap \/ ReadFails \/ Leave \/ CloseAll \/ PingFails \/ UNCHANGED vars
  BY <1>3 DEF Gap, ReadFails, Leave, Dismiss, RemoveConnection, CloseSocket, CloseAll,
              PingFails, vars
<1>4. CASE Dispatch
  BY <1>4 DEF Dispatch
<1>5. ASSUME NEW v \in Writers, SendStep(v)
      PROVE  v # w /\ writer'[w] = writer[w] /\ (w = "serve" => replies' = replies)
  <2>1. v # w  BY <1>5
  <2> QED  BY <1>5, <2>1 DEF SendStep, Stamp, Lock, Write, WriteEnds
<1> QED  BY <1>2, <1>3, <1>4, <1>5 DEF Next, Receive

\* What a writer's own step does to it and to writeMu
LEMMA OwnSteps ==
    ASSUME IInv, NEW w \in Writers, SendStep(w)
    PROVE  \/ /\ writer[w].pc = "stamp" /\ writer'[w].pc = "write"
              /\ replies' = replies /\ writeMu' = writeMu
           \/ /\ writer[w].pc = "write" /\ writer'[w].pc = "writing"
              /\ replies' = replies /\ (writeMu' = w \/ writeMu' = writeMu)
           \/ /\ writer[w].pc = "writing" /\ writeMu' # w
              /\ writeMu' = writeMu \/ writeMu' = "free"
              /\ writer'[w].pc = IF w = "serve" /\ replies > 1 THEN "stamp" ELSE "idle"
              /\ replies' = IF w = "serve" THEN replies - 1 ELSE replies
<1> USE DEF IInv, TypeOK, Writers, Call
<1>1. CASE Stamp(w)  BY <1>1 DEF Stamp
<1>2. CASE Lock(w)  BY <1>2 DEF Lock
<1>3. ASSUME NEW ok \in BOOLEAN, Write(w, ok)
      PROVE  /\ writer[w].pc = "writing" /\ writeMu' # w
             /\ writeMu' = writeMu \/ writeMu' = "free"
             /\ writer'[w].pc = IF w = "serve" /\ replies > 1 THEN "stamp" ELSE "idle"
             /\ replies' = IF w = "serve" THEN replies - 1 ELSE replies
  BY <1>3 DEF Write, WriteEnds
<1> QED  BY <1>1, <1>2, <1>3 DEF SendStep

LEMMA NextHolderIsWriting ==
    ASSUME IInv, HolderIsWriting, [Next]_vars
    PROVE  HolderIsWriting'
<1> SUFFICES ASSUME NEW w \in Writers, writeMu' = w
             PROVE  writer'[w].pc = "writing"
  BY DEF HolderIsWriting
<1> USE DEF Writers
<1>1. CASE SendStep(w)
  BY <1>1, OwnSteps DEF HolderIsWriting
<1>2. CASE ~SendStep(w)
  <2>1. writeMu = w
    BY <1>2, ForeignSteps, OwnSteps
  <2> QED  BY <1>2, <2>1, ForeignSteps DEF HolderIsWriting
<1> QED  BY <1>1, <1>2

LEMMA SendsNearer ==
    ASSUME IInv, HolderIsWriting, [Next]_vars, NEW w \in Writers
    PROVE  SendBounded(w)
<1>1. /\ writer[w].pc \in {"idle", "stamp", "write", "writing"} /\ replies \in 0 .. 2
      /\ writeMu \in Writers \cup {"free"}
  BY DEF IInv, TypeOK, Call
<1>2. writer[w].pc # "idle" => SendLeft(w, writer[w], replies) \in 1 .. 6
  BY <1>1 DEF SendLeft
<1>3. ASSUME SendStep(w)
      PROVE  SendLeft(w, writer'[w], replies') < SendLeft(w, writer[w], replies)
  <2>1. w = "serve" /\ writer[w].pc = "writing" => replies # 0
    BY DEF IInv, Sending
  <2> QED  BY <1>1, <1>3, <2>1, OwnSteps DEF SendLeft
<1>4. writer[w].pc # "idle" /\ ~SendStep(w) =>
          writer'[w] = writer[w] /\ (w = "serve" => replies' = replies)
  BY ForeignSteps
<1>5. writer[w].pc = "write" /\ writeMu # "free" =>
          \E v \in Writers \ {w} : writeMu = v /\ writer[v].pc = "writing"
  BY <1>1 DEF HolderIsWriting
<1> QED  BY <1>2, <1>3, <1>4, <1>5 DEF SendBounded

\* A send takes at most six steps of its writer, whatever fails and whatever the other
\* writer does, and waits at most for the other's WriteMessage: writeMu is never left
\* locked, also when a write fails or the entry is removed under way (sendEnvelope,
\* writeMessage).  SendReturns follows with the fairness of the lock.
THEOREM SendsAreBounded == Spec => [][\A w \in Writers : SendBounded(w)]_vars
<1>1. Init => HolderIsWriting
  BY DEF Init, HolderIsWriting, Writers
<1>2. IInv /\ HolderIsWriting /\ [Next]_vars => HolderIsWriting'
  BY NextHolderIsWriting
<1>3. IInv /\ HolderIsWriting /\ [Next]_vars => [\A w \in Writers : SendBounded(w)]_vars
  BY SendsNearer
<1>4. QED
  BY <1>1, <1>2, <1>3, InvariantHolds, PTL DEF Spec
=============================================================================
