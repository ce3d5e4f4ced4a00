------------------------ MODULE ServiceRuntimeProofs ------------------------
(***************************************************************************)
(* Proofs about ServiceRuntime for any connections, any number of attempts *)
(* and any number of clients: types, the copies of the disconnect counters,*)
(* what CloseAll may conclude, the verdict of the health request, and the  *)
(* bounds on the start, the request and CloseAll.                          *)
(***************************************************************************)
EXTENDS ServiceRuntime, FiniteSetTheorems, TLAPS

-----------------------------------------------------------------------------
(* Types.                                                                  *)

LEMMA NoCountsType == NoCounts \in Counts
  BY DEF NoCounts, Counts, Reasons

LEMMA CountedType ==
    ASSUME counts \in Counts, NEW r \in Reasons
    PROVE  Counted(r) \in Counts
  BY DEF Counted, Counts

LEMMA ClassifyType == \A err \in ReadErrors : Classify(err) \in Reasons
  BY DEF Classify, Reasons, ReadErrors

\* A connection's own steps keep the types.
LEMMA ConnTypes ==
    ASSUME ConnTypeOK, NEW c \in Conns, Accept(c) \/ ConnInput(c) \/ ConnStep(c)
    PROVE  ConnTypeOK'
<1> USE DEF ConnTypeOK, Locations
<1>1. ASSUME NEW r \in Reasons, NEW why \in Reasons \cup {"gap"},
             RecordDisconnect(c, r, why)
      PROVE  ConnTypeOK'
  BY <1>1, CountedType DEF RecordDisconnect, Goto
<1>2. ASSUME NEW err \in Failures, ReadFails(c, err)
      PROVE  ConnTypeOK'
  BY <1>1, <1>2, ClassifyType, ConnAssumption DEF ReadFails
<1>3. CASE SequenceGap(c)
  BY <1>1, <1>3 DEF SequenceGap, Reasons
<1>4. CASE Accept(c)  BY <1>4 DEF Accept, Goto
<1>5. CASE AddConnection(c)  BY <1>5 DEF AddConnection, Goto
<1>6. ASSUME NEW heard \in BOOLEAN, OpenSession(c, heard)
      PROVE  ConnTypeOK'
  BY <1>6 DEF OpenSession, Goto
<1>11. CASE ShowSession(c)  BY <1>11 DEF ShowSession, Goto
<1>7. CASE Dismiss(c)  BY <1>7 DEF Dismiss, Goto
<1>8. CASE SyncRuntimeDisconnect(c)
  BY <1>8, NoCountsType DEF SyncRuntimeDisconnect, Goto
<1>9. ASSUME NEW ok \in BOOLEAN, FinishSession(c, ok)
      PROVE  ConnTypeOK'
  BY <1>9 DEF FinishSession, Goto
<1>10. CASE RemoveConnection(c)  BY <1>10 DEF RemoveConnection, Goto
<1> QED
  BY <1>2, <1>3, <1>4, <1>5, <1>6, <1>7, <1>8, <1>9, <1>10, <1>11 DEF ConnInput, ConnStep

LEMMA LoadTypes ==
    ASSUME ConnTypeOK, Load
    PROVE  ConnTypeOK'
  BY NoCountsType, ConnAssumption DEF ConnTypeOK, Load

LEMMA CloseTypes ==
    ASSUME ConnTypeOK, StartCloseAll \/ CloseAllStep
    PROVE  ConnTypeOK'
<1> USE DEF ConnTypeOK, servesUnchanged
<1>1. CASE StartCloseAll  BY <1>1 DEF StartCloseAll
<1>2. ASSUME NEW c \in Conns, SendClose(c)
      PROVE  ConnTypeOK'
  BY <1>2 DEF SendClose
<1>3. CASE SeesClosed
  <2>1. closer.waiting \in Conns  BY <1>3 DEF SeesClosed
  <2> QED  BY <1>3, <2>1 DEF SeesClosed
<1>4. CASE WaitTimesOut  BY <1>4 DEF WaitTimesOut
<1> QED  BY <1>1, <1>2, <1>3, <1>4 DEF CloseAllStep

LEMMA CallTypes ==
    ASSUME CallTypeOK, CallStep
    PROVE  CallTypeOK'
<1> USE DEF CallTypeOK, Call, Ended, Failed
<1>1. CASE Send  BY <1>1 DEF Send
<1>2. CASE Lose  BY <1>2 DEF Lose
<1>3. CASE Wake
  <2>1. call' = [pc |-> "do", attempt |-> call.attempt + 1, result |-> call.result]
    BY <1>3 DEF Wake
  <2> QED  BY <1>3, <2>1 DEF Wake
<1>4. ASSUME NEW answer \in Answers, Receive(answer)
      PROVE  CallTypeOK'
  BY <1>4 DEF Receive, Answers
<1> QED  BY <1>1, <1>2, <1>3, <1>4 DEF CallStep

LEMMA StartCallTypes ==
    ASSUME CallTypeOK, StartCall, expired' = expired
    PROVE  CallTypeOK'
  BY DEF CallTypeOK, Call, StartCall, NoCall

LEMMA NoPings == 0 \in 0 .. MaxPings
  BY DEF MaxPings

LEMMA EndCallTypes ==
    ASSUME CallTypeOK, EndCall, expired' = expired
    PROVE  CallTypeOK'
  BY DEF CallTypeOK, Call, EndCall, NoCall

\* The steps of the start change what main, its pings and its calls are, and no more.
LEMMA StartTypes ==
    ASSUME TypeOK, StartStep \/ StartAborts
    PROVE  /\ CallTypeOK'
           /\ main' \in Starting \cup {"running", "stopped"}
           /\ pings' \in 0 .. MaxPings /\ (main' = "database" => pings' < MaxPings)
<1> USE DEF TypeOK, Starting, SelfTest, MaxPings, startOnly
<1>1. CASE PingFails
  BY <1>1 DEF PingFails, CallTypeOK
<1>2. CASE PingAnswers
  <2>1. CallTypeOK'
    BY <1>2 DEF PingAnswers, CallTypeOK
  <2>2. main' = "list" /\ pings' = 0
    BY <1>2 DEF PingAnswers
  <2>3. main' \in Starting /\ main' # "database"
    BY <2>2
  <2>4. pings' \in 0 .. MaxPings
    BY <2>2, NoPings
  <2> QED  BY <2>1, <2>3, <2>4
<1>8. CASE ListTraders
  BY <1>8, StartCallTypes DEF ListTraders
<1>3. ASSUME NEW refused \in BOOLEAN, TradingEncrypted(refused)
      PROVE  CallTypeOK' /\ main' \in SelfTest /\ pings' = pings
  BY <1>3, StartCallTypes DEF TradingEncrypted
<1>4. CASE TradingDecrypted
  BY <1>4, StartCallTypes DEF TradingDecrypted
<1>5. ASSUME NEW refused \in BOOLEAN, TwoFAEncrypted(refused)
      PROVE  CallTypeOK' /\ main' \in {"decrypt 2fa", "prepare"} /\ pings' = pings
  BY <1>5, StartCallTypes, EndCallTypes DEF TwoFAEncrypted
<1>6. CASE TwoFADecrypted
  BY <1>6, EndCallTypes DEF TwoFADecrypted
<1>7. CASE Prepare \/ StartAborts
  BY <1>7 DEF Prepare, StartAborts, CallTypeOK, callVars
<1> QED
  BY <1>1, <1>2, <1>3, <1>4, <1>5, <1>6, <1>7, <1>8 DEF StartStep, DatabaseStarts, StartGoesOn

\* Nothing but Load touches the connections and their counters before the server runs.
LEMMA StartElsewhere ==
    ASSUME StartStep \/ StartAborts
    PROVE  /\ UNCHANGED <<expired, health, clients>>
           /\ UNCHANGED connVars \/ (main = "prepare" /\ Load)
  BY DEF StartStep, DatabaseStarts, StartGoesOn, StartAborts, PingFails, PingAnswers, ListTraders,
         TradingEncrypted, TradingDecrypted, TwoFAEncrypted, TwoFADecrypted, Prepare, startOnly,
         callVars

LEMMA OnlyAtTheStart ==
    ASSUME StartStep \/ StartAborts
    PROVE  main \in Starting
  BY DEF StartStep, DatabaseStarts, StartGoesOn, StartAborts, PingFails, PingAnswers, ListTraders,
         TradingEncrypted, TradingDecrypted, TwoFAEncrypted, TwoFADecrypted, Prepare, Starting,
         SelfTest

\* All variables of the process keep their types: in particular what GetState
\* returns is always a complete set of counters.
THEOREM TypeCorrect == Spec => []TypeOK
<1>1. Init => TypeOK
  <2> SUFFICES ASSUME Init PROVE TypeOK
    OBVIOUS
  <2>1. ConnTypeOK
    BY NoCountsType DEF Init, ConnInit, ConnTypeOK, Locations
  <2>2. CallTypeOK
    BY DEF Init, CallTypeOK, Call, NoCall
  <2>3. health \in Health
    BY DEF Init, Health, NoHealth
  <2> QED  BY <2>1, <2>2, <2>3 DEF Init, TypeOK, Starting, MaxPings
<1>2. TypeOK /\ [Next]_vars => TypeOK'
  <2> SUFFICES ASSUME TypeOK, [Next]_vars PROVE TypeOK'
    OBVIOUS
  <2> USE DEF TypeOK
  <2>1. CASE UNCHANGED vars
    BY <2>1 DEF vars, connVars, callVars, ConnTypeOK, CallTypeOK
  <2>2. ASSUME NEW c \in Conns, Connect(c) \/ Input(c) \/ Serve(c)
        PROVE  TypeOK'
    BY <2>2, ConnTypes DEF Connect, Input, Serve, callVars, CallTypeOK
  <2>3. CASE Arrive \/ Expire \/ Done
    <3>1. NoHealth \in Health /\ [NoHealth EXCEPT !.pc = "ping"] \in Health
      BY DEF Health, NoHealth
    <3>2. health' \in Health /\ clients' \in Nat /\ main' = main /\ pings' = pings
      BY <2>3, <3>1 DEF Arrive, Expire, Done
    <3>3. ConnTypeOK' /\ CallTypeOK'
      BY <2>3 DEF Arrive, Expire, Done, connVars, ConnTypeOK, CallTypeOK
    <3> QED  BY <3>2, <3>3
  <2>4. CASE HSMStep
    BY <2>4, CallTypes DEF HSMStep, connVars, ConnTypeOK
  <2>5. ASSUME NEW result \in {"ok", "error"}, PingDatabase(result)
        PROVE  TypeOK'
    BY <2>5, StartCallTypes DEF PingDatabase, connVars, ConnTypeOK, Health
  <2>6. CASE TradingChecked
    <3>1. Evidence \in {"none", "answered", "refused", "exhausted"}  BY DEF Evidence
    <3>2. call.result \in {"ok", "error"}  BY DEF CallTypeOK, Call
    <3> QED
      BY <2>6, <3>1, <3>2, StartCallTypes DEF TradingChecked, connVars, ConnTypeOK, Health
  <2>7. CASE TwoFAChecked
    BY <2>7 DEF TwoFAChecked, EndCall, connVars, ConnTypeOK, CallTypeOK, Call, NoCall, Health
  <2>8. CASE Respond
    BY <2>8 DEF Respond, connVars, callVars, ConnTypeOK, CallTypeOK, Health
  <2>9. CASE SchedulerStopped
    BY <2>9, CloseTypes DEF SchedulerStopped, mainOnly, callVars, CallTypeOK, Starting, SelfTest
  <2>10. CASE Close
    BY <2>10, CloseTypes DEF Close, mainOnly, callVars, CallTypeOK
  <2>11. CASE Signal \/ ServerFails \/ Shutdown \/ Exit
    BY <2>11 DEF Signal, ServerFails, Shutdown, Exit, mainOnly, connVars, callVars, ConnTypeOK, CallTypeOK
  <2>12. CASE StartStep \/ StartAborts
    BY <2>12, StartTypes, StartElsewhere, LoadTypes DEF connVars, ConnTypeOK
  <2> QED
    BY <2>1, <2>2, <2>3, <2>4, <2>5, <2>6, <2>7, <2>8, <2>9, <2>10, <2>11, <2>12
       DEF Next, HealthStep, DatabasePinged, HealthGoesOn, MainStep
<1> QED  BY <1>1, <1>2, PTL DEF Spec

-----------------------------------------------------------------------------
(* The copies of the counters.  Inductive invariant: every set of counters  *)
(* that is around, counted, about to be published or published, is          *)
(* consistent and was counted at some time; what Load has found is          *)
(* consistent, and is there only until the first publication.               *)

\* Nothing in k is ahead of what has been counted.
Past(k) == \A r \in Reasons : k.byReason[r] <= counts.byReason[r]

CopiesInv ==
    /\ Consistent(counts)
    /\ Consistent(runtime) /\ (Published => Past(runtime))
    /\ \A c \in Conns : Consistent(local[c]) /\ Past(local[c])

\* Nobody is served during the start, and whoever is dismissed publishes nothing.
ServeInv ==
    /\ main \in Starting => \A c \in Conns : serve[c] = "idle"
    /\ \A c \in Conns : cause[c] = "dismissed" => serve[c] \in {"removing", "gone"}

LEMMA NoCountsConsistent == Consistent(NoCounts)
  BY DEF Consistent, NoCounts, Reasons

LEMMA CountedConsistent ==
    ASSUME counts \in Counts, Consistent(counts), NEW r \in Reasons
    PROVE  /\ Consistent(Counted(r))
           /\ \A q \in Reasons : counts.byReason[q] <= Counted(r).byReason[q]
  BY DEF Counts, Consistent, Counted, Reasons

LEMMA ServeKept ==
    ASSUME TypeOK, ServeInv, [Next]_vars
    PROVE  ServeInv'
<1> USE DEF ServeInv
<1>0. /\ serve \in [Conns -> Locations]
      /\ cause \in [Conns -> Reasons \cup {"none", "gap", "dismissed", "unfinalized"}]
  BY DEF TypeOK, ConnTypeOK
<1>1. ASSUME NEW c \in Conns, Connect(c)
      PROVE  ServeInv'
  <2>1. main \notin Starting /\ main' = main
    BY <1>1 DEF Connect, Listening, Starting, SelfTest
  <2> QED  BY <1>0, <1>1, <2>1 DEF Connect, Accept, Goto
<1>2. ASSUME NEW c \in Conns, Input(c) \/ Serve(c)
      PROVE  ServeInv'
  <2>1. main' = main
    BY <1>2 DEF Input, Serve
  <2>2. serve[c] # "idle"
    BY <1>2 DEF Input, Serve, ConnInput, ConnStep, AddConnection, OpenSession, ShowSession,
                ReadFails, SequenceGap, RecordDisconnect, Dismiss, SyncRuntimeDisconnect,
                FinishSession, RemoveConnection, Goto
  <2>3. main' \notin Starting
    BY <2>1, <2>2
  <2>4. ASSUME NEW r \in Reasons, NEW why \in Reasons \cup {"gap"}, RecordDisconnect(c, r, why)
        PROVE  ServeInv'
    BY <1>0, <2>3, <2>4 DEF RecordDisconnect, Goto, Reasons
  <2>5. ASSUME NEW err \in Failures, ReadFails(c, err)
        PROVE  ServeInv'
    BY <2>4, <2>5, ClassifyType, ConnAssumption DEF ReadFails
  <2>6. CASE SequenceGap(c)
    BY <2>4, <2>6 DEF SequenceGap, Reasons
  <2>7. CASE Dismiss(c)
    BY <1>0, <2>3, <2>7 DEF Dismiss, Goto
  <2>8. ASSUME NEW heard \in BOOLEAN, OpenSession(c, heard)
        PROVE  ServeInv'
    BY <1>0, <2>3, <2>8 DEF OpenSession, Goto
  <2>9. CASE AddConnection(c) \/ ShowSession(c) \/ SyncRuntimeDisconnect(c) \/ RemoveConnection(c)
    BY <1>0, <2>3, <2>9 DEF AddConnection, ShowSession, SyncRuntimeDisconnect, RemoveConnection, Goto
  <2>10. ASSUME NEW ok \in BOOLEAN, FinishSession(c, ok)
         PROVE  ServeInv'
    BY <1>0, <2>3, <2>10 DEF FinishSession, Goto
  <2> QED  BY <1>2, <2>5, <2>6, <2>7, <2>8, <2>9, <2>10 DEF Input, Serve, ConnInput, ConnStep
<1>3. CASE UNCHANGED <<serve, cause>> /\ (main' \in Starting => main \in Starting)
  BY <1>3
<1>4. CASE StartStep \/ StartAborts
  <2>1. main \in Starting
    BY <1>4, OnlyAtTheStart
  <2> QED  BY <1>3, <1>4, <2>1, StartElsewhere DEF connVars, Load
<1> QED
  BY <1>1, <1>2, <1>3, <1>4
     DEF vars, connVars, Next, HealthStep, DatabasePinged, HealthGoesOn, MainStep, Arrive, Expire,
         HSMStep, PingDatabase, TradingChecked, TwoFAChecked, Respond, Done, Signal, ServerFails,
         SchedulerStopped, Close, Shutdown, Exit, StartCloseAll, CloseAllStep, SendClose,
         SeesClosed, WaitTimesOut, servesUnchanged, Starting, SelfTest

\* The counters are touched by recordDisconnect, syncRuntimeDisconnect and Load only.
LEMMA CopiesSteps ==
    ASSUME TypeOK, ServeInv, [Next]_vars
    PROVE  \/ UNCHANGED <<counts, runtime, local>> /\ (Published' => Published)
           \/ \E c \in Conns, r \in Reasons, why \in Reasons \cup {"gap"} :
                 RecordDisconnect(c, r, why)
           \/ \E c \in Conns : SyncRuntimeDisconnect(c)
           \/ main = "prepare" /\ Load
<1> DEFINE Aside == UNCHANGED <<counts, runtime, local>> /\ (Published' => Published)
<1>0. /\ serve \in [Conns -> Locations]
      /\ cause \in [Conns -> Reasons \cup {"none", "gap", "dismissed", "unfinalized"}]
      /\ \A c \in Conns : cause[c] = "dismissed" => serve[c] \in {"removing", "gone"}
  BY DEF TypeOK, ConnTypeOK, ServeInv
<1>1. ASSUME NEW c \in Conns, Input(c)
      PROVE  \/ Aside
             \/ \E r \in Reasons, why \in Reasons \cup {"gap"} : RecordDisconnect(c, r, why)
  <2>1. ASSUME NEW err \in Failures, ReadFails(c, err)
        PROVE  \E r \in Reasons, why \in Reasons \cup {"gap"} : RecordDisconnect(c, r, why)
    BY <2>1, ClassifyType, ConnAssumption DEF ReadFails
  <2>2. CASE SequenceGap(c)
    BY <2>2 DEF SequenceGap, Reasons
  <2>3. ASSUME NEW heard \in BOOLEAN, OpenSession(c, heard)
        PROVE  Aside
    BY <1>0, <2>3 DEF OpenSession, Goto, Published
  <2>4. CASE Dismiss(c)
    BY <1>0, <2>4 DEF Dismiss, Goto, Published
  <2> QED  BY <1>1, <2>1, <2>2, <2>3, <2>4 DEF Input, ConnInput
<1>2. ASSUME NEW c \in Conns, Connect(c)
      PROVE  Aside
  BY <1>0, <1>2 DEF Connect, Accept, Goto, Published
<1>3. ASSUME NEW c \in Conns, Serve(c)
      PROVE  Aside \/ SyncRuntimeDisconnect(c)
  <2>1. CASE AddConnection(c) \/ ShowSession(c) \/ RemoveConnection(c)
    BY <1>0, <2>1 DEF AddConnection, ShowSession, RemoveConnection, Goto, Published
  <2>2. ASSUME NEW ok \in BOOLEAN, FinishSession(c, ok)
        PROVE  Aside
    BY <1>0, <2>2 DEF FinishSession, Goto, Published
  <2> QED  BY <1>3, <2>1, <2>2 DEF Serve, ConnStep
<1>4. CASE UNCHANGED <<serve, cause, local, counts, runtime>>
  BY <1>4 DEF Published
<1>5. CASE StartStep \/ StartAborts
  BY <1>4, <1>5, StartElsewhere DEF connVars
<1> QED
  BY <1>1, <1>2, <1>3, <1>4, <1>5
     DEF vars, connVars, Next, HealthStep, DatabasePinged, HealthGoesOn, MainStep, Arrive, Expire,
         HSMStep, PingDatabase, TradingChecked, TwoFAChecked, Respond, Done, Signal, ServerFails,
         SchedulerStopped, Close, Shutdown, Exit, StartCloseAll, CloseAllStep, SendClose,
         SeesClosed, WaitTimesOut, servesUnchanged

\* For any number of connections and any state file: whatever the order in which
\* handlers publish their copies, the counters GetState returns belong together, and
\* from the first publication on they were counted by this process.
THEOREM CopiesConsistentAlways == Spec => []CopiesConsistent
<1>1. Init => CopiesInv /\ ServeInv
  BY NoCountsConsistent DEF Init, ConnInit, CopiesInv, ServeInv, Past, NoCounts, Published
<1>2. TypeOK /\ CopiesInv /\ ServeInv /\ [Next]_vars => CopiesInv'
  <2> SUFFICES ASSUME TypeOK, CopiesInv, ServeInv, [Next]_vars PROVE CopiesInv'
    OBVIOUS
  <2>1. CASE UNCHANGED <<counts, runtime, local>> /\ (Published' => Published)
    BY <2>1 DEF CopiesInv, Consistent, Past
  <2>2. ASSUME NEW c \in Conns, NEW r \in Reasons, NEW why \in Reasons \cup {"gap"},
               RecordDisconnect(c, r, why)
        PROVE  CopiesInv'
    <3>1. /\ counts \in Counts /\ runtime \in Counts /\ local \in [Conns -> Counts]
          /\ counts' = Counted(r) /\ runtime' = runtime
          /\ local' = [local EXCEPT ![c] = Counted(r)]
      BY <2>2 DEF RecordDisconnect, TypeOK, ConnTypeOK
    <3>2. /\ Consistent(Counted(r)) /\ Counted(r) \in Counts
          /\ \A q \in Reasons : counts.byReason[q] <= Counted(r).byReason[q]
      BY <3>1, CountedConsistent, CountedType DEF CopiesInv
    <3>3. \A k \in Counts : Past(k) => Past(k)'
      BY <3>1, <3>2 DEF Past, Counts
    <3>4. Consistent(counts)' /\ Consistent(runtime)'
      BY <3>1, <3>2 DEF CopiesInv, Consistent
    <3>5. Published' => Past(runtime)'
      <4>1. Published' => Published
        BY <2>2 DEF RecordDisconnect, Goto, Published, TypeOK, ConnTypeOK
      <4> QED  BY <3>1, <3>3, <4>1 DEF CopiesInv, Past
    <3>6. ASSUME NEW d \in Conns
          PROVE  Consistent(local[d])' /\ Past(local[d])'
      <4>1. CASE d = c
        BY <3>1, <3>2, <4>1 DEF Consistent, Past, Counts
      <4>2. CASE d # c
        BY <3>1, <3>3, <4>2 DEF CopiesInv, Consistent, Past
      <4> QED  BY <4>1, <4>2
    <3> QED  BY <3>4, <3>5, <3>6 DEF CopiesInv
  <2>3. ASSUME NEW c \in Conns, SyncRuntimeDisconnect(c)
        PROVE  CopiesInv'
    <3>1. /\ local \in [Conns -> Counts] /\ counts \in Counts
          /\ counts' = counts /\ runtime' = local[c]
          /\ local' = [local EXCEPT ![c] = NoCounts]
      BY <2>3 DEF SyncRuntimeDisconnect, TypeOK, ConnTypeOK
    <3>2. Consistent(NoCounts) /\ Past(NoCounts)
      BY <3>1, NoCountsConsistent DEF Past, NoCounts, Counts
    <3>3. ASSUME NEW d \in Conns
          PROVE  Consistent(local[d])' /\ Past(local[d])'
      BY <3>1, <3>2 DEF CopiesInv, Consistent, Past
    <3> QED  BY <3>1, <3>3 DEF CopiesInv, Consistent, Past
  <2>4. CASE main = "prepare" /\ Load
    <3>1. UNCHANGED <<counts, local, serve, cause>> /\ Consistent(runtime')
      BY <2>4, NoCountsConsistent, ConnAssumption DEF Load
    <3>2. ~Published'
      BY <2>4, <3>1 DEF ServeInv, Published, Starting
    <3> QED  BY <3>1, <3>2 DEF CopiesInv, Consistent, Past
  <2> QED  BY <2>1, <2>2, <2>3, <2>4, CopiesSteps
<1>3. CopiesInv => CopiesConsistent
  BY DEF CopiesInv, CopiesConsistent, GetState, Past
<1>4. TypeOK /\ ServeInv /\ [Next]_vars => ServeInv'
  BY ServeKept
<1> QED  BY <1>1, <1>2, <1>3, <1>4, TypeCorrect, PTL DEF Spec

-----------------------------------------------------------------------------
(* What CloseAll may conclude.  Inductive invariant: a connection that is   *)
(* being removed has finished its session, and no channel is closed before  *)
(* the removal.                                                             *)

\* The session of c is over, as far as Serve ends one.
Finished(c) ==
    \/ cause[c] \in {"gap", "dismissed"}
    \/ c \notin snapshots /\ (row[c] = "open" => cause[c] = "unfinalized" \/ c \notin persisted)

ClosedInv ==
    /\ closer.seen \subseteq closed
    /\ \A c \in closed : serve[c] = "gone"
    /\ \A c \in Conns : serve[c] \in {"removing", "gone"} => Finished(c)

LEMMA ServeClosed ==
    ASSUME ConnTypeOK, ClosedInv, NEW c \in Conns, Accept(c) \/ ConnInput(c) \/ ConnStep(c)
    PROVE  ClosedInv'
<1> USE DEF ConnTypeOK, ClosedInv, Finished, Goto
<1>1. ASSUME NEW r, NEW why, RecordDisconnect(c, r, why)
      PROVE  ClosedInv'
  BY <1>1 DEF RecordDisconnect
<1>2. CASE Accept(c)  BY <1>2 DEF Accept
<1>3. CASE AddConnection(c)  BY <1>3 DEF AddConnection
<1>4. ASSUME NEW heard \in BOOLEAN, OpenSession(c, heard)
      PROVE  ClosedInv'
  BY <1>4 DEF OpenSession
<1>9. CASE ShowSession(c)  BY <1>9 DEF ShowSession
<1>5. CASE Dismiss(c)  BY <1>5 DEF Dismiss
<1>6. CASE SyncRuntimeDisconnect(c)
  BY <1>6 DEF SyncRuntimeDisconnect
<1>7. ASSUME NEW ok \in BOOLEAN, FinishSession(c, ok)
      PROVE  ClosedInv'
  BY <1>7 DEF FinishSession
<1>8. CASE RemoveConnection(c)  BY <1>8 DEF RemoveConnection
<1> QED
  BY <1>1, <1>2, <1>3, <1>4, <1>5, <1>6, <1>7, <1>8, <1>9
     DEF ConnInput, ConnStep, ReadFails, SequenceGap

LEMMA CloserClosed ==
    ASSUME ConnTypeOK, ClosedInv, StartCloseAll \/ CloseAllStep
    PROVE  ClosedInv'
<1> USE DEF ConnTypeOK, ClosedInv, Finished, servesUnchanged
<1>1. CASE StartCloseAll  BY <1>1 DEF StartCloseAll
<1>2. ASSUME NEW c \in Conns, SendClose(c)
      PROVE  ClosedInv'
  BY <1>2 DEF SendClose
<1>3. CASE SeesClosed  BY <1>3 DEF SeesClosed
<1>4. CASE WaitTimesOut  BY <1>4 DEF WaitTimesOut
<1> QED  BY <1>1, <1>2, <1>3, <1>4 DEF CloseAllStep

\* For any number of connections: when CloseAll has seen a connection close, its
\* session has been finished, except after a gap, a dismissal, a failed finalize or an
\* INSERT whose success was not heard of.
THEOREM ClosedMeansFinishedAlways == Spec => []ClosedMeansFinished
<1>1. Init => ClosedInv
  BY DEF Init, ConnInit, ClosedInv
<1>2. TypeOK /\ ClosedInv /\ [Next]_vars => ClosedInv'
  <2> SUFFICES ASSUME TypeOK, ClosedInv, [Next]_vars PROVE ClosedInv'
    OBVIOUS
  <2>1. CASE UNCHANGED connVars
    BY <2>1 DEF connVars, ClosedInv, Finished
  <2>2. ASSUME NEW c \in Conns, Connect(c) \/ Input(c) \/ Serve(c)
        PROVE  ClosedInv'
    BY <2>2, ServeClosed DEF Connect, Input, Serve, TypeOK
  <2>3. CASE StartCloseAll \/ CloseAllStep
    BY <2>3, CloserClosed DEF TypeOK
  <2>4. CASE Load
    BY <2>4 DEF Load, ClosedInv, Finished
  <2> QED
    BY <2>1, <2>2, <2>3, <2>4, StartElsewhere
       DEF vars, Next, HealthStep, DatabasePinged, HealthGoesOn, MainStep, Arrive, Expire, HSMStep,
           PingDatabase, TradingChecked, TwoFAChecked, Respond, Done, Signal, ServerFails,
           SchedulerStopped, Close, Shutdown, Exit
<1>3. TypeOK /\ ClosedInv => ClosedMeansFinished
  BY DEF ClosedInv, ClosedMeansFinished, Finished, TypeOK, ConnTypeOK
<1> QED  BY <1>1, <1>2, <1>3, TypeCorrect, PTL DEF Spec

-----------------------------------------------------------------------------
(* The verdict of a health request.  Inductive invariant: none is served    *)
(* before the start is over; while a service is asked, what came back       *)
(* explains where doRequest is; afterwards the result and the evidence      *)
(* agree.                                                                   *)

\* What doRequest has to show for where it is
CallInv ==
    /\ call.attempt <= MaxAttempts
    /\ call.pc # "ended" => last \in {"none", "5xx"}
    /\ call.pc = "backoff" => call.attempt < MaxAttempts
    /\ call.pc = "ended" /\ call.result = "ok" => last = "2xx"
    /\ call.pc = "ended" /\ call.result = "error" =>
          \/ last \in {"4xx", "garbled"}
          \/ last \in {"none", "5xx"} /\ call.attempt = MaxAttempts

VerdictInv ==
    /\ main \in Starting => health.pc = "idle"
    /\ health.pc \in {"trading", "2fa"} => CallInv
    /\ health.pc \in {"2fa", "respond"} =>
          IF health.hsm = "ok" THEN health.evidence = "answered"
          ELSE health.evidence \in {"refused", "exhausted"}
    /\ VerdictEarned

LEMMA CallKept ==
    ASSUME CallTypeOK, CallInv, CallStep
    PROVE  CallInv'
<1> USE AttemptsAssumption DEF CallTypeOK, Call, CallInv, Ended, Failed
<1>1. CASE Send  BY <1>1 DEF Send
<1>2. CASE Lose  BY <1>2 DEF Lose
<1>3. CASE Wake
  <2>1. call' = [pc |-> "do", attempt |-> call.attempt + 1, result |-> call.result]
    BY <1>3 DEF Wake
  <2> QED  BY <1>3, <2>1 DEF Wake
<1>4. ASSUME NEW answer \in Answers, Receive(answer)
      PROVE  CallInv'
  BY <1>4 DEF Receive, Answers
<1> QED  BY <1>1, <1>2, <1>3, <1>4 DEF CallStep

LEMMA CallStarted ==
    ASSUME StartCall
    PROVE  CallInv'
  BY AttemptsAssumption DEF StartCall, NoCall, CallInv

\* For any number of attempts, none included: Health reports "ok" only on a ping and
\* an answer, and "degraded" only on a failed ping, a refusal, or after all attempts.
THEOREM VerdictEarnedAlways == Spec => []VerdictEarned
<1>1. Init => VerdictInv
  BY DEF Init, NoHealth, VerdictInv, VerdictEarned
<1>2. TypeOK /\ VerdictInv /\ [Next]_vars => VerdictInv'
  <2> SUFFICES ASSUME TypeOK, VerdictInv, [Next]_vars PROVE VerdictInv'
    OBVIOUS
  <2> USE DEF VerdictInv, VerdictEarned
  <2> USE DEF Starting, SelfTest
  <2>1. CASE UNCHANGED <<call, last, health>> /\ (main' = main \/ main' \notin Starting)
    BY <2>1 DEF CallInv
  <2>2. CASE Arrive \/ Done
    <3>1. NoHealth.pc = "idle" /\ [NoHealth EXCEPT !.pc = "ping"].pc = "ping"
      BY DEF NoHealth
    <3>2. CASE Arrive
      BY <3>1, <3>2 DEF Arrive, Listening
    <3>3. CASE Done
      BY <3>1, <3>3 DEF Done
    <3> QED  BY <2>2, <3>2, <3>3
  <2>3. ASSUME NEW result, PingDatabase(result)
        PROVE  VerdictInv'
    <3>1. health'.pc = "trading" /\ main' = main /\ health.pc = "ping"
      BY <2>3 DEF PingDatabase, TypeOK, Health
    <3>2. CallInv'
      BY <2>3, CallStarted DEF PingDatabase
    <3> QED  BY <3>1, <3>2
  <2>4. CASE TradingChecked
    <3>1. CallInv /\ call.pc = "ended"
      BY <2>4 DEF TradingChecked
    <3>2. CallInv'
      BY <2>4, CallStarted DEF TradingChecked
    <3>3. IF call.result = "ok" THEN Evidence = "answered" ELSE Evidence \in {"refused", "exhausted"}
      <4>1. call.result \in {"ok", "error"}
        BY DEF TypeOK, CallTypeOK, Call
      <4>2. CASE call.result = "ok"
        BY <3>1, <4>2 DEF CallInv, Evidence
      <4>3. CASE call.result = "error"
        BY <3>1, <4>3 DEF CallInv, Evidence
      <4> QED  BY <4>1, <4>2, <4>3
    <3>4. main' = main /\ health.pc = "trading"
      BY <2>4 DEF TradingChecked
    <3>5. health'.pc = "2fa" /\ health'.hsm = call.result /\ health'.evidence = Evidence
      BY <2>4 DEF TradingChecked, TypeOK, Health
    <3> QED  BY <3>2, <3>3, <3>4, <3>5
  <2>5. CASE TwoFAChecked
    BY <2>5 DEF TwoFAChecked, TypeOK, Health
  <2>6. CASE Respond
    <3>1. /\ health'.pc = "answered" /\ health'.db = health.db
          /\ health'.evidence = health.evidence
          /\ health'.status = IF health.db = "ok" /\ health.hsm = "ok" THEN "ok" ELSE "degraded"
      BY <2>6 DEF Respond, TypeOK, Health
    <3>2. main' = main /\ health.pc = "respond" /\ health.db \in {"ok", "error"}
      BY <2>6 DEF Respond, TypeOK, Health
    <3> QED  BY <3>1, <3>2
  <2>7. CASE HSMStep
    BY <2>7, CallKept DEF HSMStep, TypeOK
  <2>8. CASE StartStep \/ StartAborts
    <3>1. main \in Starting
      BY <2>8, OnlyAtTheStart
    <3> QED  BY <2>8, <3>1, StartElsewhere
  <2> QED
    BY <2>1, <2>2, <2>3, <2>4, <2>5, <2>6, <2>7, <2>8
       DEF vars, callVars, Next, HealthStep, DatabasePinged, HealthGoesOn, MainStep, Connect,
           Input, Serve, Expire, Signal, ServerFails, SchedulerStopped, Close, Shutdown, Exit,
           mainOnly
<1>3. VerdictInv => VerdictEarned
  BY DEF VerdictInv
<1> QED  BY <1>1, <1>2, <1>3, TypeCorrect, PTL DEF Spec

-----------------------------------------------------------------------------
(* How long the start, a health request and CloseAll can take.              *)
(* EverythingEnds itself is left to TLC; what it rests on is an action      *)
(* property: each of the three comes nearer to its end with each of its     *)
(* steps, and no step of anybody else prolongs it.                          *)

\* What a caller can still have to wait for: doRequest sends, waits for the answer and
\* waits to try again, for each of the attempts that are left.
Waiting(c) ==
    CASE c.pc = "do" -> 3 * (MaxAttempts - c.attempt) + 2
      [] c.pc = "flight" -> 3 * (MaxAttempts - c.attempt) + 1
      [] c.pc = "backoff" -> 3 * (MaxAttempts - c.attempt)
      [] OTHER -> 0

\* A bound on the steps from one call of doRequest to the next
Round == 3 * MaxAttempts + 1

\* A bound on the steps of the start: the pings, the calls, and what comes after them
StartLeft(at, n, c) ==
    CASE at = "database" -> 4 * Round + 2 + (MaxPings - n)
      [] at = "list" -> 4 * Round + 2
      [] at = "encrypt trading" -> 3 * Round + 2 + Waiting(c)
      [] at = "decrypt trading" -> 2 * Round + 2 + Waiting(c)
      [] at = "encrypt 2fa" -> Round + 2 + Waiting(c)
      [] at = "decrypt 2fa" -> 2 + Waiting(c)
      [] OTHER -> 1

\* A bound on the steps of a health request
HealthLeft(at, c) ==
    CASE at = "ping" -> 2 * Round + 3
      [] at = "trading" -> Round + 3 + Waiting(c)
      [] at = "2fa" -> 3 + Waiting(c)
      [] at = "respond" -> 2
      [] at = "answered" -> 1
      [] OTHER -> 0

\* The start, and the health request, are nearer to their ends.
StartNearer == StartLeft(main', pings', call') < StartLeft(main, pings, call)
HealthNearer == HealthLeft(health'.pc, call') < HealthLeft(health.pc, call)

\* The start gets on with every step of main and of doRequest, and nothing else
\* concerns it but what ends the process.
StartBounded ==
    main \in Starting =>
        /\ StartLeft(main, pings, call) \in 1 .. 12 * MaxAttempts + 9
        /\ StartStep \/ HSMStep =>
               main' \in {"running", "stopped"} \/ (main' \in Starting /\ StartNearer)
        /\ ~(StartStep \/ HSMStep) => main' = "stopped" \/ UNCHANGED <<main, pings, call>>

\* So does a health request, also when its context has ended.
HealthBounded ==
    health.pc # "idle" =>
        /\ HealthLeft(health.pc, call) \in 1 .. 6 * MaxAttempts + 5
        /\ HealthStep \/ HSMStep => HealthNearer
        /\ ~(HealthStep \/ HSMStep) => UNCHANGED <<health, call>>

\* What is left to CloseAll: two steps for each entry of its copy, and the wait it is in
CloseLeft(k) == 2 * Cardinality(k.left) + (IF k.waiting = None THEN 0 ELSE 1)

Leaving == {"stopping", "failing", "closing", "aborting", "draining"}

\* The shutdown: main waits for the scheduler, whose Stop is not bounded.  Then CloseAll
\* has two steps to do for each connection of the registry and gets on with each of them,
\* main moves on as soon as nothing is left, and nobody else concerns it.
CloseBounded ==
    main \in Leaving =>
        /\ SchedulerStopped =>
             /\ main \in {"stopping", "failing"} /\ main' \in {"closing", "aborting"}
             /\ CloseLeft(closer') = 2 * Cardinality(registry) /\ Cardinality(registry) \in Nat
        /\ Close =>
             /\ main' = main
             /\ CloseLeft(closer) \in Nat /\ CloseLeft(closer') < CloseLeft(closer)
        /\ Shutdown => CloseLeft(closer) = 0 /\ main' = "draining"
        /\ Exit => main' = "stopped"
        /\ ~(SchedulerStopped \/ MainStep) => UNCHANGED <<main, closer>>

\* The registry, and the copy, have no more entries than there were connections.
FiniteInv == IsFiniteSet(registry) /\ IsFiniteSet(closer.left)

\* A call under way is in an attempt that was counted, and waits only for another one.
InAttempt(c) ==
    /\ c.pc # "ended" => c.attempt \in 1 .. MaxAttempts
    /\ c.pc = "backoff" => c.attempt < MaxAttempts

CallCounted == InAttempt(call)

LEMMA WaitingBounds ==
    ASSUME NEW c \in Call, InAttempt(c)
    PROVE  /\ Waiting(c) \in Nat /\ Waiting(c) <= 3 * MaxAttempts
           /\ c.pc # "ended" => Waiting(c) > 0
           /\ c.pc = "ended" => Waiting(c) = 0
<1>1. /\ c.attempt \in Nat /\ MaxAttempts \in Nat
      /\ c.pc \in {"ended", "do", "flight", "backoff"}
  BY AttemptsAssumption DEF Call
<1>2. CASE c.pc = "ended"  BY <1>1, <1>2 DEF Waiting
<1>3. CASE c.pc = "do"  BY <1>1, <1>3 DEF Waiting, InAttempt
<1>4. CASE c.pc = "flight"  BY <1>1, <1>4 DEF Waiting, InAttempt
<1>5. CASE c.pc = "backoff"  BY <1>1, <1>5 DEF Waiting, InAttempt
<1> QED  BY <1>1, <1>2, <1>3, <1>4, <1>5

LEMMA CallsCounted ==
    ASSUME StartCall \/ EndCall
    PROVE  CallCounted'
<1>1. MaxAttempts \in Nat  BY AttemptsAssumption
<1>2. \/ call'.pc = "ended"
      \/ MaxAttempts # 0 /\ call'.pc = "do" /\ call'.attempt = 1
  <2>1. NoCall.pc = "ended"  BY DEF NoCall
  <2>2. [NoCall EXCEPT !.pc = "do", !.attempt = 1].pc = "do"
        /\ [NoCall EXCEPT !.pc = "do", !.attempt = 1].attempt = 1
    BY DEF NoCall
  <2> QED  BY <2>1, <2>2 DEF StartCall, EndCall
<1> QED  BY <1>1, <1>2 DEF CallCounted, InAttempt

\* Each step of doRequest brings it nearer to its end.
LEMMA CallWorks ==
    ASSUME CallTypeOK, CallCounted, CallStep
    PROVE  CallCounted' /\ Waiting(call') < Waiting(call)
<1> USE DEF CallCounted, InAttempt
<1>1. call \in Call /\ call.attempt \in Nat /\ MaxAttempts \in Nat
  BY AttemptsAssumption DEF CallTypeOK, Call
<1>2. call.pc # "ended" /\ call.attempt \in 1 .. MaxAttempts
  BY DEF CallStep, Send, Lose, Wake, Receive
<1>3. Waiting(call) \in Nat /\ Waiting(call) > 0
  BY <1>1, <1>2, WaitingBounds
<1>4. ASSUME call'.pc = "ended"
      PROVE  CallCounted' /\ Waiting(call') < Waiting(call)
  <2>1. Waiting(call') = 0  BY <1>4 DEF Waiting
  <2> QED  BY <1>3, <1>4, <2>1
<1>5. ASSUME call.pc \in {"do", "flight"}, call' = Failed
      PROVE  CallCounted' /\ Waiting(call') < Waiting(call)
  <2>1. CASE call.attempt < MaxAttempts
    <3>1. call'.pc = "backoff" /\ call'.attempt = call.attempt
      BY <1>1, <1>5, <2>1 DEF Failed, Call
    <3> QED  BY <1>1, <1>2, <1>5, <2>1, <3>1 DEF Waiting
  <2>2. CASE ~(call.attempt < MaxAttempts)
    BY <1>1, <1>4, <1>5, <2>2 DEF Failed, Ended, Call
  <2> QED  BY <2>1, <2>2
<1>6. CASE Send
  <2>1. CASE expired  BY <1>5, <1>6, <2>1 DEF Send
  <2>2. CASE ~expired
    <3>1. call.pc = "do" /\ call'.pc = "flight" /\ call'.attempt = call.attempt
      BY <1>1, <1>6, <2>2 DEF Send, Call
    <3> QED  BY <1>1, <1>2, <3>1 DEF Waiting
  <2> QED  BY <2>1, <2>2
<1>7. CASE Lose  BY <1>5, <1>7 DEF Lose
<1>8. CASE Wake
  <2>1. call.pc = "backoff" /\ call'.pc = "do" /\ call'.attempt = call.attempt + 1
    BY <1>1, <1>8 DEF Wake, Call
  <2>2. call.attempt < MaxAttempts
    BY <2>1
  <2> QED  BY <1>1, <1>2, <2>1, <2>2 DEF Waiting
<1>9. ASSUME NEW answer \in Answers, Receive(answer)
      PROVE  CallCounted' /\ Waiting(call') < Waiting(call)
  <2>1. call.pc = "flight" /\ (call' = Failed \/ call'.pc = "ended")
    BY <1>1, <1>9 DEF Receive, Answers, Ended, Call
  <2> QED  BY <1>4, <1>5, <2>1
<1> QED  BY <1>6, <1>7, <1>8, <1>9 DEF CallStep

\* No request is served before the start is over.
Quiet == main \in Starting => health.pc = "idle"

\* Who has a call under way: nobody else starts one.
LEMMA CountedStep ==
    ASSUME TypeOK, Quiet, CallCounted, [Next]_vars
    PROVE  Quiet' /\ CallCounted'
<1> USE DEF Quiet
<1>1. CallTypeOK  BY DEF TypeOK
<1>2. CASE UNCHANGED <<call, health>> /\ (main' = main \/ main' \notin Starting)
  BY <1>2 DEF CallCounted, InAttempt
<1>3. CASE Arrive
  BY <1>3 DEF Arrive, Listening, Starting, SelfTest, CallCounted, InAttempt
<1>4. CASE HSMStep
  BY <1>1, <1>4, CallWorks DEF HSMStep
<1>5. CASE HealthStep
  <2>1. health.pc # "idle" /\ main' = main
    BY <1>5 DEF HealthStep, DatabasePinged, HealthGoesOn, PingDatabase, TradingChecked,
                TwoFAChecked, Respond, Done
  <2>2. call' = call \/ StartCall \/ EndCall
    BY <1>5 DEF HealthStep, DatabasePinged, HealthGoesOn, PingDatabase, TradingChecked,
                TwoFAChecked, Respond, Done, callVars
  <2> QED  BY <2>1, <2>2, CallsCounted DEF CallCounted, InAttempt
<1>6. CASE StartStep \/ StartAborts
  <2>1. call' = call \/ StartCall \/ EndCall
    BY <1>6 DEF StartStep, DatabaseStarts, StartGoesOn, StartAborts, PingFails, PingAnswers,
                ListTraders, TradingEncrypted, TradingDecrypted, TwoFAEncrypted, TwoFADecrypted,
                Prepare, callVars
  <2>2. main \in Starting
    BY <1>6 DEF StartStep, DatabaseStarts, StartGoesOn, StartAborts, PingFails, PingAnswers,
                ListTraders, TradingEncrypted, TradingDecrypted, TwoFAEncrypted, TwoFADecrypted,
                Prepare, Starting, SelfTest
  <2> QED  BY <1>6, <2>1, <2>2, CallsCounted, StartElsewhere DEF CallCounted, InAttempt
<1> QED
  BY <1>2, <1>3, <1>4, <1>5, <1>6
     DEF vars, callVars, Next, MainStep, Connect, Input, Serve, Expire, Signal,
         ServerFails, SchedulerStopped, Close, Shutdown, Exit, mainOnly, Starting, SelfTest

LEMMA AlwaysCounted == Spec => [](Quiet /\ CallCounted)
<1>1. Init => Quiet /\ CallCounted
  BY DEF Init, Quiet, NoHealth, CallCounted, InAttempt, NoCall
<1> QED  BY <1>1, CountedStep, TypeCorrect, PTL DEF Spec

\* What StartLeft and HealthLeft are at each place
LEMMA StartValues ==
    ASSUME NEW at \in Starting, NEW n, NEW c
    PROVE  \/ at = "database" /\ StartLeft(at, n, c) = 4 * Round + 2 + (MaxPings - n)
           \/ at = "list" /\ StartLeft(at, n, c) = 4 * Round + 2
           \/ at = "encrypt trading" /\ StartLeft(at, n, c) = 3 * Round + 2 + Waiting(c)
           \/ at = "decrypt trading" /\ StartLeft(at, n, c) = 2 * Round + 2 + Waiting(c)
           \/ at = "encrypt 2fa" /\ StartLeft(at, n, c) = Round + 2 + Waiting(c)
           \/ at = "decrypt 2fa" /\ StartLeft(at, n, c) = 2 + Waiting(c)
           \/ at = "prepare" /\ StartLeft(at, n, c) = 1
<1>1. CASE at = "database"  BY <1>1 DEF StartLeft
<1>2. CASE at = "encrypt trading"  BY <1>2 DEF StartLeft
<1>3. CASE at = "decrypt trading"  BY <1>3 DEF StartLeft
<1>4. CASE at = "encrypt 2fa"  BY <1>4 DEF StartLeft
<1>5. CASE at = "decrypt 2fa"  BY <1>5 DEF StartLeft
<1>6. CASE at = "prepare"  BY <1>6 DEF StartLeft
<1>7. CASE at = "list"  BY <1>7 DEF StartLeft
<1> QED  BY <1>1, <1>2, <1>3, <1>4, <1>5, <1>6, <1>7 DEF Starting, SelfTest

LEMMA HealthValues ==
    ASSUME NEW at, NEW c, Waiting(c) \in Nat, Round \in Nat
    PROVE  /\ at = "ping" => HealthLeft(at, c) = 2 * Round + 3
           /\ at = "trading" => HealthLeft(at, c) = Round + 3 + Waiting(c)
           /\ at = "2fa" => HealthLeft(at, c) = 3 + Waiting(c)
           /\ at = "respond" => HealthLeft(at, c) = 2
           /\ at = "answered" => HealthLeft(at, c) = 1
           /\ at = "idle" => HealthLeft(at, c) = 0
BY DEF HealthLeft

LEMMA PingsLeft == TypeOK => pings \in Nat /\ (main = "database" => pings < 3)
BY DEF TypeOK, MaxPings

LEMMA PingsLeftNext == TypeOK' => pings' \in Nat
BY DEF TypeOK, MaxPings

\* What there is to wait for, before and after a step
LEMMA Waits ==
    ASSUME TypeOK, TypeOK', CallCounted, CallCounted'
    PROVE  /\ MaxAttempts \in Nat /\ Round = 3 * MaxAttempts + 1 /\ Round \in Nat
           /\ Waiting(call) \in Nat /\ Waiting(call) < Round
           /\ Waiting(call') \in Nat /\ Waiting(call') < Round
<1>1. MaxAttempts \in Nat /\ Round = 3 * MaxAttempts + 1 /\ Round \in Nat
  BY AttemptsAssumption DEF Round
<1>2. call \in Call /\ InAttempt(call) /\ call' \in Call /\ InAttempt(call')
  BY DEF TypeOK, CallTypeOK, CallCounted, InAttempt
<1>3. /\ Waiting(call) \in Nat /\ Waiting(call) <= 3 * MaxAttempts
      /\ Waiting(call') \in Nat /\ Waiting(call') <= 3 * MaxAttempts
  BY <1>2, WaitingBounds
<1> QED  BY <1>1, <1>3

\* Each step of the start brings it nearer to its end.
LEMMA StartWorks ==
    ASSUME TypeOK, TypeOK', CallCounted, CallCounted', StartStep
    PROVE  main' \in {"running", "stopped"} \/ (main' \in Starting /\ StartNearer)
<1>1. /\ Round \in Nat /\ Waiting(call) \in Nat
      /\ Waiting(call') \in Nat /\ Waiting(call') < Round
  BY Waits
<1>2. pings \in Nat /\ pings' \in Nat /\ (main = "database" => pings < 3)
  BY PingsLeft, PingsLeftNext
<1>3. CASE PingFails
  <2>1. main = "database" /\ pings' = pings + 1 /\ main' \in {"database", "stopped"}
    BY <1>3 DEF PingFails
  <2>2. CASE main' = "database"
    <3>1. /\ StartLeft(main, pings, call) = 4 * Round + 2 + (3 - pings)
          /\ StartLeft(main', pings', call') = 4 * Round + 2 + (3 - pings')
      BY <2>1, <2>2 DEF StartLeft, MaxPings
    <3>2. StartNearer
      BY <1>1, <1>2, <2>1, <3>1 DEF StartNearer
    <3> QED  BY <2>2, <3>2 DEF Starting
  <2> QED  BY <2>1, <2>2
<1>4. CASE PingAnswers
  <2>1. main = "database" /\ main' = "list"
    BY <1>4 DEF PingAnswers
  <2>2. /\ StartLeft(main, pings, call) = 4 * Round + 2 + (3 - pings)
        /\ StartLeft(main', pings', call') = 4 * Round + 2
    BY <2>1 DEF StartLeft, MaxPings
  <2>3. pings \in Nat /\ pings < 3
    BY <1>2, <2>1
  <2>4. StartNearer
    BY <1>1, <2>2, <2>3 DEF StartNearer
  <2> QED  BY <2>1, <2>4 DEF Starting, SelfTest
<1>10. CASE ListTraders
  <2>1. main = "list" /\ main' = "encrypt trading"
    BY <1>10 DEF ListTraders
  <2>2. /\ StartLeft(main, pings, call) = 4 * Round + 2
        /\ StartLeft(main', pings', call') = 3 * Round + 2 + Waiting(call')
    BY <2>1 DEF StartLeft, MaxPings
  <2>3. StartNearer
    BY <1>1, <2>2 DEF StartNearer
  <2> QED  BY <2>1, <2>3 DEF Starting, SelfTest
<1>5. ASSUME NEW refused \in BOOLEAN, TradingEncrypted(refused)
      PROVE  main' \in Starting /\ StartNearer
  <2>1. main = "encrypt trading" /\ main' \in {"decrypt trading", "encrypt 2fa"}
    BY <1>5 DEF TradingEncrypted
  <2>2. /\ StartLeft(main, pings, call) = 3 * Round + 2 + Waiting(call)
        /\ StartLeft(main', pings', call') \in {2 * Round + 2 + Waiting(call'),
                                                Round + 2 + Waiting(call')}
    BY <2>1 DEF StartLeft, MaxPings
  <2>3. StartNearer
    BY <1>1, <2>2 DEF StartNearer
  <2> QED  BY <2>1, <2>3 DEF Starting, SelfTest
<1>6. CASE TradingDecrypted
  <2>1. main = "decrypt trading" /\ main' = "encrypt 2fa"
    BY <1>6 DEF TradingDecrypted
  <2>2. /\ StartLeft(main, pings, call) = 2 * Round + 2 + Waiting(call)
        /\ StartLeft(main', pings', call') = Round + 2 + Waiting(call')
    BY <2>1 DEF StartLeft, MaxPings
  <2>3. StartNearer
    BY <1>1, <2>2 DEF StartNearer
  <2> QED  BY <2>1, <2>3 DEF Starting, SelfTest
<1>7. ASSUME NEW refused \in BOOLEAN, TwoFAEncrypted(refused)
      PROVE  main' \in Starting /\ StartNearer
  <2>1. main = "encrypt 2fa" /\ main' \in {"decrypt 2fa", "prepare"}
    BY <1>7 DEF TwoFAEncrypted
  <2>2. /\ StartLeft(main, pings, call) = Round + 2 + Waiting(call)
        /\ StartLeft(main', pings', call') \in {2 + Waiting(call'), 1}
    BY <2>1 DEF StartLeft, MaxPings
  <2>3. StartNearer
    BY <1>1, <2>2 DEF StartNearer
  <2> QED  BY <2>1, <2>3 DEF Starting, SelfTest
<1>8. CASE TwoFADecrypted
  <2>1. main = "decrypt 2fa" /\ main' = "prepare"
    BY <1>8 DEF TwoFADecrypted
  <2>2. /\ StartLeft(main, pings, call) = 2 + Waiting(call)
        /\ StartLeft(main', pings', call') = 1
    BY <2>1 DEF StartLeft, MaxPings
  <2>3. StartNearer
    BY <1>1, <2>2 DEF StartNearer
  <2> QED  BY <2>1, <2>3 DEF Starting, SelfTest
<1>9. CASE Prepare  BY <1>9 DEF Prepare
<1> QED
  BY <1>3, <1>4, <1>5, <1>6, <1>7, <1>8, <1>9, <1>10 DEF StartStep, DatabaseStarts, StartGoesOn

\* So does each step of the handler for a health request.
LEMMA HealthWorks ==
    ASSUME TypeOK, TypeOK', CallCounted, CallCounted', HealthStep
    PROVE  HealthNearer
<1>1. /\ Round \in Nat /\ Waiting(call) \in Nat /\ health \in Health
      /\ Waiting(call') \in Nat /\ Waiting(call') < Round
  BY Waits DEF TypeOK
<1>2. \/ health.pc = "ping" /\ health'.pc = "trading"
      \/ health.pc = "trading" /\ health'.pc = "2fa"
      \/ health.pc = "2fa" /\ health'.pc = "respond"
      \/ health.pc = "respond" /\ health'.pc = "answered"
      \/ health.pc = "answered" /\ health'.pc = "idle"
  <2>1. ASSUME NEW result, PingDatabase(result)
        PROVE  health.pc = "ping" /\ health'.pc = "trading"
    BY <1>1, <2>1 DEF PingDatabase, Health
  <2>2. TradingChecked => health.pc = "trading" /\ health'.pc = "2fa"
    BY <1>1 DEF TradingChecked, Health
  <2>3. TwoFAChecked => health.pc = "2fa" /\ health'.pc = "respond"
    BY <1>1 DEF TwoFAChecked, Health
  <2>4. Respond => health.pc = "respond" /\ health'.pc = "answered"
    BY <1>1 DEF Respond, Health
  <2>5. Done => health.pc = "answered" /\ health'.pc = "idle"
    BY DEF Done, NoHealth
  <2> QED  BY <2>1, <2>2, <2>3, <2>4, <2>5 DEF HealthStep, DatabasePinged, HealthGoesOn
<1> QED  BY <1>1, <1>2, HealthValues DEF HealthNearer

\* A step of doRequest brings whoever waits for it nearer to the end.
LEMMA HSMWorks ==
    ASSUME TypeOK, TypeOK', CallCounted, CallCounted', HSMStep
    PROVE  /\ main' = main /\ (main \in SelfTest => StartNearer)
           /\ health.pc \in {"trading", "2fa"} => HealthNearer
<1>1. Round \in Nat /\ Waiting(call) \in Nat /\ Waiting(call') \in Nat
  BY Waits
<1>2. main' = main /\ health' = health /\ Waiting(call') < Waiting(call)
  BY CallWorks DEF TypeOK, HSMStep
<1>3. main \in SelfTest => StartNearer
  <2> SUFFICES ASSUME main \in SelfTest PROVE StartNearer
    OBVIOUS
  <2> DEFINE left == StartLeft(main, pings, call)
             then == StartLeft(main', pings', call')
  <2>1. \/ left = 3 * Round + 2 + Waiting(call) /\ then = 3 * Round + 2 + Waiting(call')
        \/ left = 2 * Round + 2 + Waiting(call) /\ then = 2 * Round + 2 + Waiting(call')
        \/ left = Round + 2 + Waiting(call) /\ then = Round + 2 + Waiting(call')
        \/ left = 2 + Waiting(call) /\ then = 2 + Waiting(call')
    <3>1. CASE main = "encrypt trading"  BY <1>2, <3>1 DEF StartLeft
    <3>2. CASE main = "decrypt trading"  BY <1>2, <3>2 DEF StartLeft
    <3>3. CASE main = "encrypt 2fa"  BY <1>2, <3>3 DEF StartLeft
    <3>4. CASE main = "decrypt 2fa"  BY <1>2, <3>4 DEF StartLeft
    <3> QED  BY <3>1, <3>2, <3>3, <3>4 DEF SelfTest
  <2> QED  BY <1>1, <1>2, <2>1 DEF StartNearer
<1>4. health.pc \in {"trading", "2fa"} => HealthNearer
  BY <1>1, <1>2, HealthValues DEF HealthNearer
<1> QED  BY <1>2, <1>3, <1>4

LEMMA FiniteKept ==
    ASSUME TypeOK, FiniteInv, [Next]_vars
    PROVE  FiniteInv'
<1> USE DEF FiniteInv
<1>0. closer \in [left : SUBSET Conns, waiting : Conns \cup {None}, seen : SUBSET Conns]
  BY DEF TypeOK, ConnTypeOK
<1>1. CASE UNCHANGED <<registry, closer>>
  BY <1>1
<1>2. ASSUME NEW c \in Conns, Connect(c) \/ Input(c) \/ Serve(c)
      PROVE  FiniteInv'
  <2>1. CASE AddConnection(c)
    BY <2>1, FS_AddElement DEF AddConnection
  <2>2. CASE RemoveConnection(c)
    BY <2>2, FS_RemoveElement DEF RemoveConnection
  <2>3. CASE ~AddConnection(c) /\ ~RemoveConnection(c)
    BY <1>1, <1>2, <2>3 DEF Connect, Input, Serve, Accept, ConnInput, ConnStep, OpenSession,
        ShowSession, RecordDisconnect, ReadFails, SequenceGap, Dismiss, SyncRuntimeDisconnect,
        FinishSession
  <2> QED  BY <2>1, <2>2, <2>3
<1>3. CASE StartCloseAll
  BY <1>3 DEF StartCloseAll, servesUnchanged
<1>4. CASE CloseAllStep
  <2>1. ASSUME NEW c \in Conns, SendClose(c)
        PROVE  FiniteInv'
    <3>1. closer'.left = closer.left \ {c} /\ registry' = registry
      BY <1>0, <2>1 DEF SendClose, servesUnchanged
    <3> QED  BY <3>1, FS_RemoveElement
  <2>2. CASE SeesClosed \/ WaitTimesOut
    BY <1>0, <2>2 DEF SeesClosed, WaitTimesOut, servesUnchanged
  <2> QED  BY <1>4, <2>1, <2>2 DEF CloseAllStep
<1>5. CASE StartStep \/ StartAborts
  BY <1>1, <1>5, StartElsewhere DEF connVars, Load
<1> QED
  BY <1>1, <1>2, <1>3, <1>4, <1>5
     DEF vars, connVars, Next, HealthStep, DatabasePinged, HealthGoesOn, MainStep, Arrive, Expire,
         HSMStep, PingDatabase, TradingChecked, TwoFAChecked, Respond, Done, Signal, ServerFails,
         SchedulerStopped, Close, Shutdown, Exit

LEMMA AlwaysFinite == Spec => []FiniteInv
<1>1. Init => FiniteInv
  BY FS_EmptySet DEF Init, ConnInit, FiniteInv
<1> QED  BY <1>1, FiniteKept, TypeCorrect, PTL DEF Spec

\* Each step of CloseAll brings it nearer to its end.
LEMMA CloseWorks ==
    ASSUME TypeOK, FiniteInv, CloseAllStep
    PROVE  CloseLeft(closer) \in Nat /\ CloseLeft(closer') < CloseLeft(closer)
<1>0. closer \in [left : SUBSET Conns, waiting : Conns \cup {None}, seen : SUBSET Conns]
  BY DEF TypeOK, ConnTypeOK
<1>1. Cardinality(closer.left) \in Nat
  BY FS_CardinalityType DEF FiniteInv
<1>2. ASSUME NEW c \in Conns, SendClose(c)
      PROVE  CloseLeft(closer') < CloseLeft(closer)
  <2>1. /\ closer.waiting = None /\ c \in closer.left
        /\ closer'.waiting = c /\ closer'.left = closer.left \ {c}
    BY <1>0, <1>2 DEF SendClose
  <2>2. Cardinality(closer'.left) = Cardinality(closer.left) - 1
    BY <2>1, FS_RemoveElement DEF FiniteInv
  <2>3. CloseLeft(closer) = 2 * Cardinality(closer.left)
    BY <1>1, <2>1 DEF CloseLeft
  <2>4. CloseLeft(closer') = 2 * Cardinality(closer'.left) + 1
    BY <2>1, ConnAssumption DEF CloseLeft
  <2> QED  BY <1>1, <2>2, <2>3, <2>4
<1>3. CASE SeesClosed \/ WaitTimesOut
  <2>1. closer.waiting # None
    BY <1>3, ConnAssumption DEF SeesClosed, WaitTimesOut, TypeOK, ConnTypeOK
  <2>2. closer'.waiting = None /\ closer'.left = closer.left
    BY <1>0, <1>3 DEF SeesClosed, WaitTimesOut
  <2> QED  BY <1>1, <2>1, <2>2 DEF CloseLeft
<1>4. CloseLeft(closer) \in Nat
  BY <1>1 DEF CloseLeft
<1> QED  BY <1>2, <1>3, <1>4 DEF CloseAllStep

\* The start, a health request and the shutdown get nearer to their ends with each of
\* their own steps, for any number of attempts and connections, and nobody else holds
\* them up: neither the traders nor the services, other requests or the end of a context
\* (WithRetry, doRequest, Health, CloseAll, waitForConnectionClose).  The steps that only
\* the database ends, the pings and queries without a deadline and the wait for the
\* scheduler, are steps like any other, and nothing is said of how long they take.
\* EverythingEnds follows with the fairness of the other steps.
THEOREM EndsAreBounded ==
    Spec => [][StartBounded /\ HealthBounded /\ CloseBounded]_vars
<1> DEFINE Inv == TypeOK /\ Quiet /\ CallCounted /\ FiniteInv
<1>1. Inv /\ Inv' /\ [Next]_vars => [StartBounded /\ HealthBounded /\ CloseBounded]_vars
  <2> SUFFICES ASSUME Inv, Inv', Next
               PROVE  StartBounded /\ HealthBounded /\ CloseBounded
    OBVIOUS
  <2>1. /\ Round = 3 * MaxAttempts + 1 /\ MaxAttempts \in Nat
        /\ Waiting(call) \in Nat /\ Waiting(call) < Round
    BY Waits
  <2>2. HSMStep => main \in SelfTest \/ health.pc \in {"trading", "2fa"}
    BY DEF HSMStep
  <2>3. StartBounded
    <3> SUFFICES ASSUME main \in Starting
                 PROVE  /\ StartLeft(main, pings, call) \in 1 .. 12 * MaxAttempts + 9
                        /\ StartStep \/ HSMStep =>
                             main' \in {"running", "stopped"} \/ (main' \in Starting /\ StartNearer)
                        /\ ~(StartStep \/ HSMStep) =>
                             main' = "stopped" \/ UNCHANGED <<main, pings, call>>
      BY DEF StartBounded
    <3>1. StartLeft(main, pings, call) \in 1 .. 12 * MaxAttempts + 9
      <4>1. pings \in Nat /\ (main = "database" => pings < 3)
        BY PingsLeft
      <4>2. \/ pings < 3 /\ StartLeft(main, pings, call) = 4 * Round + 2 + (3 - pings)
            \/ StartLeft(main, pings, call) = 4 * Round + 2
            \/ StartLeft(main, pings, call) = 3 * Round + 2 + Waiting(call)
            \/ StartLeft(main, pings, call) = 2 * Round + 2 + Waiting(call)
            \/ StartLeft(main, pings, call) = Round + 2 + Waiting(call)
            \/ StartLeft(main, pings, call) = 2 + Waiting(call)
            \/ StartLeft(main, pings, call) = 1
        BY <4>1, StartValues DEF MaxPings
      <4>3. pings \in Nat
        BY <4>1
      <4> QED  BY <2>1, <4>2, <4>3
    <3>2. health.pc = "idle"
      BY DEF Quiet
    <3>3. HSMStep => main' \in Starting /\ StartNearer
      BY <2>2, <3>2, HSMWorks DEF Starting
    <3>4. ASSUME ~(StartStep \/ HSMStep)
          PROVE  main' = "stopped" \/ UNCHANGED <<main, pings, call>>
      <4>1. main \notin {"running", "stopping", "failing", "closing", "aborting", "draining"}
        BY DEF Starting, SelfTest
      <4>2. ~HealthStep
        BY <3>2 DEF HealthStep, DatabasePinged, HealthGoesOn, PingDatabase, TradingChecked,
                    TwoFAChecked, Respond, Done
      <4> QED
        BY <3>4, <4>1, <4>2 DEF Next, Connect, Input, Serve, callVars, StartAborts, Arrive, Expire,
            Signal, ServerFails, SchedulerStopped, MainStep, Close, Shutdown, Exit, mainOnly
    <3> QED  BY <3>1, <3>3, <3>4, StartWorks
  <2>4. HealthBounded
    <3> SUFFICES ASSUME health.pc # "idle"
                 PROVE  /\ HealthLeft(health.pc, call) \in 1 .. 6 * MaxAttempts + 5
                        /\ HealthStep \/ HSMStep => HealthNearer
                        /\ ~(HealthStep \/ HSMStep) => UNCHANGED <<health, call>>
      BY DEF HealthBounded
    <3>1. HealthLeft(health.pc, call) \in 1 .. 6 * MaxAttempts + 5
      <4>1. health.pc \in {"ping", "trading", "2fa", "respond", "answered"}
        BY DEF TypeOK, Health
      <4> QED  BY <2>1, <4>1, HealthValues
    <3>2. main \notin Starting
      BY DEF Quiet
    <3>3. HSMStep => HealthNearer
      BY <2>2, <3>2, HSMWorks DEF Starting
    <3>4. ~StartStep /\ ~StartAborts
      BY <3>2, OnlyAtTheStart
    <3>5. ~(HealthStep \/ HSMStep) => UNCHANGED <<health, call>>
      BY <3>4 DEF Next, Connect, Input, Serve, callVars, Arrive, Expire, Signal, ServerFails,
                  SchedulerStopped, MainStep, Close, Shutdown, Exit, mainOnly
    <3> QED  BY <3>1, <3>3, <3>5, HealthWorks
  <2>5. ASSUME main \in Leaving
        PROVE  CloseBounded
    <3>1. main \notin Starting
      BY <2>5 DEF Leaving, Starting, SelfTest
    <3>2. ~StartStep /\ ~StartAborts
      BY <3>1, OnlyAtTheStart
    <3>3. SchedulerStopped =>
             /\ main \in {"stopping", "failing"} /\ main' \in {"closing", "aborting"}
             /\ CloseLeft(closer') = 2 * Cardinality(registry) /\ Cardinality(registry) \in Nat
      <4>1. Cardinality(registry) \in Nat
        BY FS_CardinalityType DEF FiniteInv
      <4> QED  BY <4>1 DEF SchedulerStopped, StartCloseAll, CloseLeft
    <3>4. Close =>
             /\ main' = main
             /\ CloseLeft(closer) \in Nat /\ CloseLeft(closer') < CloseLeft(closer)
      BY CloseWorks DEF Close
    <3>5. Shutdown => CloseLeft(closer) = 0 /\ main' = "draining"
      BY FS_EmptySet DEF Shutdown, AllClosed, CloseLeft
    <3>6. Exit => main' = "stopped"
      BY DEF Exit
    <3>7. ASSUME NEW c \in Conns, Connect(c) \/ Input(c) \/ Serve(c)
          PROVE  UNCHANGED <<main, closer>>
      BY <3>7 DEF Connect, Input, Serve, Accept, ConnInput, ConnStep, AddConnection, OpenSession,
             ShowSession, RecordDisconnect, ReadFails, SequenceGap, Dismiss,
             SyncRuntimeDisconnect, FinishSession, RemoveConnection
    <3>8. ~(SchedulerStopped \/ MainStep) => UNCHANGED <<main, closer>>
      BY <2>5, <3>2, <3>7 DEF Next, connVars, Arrive, Expire, HealthStep, DatabasePinged, HealthGoesOn,
          PingDatabase, TradingChecked, TwoFAChecked, Respond, Done, HSMStep, Signal, ServerFails,
          Leaving
    <3> QED  BY <3>3, <3>4, <3>5, <3>6, <3>8 DEF CloseBounded
  <2> QED  BY <2>3, <2>4, <2>5 DEF CloseBounded
<1> QED  BY <1>1, TypeCorrect, AlwaysCounted, AlwaysFinite, PTL DEF Spec
=============================================================================
