--------------------------- MODULE ServiceRuntime ---------------------------
(***************************************************************************)
(* The process as a whole: the connections (Connections), a health         *)
(* request, which pings the database and asks both HSM services            *)
(* (HSMClient), and main, which tries the database and both services at    *)
(* the start, and on a signal or a server error stops the scheduler,       *)
(* closes the connections, shuts the HTTP server down and exits.           *)
(*                                                                         *)
(* What the scheduler and the state file do is in SchedulerEngine and      *)
(* StateStore; here main waits for the one and loads the other.            *)
(***************************************************************************)
EXTENDS Connections, HSMClient

CONSTANT MaxClients   \* bound: connections and health requests

VARIABLES main,      \* where main is
          pings,     \* failed pings of NewMySQLClient
          health,    \* the locals of HealthHandler.Health
          clients    \* history: how many connections and requests there were

vars == <<connVars, callVars, main, pings, health, clients>>

\* The calls main makes at the start, to see a round trip of both services
SelfTest == {"encrypt trading", "decrypt trading", "encrypt 2fa", "decrypt 2fa"}

Starting == {"database", "list", "prepare"} \cup SelfTest

MaxPings == 3   \* DefaultRetryConfig

Health == [pc : {"idle", "ping", "trading", "2fa", "respond", "answered"},
           db : {"ok", "error"}, hsm : {"ok", "error"},
           status : {"ok", "degraded"},
           evidence : {"none", "answered", "refused", "exhausted"}]   \* history

NoHealth == [pc |-> "idle", db |-> "error", hsm |-> "error",
             status |-> "degraded", evidence |-> "none"]

TypeOK ==
    /\ ConnTypeOK /\ CallTypeOK
    /\ main \in Starting \cup {"running", "stopping", "failing", "closing", "aborting",
                              "draining", "stopped"}
    /\ pings \in 0 .. MaxPings /\ (main = "database" => pings < MaxPings)
    /\ health \in Health
    /\ clients \in Nat

Init ==
    /\ ConnInit
    /\ call = NoCall /\ expired = FALSE /\ last = "none"
    /\ main = "database" /\ pings = 0 /\ health = NoHealth /\ clients = 0

\* The listener takes new connections until it fails or is shut down.
Listening == main \in {"running", "stopping", "closing"}

-----------------------------------------------------------------------------
(* The start of main.  Its context has no deadline, and what the services  *)
(* answer is logged: the start goes on without them.                       *)

startOnly == UNCHANGED <<connVars, expired, health, clients>>

\* NewMySQLClient: WithRetry tries a ping again, and gives up after the last.
PingFails ==
    /\ main = "database"
    /\ pings' = pings + 1
    /\ main' = IF pings' < MaxPings THEN main ELSE "stopped"
    /\ UNCHANGED <<call, last>> /\ startOnly

PingAnswers ==
    /\ main = "database" /\ main' = "list"
    /\ pings' = 0
    /\ UNCHANGED <<call, last>> /\ startOnly

\* Trader().List is over; what it found, or its error, is logged.  The client for the
\* trading service is set up and used.
ListTraders ==
    /\ main = "list" /\ main' = "encrypt trading"
    /\ StartCall
    /\ UNCHANGED pings /\ startOnly

\* Encrypt: a success may carry an error of the service.
Encrypted(refused) == call.result = "ok" /\ ~refused

TradingEncrypted(refused) ==
    /\ main = "encrypt trading" /\ call.pc = "ended"
    /\ main' = IF Encrypted(refused) THEN "decrypt trading" ELSE "encrypt 2fa"
    /\ StartCall
    /\ UNCHANGED pings /\ startOnly

\* Whatever Decrypt returns, the second service is next.
TradingDecrypted ==
    /\ main = "decrypt trading" /\ call.pc = "ended"
    /\ main' = "encrypt 2fa"
    /\ StartCall
    /\ UNCHANGED pings /\ startOnly

TwoFAEncrypted(refused) ==
    /\ main = "encrypt 2fa" /\ call.pc = "ended"
    /\ IF Encrypted(refused)
       THEN main' = "decrypt 2fa" /\ StartCall
       ELSE main' = "prepare" /\ EndCall
    /\ UNCHANGED pings /\ startOnly

TwoFADecrypted ==
    /\ main = "decrypt 2fa" /\ call.pc = "ended"
    /\ main' = "prepare" /\ EndCall
    /\ UNCHANGED pings /\ startOnly

\* The state is loaded, the router and the scheduler are there, the server starts.
Prepare ==
    /\ main = "prepare" /\ main' = "running"
    /\ Load
    /\ UNCHANGED <<callVars, pings, health, clients>>

\* Pings and the first query have no deadline: it is the database that ends them.
DatabaseStarts == PingFails \/ PingAnswers \/ ListTraders

StartGoesOn ==
    \/ TradingDecrypted \/ TwoFADecrypted \/ Prepare
    \/ \E refused \in BOOLEAN : TradingEncrypted(refused) \/ TwoFAEncrypted(refused)

StartStep == DatabaseStarts \/ StartGoesOn

\* os.Exit(1) of a step that fails (a configuration or certificate that cannot be read,
\* a state that cannot be loaded), or a signal, which nobody listens to before the
\* server runs.
StartAborts ==
    /\ main \in Starting /\ main' = "stopped"
    /\ UNCHANGED <<call, last, pings>> /\ startOnly

-----------------------------------------------------------------------------
(* GET /health and /ready.                                                 *)

Arrive ==
    /\ Listening /\ health.pc = "idle" /\ clients < MaxClients
    /\ health' = [NoHealth EXCEPT !.pc = "ping"]
    /\ expired' = FALSE
    /\ clients' = clients + 1
    /\ UNCHANGED <<connVars, call, last, main, pings>>

\* External: the three seconds are over, or the client has gone.
Expire ==
    /\ health.pc \notin {"idle", "answered"} /\ ~expired
    /\ expired' = TRUE
    /\ UNCHANGED <<connVars, call, last, main, pings, health, clients>>

\* checkDatabase, then checkHSM of the trading service begins.
PingDatabase(result) ==
    /\ health.pc = "ping"
    /\ health' = [health EXCEPT !.pc = "trading", !.db = result]
    /\ StartCall
    /\ UNCHANGED <<connVars, expired, main, pings, clients>>

\* What came of a call, seen from the service
Evidence ==
    IF last = "2xx" THEN "answered"
    ELSE IF last \in {"4xx", "garbled"} THEN "refused"
    ELSE IF call.attempt = MaxAttempts THEN "exhausted" ELSE "none"

\* checkHSM returns; the second service is asked with the same context.
TradingChecked ==
    /\ health.pc = "trading" /\ call.pc = "ended"
    /\ health' = [health EXCEPT !.pc = "2fa", !.hsm = call.result, !.evidence = Evidence]
    /\ StartCall
    /\ UNCHANGED <<connVars, expired, main, pings, clients>>

TwoFAChecked ==
    /\ health.pc = "2fa" /\ call.pc = "ended"
    /\ health' = [health EXCEPT !.pc = "respond"]
    /\ EndCall
    /\ UNCHANGED <<connVars, expired, main, pings, clients>>

Respond ==
    /\ health.pc = "respond"
    /\ health' = [health EXCEPT !.pc = "answered",
                    !.status = IF health.db = "ok" /\ health.hsm = "ok" THEN "ok" ELSE "degraded"]
    /\ UNCHANGED <<connVars, callVars, main, pings, clients>>

Done ==
    /\ health.pc = "answered"
    /\ health' = NoHealth /\ expired' = FALSE
    /\ UNCHANGED <<connVars, call, last, main, pings, clients>>

\* doRequest goes on, for the start or for the health request.
HSMStep ==
    /\ main \in SelfTest \/ health.pc \in {"trading", "2fa"}
    /\ CallStep
    /\ UNCHANGED <<connVars, main, pings, health, clients>>

\* The ping does not see the context: it is the database that ends it.
DatabasePinged == \E result \in {"ok", "error"} : PingDatabase(result)

HealthGoesOn == TradingChecked \/ TwoFAChecked \/ Respond \/ Done

HealthStep == DatabasePinged \/ HealthGoesOn

-----------------------------------------------------------------------------
(* main.                                                                   *)

mainOnly == UNCHANGED <<callVars, pings, health, clients>>

Signal ==
    /\ main = "running" /\ main' = "stopping"
    /\ UNCHANGED connVars /\ mainOnly

\* The server fails: no new connections, and the ones there are will be closed.
ServerFails ==
    /\ main = "running" /\ main' = "failing"
    /\ UNCHANGED connVars /\ mainOnly

\* schedulerEngine.Stop has returned, at the end of a cycle whose statements have no
\* deadline; only now CloseAll begins.
SchedulerStopped ==
    /\ \/ main = "stopping" /\ main' = "closing"
       \/ main = "failing" /\ main' = "aborting"
    /\ StartCloseAll /\ mainOnly

Close ==
    /\ main \in {"closing", "aborting"}
    /\ CloseAllStep
    /\ UNCHANGED main /\ mainOnly

\* httpServer.Shutdown: the listener is closed at once.
Shutdown ==
    /\ main = "closing" /\ AllClosed
    /\ main' = "draining"
    /\ UNCHANGED connVars /\ mainOnly

\* main returns, or exits with 1 when a request outlives ShutdownGrace or the server
\* has failed.  Shutdown does not wait for upgraded connections.
Exit ==
    /\ main = "draining" \/ (main = "aborting" /\ AllClosed)
    /\ main' = "stopped"
    /\ UNCHANGED connVars /\ mainOnly

MainStep == Close \/ Shutdown \/ Exit

-----------------------------------------------------------------------------
Connect(c) ==
    /\ Listening /\ clients < MaxClients
    /\ Accept(c)
    /\ clients' = clients + 1
    /\ UNCHANGED <<callVars, main, pings, health>>

Input(c) == ConnInput(c) /\ UNCHANGED <<callVars, main, pings, health, clients>>

Serve(c) == ConnStep(c) /\ UNCHANGED <<callVars, main, pings, health, clients>>

\* The process does nothing once it has exited.
Next ==
    /\ main # "stopped"
    /\ \/ \E c \in Conns : Connect(c) \/ Input(c) \/ Serve(c)
       \/ StartStep \/ StartAborts
       \/ Arrive \/ Expire \/ HealthStep \/ HSMStep
       \/ Signal \/ ServerFails \/ SchedulerStopped \/ MainStep

Spec == Init /\ [][Next]_vars

Alive(A) == main # "stopped" /\ A

\* Goroutines are scheduled, the HTTP client gives up in time, and the timer of
\* waitForConnectionClose fires.  The database has to answer neither pings nor queries
\* without a deadline, nor the scheduler's, for which Stop waits; no call of Serve has
\* to get on; and no connection, request or signal has to come.
FairSpec ==
    /\ Spec
    /\ WF_vars(Alive(StartGoesOn)) /\ WF_vars(Alive(HSMStep))
    /\ WF_vars(Alive(HealthGoesOn)) /\ WF_vars(Alive(MainStep))

-----------------------------------------------------------------------------
(* Properties.                                                             *)

\* The state manager gives away a copy it makes under its lock: /health makes one call,
\* /metrics one for each series.
GetState == runtime

\* A disconnect of this process has been published.
Published == \E c \in Conns : /\ serve[c] \in {"finishing", "removing", "gone"}
                              /\ cause[c] # "dismissed"

\* Whatever the order of the publications, and whatever a state file has left, /health
\* shows disconnect counters that belong together; and once this process has published
\* a disconnect they are counters that this process had: recordDisconnect copies all
\* of them under the lock it counts under, and nothing of an earlier process is mixed
\* with them.
CopiesConsistent ==
    /\ Consistent(GetState)
    /\ Published => \A r \in Reasons : GetState.byReason[r] <= counts.byReason[r]

\* Without an earlier process, the exported total is the number of disconnects the
\* handler has counted, unless one is just being published (metrics.go: "Total
\* websocket disconnects observed by server").
TotalKeepsUp ==
    (\A c \in Conns : serve[c] # "recorded") => GetState.total = counts.total

\* If CloseAll has seen a connection close, its session is over: no snapshot is left,
\* and no open row but the one a failed FinalizeSession left, or an INSERT whose success
\* Serve never heard of.  Sequence gaps and dismissals, after which Serve finishes no
\* session, are the exception.
ClosedMeansFinished ==
    \A c \in closer.seen :
        \/ cause[c] \in {"gap", "dismissed"}
        \/ c \notin snapshots /\ (row[c] = "open" => cause[c] = "unfinalized" \/ c \notin persisted)

\* Health answers "ok" only if this request's ping succeeded and the trading HSM
\* answered it with success, and "degraded" only if the ping failed, or the HSM refused,
\* or every attempt was made in vain.
VerdictEarned ==
    health.pc = "answered" =>
        IF health.status = "ok"
        THEN health.db = "ok" /\ health.evidence = "answered"
        ELSE health.db = "error" \/ health.evidence \in {"refused", "exhausted"}

\* What is left of a start, of a health request and of a shutdown, once the database has
\* answered its pings and queries and the scheduler has stopped, comes to an end whatever
\* the traders and the HSM services do: CloseAll waits for each connection, doRequest
\* tries again, but neither without end.
EverythingEnds ==
    /\ main \in SelfTest \cup {"prepare"} ~> main \in {"running", "stopped"}
    /\ health.pc \notin {"idle", "ping"} ~> health.pc = "idle" \/ main = "stopped"
    /\ main \in {"closing", "aborting", "draining"} ~> main = "stopped"
=============================================================================
