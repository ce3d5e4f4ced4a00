----------------------------- MODULE StateStore -----------------------------
(***************************************************************************)
(* The state manager (internal/state) and the part of main that drives it: *)
(* the state file is loaded at the start, saved and backed up by a         *)
(* background goroutine at every tick, and saved a last time by Close when *)
(* the process is told to stop or its server fails.  Both savers write the *)
(* same temporary file, which is then renamed to the state file.           *)
(*                                                                         *)
(* A state is its server status and a revision: every setter of the        *)
(* manager changes some field and UpdatedAt, and is told apart here only   *)
(* by that it happened.  A crash is the death of the process at any point; *)
(* the disk keeps what was written (a power failure is not modelled).      *)
(***************************************************************************)
EXTENDS Naturals, FiniteSets

CONSTANTS
    None,         \* no such file
    Partial,      \* a file that is truncated or half written
    MaxBackups,   \* ManagerConfig.MaxBackups
    MaxSets,      \* bound: calls of a setter, over all runs of the process
    MaxStarts,    \* bound: starts of the process
    MaxFaults,    \* bound: file operations that fail
    MaxTime       \* bound: the clock, in seconds

Status == {"starting", "running", "stopping", "stopped"}
States == [status : Status, rev : Nat]

\* NewManager replaces a MaxBackups that is not positive.
ASSUME MaxBackupsAssumption == MaxBackups \in Nat \ {0}
ASSUME FileAssumption ==
    None \notin States /\ Partial \notin States /\ None # Partial

VARIABLES
    mem,       \* Manager.state
    file,      \* the state file
    tmp,       \* the temporary file
    data,      \* what each saver has marshalled
    save,      \* where each saver is in Save and Backup
    backups,   \* the backup files, by the second in their name
    stamps,    \* history: every backup file there ever was
    main,      \* where main is
    code,      \* the exit code main has settled on
    serverErr, \* what serverErrCh will deliver
    syncOn,    \* the background goroutine runs (counted by wg)
    tick,      \* a tick is pending in ticker.C
    stopCh,    \* stopCh is closed
    atClose,   \* history: the revision of the state when Close was called
    time, sets, starts, faults

disk == <<file, tmp, backups, stamps>>
savers == <<data, save>>
process == <<main, code, serverErr, syncOn, tick, stopCh, atClose>>
bounds == <<time, sets, starts, faults>>
vars == <<mem, disk, savers, process, bounds>>

Savers == {"sync", "main"}
Ended == {"down", "exited", "failed"}
Alive == main \notin Ended

\* NewDaemonState.
NewDaemonState == [status |-> "starting", rev |-> 0]

\* SetServerStatus, and with the same status any other setter.
With(status) == [status |-> status, rev |-> mem.rev + 1]

Init ==
    /\ mem = NewDaemonState
    /\ file = None /\ tmp = None
    /\ data = [p \in Savers |-> NewDaemonState]
    /\ save = [p \in Savers |-> "idle"]
    /\ backups = {} /\ stamps = {}
    /\ main = "down" /\ code = 0 /\ serverErr = "none"
    /\ syncOn = FALSE /\ tick = FALSE /\ stopCh = FALSE
    /\ atClose = 0
    /\ time = 0 /\ sets = 0 /\ starts = 0 /\ faults = 0

Fault == faults < MaxFaults /\ faults' = faults + 1

----------------------------------------------------------------------------
(* Start of the process.                                                   *)

\* Load: a missing or corrupted file is answered with the empty state.
Loaded == IF file \in {None, Partial} THEN NewDaemonState ELSE file

\* A start that gets through: Load, SetServerStatus("running"),
\* StartBackgroundSync.
Begin(state) ==
    /\ ~Alive /\ starts < MaxStarts
    /\ starts' = starts + 1
    /\ main' = "running" /\ code' = 0 /\ serverErr' = "none"
    /\ mem' = [status |-> "running", rev |-> state.rev + 1]
    /\ syncOn' = TRUE /\ tick' = FALSE /\ stopCh' = FALSE
    /\ atClose' = 0
    /\ UNCHANGED <<disk, savers, time, sets>>

Start == Begin(Loaded) /\ UNCHANGED faults

\* Mutation: an unreadable file is taken for a missing one.
LoadFailsUnnoticed == Begin(NewDaemonState) /\ file # None /\ Fault

\* A state file that is there and cannot be read ends the process.
LoadFails ==
    /\ ~Alive /\ starts < MaxStarts /\ file # None
    /\ Fault
    /\ starts' = starts + 1
    /\ main' = "failed"
    /\ UNCHANGED <<mem, disk, savers, code, serverErr, syncOn, tick, stopCh,
                   atClose, time, sets>>

----------------------------------------------------------------------------
(* The setters, called by connections, health checks and the scheduler as  *)
(* long as the process is there: Shutdown does not wait for connections    *)
(* that were upgraded.                                                     *)

Set ==
    /\ Alive /\ sets < MaxSets
    /\ sets' = sets + 1
    /\ mem' = With(mem.status)
    /\ UNCHANGED <<disk, savers, process, time, starts, faults>>

----------------------------------------------------------------------------
(* Save and Backup, one file operation at a time.                          *)

\* How saver p ends (its locals go), with or without an error: the goroutine logs it and
\* goes on; main exits with 1, or after a Close without error waits for the
\* server's result if no error preceded.
Finish(p, ok) ==
    /\ save' = [save EXCEPT ![p] = "idle"]
    /\ data' = [data EXCEPT ![p] = NewDaemonState]
    /\ main' = IF p = "sync" THEN main
               ELSE IF ok /\ code = 0 THEN "awaiting" ELSE "failed"
    /\ UNCHANGED <<mem, code, serverErr, syncOn, tick, stopCh, atClose,
                   time, sets, starts>>

\* p goes on to the next operation.
Advance(p, pc) ==
    /\ save' = [save EXCEPT ![p] = pc]
    /\ UNCHANGED <<mem, process, bounds>>

\* The locked part of Save.
Marshal(p) ==
    /\ save[p] = "idle"
    /\ data' = [data EXCEPT ![p] = mem]
    /\ save' = [save EXCEPT ![p] = "marshalled"]

\* os.WriteFile creates or truncates the temporary file and then writes it.
OpenTmp(p) ==
    /\ save[p] = "marshalled"
    /\ tmp' = Partial
    /\ UNCHANGED <<file, backups, stamps>>
    /\ UNCHANGED data
    /\ Advance(p, "opened")

WriteTmp(p) ==
    /\ save[p] = "opened"
    /\ tmp' = data[p]
    /\ UNCHANGED <<file, backups, stamps>>
    /\ UNCHANGED data
    /\ Advance(p, "written")

\* os.Rename.
RenameTmp(p) ==
    /\ save[p] = "written" /\ tmp # None
    /\ file' = tmp /\ tmp' = None
    /\ UNCHANGED <<backups, stamps>>
    /\ data' = [data EXCEPT ![p] = NewDaemonState]
    /\ Advance(p, "saved")

\* Mutation: the error is logged and not returned.
SaveErrorIgnored(p) ==
    /\ save[p] \in {"marshalled", "opened", "written"}
    /\ Fault
    /\ UNCHANGED disk
    /\ Finish(p, TRUE)

\* WriteFile or Rename fails: the temporary file stays as it is.
SaveFails(p) ==
    /\ save[p] \in {"marshalled", "opened", "written"}
    /\ Fault
    /\ UNCHANGED disk
    /\ Finish(p, FALSE)

\* Backup copies the state file to one named after the second.
WriteBackup(p) ==
    /\ save[p] = "saved"
    /\ backups' = backups \cup {time} /\ stamps' = stamps \cup {time}
    /\ UNCHANGED <<file, tmp>>
    /\ UNCHANGED data
    /\ Advance(p, "rotating")

\* The read or the write of the copy fails; a failed write may leave a file.
BackupFails(p) ==
    /\ save[p] = "saved"
    /\ Fault
    /\ \E left \in {{}, {time}} :
          backups' = backups \cup left /\ stamps' = stamps \cup left
    /\ UNCHANGED <<file, tmp>>
    /\ Finish(p, FALSE)

\* Mutation: a file too many goes.
ExcessOffByOne == Cardinality(backups) >= MaxBackups

\* cleanupOldBackups: the oldest files go, one after the other.
Excess == Cardinality(backups) > MaxBackups

RemoveOldest(p) ==
    /\ save[p] = "rotating" /\ Excess
    /\ \E s \in backups : /\ \A t \in backups : s <= t
                          /\ backups' = backups \ {s}
    /\ UNCHANGED <<file, tmp, stamps>>
    /\ UNCHANGED data
    /\ Advance(p, "rotating")

RemoveFails(p) ==
    /\ save[p] = "rotating" /\ Excess
    /\ Fault
    /\ UNCHANGED disk
    /\ Finish(p, FALSE)

Rotated(p) ==
    /\ save[p] = "rotating" /\ ~Excess
    /\ UNCHANGED <<disk, faults>>
    /\ Finish(p, TRUE)

SaveStep(p) ==
    \/ OpenTmp(p) \/ WriteTmp(p) \/ RenameTmp(p) \/ WriteBackup(p)
    \/ RemoveOldest(p) \/ Rotated(p)

SaveFault(p) == SaveFails(p) \/ BackupFails(p) \/ RemoveFails(p)

----------------------------------------------------------------------------
(* The background goroutine.                                               *)

TickerFires ==
    /\ syncOn /\ ~tick
    /\ tick' = TRUE
    /\ UNCHANGED <<mem, disk, savers, main, code, serverErr, syncOn, stopCh,
                   atClose, bounds>>

\* With a tick pending and stopCh closed, select takes either branch.
SyncSaves ==
    /\ syncOn /\ tick
    /\ Marshal("sync")
    /\ tick' = FALSE
    /\ UNCHANGED <<mem, disk, main, code, serverErr, syncOn, stopCh, atClose,
                   bounds>>

SyncStops ==
    /\ syncOn /\ stopCh /\ save["sync"] = "idle"
    /\ syncOn' = FALSE
    /\ UNCHANGED <<mem, disk, savers, main, code, serverErr, tick, stopCh,
                   atClose, bounds>>

----------------------------------------------------------------------------
(* main, from its select to the exit.                                      *)

\* ListenAndServeTLS returns: with an error, or because of Shutdown.
ServerReturns ==
    /\ Alive /\ serverErr = "none"
    /\ \/ serverErr' = "error"
       \/ main # "running" /\ serverErr' = "closed"
    /\ UNCHANGED <<mem, disk, savers, main, code, syncOn, tick, stopCh,
                   atClose, bounds>>

\* SIGINT or SIGTERM; the scheduler is stopped, the connections are closed.
Signal ==
    /\ main = "running"
    /\ main' = "stopping"
    /\ mem' = With("stopping")
    /\ UNCHANGED <<disk, savers, code, serverErr, syncOn, tick, stopCh,
                   atClose, bounds>>

\* The server failed first: the state is closed with the status it has.
ServerFailed ==
    /\ main = "running" /\ serverErr = "error"
    /\ main' = "drained" /\ code' = 1
    /\ UNCHANGED <<mem, disk, savers, serverErr, syncOn, tick, stopCh,
                   atClose, bounds>>

\* httpServer.Shutdown returns nil, or an error when the grace is over.
Drained ==
    /\ main = "stopping"
    /\ main' = "drained"
    /\ \/ code' = 1 /\ mem' = mem
       \/ code' = code /\ mem' = With("stopped")
    /\ UNCHANGED <<disk, savers, serverErr, syncOn, tick, stopCh, atClose,
                   bounds>>

\* Mutation: Close does not close stopCh.
CloseWithoutStop ==
    /\ main = "drained"
    /\ main' = "closing" /\ atClose' = mem.rev
    /\ UNCHANGED <<mem, disk, savers, code, serverErr, syncOn, tick, stopCh,
                   bounds>>

\* Close: close(stopCh), wg.Wait(), and then Save and Backup.
CloseStops ==
    /\ main = "drained"
    /\ main' = "closing" /\ stopCh' = TRUE /\ atClose' = mem.rev
    /\ UNCHANGED <<mem, disk, savers, code, serverErr, syncOn, tick, bounds>>

\* Mutation: Close does not wait for the goroutine.
CloseSavesAtOnce ==
    /\ main = "closing"
    /\ Marshal("main")
    /\ main' = "saving"
    /\ UNCHANGED <<mem, disk, code, serverErr, syncOn, tick, stopCh, atClose,
                   bounds>>

CloseSaves ==
    /\ main = "closing" /\ ~syncOn
    /\ Marshal("main")
    /\ main' = "saving"
    /\ UNCHANGED <<mem, disk, code, serverErr, syncOn, tick, stopCh, atClose,
                   bounds>>

\* The last receive from serverErrCh decides between exit 0 and 1.
Exit ==
    /\ main = "awaiting" /\ serverErr # "none"
    /\ main' = IF serverErr = "closed" THEN "exited" ELSE "failed"
    /\ UNCHANGED <<mem, disk, savers, code, serverErr, syncOn, tick, stopCh,
                   atClose, bounds>>

----------------------------------------------------------------------------
(* The environment.                                                        *)

\* The process dies, or main leaves with os.Exit between the start of the
\* goroutine and its select: nothing is saved.
Crash ==
    /\ Alive
    /\ main' = "down" /\ code' = 0 /\ serverErr' = "none"
    /\ mem' = NewDaemonState
    /\ data' = [p \in Savers |-> NewDaemonState]
    /\ save' = [p \in Savers |-> "idle"]
    /\ syncOn' = FALSE /\ tick' = FALSE /\ stopCh' = FALSE
    /\ atClose' = 0
    /\ UNCHANGED <<disk, bounds>>

Clock ==
    /\ time < MaxTime
    /\ time' = time + 1
    /\ UNCHANGED <<mem, disk, savers, process, sets, starts, faults>>

MainStep == Drained \/ CloseStops \/ CloseSaves \/ SaveStep("main") \/ Exit

Next ==
    \/ Start \/ LoadFails \/ Set
    \/ \E p \in Savers : SaveStep(p) \/ SaveFault(p)
    \/ TickerFires \/ SyncSaves \/ SyncStops
    \/ ServerReturns \/ Signal \/ ServerFailed \/ Drained
    \/ CloseStops \/ CloseSaves \/ Exit
    \/ Crash \/ Clock

Spec == Init /\ [][Next]_vars

(***************************************************************************)
(* main and the goroutine go on with what they have begun; Shutdown        *)
(* returns after at most ShutdownGrace and makes the server return.  The   *)
(* goroutine may find a tick pending whenever it comes back to its select, *)
(* which takes one of the ready branches at random: it takes stopCh if it  *)
(* can again and again (strong fairness).  No crash, no signal, no tick    *)
(* and no error is assumed to happen.                                      *)
(***************************************************************************)
Fairness ==
    /\ WF_vars(MainStep)
    /\ WF_vars(main # "running" /\ ServerReturns)
    /\ WF_vars(SaveStep("sync"))
    /\ SF_vars(SyncStops)

FairSpec == Spec /\ Fairness

----------------------------------------------------------------------------
(* Properties.                                                             *)

\* Types; the state file is never one that is half written.
TypeOK ==
    /\ mem \in States
    /\ file \in States \cup {None}
    /\ tmp \in States \cup {None, Partial}
    /\ data \in [Savers -> States]
    /\ save \in [Savers -> {"idle", "marshalled", "opened", "written",
                            "saved", "rotating"}]
    /\ backups \subseteq stamps /\ stamps \subseteq Nat
    /\ main \in Ended \cup {"running", "stopping", "drained", "closing",
                            "saving", "awaiting"}
    /\ code \in {0, 1}
    /\ serverErr \in {"none", "error", "closed"}
    /\ syncOn \in BOOLEAN /\ tick \in BOOLEAN /\ stopCh \in BOOLEAN
    /\ atClose \in Nat
    /\ time \in Nat /\ sets \in Nat /\ starts \in Nat /\ faults \in Nat

\* Whatever crashes, failures and restarts there are, a state file is only
\* ever replaced by a later revision of it: no save of the goroutine undoes
\* the one of Close, and no start forgets what the file held (Save, Load).
FileMovesForward ==
    [][file' # file /\ file # None =>
           file' \in States /\ file'.rev >= file.rev]_vars

\* A process that left with exit code 0 has put "stopped" and every change
\* made before Close was called into the state file (Close, main).
CleanExitSaved ==
    main = "exited" =>
        file # None /\ file.status = "stopped" /\ file.rev >= atClose

Newer(S, s) == {t \in S : t > s}

\* A backup is removed only while there are MaxBackups newer ones, also if
\* earlier rotations failed or were cut off (cleanupOldBackups).
RotationKeepsNewest ==
    \A s \in stamps \ backups : Cardinality(Newer(backups, s)) >= MaxBackups

\* A process that was told to stop ends, though Close waits for a goroutine
\* that may be in the middle of a save (Close, StartBackgroundSync).
ShutdownEnds == main = "stopping" ~> ~Alive
=============================================================================
