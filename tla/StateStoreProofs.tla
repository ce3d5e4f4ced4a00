-------------------------- MODULE StateStoreProofs --------------------------
(***************************************************************************)
(* The state file through saves, failures, crashes and restarts, for every *)
(* bound.  The argument: Close saves only after the goroutine has ended,   *)
(* so at most one saver uses the temporary file, what it renames is what   *)
(* it marshalled, and that is at least as new as the file.  The last       *)
(* section bounds the steps of a shutdown.                                 *)
(***************************************************************************)
EXTENDS StateStore, FiniteSetTheorems, TLAPS

\* The savers that have something marshalled, and not renamed yet.
Holding(p) == save[p] \in {"marshalled", "opened", "written"}

\* One saver at a time, and none in a process that has ended.
Alone ==
    /\ save["sync"] # "idle" => syncOn
    /\ syncOn => main \in {"running", "stopping", "drained", "closing"}
    /\ save["main"] # "idle" <=> main = "saving"

\* What is renamed is what was marshalled.
TmpIsData == \A p \in Savers : save[p] = "written" => tmp = data[p]

\* The file is no newer than what is about to replace it, which in turn is
\* no newer than the state in memory.
Ordered ==
    /\ file # None /\ Alive => file.rev <= mem.rev
    /\ \A p \in Savers : Holding(p) =>
          /\ data[p].rev <= mem.rev
          /\ file # None => file.rev <= data[p].rev

\* s holds what Close has to save.
Final(s) == s.rev >= atClose /\ (code = 0 => s.status = "stopped")

\* From the call of Close to the exit, step by step.
Closing ==
    /\ main = "drained" /\ code = 0 => mem.status = "stopped"
    /\ main \in {"closing", "saving"} => Final(mem)
    /\ Holding("main") => Final(data["main"])
    /\ save["main"] \in {"saved", "rotating"} \/ main = "awaiting" =>
          file # None /\ Final(file)
    /\ main = "awaiting" => code = 0
    /\ main = "running" => code = 0
    /\ main = "stopping" => code = 0

IInv == TypeOK /\ Alone /\ TmpIsData /\ Ordered /\ Closing /\ CleanExitSaved

LEMMA InitIInv == Init => IInv
<1> SUFFICES ASSUME Init PROVE IInv
  OBVIOUS
<1> USE FileAssumption DEF Init, Holding, Final, Alive, Ended, Savers, NewDaemonState,
        States, Status
<1>1. TypeOK
  BY DEF TypeOK
<1>2. Alone /\ TmpIsData /\ Ordered
  BY DEF Alone, TmpIsData, Ordered
<1>3. Closing /\ CleanExitSaved
  BY DEF Closing, CleanExitSaved
<1> QED BY <1>1, <1>2, <1>3 DEF IInv

\* Every step keeps the inductive invariant and only moves the file forward.
LEMMA NextIInv ==
    ASSUME IInv, [Next]_vars
    PROVE  IInv' /\ (file' # file /\ file # None =>
                        file' \in States /\ file'.rev >= file.rev)
<1> USE FileAssumption DEF IInv, TypeOK, Alone, TmpIsData, Ordered, Closing, CleanExitSaved,
        Holding, Final, Alive, Ended, Savers, NewDaemonState, States, Status,
        disk, savers, process, bounds, vars
<1>1. CASE Start
  <2>1. TypeOK'
    <3>1. (syncOn \in BOOLEAN /\ tick \in BOOLEAN /\ stopCh \in BOOLEAN)'
      BY <1>1, Zenon DEF Start, Begin, Loaded
    <3> QED BY <1>1, <3>1 DEF Start, Begin, Loaded
  <2>2. Alone'
    BY <1>1 DEF Start, Begin, Loaded
  <2>3. TmpIsData'
    BY <1>1 DEF Start, Begin, Loaded
  <2>4. Ordered'
    BY <1>1 DEF Start, Begin, Loaded
  <2>5. Closing'
    BY <1>1 DEF Start, Begin, Loaded
  <2>6. CleanExitSaved'
    BY <1>1 DEF Start, Begin, Loaded
  <2> QED BY <1>1, <2>1, <2>2, <2>3, <2>4, <2>5, <2>6 DEF Start, Begin, Loaded
<1>2. CASE LoadFails
  BY <1>2 DEF LoadFails, Fault
<1>3. CASE Set
  BY <1>3 DEF Set, With
<1>4. ASSUME NEW p \in Savers, SaveStep(p)
      PROVE  IInv' /\ (file' # file /\ file # None =>
                        file' \in States /\ file'.rev >= file.rev)
  <2>1. CASE OpenTmp(p)
    BY <2>1 DEF OpenTmp, Advance
  <2>2. CASE WriteTmp(p)
    BY <2>2 DEF WriteTmp, Advance
  <2>3. CASE RenameTmp(p)
    BY <2>3 DEF RenameTmp, Advance
  <2>4. CASE WriteBackup(p)
    BY <2>4 DEF WriteBackup, Advance
  <2>5. CASE RemoveOldest(p)
    BY <2>5 DEF RemoveOldest, Advance
  <2>6. CASE Rotated(p)
    <3>1. CASE p = "sync"
      BY <2>6, <3>1 DEF Rotated, Finish
    <3>2. CASE p = "main"
      BY <2>6, <3>2 DEF Rotated, Finish
    <3> QED BY <3>1, <3>2
  <2> QED BY <1>4, <2>1, <2>2, <2>3, <2>4, <2>5, <2>6 DEF SaveStep
<1>5. ASSUME NEW p \in Savers, SaveFault(p)
      PROVE  IInv' /\ (file' # file /\ file # None =>
                        file' \in States /\ file'.rev >= file.rev)
  <2>1. CASE SaveFails(p)
    BY <2>1 DEF SaveFails, Fault, Finish
  <2>2. CASE BackupFails(p)
    <3>1. backups' \subseteq stamps' /\ stamps' \subseteq Nat
      BY <2>2 DEF BackupFails
    <3>2. /\ save[p] = "saved" /\ UNCHANGED <<file, tmp>>
          /\ Fault /\ Finish(p, FALSE)
      BY <2>2 DEF BackupFails
    <3>3. CASE p = "sync"
      BY <3>1, <3>2, <3>3 DEF Fault, Finish
    <3>4. CASE p = "main"
      BY <3>1, <3>2, <3>4 DEF Fault, Finish
    <3> QED BY <3>3, <3>4
  <2>3. CASE RemoveFails(p)
    BY <2>3 DEF RemoveFails, Fault, Finish
  <2> QED BY <1>5, <2>1, <2>2, <2>3 DEF SaveFault
<1>6. CASE TickerFires
  BY <1>6 DEF TickerFires
<1>7. CASE SyncSaves
  <2>1. TypeOK'
    <3>1. (syncOn \in BOOLEAN /\ tick \in BOOLEAN /\ stopCh \in BOOLEAN)'
      BY <1>7, Zenon DEF SyncSaves, Marshal
    <3> QED BY <1>7, <3>1 DEF SyncSaves, Marshal
  <2>2. Alone'
    BY <1>7 DEF SyncSaves, Marshal
  <2>3. TmpIsData'
    BY <1>7 DEF SyncSaves, Marshal
  <2>4. Ordered'
    BY <1>7 DEF SyncSaves, Marshal
  <2>5. Closing'
    BY <1>7 DEF SyncSaves, Marshal
  <2>6. CleanExitSaved'
    BY <1>7 DEF SyncSaves, Marshal
  <2> QED BY <1>7, <2>1, <2>2, <2>3, <2>4, <2>5, <2>6 DEF SyncSaves, Marshal
<1>8. CASE SyncStops
  <2>1. TypeOK'
    <3>1. (syncOn \in BOOLEAN /\ tick \in BOOLEAN /\ stopCh \in BOOLEAN)'
      BY <1>8, Zenon DEF SyncStops
    <3> QED BY <1>8, <3>1 DEF SyncStops
  <2>2. Alone'
    BY <1>8 DEF SyncStops
  <2>3. TmpIsData'
    BY <1>8 DEF SyncStops
  <2>4. Ordered'
    BY <1>8 DEF SyncStops
  <2>5. Closing'
    BY <1>8 DEF SyncStops
  <2>6. CleanExitSaved'
    BY <1>8 DEF SyncStops
  <2> QED BY <1>8, <2>1, <2>2, <2>3, <2>4, <2>5, <2>6 DEF SyncStops
<1>9. CASE ServerReturns
  BY <1>9 DEF ServerReturns
<1>10. CASE Signal
  BY <1>10 DEF Signal, With
<1>11. CASE ServerFailed
  BY <1>11 DEF ServerFailed
<1>12. CASE Drained
  BY <1>12 DEF Drained, With
<1>13. CASE CloseStops
  BY <1>13 DEF CloseStops
<1>14. CASE CloseSaves
  BY <1>14 DEF CloseSaves, Marshal
<1>15. CASE Exit
  BY <1>15 DEF Exit
<1>16. CASE Crash
  BY <1>16 DEF Crash
<1>17. CASE Clock
  BY <1>17 DEF Clock
<1>18. CASE UNCHANGED vars
  BY <1>18
<1> QED
  BY <1>1, <1>2, <1>3, <1>4, <1>5, <1>6, <1>7, <1>8, <1>9, <1>10, <1>11, <1>12,
     <1>13, <1>14, <1>15, <1>16, <1>17, <1>18 DEF Next

\* The state file is whole, and every variable keeps its type.
THEOREM TypeCorrect == Spec => []TypeOK
<1>1. IInv => TypeOK
  BY DEF IInv
<1> QED BY <1>1, InitIInv, NextIInv, PTL DEF Spec

\* CleanExitSaved for every bound: exit code 0 means that the file holds the
\* status "stopped" and every change made before Close (Close, main).
THEOREM CleanExit == Spec => []CleanExitSaved
<1>1. IInv => CleanExitSaved
  BY DEF IInv
<1> QED BY <1>1, InitIInv, NextIInv, PTL DEF Spec

\* FileMovesForward for every bound: no save, failure, crash or restart puts
\* an older revision, or half of one, in place of the file (Save, Load).
THEOREM ForwardOnly == Spec => FileMovesForward
<1>1. IInv /\ [Next]_vars =>
        [file' # file /\ file # None => file' \in States /\ file'.rev >= file.rev]_vars
  BY NextIInv
<1> QED BY <1>1, InitIInv, NextIInv, PTL DEF Spec, FileMovesForward

----------------------------------------------------------------------------
(* The rotation of the backups.                                            *)

\* What the rotation needs to know of its files.
RotInv ==
    /\ IsFiniteSet(backups) /\ backups \subseteq Nat /\ stamps \subseteq Nat
    /\ time \in Nat
    /\ RotationKeepsNewest

\* Removing the oldest of more than MaxBackups files leaves MaxBackups newer
\* ones than any that is gone.
LEMMA RemoveOldestKeeps ==
    ASSUME NEW S, IsFiniteSet(S), S \subseteq Nat, Cardinality(S) > MaxBackups,
           NEW m \in S, \A t \in S : m <= t,
           NEW s \in Nat, s = m \/ Cardinality(Newer(S, s)) >= MaxBackups
    PROVE  Cardinality(Newer(S \ {m}, s)) >= MaxBackups
<1> USE MaxBackupsAssumption
<1>1. CASE m <= s /\ s # m
  <2>1. Newer(S \ {m}, s) = Newer(S, s)
    BY <1>1 DEF Newer
  <2> QED BY <2>1, <1>1
<1>2. CASE ~(m <= s) \/ s = m
  <2>1. Newer(S \ {m}, s) = S \ {m}
    <3>1. ASSUME NEW t \in S \ {m} PROVE t > s
      <4>1. t \in Nat /\ m \in Nat /\ m <= t /\ t # m
        OBVIOUS
      <4> QED BY <4>1, <1>2
    <3> QED BY <3>1 DEF Newer
  <2>2. Cardinality(S \ {m}) = Cardinality(S) - 1
    BY FS_RemoveElement
  <2>3. Cardinality(S) \in Nat
    BY FS_CardinalityType
  <2> QED BY <2>1, <2>2, <2>3
<1> QED BY <1>1, <1>2

\* A file more among the backups takes nothing from the older ones.
LEMMA AddKeeps ==
    ASSUME RotInv, NEW L \in SUBSET Nat, IsFiniteSet(L),
           backups' = backups \cup L, stamps' = stamps \cup L, time' = time
    PROVE  RotInv'
<1> USE DEF RotInv, RotationKeepsNewest
<1>1. IsFiniteSet(backups')
  BY FS_Union
<1>2. ASSUME NEW s \in stamps' \ backups'
      PROVE  Cardinality(Newer(backups', s)) >= MaxBackups
  <2>1. s \in stamps \ backups
    OBVIOUS
  <2>2. Newer(backups, s) \subseteq Newer(backups', s)
    BY DEF Newer
  <2>3. IsFiniteSet(Newer(backups', s)) /\ IsFiniteSet(Newer(backups, s))
    BY <1>1, FS_Subset DEF Newer
  <2>4. Cardinality(Newer(backups, s)) <= Cardinality(Newer(backups', s))
    BY <2>2, <2>3, FS_Subset
  <2>5. /\ Cardinality(Newer(backups, s)) \in Nat
        /\ Cardinality(Newer(backups', s)) \in Nat
    BY <2>3, FS_CardinalityType
  <2> QED BY <2>1, <2>4, <2>5, MaxBackupsAssumption
<1> QED BY <1>1, <1>2

LEMMA NextRotInv == RotInv /\ [Next]_vars => RotInv'
<1> SUFFICES ASSUME RotInv, [Next]_vars PROVE RotInv'
  OBVIOUS
<1>1. ASSUME NEW p \in Savers, WriteBackup(p) PROVE RotInv'
  <2>1. IsFiniteSet({time}) /\ {time} \in SUBSET Nat
    BY FS_Singleton DEF RotInv
  <2> QED BY <1>1, <2>1, AddKeeps DEF WriteBackup, Advance, bounds
<1>2. ASSUME NEW p \in Savers, BackupFails(p) PROVE RotInv'
  <2>1. IsFiniteSet({time}) /\ {time} \in SUBSET Nat /\ IsFiniteSet({}) /\ {} \in SUBSET Nat
    BY FS_Singleton, FS_EmptySet DEF RotInv
  <2>2. PICK left \in {{}, {time}} :
            backups' = backups \cup left /\ stamps' = stamps \cup left
    BY <1>2 DEF BackupFails
  <2>3. time' = time
    BY <1>2 DEF BackupFails, Finish
  <2> QED BY <2>1, <2>2, <2>3, AddKeeps
<1>3. ASSUME NEW p \in Savers, RemoveOldest(p) PROVE RotInv'
  <2>1. PICK m \in backups : (\A t \in backups : m <= t) /\ backups' = backups \ {m}
    BY <1>3 DEF RemoveOldest
  <2>2. stamps' = stamps /\ time' = time /\ Cardinality(backups) > MaxBackups
    BY <1>3 DEF RemoveOldest, Advance, bounds, Excess
  <2>3. IsFiniteSet(backups')
    BY <2>1, FS_RemoveElement DEF RotInv
  <2>4. ASSUME NEW s \in stamps' \ backups'
        PROVE  Cardinality(Newer(backups', s)) >= MaxBackups
    <3>1. s = m \/ Cardinality(Newer(backups, s)) >= MaxBackups
      BY <2>1, <2>2 DEF RotInv, RotationKeepsNewest
    <3>2. s \in Nat /\ IsFiniteSet(backups) /\ backups \subseteq Nat
      BY <2>2 DEF RotInv
    <3>3. Cardinality(Newer(backups \ {m}, s)) >= MaxBackups
      BY <2>1, <2>2, <3>1, <3>2, RemoveOldestKeeps
    <3> QED BY <2>1, <3>3
  <2> QED BY <2>1, <2>2, <2>3, <2>4 DEF RotInv, RotationKeepsNewest
<1>4. CASE UNCHANGED <<backups, stamps>> /\ time' \in Nat
  BY <1>4 DEF RotInv, RotationKeepsNewest
<1>5. (\E p \in Savers : WriteBackup(p) \/ BackupFails(p) \/ RemoveOldest(p))
        \/ (UNCHANGED <<backups, stamps>> /\ time' \in Nat)
  <2> USE DEF RotInv, disk, bounds, process, savers, vars
  <2>1. ASSUME NEW p \in Savers,
               SaveFails(p) \/ RemoveFails(p) \/ Rotated(p)
                 \/ OpenTmp(p) \/ WriteTmp(p) \/ RenameTmp(p)
        PROVE  UNCHANGED <<backups, stamps>> /\ time' = time
    BY <2>1 DEF SaveFails, RemoveFails, Rotated, OpenTmp, WriteTmp, RenameTmp, Finish,
       Advance
  <2>2. ASSUME Start \/ LoadFails \/ Set \/ TickerFires \/ SyncSaves \/ SyncStops
        PROVE  UNCHANGED <<backups, stamps>> /\ time' = time
    BY <2>2 DEF Start, Begin, LoadFails, Set, TickerFires, SyncSaves, SyncStops
  <2>3. ASSUME \/ ServerReturns \/ Signal \/ ServerFailed \/ Drained \/ CloseStops
               \/ CloseSaves \/ Exit \/ Crash \/ UNCHANGED vars
        PROVE  UNCHANGED <<backups, stamps>> /\ time' = time
    BY <2>3 DEF ServerReturns, Signal, ServerFailed, Drained, CloseStops, CloseSaves, Exit,
       Crash
  <2>4. ASSUME Clock
        PROVE  UNCHANGED <<backups, stamps>> /\ time' \in Nat
    BY <2>4 DEF Clock
  <2> QED BY <2>1, <2>2, <2>3, <2>4 DEF Next, SaveStep, SaveFault
<1> QED BY <1>1, <1>2, <1>3, <1>4, <1>5

\* RotationKeepsNewest for every MaxBackups: no sequence of backups, failed
\* rotations and crashes removes one of the MaxBackups newest
\* (cleanupOldBackups).
THEOREM RotationSound == Spec => []RotationKeepsNewest
<1>1. Init => RotInv
  BY FS_EmptySet DEF Init, RotInv, RotationKeepsNewest
<1>2. RotInv => RotationKeepsNewest
  BY DEF RotInv
<1> QED BY <1>1, <1>2, NextRotInv, PTL DEF Spec

----------------------------------------------------------------------------
(* How long a shutdown can take.  ShutdownEnds itself is left to TLC; what  *)
(* it rests on is an action property: main comes nearer to its exit with    *)
(* each of its steps, and neither the setters nor the goroutine send it     *)
(* back or give its rotation more to do.                                    *)

\* From the signal or the server's error to the exit
Stopping == main \in {"stopping", "drained", "closing", "saving", "awaiting"}

\* How far main, with Close at the given operation of its save, is from its exit
StepsToExit(at, op) ==
    CASE at = "stopping" -> 9
      [] at = "drained" -> 8
      [] at = "closing" -> 7
      [] at = "saving" /\ op = "marshalled" -> 6
      [] at = "saving" /\ op = "opened" -> 5
      [] at = "saving" /\ op = "written" -> 4
      [] at = "saving" /\ op = "saved" -> 3
      [] at = "saving" /\ op = "rotating" -> 2
      [] at = "awaiting" -> 1
      [] OTHER -> 0

\* Every step of main brings it nearer to its exit or removes one of finitely many
\* backups; anybody else's ends the process or leaves main, and what it has still to
\* rotate, as they were; and while Close waits for the goroutine, stopCh is closed.
ShutdownBounded ==
    Stopping =>
        /\ StepsToExit(main, save["main"]) \in 1 .. 9
        /\ IsFiniteSet(backups)
        /\ MainStep =>
            \/ StepsToExit(main', save'["main"]) < StepsToExit(main, save["main"])
            \/ /\ main' = main /\ save' = save /\ save["main"] = "rotating"
               /\ backups' \subseteq backups /\ backups' # backups
        /\ ~MainStep =>
            \/ ~Alive'
            \/ /\ main' = main /\ save'["main"] = save["main"]
               /\ save["main"] = "rotating" => backups' = backups
        /\ main = "closing" => stopCh

ClosesFirst == main = "closing" => stopCh

LEMMA ExitValues ==
    ASSUME NEW at, NEW op
    PROVE  /\ at = "stopping" => StepsToExit(at, op) = 9
           /\ at = "drained" => StepsToExit(at, op) = 8
           /\ at = "closing" => StepsToExit(at, op) = 7
           /\ at = "saving" /\ op = "marshalled" => StepsToExit(at, op) = 6
           /\ at = "saving" /\ op = "opened" => StepsToExit(at, op) = 5
           /\ at = "saving" /\ op = "written" => StepsToExit(at, op) = 4
           /\ at = "saving" /\ op = "saved" => StepsToExit(at, op) = 3
           /\ at = "saving" /\ op = "rotating" => StepsToExit(at, op) = 2
           /\ at = "awaiting" => StepsToExit(at, op) = 1
           /\ at \in Ended => StepsToExit(at, op) = 0
BY DEF StepsToExit, Ended

LEMMA NextClosesFirst == ClosesFirst /\ [Next]_vars => ClosesFirst'
<1> SUFFICES ASSUME ClosesFirst, [Next]_vars PROVE ClosesFirst'
  OBVIOUS
<1> USE DEF ClosesFirst, process, vars
<1>1. CASE Start \/ LoadFails \/ Set \/ Crash \/ Clock \/ UNCHANGED vars
  BY <1>1 DEF Start, Begin, LoadFails, Set, Crash, Clock
<1>2. ASSUME NEW p \in Savers, SaveStep(p) \/ SaveFault(p) PROVE ClosesFirst'
  BY <1>2 DEF SaveStep, SaveFault, OpenTmp, WriteTmp, RenameTmp, WriteBackup, RemoveOldest,
     Rotated, SaveFails, BackupFails, RemoveFails, Advance, Finish
<1>3. CASE TickerFires \/ SyncSaves \/ SyncStops \/ ServerReturns \/ Signal \/ ServerFailed
  BY <1>3 DEF TickerFires, SyncSaves, SyncStops, ServerReturns, Signal, ServerFailed
<1>4. CASE Drained \/ CloseStops \/ CloseSaves \/ Exit
  BY <1>4 DEF Drained, CloseStops, CloseSaves, Exit
<1> QED BY <1>1, <1>2, <1>3, <1>4 DEF Next

\* Each step of main brings it nearer to its exit, or removes a backup.
LEMMA MainAdvances ==
    ASSUME TypeOK, Alone, MainStep
    PROVE  \/ StepsToExit(main', save'["main"]) < StepsToExit(main, save["main"])
           \/ /\ main' = main /\ save' = save /\ save["main"] = "rotating"
              /\ backups' \subseteq backups /\ backups' # backups
<1>1. /\ save \in [Savers -> {"idle", "marshalled", "opened", "written", "saved", "rotating"}]
      /\ "main" \in Savers
      /\ save["main"] # "idle" => main = "saving"
  BY DEF TypeOK, Alone, Savers
<1>2. CASE Drained
  BY <1>2, ExitValues DEF Drained
<1>3. CASE CloseStops
  BY <1>3, ExitValues DEF CloseStops
<1>4. CASE CloseSaves
  <2>1. main = "closing" /\ main' = "saving" /\ save'["main"] = "marshalled"
    BY <1>1, <1>4 DEF CloseSaves, Marshal
  <2> QED BY <2>1, ExitValues
<1>5. CASE Exit
  <2>1. main = "awaiting" /\ main' \in Ended
    BY <1>5 DEF Exit, Ended
  <2> QED BY <2>1, ExitValues
<1>6. ASSUME NEW op, Advance("main", op)
      PROVE  save'["main"] = op /\ main' = main
  BY <1>1, <1>6 DEF Advance, process
<1>7. CASE OpenTmp("main")
  <2>1. save["main"] = "marshalled" /\ save'["main"] = "opened" /\ main' = main
    BY <1>6, <1>7 DEF OpenTmp
  <2> QED BY <1>1, <2>1, ExitValues
<1>8. CASE WriteTmp("main")
  <2>1. save["main"] = "opened" /\ save'["main"] = "written" /\ main' = main
    BY <1>6, <1>8 DEF WriteTmp
  <2> QED BY <1>1, <2>1, ExitValues
<1>9. CASE RenameTmp("main")
  <2>1. save["main"] = "written" /\ save'["main"] = "saved" /\ main' = main
    BY <1>6, <1>9 DEF RenameTmp
  <2> QED BY <1>1, <2>1, ExitValues
<1>10. CASE WriteBackup("main")
  <2>1. save["main"] = "saved" /\ save'["main"] = "rotating" /\ main' = main
    BY <1>6, <1>10 DEF WriteBackup
  <2> QED BY <1>1, <2>1, ExitValues
<1>11. CASE RemoveOldest("main")
  <2>1. save["main"] = "rotating" /\ main' = main
        /\ save' = [save EXCEPT !["main"] = "rotating"]
    BY <1>11 DEF RemoveOldest, Advance, process
  <2>2. save' = save
    BY <1>1, <2>1
  <2>3. backups' \subseteq backups /\ backups' # backups
    BY <1>11 DEF RemoveOldest
  <2> QED BY <2>1, <2>2, <2>3
<1>12. CASE Rotated("main")
  <2>1. save["main"] = "rotating" /\ main' \in {"awaiting", "failed"}
    BY <1>12 DEF Rotated, Finish
  <2> QED BY <1>1, <2>1, ExitValues DEF Ended
<1> QED
  BY <1>2, <1>3, <1>4, <1>5, <1>7, <1>8, <1>9, <1>10, <1>11, <1>12 DEF MainStep, SaveStep

\* Nobody else prolongs the shutdown.
LEMMA OthersWait ==
    ASSUME TypeOK, Alone, Stopping, Next, ~MainStep
    PROVE  \/ ~Alive'
           \/ /\ main' = main /\ save'["main"] = save["main"]
              /\ save["main"] = "rotating" => backups' = backups
<1>1. /\ save \in [Savers -> {"idle", "marshalled", "opened", "written", "saved", "rotating"}]
      /\ Savers = {"sync", "main"}
      /\ save["sync"] # "idle" => save["main"] = "idle"
  BY DEF TypeOK, Alone, Savers
<1>2. Alive /\ main # "running"
  BY DEF Stopping, Alive, Ended
<1>3. ~Start /\ ~LoadFails /\ ~Signal /\ ~ServerFailed
  BY <1>2 DEF Start, Begin, LoadFails, Signal, ServerFailed
<1>4. ASSUME NEW op, Advance("sync", op)
      PROVE  main' = main /\ save'["main"] = save["main"]
  BY <1>1, <1>4 DEF Advance, process
<1>5. CASE SaveStep("sync")
  <2>1. main' = main /\ save'["main"] = save["main"]
    <3>1. CASE Rotated("sync")
      BY <1>1, <3>1 DEF Rotated, Finish
    <3> QED
      BY <1>4, <1>5, <3>1 DEF SaveStep, OpenTmp, WriteTmp, RenameTmp, WriteBackup,
         RemoveOldest
  <2>2. save["sync"] # "idle"
    BY <1>5 DEF SaveStep, OpenTmp, WriteTmp, RenameTmp, WriteBackup, RemoveOldest, Rotated
  <2> QED BY <1>1, <2>1, <2>2
<1>6. CASE SaveFault("sync")
  <2>1. save["sync"] # "idle"
    BY <1>6 DEF SaveFault, SaveFails, BackupFails, RemoveFails
  <2>2. main' = main /\ save'["main"] = save["main"]
    BY <1>1, <1>6 DEF SaveFault, SaveFails, BackupFails, RemoveFails, Finish
  <2> QED BY <1>1, <2>1, <2>2
<1>7. CASE SaveFault("main")
  <2>1. main' = "failed"
    BY <1>7 DEF SaveFault, SaveFails, BackupFails, RemoveFails, Finish
  <2> QED BY <2>1 DEF Alive, Ended
<1>8. CASE SyncSaves
  <2>1. main' = main /\ backups' = backups /\ save'["main"] = save["main"]
    BY <1>1, <1>8 DEF SyncSaves, Marshal, disk
  <2> QED BY <2>1
<1>9. CASE Set \/ TickerFires \/ SyncStops \/ ServerReturns \/ Clock
  BY <1>9 DEF Set, TickerFires, SyncStops, ServerReturns, Clock, disk, savers, process
<1>10. CASE Crash
  <2>1. main' = "down"
    BY <1>10 DEF Crash
  <2> QED BY <2>1 DEF Alive, Ended
<1> QED
  BY <1>1, <1>3, <1>5, <1>6, <1>7, <1>8, <1>9, <1>10 DEF Next, MainStep

\* A shutdown takes a bounded number of main's steps and of removed backups, whatever
\* is set, saved or fails meanwhile: see ShutdownBounded (Close, cleanupOldBackups,
\* StartBackgroundSync).  ShutdownEnds follows with the fairness of main, of the
\* server's return and of the goroutine's select.
THEOREM ShutdownIsBounded == Spec => [][ShutdownBounded]_vars
<1>1. Init => ClosesFirst
  BY DEF Init, ClosesFirst
<1>2. Init => RotInv
  BY FS_EmptySet DEF Init, RotInv, RotationKeepsNewest
<1>3. IInv /\ RotInv /\ ClosesFirst /\ [Next]_vars => [ShutdownBounded]_vars
  <2> SUFFICES ASSUME IInv, RotInv, ClosesFirst, Next PROVE ShutdownBounded
    OBVIOUS
  <2>1. TypeOK /\ Alone
    BY DEF IInv
  <2>2. ASSUME Stopping
        PROVE  StepsToExit(main, save["main"]) \in 1 .. 9
    <3>1. save["main"] \in {"idle", "marshalled", "opened", "written", "saved", "rotating"}
      BY <2>1 DEF TypeOK, Savers
    <3>2. main = "saving" => save["main"] # "idle"
      BY <2>1 DEF Alone
    <3> QED BY <2>2, <3>1, <3>2, ExitValues DEF Stopping
  <2>3. IsFiniteSet(backups)
    BY DEF RotInv
  <2> QED
    BY <2>1, <2>2, <2>3, MainAdvances, OthersWait DEF ShutdownBounded, ClosesFirst
<1>4. Init => IInv
  BY InitIInv
<1>5. IInv /\ [Next]_vars => IInv'
  BY NextIInv
<1> QED BY <1>1, <1>2, <1>3, <1>4, <1>5, NextRotInv, NextClosesFirst, PTL DEF Spec
=============================================================================
