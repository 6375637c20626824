---------------------------- MODULE UpdaterProofs ----------------------------
(***************************************************************************)
(* Theorems about the updater, for any releases, faults and number of      *)
(* updaters.  Two updaters at work at the same time replace each other's   *)
(* files; the theorems about the files are about behaviours in which that  *)
(* does not happen (Alone).                                                *)
(***************************************************************************)
EXTENDS Updater, TLAPS

(* No two updaters are alive. *)
Alone == \A u, v \in Updaters : pc[u] # "none" /\ pc[v] # "none" => u = v

-----------------------------------------------------------------------------
(* What an updater has found out: the release is newer than the installed    *)
(* agent, and what it downloaded is a signed release of that version.        *)
Verifying == {"download", "verify"}
Installing == {"checkAgain", "stop", "stopWait", "recheck", "removeBackup", "backup", "swap"}

FoundInv(u) ==
    /\ pc[u] \in {"askLatest"} \cup Verifying \cup Installing => current[u] \in Releases
    /\ pc[u] \in Verifying \cup Installing => tag[u] \in Releases /\ newerVersion(current[u], tag[u])
    /\ pc[u] \in Installing => Verified(u)

StartInv == svc \in {"starting", "running", "stopping"} => image \in Releases

(* The types, for any number of updaters. *)
TypeInv == TypeOK /\ StartInv /\ \A u \in Updaters : FoundInv(u)

(* The binary at agent_path is the one whose version the updater has read,   *)
(* until it is the backup.                                                   *)
CurrentInv(u) ==
    /\ pc[u] \in ({"askLatest"} \cup Verifying \cup Installing) \ {"swap"} => installed = current[u]
    /\ pc[u] = "swap" => backup = current[u]

-----------------------------------------------------------------------------
(* Where the working agent is, as long as the agent does not crash. *)
Good == Releases \ Broken

Restorable == installed \in Good \/ backup \in Good

(* A service that has started and is not stopped runs what is at agent_path. *)
SameImage == svc \in {"starting", "running"} => image = installed

Phase(u) ==
    /\ pc[u] \in {"checkFlag", "readVersion"} => svc = "running" /\ installed \in Good \cup {0}
    /\ pc[u] \in {"askLatest", "checkAgain", "stop"} \cup Verifying => svc = "running" /\ installed \in Good
    /\ pc[u] = "stopWait" => svc \in {"stopping", "stopped"} /\ installed \in Good
    /\ pc[u] \in {"recheck", "removeBackup", "backup"} => svc = "stopped" /\ installed \in Good
    /\ pc[u] = "swap" => svc = "stopped" /\ installed = 0 /\ backup \in Good
    /\ pc[u] = "start" => svc = "stopped" /\ installed \in Releases /\ backup \in Good
    /\ pc[u] \in {"startWait", "undoStop"} => svc \in {"starting", "running", "stopped"} /\ SameImage /\ backup \in Good
    /\ pc[u] = "undoWait" => svc \in {"stopping", "stopped"} /\ backup \in Good
    /\ pc[u] = "setAside" => svc # "crashed" /\ SameImage /\ backup \in Good
    /\ pc[u] = "restore" => svc # "crashed" /\ (SameImage \/ installed = 0) /\ backup \in Good
    /\ pc[u] = "lastStart" => svc # "crashed" /\ Restorable /\ installed \in Good \cup {0}
    /\ pc[u] = "lastWait" => svc \in {"starting", "running", "stopped"} /\ SameImage /\ installed \in Good

(* Nobody is at work. *)
Rest ==
    (\A u \in Updaters : pc[u] = "none") /\ svc \in {"starting", "running"} =>
        SameImage \/ installed \in Good \cup {0}

RunInv == svc = "running" => image \in Good

RestoreInv == "crash" \notin faults => Restorable /\ Rest /\ \A u \in Updaters : Phase(u)

(* The flag file is looked at while nobody can arm the machine remotely. *)
BrakeInv ==
    "crash" \notin faults =>
        \A u \in Updaters : pc[u] \in {"removeBackup", "backup", "swap"} => flag # "remote"

FileInv == RunInv /\ RestoreInv /\ BrakeInv /\ \A u \in Updaters : CurrentInv(u)

-----------------------------------------------------------------------------
LEMMA TypesInitially == Init => TypeInv
<1> SUFFICES ASSUME Init PROVE TypeInv
  OBVIOUS
<1>1. 1 \in Releases
  BY LatestAssumption DEF Releases
<1>2. TypeOK
  BY <1>1 DEF Init, TypeOK
<1>3. QED
  BY <1>1, <1>2 DEF Init, TypeInv, StartInv, FoundInv, Verifying, Installing

(* A step of one updater leaves what another one knows. *)
LEMMA OthersKept ==
    ASSUME TypeInv, NEW u \in Updaters, Launch(u) \/ UpdaterStep(u)
    PROVE  \A v \in Updaters \ {u} : /\ pc'[v] = pc[v] /\ current'[v] = current[v]
                                     /\ tag'[v] = tag[v] /\ temp'[v] = temp[v]
<1> USE DEF TypeInv, TypeOK, Goto, Exit
<1>1. CASE Launch(u)
  BY <1>1 DEF Launch
<1>2. CASE CheckFlag(u) \/ ReadVersion(u) \/ GivesUp(u) \/ Verify(u) \/ CheckAgain(u)
  BY <1>2 DEF CheckFlag, ReadVersion, GivesUp, Verify, CheckAgain
<1>3. CASE (\E v \in Releases : AskLatest(u, v)) \/ (\E binary \in Releases \cup {Forged} : Download(u, binary))
  BY <1>3 DEF AskLatest, Download
<1>4. CASE Stop(u) \/ UndoStop(u)
  BY <1>4 DEF Stop, UndoStop, StopService
<1>5. CASE StopWait(u) \/ StopTimesOut(u) \/ Recheck(u) \/ RemoveBackup(u) \/ Backup(u) \/ BackupFails(u)
  BY <1>5 DEF StopWait, StopTimesOut, Recheck, RemoveBackup, Backup, BackupFails
<1>6. CASE Swap(u) \/ SwapFails(u) \/ SwapFailsTwice(u) \/ Updated(u) \/ StartFailed(u)
  BY <1>6 DEF Swap, SwapFails, SwapFailsTwice, Updated, StartFailed
<1>7. CASE Start(u) \/ LastStart(u)
  BY <1>7 DEF Start, LastStart, StartService
<1>8. CASE UndoWait(u) \/ SetAside(u) \/ Restore(u) \/ RestoreFails(u) \/ LastWait(u)
  BY <1>8 DEF UndoWait, SetAside, Restore, RestoreFails, LastWait
<1>9. QED
  BY <1>1, <1>2, <1>3, <1>4, <1>5, <1>6, <1>7, <1>8 DEF UpdaterStep

(* Every step of an updater keeps the types, and what it has found out; only *)
(* a verified release gets to agent_path.                                    *)
LEMMA UpdaterTypes ==
    ASSUME TypeInv, NEW u \in Updaters, Launch(u) \/ UpdaterStep(u)
    PROVE  TypeOK' /\ StartInv' /\ FoundInv(u)'
<1>1. TypeOK /\ StartInv /\ FoundInv(u) /\ Kinds \subseteq FaultKinds
  BY FaultAssumption DEF TypeInv
<1>2. ASSUME NEW kinds, Fault(kinds) PROVE faults' \subseteq FaultKinds
  BY <1>1, <1>2 DEF Fault, TypeOK
<1> USE DEF Goto, Exit, machine, TypeOK, StartInv, FoundInv, Verifying, Installing
<1>3. CASE Launch(u) \/ CheckFlag(u) \/ GivesUp(u) \/ CheckAgain(u)
  BY <1>1, <1>3 DEF Launch, CheckFlag, GivesUp, CheckAgain, Verified
<1>4. CASE ReadVersion(u)
  BY <1>1, <1>4 DEF ReadVersion
<1>5. ASSUME NEW v \in Releases, AskLatest(u, v) PROVE TypeOK' /\ StartInv' /\ FoundInv(u)'
  BY <1>1, <1>5 DEF AskLatest
<1>6. ASSUME NEW binary \in Releases \cup {Forged}, Download(u, binary) PROVE TypeOK' /\ StartInv' /\ FoundInv(u)'
  BY <1>1, <1>6 DEF Download
<1>7. CASE Verify(u)
  BY <1>1, <1>7 DEF Verify, Verified
<1>8. CASE Stop(u) \/ UndoStop(u)
  BY <1>1, <1>8 DEF Stop, UndoStop, StopService, Down, Verified
<1>9. CASE StopWait(u) \/ Recheck(u) \/ RemoveBackup(u) \/ Backup(u)
  BY <1>1, <1>9 DEF StopWait, Recheck, RemoveBackup, Backup, Verified
<1>10. CASE StopTimesOut(u) \/ BackupFails(u)
  BY <1>1, <1>2, <1>10 DEF StopTimesOut, BackupFails
<1>11. CASE Swap(u)
  BY <1>1, <1>11 DEF Swap, Verified
<1>12. CASE SwapFails(u) \/ SwapFailsTwice(u)
  BY <1>1, <1>2, <1>12 DEF SwapFails, SwapFailsTwice
<1>13. CASE Start(u) \/ LastStart(u)
  BY <1>1, <1>13 DEF Start, LastStart, StartService, Down
<1>14. CASE Updated(u) \/ StartFailed(u) \/ UndoWait(u) \/ LastWait(u)
  BY <1>1, <1>2, <1>14 DEF Updated, StartFailed, UndoWait, LastWait
<1>15. CASE SetAside(u) \/ Restore(u) \/ RestoreFails(u)
  BY <1>1, <1>2, <1>15 DEF SetAside, Restore, RestoreFails
<1>16. QED
  BY <1>3, <1>4, <1>5, <1>6, <1>7, <1>8, <1>9, <1>10, <1>11, <1>12, <1>13, <1>14, <1>15 DEF UpdaterStep

LEMMA TypesStep == TypeInv /\ [Next]_vars => TypeInv'
<1> SUFFICES ASSUME TypeInv, [Next]_vars PROVE TypeInv'
  OBVIOUS
<1>1. TypeOK /\ StartInv /\ (\A u \in Updaters : FoundInv(u)) /\ Kinds \subseteq FaultKinds
  BY FaultAssumption DEF TypeInv
<1>2. ASSUME NEW u \in Updaters, Launch(u) \/ UpdaterStep(u) PROVE TypeInv'
  <2>1. ASSUME NEW v \in Updaters \ {u} PROVE FoundInv(v)'
    BY <1>1, <1>2, OthersKept DEF FoundInv, Verified
  <2>2. QED
    BY <1>2, <2>1, UpdaterTypes DEF TypeInv
<1>3. ASSUME UNCHANGED updater PROVE \A u \in Updaters : FoundInv(u)'
  BY <1>1, <1>3 DEF FoundInv, Verified, updater
<1>4. CASE ChildExited \/ ServiceUp \/ ServiceDown \/ Recover \/ RemoteArm \/ LocalArm \/ Disarm \/ UNCHANGED vars
  <2>1. TypeOK' /\ StartInv'
    BY <1>1, <1>4 DEF ChildExited, ServiceUp, ServiceDown, Recover, RemoteArm, LocalArm, Disarm, vars, machine, updater,
          TypeOK, StartInv
  <2>2. UNCHANGED updater
    BY <1>4 DEF ChildExited, ServiceUp, ServiceDown, Recover, RemoteArm, LocalArm, Disarm, vars
  <2>3. QED
    BY <1>3, <2>1, <2>2 DEF TypeInv
<1>5. CASE ServiceFails \/ AgentCrash
  <2>1. TypeOK' /\ StartInv'
    BY <1>1, <1>5 DEF ServiceFails, AgentCrash, Fault, updater, TypeOK, StartInv
  <2>2. UNCHANGED updater
    BY <1>5 DEF ServiceFails, AgentCrash
  <2>3. QED
    BY <1>3, <2>1, <2>2 DEF TypeInv
<1>6. CASE PowerLoss
  BY <1>1, <1>6 DEF PowerLoss, Fault, TypeInv, TypeOK, StartInv, FoundInv, Verifying, Installing
<1>7. QED
  BY <1>2, <1>4, <1>5, <1>6 DEF Next, ServiceStep

LEMMA TypesInvariant == Spec => []TypeInv
BY TypesInitially, TypesStep, PTL DEF Spec

(* The types; a binary that is not a signed release is never installed or     *)
(* started, however many updaters overlap.                                    *)
THEOREM TypeCorrect == Spec => []TypeOK
<1>1. TypeInv => TypeOK
  BY DEF TypeInv
<1>2. QED
  BY TypesInvariant, <1>1, PTL

-----------------------------------------------------------------------------
(* While only u can be alive, what has to be shown is about u.               *)
Work(u) ==
    /\ RunInv /\ CurrentInv(u)
    /\ "crash" \notin faults =>
          /\ Restorable /\ Phase(u)
          /\ pc[u] = "none" /\ svc \in {"starting", "running"} => SameImage \/ installed \in Good \cup {0}
          /\ pc[u] \in {"removeBackup", "backup", "swap"} => flag # "remote"

Others(u) == \A v \in Updaters \ {u} : pc[v] = "none"

LEMMA FilesOfOne == \A u \in Updaters : Others(u) => (FileInv <=> Work(u))
<1> SUFFICES ASSUME NEW u \in Updaters, Others(u) PROVE FileInv <=> Work(u)
  OBVIOUS
<1> USE DEF Others
<1>1. \A v \in Updaters \ {u} : Phase(v) /\ CurrentInv(v) /\ pc[v] \notin {"removeBackup", "backup", "swap"}
  BY DEF Phase, CurrentInv, Verifying, Installing
<1>2. (\A v \in Updaters : pc[v] = "none") <=> pc[u] = "none"
  OBVIOUS
<1>3. (\A v \in Updaters : Phase(v)) <=> Phase(u)
  BY <1>1
<1>4. (\A v \in Updaters : CurrentInv(v)) <=> CurrentInv(u)
  BY <1>1
<1>5. (\A v \in Updaters : pc[v] \in {"removeBackup", "backup", "swap"} => flag # "remote")
          <=> (pc[u] \in {"removeBackup", "backup", "swap"} => flag # "remote")
  BY <1>1
<1>6. Rest <=> (pc[u] = "none" /\ svc \in {"starting", "running"} => SameImage \/ installed \in Good \cup {0})
  BY <1>2 DEF Rest
<1>7. QED
  BY <1>3, <1>4, <1>5, <1>6 DEF FileInv, RestoreInv, BrakeInv, Work

LEMMA FilesInitially == Init => FileInv
<1> SUFFICES ASSUME Init PROVE FileInv
  OBVIOUS
<1>1. 1 \in Good
  BY LatestAssumption, BrokenAssumption DEF Releases, Good
<1>2. \A u \in Updaters : pc[u] = "none"
  BY DEF Init
<1>3. \A u \in Updaters : Phase(u) /\ CurrentInv(u) /\ pc[u] \notin {"removeBackup", "backup", "swap"}
  BY <1>2 DEF Phase, CurrentInv, Verifying, Installing
<1>4. RunInv /\ Restorable /\ Rest
  BY <1>1 DEF Init, RunInv, Restorable, Rest
<1>5. QED
  BY <1>3, <1>4 DEF FileInv, RestoreInv, BrakeInv

(* What an updater does on its own keeps the working agent in its place. *)
LEMMA WorkStep ==
    ASSUME TypeInv, TypeInv', NEW u \in Updaters, Work(u), Launch(u) \/ UpdaterStep(u)
    PROVE  Work(u)'
<1>1. TypeOK /\ TypeOK' /\ FoundInv(u) /\ StartInv
  BY DEF TypeInv
<1>2. 0 \notin Releases /\ Good \subseteq Releases
  BY LatestAssumption DEF Releases, Good
<1>3. ASSUME NEW kinds, Fault(kinds), "crash" \notin faults' PROVE "crash" \notin faults
  BY <1>3 DEF Fault
<1> USE DEF Goto, Exit, machine, Work, RunInv, CurrentInv, Phase, Restorable, SameImage, Verifying, Installing
<1>4. CASE Launch(u)
  BY <1>1, <1>2, <1>4 DEF Launch, TypeOK
<1>5. CASE CheckFlag(u) \/ GivesUp(u) \/ CheckAgain(u) \/ Verify(u)
  BY <1>1, <1>2, <1>5 DEF CheckFlag, GivesUp, CheckAgain, Verify, TypeOK
<1>6. CASE ReadVersion(u)
  BY <1>1, <1>2, <1>6 DEF ReadVersion, TypeOK
<1>7. CASE \E v \in Releases : AskLatest(u, v)
  BY <1>1, <1>2, <1>7 DEF AskLatest, TypeOK
<1>8. CASE \E binary \in Releases \cup {Forged} : Download(u, binary)
  BY <1>1, <1>2, <1>8 DEF Download, TypeOK
<1>9. CASE Stop(u)
  BY <1>1, <1>2, <1>9 DEF Stop, StopService, Down, TypeOK
<1>10. CASE UndoStop(u)
  BY <1>1, <1>2, <1>10 DEF UndoStop, StopService, Down, TypeOK
<1>11. CASE StopWait(u) \/ Recheck(u)
  BY <1>1, <1>2, <1>11 DEF StopWait, Recheck, IsKilled, Down, TypeOK
<1>12. CASE StopTimesOut(u)
  BY <1>1, <1>2, <1>3, <1>12 DEF StopTimesOut, Down, TypeOK
<1>13. CASE RemoveBackup(u) \/ Backup(u)
  BY <1>1, <1>2, <1>13 DEF RemoveBackup, Backup, TypeOK
<1>14. CASE BackupFails(u)
  BY <1>1, <1>2, <1>3, <1>14 DEF BackupFails, TypeOK
<1>15. CASE Swap(u)
  BY <1>1, <1>2, <1>15 DEF Swap, TypeOK, FoundInv, Verified
<1>16. CASE SwapFails(u)
  BY <1>1, <1>2, <1>3, <1>16 DEF SwapFails, TypeOK
<1>17. CASE SwapFailsTwice(u)
  BY <1>1, <1>2, <1>3, <1>17 DEF SwapFailsTwice, TypeOK
<1>18. CASE Start(u)
  BY <1>1, <1>2, <1>18 DEF Start, StartService, Down, TypeOK
<1>19. CASE LastStart(u)
  BY <1>1, <1>2, <1>19 DEF LastStart, StartService, Down, TypeOK
<1>20. CASE Updated(u)
  BY <1>1, <1>2, <1>20 DEF Updated, TypeOK
<1>21. CASE StartFailed(u)
  BY <1>1, <1>2, <1>3, <1>21 DEF StartFailed, Down, TypeOK
<1>22. CASE UndoWait(u)
  BY <1>1, <1>2, <1>3, <1>22 DEF UndoWait, TypeOK
<1>23. CASE SetAside(u)
  BY <1>1, <1>2, <1>3, <1>23 DEF SetAside, TypeOK
<1>24. CASE Restore(u)
  BY <1>1, <1>2, <1>24 DEF Restore, MayRestore, Down, TypeOK
<1>25. CASE RestoreFails(u)
  BY <1>1, <1>2, <1>3, <1>25 DEF RestoreFails, MayRestore, Down, TypeOK
<1>26. CASE LastWait(u)
  BY <1>1, <1>2, <1>3, <1>26 DEF LastWait, TypeOK
<1>27. QED
  BY <1>4, <1>5, <1>6, <1>7, <1>8, <1>9, <1>10, <1>11, <1>12, <1>13, <1>14, <1>15, <1>16, <1>17,
     <1>18, <1>19, <1>20, <1>21, <1>22, <1>23, <1>24, <1>25, <1>26 DEF UpdaterStep
LEMMA FilesOfOneNext == (\A u \in Updaters : Others(u) => (FileInv <=> Work(u)))'
BY FilesOfOne, PTL

LEMMA FilesStep == TypeInv /\ FileInv /\ Alone /\ Alone' /\ [Next]_vars => FileInv'
<1> SUFFICES ASSUME TypeInv, FileInv, Alone, Alone', [Next]_vars PROVE FileInv'
  OBVIOUS
<1>1. TypeInv'
  BY TypesStep
<1>2. TypeOK /\ RunInv /\ (\A u \in Updaters : CurrentInv(u))
      /\ ("crash" \notin faults => Restorable /\ Rest /\ \A u \in Updaters : Phase(u))
  BY DEF TypeInv, FileInv, RestoreInv
<1>3. 0 \notin Releases /\ Good \subseteq Releases
  BY LatestAssumption DEF Releases, Good
<1>4. ASSUME NEW u \in Updaters, Launch(u) \/ UpdaterStep(u) PROVE FileInv'
  <2>1. pc[u] # "none" \/ pc'[u] # "none"
    <3>1. CASE Launch(u)
      BY <1>2, <3>1 DEF Launch, Goto, TypeOK
    <3>2. CASE UpdaterStep(u)
      BY <3>2 DEF UpdaterStep, CheckFlag, ReadVersion, GivesUp, Verify, CheckAgain, AskLatest, Download, Stop, StopWait,
            StopTimesOut, Recheck, RemoveBackup, Backup, BackupFails, Swap, SwapFails, SwapFailsTwice, Start, Updated,
            StartFailed, UndoStop, UndoWait, SetAside, Restore, RestoreFails, LastStart, LastWait,
            StopService, StartService, Goto
    <3>3. QED
      BY <1>4, <3>1, <3>2
  <2>2. \A v \in Updaters \ {u} : pc'[v] = pc[v]
    BY <1>4, OthersKept
  <2>3. Others(u) /\ Others(u)'
    BY <2>1, <2>2 DEF Others, Alone
  <2>4. Work(u)
    BY <2>3, FilesOfOne
  <2>5. Work(u)'
    BY <1>1, <1>4, <2>4, WorkStep
  <2>6. QED
    BY <2>3, <2>5, FilesOfOneNext
<1> USE DEF RunInv, Restorable, Rest, SameImage
<1>5. CASE ServiceStep
  <2>1. RunInv' /\ UNCHANGED <<installed, backup, pc, current, flag>>
    BY <1>2, <1>5, BrokenAssumption DEF ServiceStep, ServiceUp, ServiceFails, ServiceDown, Recover, updater, TypeInv, StartInv, Good
  <2>2. "crash" \notin faults' => "crash" \notin faults
    BY <1>5 DEF ServiceStep, ServiceUp, ServiceFails, ServiceDown, Recover, Fault
  <2>3. Restorable' <=> Restorable
    BY <2>1
  <2>4. ASSUME "crash" \notin faults PROVE Rest'
    BY <1>2, <1>3, <1>5, <2>1, <2>4 DEF ServiceStep, ServiceUp, ServiceFails, ServiceDown, Recover
  <2>5. ASSUME NEW u \in Updaters, "crash" \notin faults PROVE Phase(u)'
    <3>1. Phase(u) /\ svc \in {"running", "starting", "stopping", "stopped", "crashed"}
      BY <1>2, <2>5 DEF TypeOK
    <3>2. QED
      BY <1>3, <1>5, <2>1, <3>1 DEF ServiceStep, ServiceUp, ServiceFails, ServiceDown, Recover, Phase, Verifying
  <2>6. ASSUME NEW u \in Updaters PROVE CurrentInv(u)'
    BY <1>2, <2>1 DEF CurrentInv
  <2>7. BrakeInv'
    BY <2>1, <2>2 DEF BrakeInv, FileInv
  <2>8. QED
    BY <1>2, <2>1, <2>2, <2>3, <2>4, <2>5, <2>6, <2>7 DEF FileInv, RestoreInv
<1>6. CASE AgentCrash
  BY <1>2, <1>6 DEF AgentCrash, Fault, updater, FileInv, RestoreInv, BrakeInv, CurrentInv
<1>7. CASE PowerLoss
  <2>1. \A u \in Updaters : Phase(u)' /\ CurrentInv(u)' /\ pc'[u] \notin {"removeBackup", "backup", "swap"}
    BY <1>7 DEF PowerLoss, Phase, CurrentInv, Verifying, Installing
  <2>2. RunInv' /\ Rest' /\ (Restorable => Restorable') /\ ("crash" \notin faults' => "crash" \notin faults)
    BY <1>7 DEF PowerLoss, Fault
  <2>3. QED
    BY <1>2, <2>1, <2>2 DEF FileInv, RestoreInv, BrakeInv
<1>8. CASE RemoteArm \/ LocalArm \/ Disarm \/ ChildExited \/ UNCHANGED vars
  <2>1. UNCHANGED <<machine, updater, faults>>
    BY <1>8 DEF RemoteArm, LocalArm, Disarm, ChildExited, vars
  <2>2. \A u \in Updaters : (Phase(u)' <=> Phase(u)) /\ (CurrentInv(u)' <=> CurrentInv(u))
    BY <2>1 DEF machine, updater, Phase, CurrentInv
  <2>3. RunInv' /\ RestoreInv'
    BY <1>2, <2>1, <2>2 DEF machine, updater, RestoreInv
  <2>4. BrakeInv'
    <3>1. SUFFICES ASSUME NEW u \in Updaters, pc[u] \in {"removeBackup", "backup", "swap"}, "crash" \notin faults
                   PROVE  flag' # "remote"
      BY <2>1 DEF BrakeInv, updater
    <3>2. svc = "stopped" /\ flag # "remote"
      BY <1>2, <3>1 DEF Phase, FileInv, BrakeInv
    <3>3. QED
      BY <1>8, <3>2 DEF RemoteArm, LocalArm, Disarm, ChildExited, vars, Down
  <2>5. QED
    BY <1>2, <2>2, <2>3, <2>4 DEF FileInv
<1>9. QED
  BY <1>4, <1>5, <1>6, <1>7, <1>8 DEF Next

LEMMA FilesInvariant == Spec /\ []Alone => [](TypeInv /\ FileInv)
BY TypesInvariant, FilesInitially, FilesStep, PTL DEF Spec

(* Wherever an update is interrupted, whichever rename fails and whatever the *)
(* release turns out to be, an agent that works is at agent_path or at        *)
(* agent_path.bak, as long as the updaters do not overlap.                    *)
THEOREM WorkingAgentStays == Spec /\ []Alone => []AlwaysRestorable
<1>1. FileInv => AlwaysRestorable
  BY DEF FileInv, RestoreInv, Restorable, Good, AlwaysRestorable
<1>2. QED
  BY FilesInvariant, <1>1, PTL

-----------------------------------------------------------------------------
(* The only step that puts anything but the backup at agent_path is the swap. *)
LEMMA OnlySwapInstalls ==
    ASSUME [Next]_vars, installed' \notin {installed, 0, backup}
    PROVE  \E u \in Updaters : Swap(u)
<1> USE DEF machine, updater
<1>1. CASE ServiceStep \/ ChildExited \/ UNCHANGED vars
  BY <1>1 DEF ServiceStep, ServiceUp, ServiceFails, ServiceDown, Recover, ChildExited, vars
<1>2. CASE AgentCrash \/ PowerLoss \/ RemoteArm \/ LocalArm \/ Disarm
  BY <1>2 DEF AgentCrash, PowerLoss, RemoteArm, LocalArm, Disarm
<1>3. ASSUME NEW u \in Updaters, Launch(u) \/ UpdaterStep(u), ~Swap(u) PROVE FALSE
  BY <1>3 DEF Launch, UpdaterStep, CheckFlag, ReadVersion, GivesUp, Verify, CheckAgain, AskLatest, Download, Stop, StopWait,
        StopTimesOut, Recheck, RemoveBackup, Backup, BackupFails, SwapFails, SwapFailsTwice, Start, Updated,
        StartFailed, UndoStop, UndoWait, SetAside, Restore, RestoreFails, LastStart, LastWait
<1>4. QED
  BY <1>1, <1>2, <1>3 DEF Next

(* The comparison of the code is the order of the versions, and a release     *)
(* that has the version asked for is as new.                                  *)
LEMMA NewerIsLater ==
    ASSUME NEW a \in Releases, NEW b \in Releases, NEW t \in Releases,
           newerVersion(a, t), versionsEqual(b, t)
    PROVE  Before(a, b)
<1> DEFINE x == Name[a].numbers
           y == Name[b].numbers
<1>1. x \in Nat \X Nat \X Nat /\ y \in Nat \X Nat \X Nat
  BY LatestAssumption DEF Releases
<1>2. PICK i \in 1..3 : y[i] > x[i] /\ \A j \in 1..(i - 1) : y[j] = x[j]
  BY DEF newerVersion, versionsEqual, parseVersion
<1>3. x[1] \in Nat /\ x[2] \in Nat /\ x[3] \in Nat /\ y[1] \in Nat /\ y[2] \in Nat /\ y[3] \in Nat
  BY <1>1
<1>4. CASE i = 1
  BY <1>2, <1>3, <1>4 DEF Before
<1>5. CASE i = 2
  <2>1. y[1] = x[1]
    BY <1>2, <1>5
  <2>2. QED
    BY <1>2, <1>3, <1>5, <2>1 DEF Before
<1>6. CASE i = 3
  <2>1. y[1] = x[1] /\ y[2] = x[2]
    BY <1>2, <1>6
  <2>2. QED
    BY <1>2, <1>3, <1>6, <2>1 DEF Before
<1>7. QED
  BY <1>4, <1>5, <1>6

(* What replaces the agent is a signed release with a greater version. *)
THEOREM NeverBackwards == Spec /\ []Alone => UpdatesMoveForward
<1>1. ASSUME TypeInv /\ FileInv, [Next]_vars
      PROVE  [installed' \notin {installed, 0, backup} =>
                 installed' \in Releases /\ (backup # 0 => Before(backup, installed'))]_vars
  <2>1. SUFFICES ASSUME installed' \notin {installed, 0, backup}
                 PROVE  installed' \in Releases /\ Before(backup, installed')
    OBVIOUS
  <2>2. PICK u \in Updaters : Swap(u)
    BY <1>1, <2>1, OnlySwapInstalls
  <2>3. pc[u] = "swap" /\ installed' = temp[u]
    BY <2>2 DEF Swap, Goto
  <2>4. FoundInv(u) /\ CurrentInv(u)
    BY <1>1 DEF TypeInv, FileInv
  <2>5. /\ temp[u] \in Releases /\ tag[u] \in Releases /\ backup \in Releases
        /\ newerVersion(backup, tag[u]) /\ versionsEqual(temp[u], tag[u])
    BY <2>3, <2>4 DEF FoundInv, CurrentInv, Verifying, Installing, Verified
  <2>6. QED
    BY <2>3, <2>5, NewerIsLater
<1>2. QED
  BY <1>1, FilesInvariant, PTL DEF Spec, UpdatesMoveForward

(* Once the machine is armed remotely no new binary gets to agent_path, as    *)
(* long as the agent has not crashed: while the service is stopped nobody can *)
(* arm it, and the updater looks at the flag file after the stop.             *)
THEOREM NoUpdateUnderBrake == Spec /\ []Alone => BrakedMachineIsNotUpdated
<1>1. ASSUME TypeInv /\ FileInv, [Next]_vars
      PROVE  [flag = "remote" /\ "crash" \notin faults => installed' \in {installed, 0, backup}]_vars
  <2>1. SUFFICES ASSUME flag = "remote", "crash" \notin faults, installed' \notin {installed, 0, backup}
                 PROVE  FALSE
    OBVIOUS
  <2>2. PICK u \in Updaters : Swap(u)
    BY <1>1, <2>1, OnlySwapInstalls
  <2>3. QED
    BY <1>1, <2>1, <2>2 DEF Swap, Goto, FileInv, BrakeInv
<1>2. QED
  BY <1>1, FilesInvariant, PTL DEF Spec, BrakedMachineIsNotUpdated
=============================================================================
