-------------------------------- MODULE Updater --------------------------------
(***************************************************************************)
(* The updater process (internal/updater, cmd/updater), the Windows        *)
(* service it stops and starts, and the scheduler in the agent that        *)
(* launches it (internal/updatescheduler).                                 *)
(*                                                                         *)
(* An updater checks the flag file, asks for the latest release, downloads *)
(* and verifies it, checks the flag again, and then stops the service,     *)
(* renames files and starts the service, with a rollback.  Every file      *)
(* operation and every service request is a step of its own.               *)
(*                                                                         *)
(* Abstractions: releases are numbered, and a name is three numbers and    *)
(* perhaps a pre-release suffix; a binary is the release it was built      *)
(* from, or Forged, and only releases carry a valid signature; 0 stands    *)
(* for a file, a process or a value that is not there.  What can go wrong on the machine is a fault; each kind   *)
(* of fault happens at most once.  A failing download or API call changes  *)
(* nothing and just ends the updater (GivesUp).                            *)
(***************************************************************************)
EXTENDS Naturals, FiniteSets

CONSTANTS
    Updaters,    \* updater processes that may be alive at a time
    NoUpdater,   \* no process
    Latest,      \* the number of releases
    Name,        \* their names: <<major, minor, patch>> and the suffix of a pre-release
    Broken,      \* releases whose agent exits during its start
    Forged,      \* a binary that is not a release
    Kinds,       \* the kinds of fault that may happen
    MaxFaults    \* how many of them in one behaviour

ASSUME LatestAssumption == Latest \in Nat \ {0} /\ Name \in [1..Latest -> [numbers : Nat \X Nat \X Nat, suffix : STRING]]
(* The agent that was installed first works. *)
ASSUME BrokenAssumption == Broken \subseteq 2..Latest
ASSUME ForgedAssumption == Forged \notin Nat /\ NoUpdater \notin Updaters

Releases == 1..Latest

(* The suffix is cut off. *)
parseVersion(v) == Name[v].numbers

(* Mutant: any component that is greater decides. *)
MnewerVersion(current_, candidate) == \E i \in 1..3 : parseVersion(candidate)[i] > parseVersion(current_)[i]

newerVersion(current_, candidate) ==
    LET c == parseVersion(current_) n == parseVersion(candidate) IN
    \E i \in 1..3 : n[i] > c[i] /\ \A j \in 1..(i - 1) : n[j] = c[j]

versionsEqual(a, b) == parseVersion(a) = parseVersion(b)

(* What can fail: the stop outlasts its timeout, the start outlasts it, a    *)
(* good agent exits during its start, the renames to .bak, to agent.exe, to  *)
(* .failed and back from .bak, the agent crashes, the machine loses power.   *)
FaultKinds == {"stop", "slow", "start", "backup", "swap", "aside", "restore", "crash", "power"}

ASSUME FaultAssumption == Kinds \subseteq FaultKinds /\ MaxFaults \in Nat

VARIABLES
    flag,       \* the file KILLED: "none", or who made it
    installed,  \* the binary at agent_path
    backup,     \* the binary at agent_path.bak
    svc,        \* the service's state; "crashed" is stopped, with a restart due
    image,      \* the binary the service's process was started from
    child,      \* the updater the agent's scheduler waits for (s.running)
    pc,         \* where an updater is, "none" if the process does not exist
    current,    \* the version it read from the installed agent
    tag,        \* the release it found
    temp,       \* the binary it downloaded
    faults      \* the faults that have happened

machine == <<installed, backup, svc, image>>
updater == <<pc, current, tag, temp>>
vars == <<flag, machine, child, updater, faults>>

Init ==
    /\ flag = "none"
    /\ installed = 1
    /\ backup = 0
    /\ svc = "running"
    /\ image = 1
    /\ child = NoUpdater
    /\ pc = [u \in Updaters |-> "none"]
    /\ current = [u \in Updaters |-> 0]
    /\ tag = [u \in Updaters |-> 0]
    /\ temp = [u \in Updaters |-> 0]
    /\ faults = {}

(* Faults, of kinds that have not happened yet. *)
Fault(kinds) ==
    /\ kinds \subseteq Kinds \ faults
    /\ faults' = faults \cup kinds
    /\ Cardinality(faults') <= MaxFaults

(* isKilled *)
IsKilled == flag # "none"

(* svc.Stopped, as a query sees it. *)
Down == svc \in {"stopped", "crashed"}

Goto(u, from, to) ==
    /\ pc[u] = from
    /\ pc' = [pc EXCEPT ![u] = to]
    /\ UNCHANGED <<current, tag, temp>>

(* The process ends; the deferred cleanup removes its downloads. *)
Exit(u) ==
    /\ pc' = [pc EXCEPT ![u] = "none"]
    /\ current' = [current EXCEPT ![u] = 0]
    /\ tag' = [tag EXCEPT ![u] = 0]
    /\ temp' = [temp EXCEPT ![u] = 0]

-----------------------------------------------------------------------------
(* The scheduler, in the running agent. *)

(* launch: a tick while no updater of this agent is running. *)
Launch(u) ==
    /\ svc = "running"
    /\ child = NoUpdater
    /\ Goto(u, "none", "checkFlag")
    /\ child' = u
    /\ UNCHANGED <<flag, machine, faults>>

(* process.Wait returns, and the next tick may launch again. *)
ChildExited ==
    /\ child # NoUpdater
    /\ pc[child] = "none"
    /\ child' = NoUpdater
    /\ UNCHANGED <<flag, machine, updater, faults>>

-----------------------------------------------------------------------------
(* CheckAndUpdate, before it touches anything. *)

CheckFlag(u) ==
    /\ pc[u] = "checkFlag"
    /\ IF IsKilled THEN Exit(u) ELSE Goto(u, "checkFlag", "readVersion")
    /\ UNCHANGED <<flag, machine, child, faults>>

(* currentVersion runs the installed agent with --version. *)
ReadVersion(u) ==
    /\ pc[u] = "readVersion"
    /\ installed # 0
    /\ pc' = [pc EXCEPT ![u] = "askLatest"]
    /\ current' = [current EXCEPT ![u] = installed]
    /\ UNCHANGED <<flag, machine, child, tag, temp, faults>>

(* github.latest, newerVersion, requiredAssets. *)
AskLatest(u, v) ==
    /\ pc[u] = "askLatest"
    /\ newerVersion(current[u], v)
    /\ pc' = [pc EXCEPT ![u] = "download"]
    /\ tag' = [tag EXCEPT ![u] = v]
    /\ UNCHANGED <<flag, machine, child, current, temp, faults>>

(* Three downloads into files with a random prefix of their own. *)
Download(u, binary) ==
    /\ pc[u] = "download"
    /\ pc' = [pc EXCEPT ![u] = "verify"]
    /\ temp' = [temp EXCEPT ![u] = binary]
    /\ UNCHANGED <<flag, machine, child, current, tag, faults>>

(* Mutant: the signature is not looked at. *)
MUnsigned(u) == temp[u] \in {tag[u], Forged}

(* verifyChecksum, verifyCosignBlob, and the comparison of the version that *)
(* the signed binary reports with the release's tag.                        *)
Verified(u) == temp[u] \in Releases /\ versionsEqual(temp[u], tag[u])

Verify(u) ==
    /\ pc[u] = "verify"
    /\ IF Verified(u) THEN Goto(u, "verify", "checkAgain") ELSE Exit(u)
    /\ UNCHANGED <<flag, machine, child, faults>>

(* A request fails, no release is newer, or an asset is missing. *)
GivesUp(u) ==
    /\ pc[u] \in {"readVersion", "askLatest", "download"}
    /\ Exit(u)
    /\ UNCHANGED <<flag, machine, child, faults>>

CheckAgain(u) ==
    /\ pc[u] = "checkAgain"
    /\ IF IsKilled THEN Exit(u) ELSE Goto(u, "checkAgain", "stop")
    /\ UNCHANGED <<flag, machine, child, faults>>

-----------------------------------------------------------------------------
(* stopService and startService.  A service that is starting or stopping    *)
(* accepts no control, and one that is not stopped cannot be started.       *)

StopService(u, from, wait, stopped, failed) ==
    \/ Down /\ Goto(u, from, stopped) /\ UNCHANGED svc
    \/ svc = "running" /\ Goto(u, from, wait) /\ svc' = "stopping"
    \/ svc \in {"starting", "stopping"} /\ svc' = svc
       /\ IF failed = "none" THEN pc[u] = from /\ Exit(u) ELSE Goto(u, from, failed)

StartService(u, from, wait, failed) ==
    \/ /\ Down /\ installed # 0
       /\ Goto(u, from, wait)
       /\ svc' = "starting"
       /\ image' = installed
    \/ /\ ~Down \/ installed = 0
       /\ IF failed = "none" THEN pc[u] = from /\ Exit(u) ELSE Goto(u, from, failed)
       /\ UNCHANGED <<svc, image>>

-----------------------------------------------------------------------------
(* installVerified. *)

Stop(u) ==
    /\ StopService(u, "stop", "stopWait", "recheck", "none")
    /\ UNCHANGED <<flag, installed, backup, image, child, faults>>

StopWait(u) ==
    /\ Down
    /\ Goto(u, "stopWait", "recheck")
    /\ UNCHANGED <<flag, machine, child, faults>>

(* waitForState gives up: the updater returns and starts nothing. *)
StopTimesOut(u) ==
    /\ pc[u] = "stopWait"
    /\ ~Down
    /\ IF svc = "stopping" THEN Fault({"stop"}) ELSE UNCHANGED faults
    /\ Exit(u)
    /\ UNCHANGED <<flag, machine, child>>

(* Mutant: the flag is not looked at again once the service is down. *)
MRecheck(u) ==
    /\ Goto(u, "recheck", "removeBackup")
    /\ UNCHANGED <<flag, machine, child, faults>>

Recheck(u) ==
    /\ Goto(u, "recheck", IF IsKilled THEN "lastStart" ELSE "removeBackup")
    /\ UNCHANGED <<flag, machine, child, faults>>

RemoveBackup(u) ==
    /\ Goto(u, "removeBackup", "backup")
    /\ backup' = 0
    /\ UNCHANGED <<flag, installed, svc, image, child, faults>>

Backup(u) ==
    /\ installed # 0
    /\ Goto(u, "backup", "swap")
    /\ backup' = installed
    /\ installed' = 0
    /\ UNCHANGED <<flag, svc, image, child, faults>>

(* Mutant: no bestEffortStart on this path. *)
MBackupFails(u) ==
    /\ pc[u] = "backup"
    /\ IF installed = 0 THEN UNCHANGED faults ELSE Fault({"backup"})
    /\ Exit(u)
    /\ UNCHANGED <<flag, machine, child>>

BackupFails(u) ==
    /\ Goto(u, "backup", "lastStart")
    /\ IF installed = 0 THEN UNCHANGED faults ELSE Fault({"backup"})
    /\ UNCHANGED <<flag, machine, child>>

(* Mutant: the backup is given up before the new agent has started. *)
MSwap(u) ==
    /\ Goto(u, "swap", "start")
    /\ installed' = temp[u]
    /\ backup' = 0
    /\ UNCHANGED <<flag, svc, image, child, faults>>

Swap(u) ==
    /\ Goto(u, "swap", "start")
    /\ installed' = temp[u]
    /\ UNCHANGED <<flag, backup, svc, image, child, faults>>

(* The rename back is tried once ... *)
SwapFails(u) ==
    /\ Goto(u, "swap", "lastStart")
    /\ Fault({"swap"})
    /\ installed' = backup
    /\ backup' = 0
    /\ UNCHANGED <<flag, svc, image, child>>

(* ... and its error ignored. *)
SwapFailsTwice(u) ==
    /\ Goto(u, "swap", "lastStart")
    /\ Fault({"swap", "restore"})
    /\ UNCHANGED <<flag, machine, child>>

Start(u) ==
    /\ StartService(u, "start", "startWait", "undoStop")
    /\ UNCHANGED <<flag, installed, backup, child, faults>>

(* The new agent runs: Updated. *)
Updated(u) ==
    /\ pc[u] = "startWait"
    /\ svc = "running"
    /\ Exit(u)
    /\ UNCHANGED <<flag, machine, child, faults>>

StartFailed(u) ==
    /\ Goto(u, "startWait", "undoStop")
    /\ \/ Down /\ UNCHANGED faults
       \/ svc = "starting" /\ Fault({"slow"})
       \/ svc = "stopping" /\ UNCHANGED faults
    /\ UNCHANGED <<flag, machine, child>>

(* The rollback.  The result of this stop is ignored. *)
UndoStop(u) ==
    /\ StopService(u, "undoStop", "undoWait", "setAside", "setAside")
    /\ UNCHANGED <<flag, installed, backup, image, child, faults>>

UndoWait(u) ==
    /\ Goto(u, "undoWait", "setAside")
    /\ IF svc = "stopping" THEN Fault({"stop"}) ELSE UNCHANGED faults
    /\ UNCHANGED <<flag, machine, child>>

(* The rename to .failed-<time>, its error ignored too. *)
SetAside(u) ==
    /\ Goto(u, "setAside", "restore")
    /\ \/ installed' = 0 /\ UNCHANGED faults
       \/ installed # 0 /\ UNCHANGED installed /\ Fault({"aside"})
    /\ UNCHANGED <<flag, backup, svc, image, child>>

(* A rename replaces what is there, but not the file of a running process. *)
MayRestore == backup # 0 /\ (installed = 0 \/ Down)

Restore(u) ==
    /\ MayRestore
    /\ Goto(u, "restore", "lastStart")
    /\ installed' = backup
    /\ backup' = 0
    /\ UNCHANGED <<flag, svc, image, child, faults>>

RestoreFails(u) ==
    /\ pc[u] = "restore"
    /\ IF MayRestore THEN Fault({"restore"}) ELSE UNCHANGED faults
    /\ Exit(u)
    /\ UNCHANGED <<flag, machine, child>>

(* bestEffortStart, the start after the rollback and the one after a kill   *)
(* switch: the updater ends whatever comes of it.                           *)
LastStart(u) ==
    /\ StartService(u, "lastStart", "lastWait", "none")
    /\ UNCHANGED <<flag, installed, backup, child, faults>>

LastWait(u) ==
    /\ pc[u] = "lastWait"
    /\ svc = "starting" => Fault({"slow"})
    /\ svc # "starting" => UNCHANGED faults
    /\ Exit(u)
    /\ UNCHANGED <<flag, machine, child>>

-----------------------------------------------------------------------------
(* The service control manager, the agent and the machine. *)

ServiceUp ==
    /\ svc = "starting"
    /\ image \notin Broken
    /\ svc' = "running"
    /\ UNCHANGED <<flag, installed, backup, image, child, updater, faults>>

ServiceFails ==
    /\ svc = "starting"
    /\ IF image \in Broken THEN UNCHANGED faults ELSE Fault({"start"})
    /\ svc' = "stopped"
    /\ image' = 0
    /\ UNCHANGED <<flag, installed, backup, child, updater>>

ServiceDown ==
    /\ svc = "stopping"
    /\ svc' = "stopped"
    /\ image' = 0
    /\ child' = NoUpdater
    /\ UNCHANGED <<flag, installed, backup, updater, faults>>

(* The agent's process dies; sc.exe failure makes the manager restart it. *)
AgentCrash ==
    /\ svc = "running"
    /\ Fault({"crash"})
    /\ svc' = "crashed"
    /\ image' = 0
    /\ child' = NoUpdater
    /\ UNCHANGED <<flag, installed, backup, updater>>

(* The restart after a crash, or the automatic start after a boot. *)
Recover ==
    /\ svc = "crashed"
    /\ svc' = IF installed = 0 THEN "stopped" ELSE "starting"
    /\ image' = installed
    /\ UNCHANGED <<flag, installed, backup, child, updater, faults>>

PowerLoss ==
    /\ Fault({"power"})
    /\ svc' = "crashed"
    /\ image' = 0
    /\ child' = NoUpdater
    /\ pc' = [u \in Updaters |-> "none"]
    /\ current' = [u \in Updaters |-> 0]
    /\ tag' = [u \in Updaters |-> 0]
    /\ temp' = [u \in Updaters |-> 0]
    /\ UNCHANGED <<flag, installed, backup>>

(* handleKillSwitch, as long as there is an agent that listens: the flag file  *)
(* is what an updater sees of it.  Module Agent has the rest.                *)
RemoteArm ==
    /\ ~Down
    /\ flag' = "remote"
    /\ UNCHANGED <<machine, child, updater, faults>>

(* The administrator at the machine. *)
LocalArm ==
    /\ flag = "none"
    /\ flag' = "local"
    /\ UNCHANGED <<machine, child, updater, faults>>

Disarm ==
    /\ flag # "none"
    /\ flag' = "none"
    /\ UNCHANGED <<machine, child, updater, faults>>

-----------------------------------------------------------------------------
UpdaterStep(u) ==
    \/ CheckFlag(u) \/ ReadVersion(u) \/ GivesUp(u) \/ Verify(u) \/ CheckAgain(u)
    \/ \E v \in Releases : AskLatest(u, v)
    \/ \E binary \in Releases \cup {Forged} : Download(u, binary)
    \/ Stop(u) \/ StopWait(u) \/ StopTimesOut(u) \/ Recheck(u)
    \/ RemoveBackup(u) \/ Backup(u) \/ BackupFails(u) \/ Swap(u) \/ SwapFails(u) \/ SwapFailsTwice(u)
    \/ Start(u) \/ Updated(u) \/ StartFailed(u)
    \/ UndoStop(u) \/ UndoWait(u) \/ SetAside(u) \/ Restore(u) \/ RestoreFails(u)
    \/ LastStart(u) \/ LastWait(u)

ServiceStep == ServiceUp \/ ServiceFails \/ ServiceDown \/ Recover

Next ==
    \/ \E u \in Updaters : Launch(u) \/ UpdaterStep(u)
    \/ ChildExited
    \/ ServiceStep
    \/ AgentCrash \/ PowerLoss
    \/ RemoteArm \/ LocalArm \/ Disarm

Spec == Init /\ [][Next]_vars

(* The updater runs to its end, and a service that is starting, stopping or  *)
(* due for a restart gets there.                                             *)
LiveSpec == Spec /\ WF_vars(ServiceStep) /\ \A u \in Updaters : WF_vars(UpdaterStep(u))

-----------------------------------------------------------------------------
(* Types: a forged binary never gets further than an updater's own download. *)
TypeOK ==
    /\ flag \in {"none", "local", "remote"}
    /\ {installed, backup, image} \subseteq Releases \cup {0}
    /\ svc \in {"running", "starting", "stopping", "stopped", "crashed"}
    /\ child \in Updaters \cup {NoUpdater}
    /\ pc \in [Updaters -> {"none", "checkFlag", "readVersion", "askLatest", "download", "verify",
                            "checkAgain", "stop", "stopWait", "recheck", "removeBackup", "backup",
                            "swap", "start", "startWait", "undoStop", "undoWait", "setAside",
                            "restore", "lastStart", "lastWait"}]
    /\ current \in [Updaters -> Releases \cup {0}]
    /\ tag \in [Updaters -> Releases \cup {0}]
    /\ temp \in [Updaters -> Releases \cup {0, Forged}]
    /\ faults \subseteq FaultKinds

(* What an update puts at agent_path is a signed release with a greater       *)
(* version than what it replaces, also when the download is another release   *)
(* that passes for the one asked for because only its suffix differs; the     *)
(* only other binary that ever gets there is the backup.                      *)
Before(a, b) ==
    LET x == Name[a].numbers y == Name[b].numbers IN
    x[1] < y[1] \/ (x[1] = y[1] /\ (x[2] < y[2] \/ (x[2] = y[2] /\ x[3] < y[3])))

UpdatesMoveForward ==
    [][installed' \notin {installed, 0, backup} =>
          installed' \in Releases /\ (backup # 0 => Before(backup, installed'))]_vars

(* "An update must never silently un-brake a machine": once POST /killswitch  *)
(* was answered no new binary is installed, because the updater looks at the  *)
(* file once more when the service is down and nobody can arm it remotely.    *)
(* (After a crash of the agent the restart by the service manager can race    *)
(* the updater.)                                                              *)
BrakedMachineIsNotUpdated ==
    [][flag = "remote" /\ "crash" \notin faults => installed' \in {installed, 0, backup}]_vars

(* At every instant, whatever fails and wherever the power goes, an agent     *)
(* that works is at agent_path or in the backup beside it: the backup is only *)
(* removed under an installed agent that has run.  (With the same exception.) *)
AlwaysRestorable == "crash" \notin faults => {installed, backup} \cap (Releases \ Broken) # {}

(* The service comes back after an update, a broken release included, if the  *)
(* machine does its part, and also if one of the renames to .bak, to          *)
(* agent_path or to .failed does not succeed.                                 *)
ServiceReturns ==
    (svc = "stopped") ~>
        (svc = "running" \/ faults \notin {{}, {"backup"}, {"swap"}, {"aside"}})
=============================================================================
