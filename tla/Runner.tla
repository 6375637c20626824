-------------------------------- MODULE Runner --------------------------------
(***************************************************************************)
(* The one-shot PowerShell runner, internal/powershell/runner.go.          *)
(*                                                                         *)
(* Run starts a shell, registers it, writes the wrapped command to its     *)
(* stdin and then selects between its context and the framed answer, which *)
(* a reader goroutine parses.  A second goroutine (startChild) sits in     *)
(* cmd.Wait and posts to waitDone.  KillAll and BlockAndKillAll take a     *)
(* snapshot of the registered shells under r.mu and kill them afterwards,  *)
(* one by one.                                                             *)
(*                                                                         *)
(* Abstractions: a frame is complete and well formed ("good"), malformed   *)
(* ("bad") or not (yet) there; the shell's process tree is one process.    *)
(* Two facts of os/exec and Windows matter: cmd.Wait closes the parent's   *)
(* end of the stdout pipe when the process is gone, whether or not it has  *)
(* been read to the end, and a write to stdin blocks until the shell       *)
(* drains its pipe, the shell dies, or kill() closes the pipe.             *)
(***************************************************************************)
EXTENDS Naturals, FiniteSets

CONSTANT Calls  \* invocations of Run

VARIABLES
    pc,         \* where each call of Run is
    outcome,    \* the error it returns, or will return after reaping
    done,       \* calls whose context is done
    proc,       \* "none", "alive" or "dead"
    killed,     \* shells on which kill() has run
    delivered,  \* shells to which the whole command was written
    frame,      \* what the shell has printed: "none", "good" or "bad"
    reader,     \* readFrame's goroutine: "off", "reading", "ok" or "err"
    waitDone,   \* "none", "pending", "ready" or "taken"
    active,     \* r.active
    blocked,    \* r.blocked
    sweep,      \* shells KillAll has collected and not killed yet
    brakeSweep, \* the same for BlockAndKillAll
    brake       \* the first BlockAndKillAll: "off", "sweeping" or "returned"

call  == <<pc, outcome>>
shell == <<proc, killed, delivered, frame, waitDone>>
brakes == <<blocked, sweep, brakeSweep, brake>>
vars  == <<call, done, shell, reader, active, brakes>>

(* Run holds a shell it has started and not yet reaped or given up. *)
InRun(c) == pc[c] \notin {"idle", "returned"}

(* cmd.Wait has not closed the read end of stdout yet. *)
PipeOpen(c) == waitDone[c] = "pending"

-----------------------------------------------------------------------------
Init ==
    /\ pc = [c \in Calls |-> "idle"]
    /\ outcome = [c \in Calls |-> "none"]
    /\ done = {}
    /\ proc = [c \in Calls |-> "none"]
    /\ killed = {}
    /\ delivered = {}
    /\ frame = [c \in Calls |-> "none"]
    /\ reader = [c \in Calls |-> "off"]
    /\ waitDone = [c \in Calls |-> "none"]
    /\ active = {}
    /\ blocked = FALSE
    /\ sweep = {}
    /\ brakeSweep = {}
    /\ brake = "off"

Goto(c, label) == pc' = [pc EXCEPT ![c] = label]

Answer(c, result) == outcome' = [outcome EXCEPT ![c] = result]

(* A context that is done already is answered before anything is started. *)
Enter(c) ==
    /\ pc[c] = "idle"
    /\ IF c \in done THEN Goto(c, "returned") /\ Answer(c, "timeout")
                     ELSE Goto(c, "entered") /\ UNCHANGED outcome
    /\ UNCHANGED <<done, shell, reader, active, brakes>>

CheckBlocked(c) ==
    /\ pc[c] = "entered"
    /\ IF blocked THEN Goto(c, "returned") /\ Answer(c, "blocked")
                  ELSE Goto(c, "starting") /\ UNCHANGED outcome
    /\ UNCHANGED <<done, shell, reader, active, brakes>>

(* startChild succeeds; the goroutine in cmd.Wait is running from here on. *)
StartChild(c) ==
    /\ pc[c] = "starting"
    /\ Goto(c, "started")
    /\ proc' = [proc EXCEPT ![c] = "alive"]
    /\ waitDone' = [waitDone EXCEPT ![c] = "pending"]
    /\ UNCHANGED <<outcome, done, killed, delivered, frame, reader, active, brakes>>

(* No id, or startChild fails: nothing is left running. *)
StartFails(c) ==
    /\ pc[c] = "starting"
    /\ Goto(c, "returned")
    /\ Answer(c, "error")
    /\ UNCHANGED <<done, shell, reader, active, brakes>>

(* Mutant: only the first check of r.blocked. *)
MRegisterUnchecked(c) ==
    /\ pc[c] = "started"
    /\ Goto(c, "writing")
    /\ active' = active \cup {c}
    /\ UNCHANGED <<outcome, done, shell, reader, brakes>>

(* The second check of r.blocked, in the critical section that registers. *)
Register(c) ==
    /\ pc[c] = "started"
    /\ IF blocked
       THEN Goto(c, "reaping") /\ Answer(c, "blocked") /\ killed' = killed \cup {c}
            /\ UNCHANGED active
       ELSE Goto(c, "writing") /\ active' = active \cup {c} /\ UNCHANGED <<outcome, killed>>
    /\ UNCHANGED <<done, proc, delivered, frame, waitDone, reader, brakes>>

(* io.WriteString returns: the shell has drained its stdin, which kill() has *)
(* not closed.  Stdin is closed now and the reader goroutine starts.         *)
WriteCommand(c) ==
    /\ pc[c] = "writing"
    /\ c \notin killed
    /\ Goto(c, "selecting")
    /\ delivered' = delivered \cup {c}
    /\ reader' = [reader EXCEPT ![c] = "reading"]
    /\ UNCHANGED <<outcome, done, proc, killed, frame, waitDone, active, brakes>>

(* The write fails: kill() closed the pipe, or the shell closed its end, as *)
(* it does when it dies.                                                    *)
WriteFails(c) ==
    /\ pc[c] = "writing"
    /\ Goto(c, "killing")
    /\ Answer(c, "error")
    /\ UNCHANGED <<done, shell, reader, active, brakes>>

(* Mutant: the second select does not look at the context. *)
MSelectContext(c) ==
    /\ pc[c] = "selecting"
    /\ c \in done
    /\ Goto(c, "reaping")
    /\ Answer(c, "timeout")
    /\ killed' = killed \cup {c}
    /\ UNCHANGED <<done, proc, delivered, frame, waitDone, reader, active, brakes>>

(* Both selects: ctx.Done() is ready, and the random choice falls on it. *)
SelectContext(c) ==
    /\ pc[c] \in {"selecting", "waiting"}
    /\ c \in done
    /\ Goto(c, "reaping")
    /\ Answer(c, "timeout")
    /\ killed' = killed \cup {c}
    /\ UNCHANGED <<done, proc, delivered, frame, waitDone, reader, active, brakes>>

(* Mutant: a broken frame is reported as a timeout. *)
MFrameError == "timeout"

(* ErrShellExited. *)
FrameError == "exited"

(* Mutant: the reader's error is not looked at. *)
MFrameArrived(c) == reader[c] \in {"ok", "err"}

FrameArrived(c) == reader[c] = "ok"

(* First select: the reader has answered. *)
SelectFrame(c) ==
    /\ pc[c] = "selecting"
    /\ \/ /\ FrameArrived(c)
          /\ Goto(c, "waiting")
          /\ UNCHANGED <<outcome, killed>>
       \/ /\ reader[c] = "err"
          /\ Goto(c, "reaping")
          /\ Answer(c, FrameError)
          /\ killed' = killed \cup {c}
    /\ UNCHANGED <<done, proc, delivered, frame, waitDone, reader, active, brakes>>

(* Second select: the shell has exited, the frame is the answer, returned *)
(* through the deferred calls.                                               *)
SelectExit(c) ==
    /\ pc[c] = "waiting"
    /\ waitDone[c] = "ready"
    /\ waitDone' = [waitDone EXCEPT ![c] = "taken"]
    /\ Goto(c, "killing")
    /\ Answer(c, "ok")
    /\ UNCHANGED <<done, proc, killed, delivered, frame, reader, active, brakes>>

(* <-p.waitDone after a kill. *)
Reap(c) ==
    /\ pc[c] = "reaping"
    /\ waitDone[c] = "ready"
    /\ waitDone' = [waitDone EXCEPT ![c] = "taken"]
    /\ Goto(c, IF c \in active THEN "killing" ELSE "returned")
    /\ UNCHANGED <<outcome, done, proc, killed, delivered, frame, reader, active, brakes>>

(* Mutant: without the deferred kill. *)
MDeferredKill(c) ==
    /\ pc[c] = "killing"
    /\ Goto(c, "unregistering")
    /\ UNCHANGED <<outcome, done, shell, reader, active, brakes>>

(* The deferred calls, last first: p.kill(), then delete(r.active, p). *)
DeferredKill(c) ==
    /\ pc[c] = "killing"
    /\ Goto(c, "unregistering")
    /\ killed' = killed \cup {c}
    /\ UNCHANGED <<outcome, done, proc, delivered, frame, waitDone, reader, active, brakes>>

Unregister(c) ==
    /\ pc[c] = "unregistering"
    /\ Goto(c, "returned")
    /\ active' = active \ {c}
    /\ UNCHANGED <<outcome, done, shell, reader, brakes>>

(* readFrame returns: a frame while the pipe is open, or an error: malformed *)
(* frame, end of output without a frame, or a pipe closed under the reader.  *)
ReadFrame(c) ==
    /\ reader[c] = "reading"
    /\ \/ /\ PipeOpen(c) /\ frame[c] = "good"
          /\ reader' = [reader EXCEPT ![c] = "ok"]
       \/ /\ \/ PipeOpen(c) /\ frame[c] = "bad"
             \/ PipeOpen(c) /\ frame[c] = "none" /\ proc[c] = "dead"
             \/ ~PipeOpen(c)
          /\ reader' = [reader EXCEPT ![c] = "err"]
    /\ UNCHANGED <<call, done, shell, active, brakes>>

-----------------------------------------------------------------------------
(* KillAll (server shutdown). *)
KillAll ==
    /\ sweep = {}
    /\ sweep' = active
    /\ UNCHANGED <<call, done, shell, reader, active, blocked, brakeSweep, brake>>

(* BlockAndKillAll, its critical section: no one can register any more.  It *)
(* may be called again; one call at a time.                                 *)
BlockAndKillAll ==
    /\ brake # "sweeping"
    /\ brakeSweep = {}
    /\ blocked' = TRUE
    /\ brakeSweep' = active
    /\ brake' = IF brake = "off" THEN "sweeping" ELSE brake
    /\ UNCHANGED <<call, done, shell, reader, active, sweep>>

(* Mutant: a collected shell is skipped. *)
MKillOne(c) ==
    /\ c \in sweep \cup brakeSweep
    /\ sweep' = sweep \ {c}
    /\ brakeSweep' = brakeSweep \ {c}
    /\ UNCHANGED <<call, done, shell, reader, active, blocked, brake>>

(* process.kill() for one collected shell, outside the lock. *)
KillOne(c) ==
    /\ c \in sweep \cup brakeSweep
    /\ killed' = killed \cup {c}
    /\ \/ c \in sweep /\ sweep' = sweep \ {c} /\ UNCHANGED brakeSweep
       \/ c \in brakeSweep /\ brakeSweep' = brakeSweep \ {c} /\ UNCHANGED sweep
    /\ UNCHANGED <<call, done, proc, delivered, frame, waitDone, reader, active, blocked,
                   brake>>

BrakeReturns ==
    /\ brake = "sweeping"
    /\ brakeSweep = {}
    /\ brake' = "returned"
    /\ UNCHANGED <<call, done, shell, reader, active, blocked, sweep, brakeSweep>>

-----------------------------------------------------------------------------
(* The environment: deadlines, and the shells. *)
ContextDone(c) ==
    /\ c \notin done
    /\ pc[c] # "returned"
    /\ done' = done \cup {c}
    /\ UNCHANGED <<call, shell, reader, active, brakes>>

ShellPrints(c) ==
    /\ proc[c] = "alive"
    /\ c \in delivered
    /\ frame[c] = "none"
    /\ \E f \in {"good", "bad"} : frame' = [frame EXCEPT ![c] = f]
    /\ UNCHANGED <<call, done, proc, killed, delivered, waitDone, reader, active, brakes>>

(* On its own, by the command's doing, or because it was killed. *)
ShellDies(c) ==
    /\ proc[c] = "alive"
    /\ proc' = [proc EXCEPT ![c] = "dead"]
    /\ UNCHANGED <<call, done, killed, delivered, frame, waitDone, reader, active, brakes>>

(* cmd.Wait returns: it closes stdout's read end and posts to waitDone. *)
WaitReturns(c) ==
    /\ proc[c] = "dead"
    /\ waitDone[c] = "pending"
    /\ waitDone' = [waitDone EXCEPT ![c] = "ready"]
    /\ UNCHANGED <<call, done, proc, killed, delivered, frame, reader, active, brakes>>

(* Everything a call does, except for the end of its write. *)
RunStep(c) ==
    \/ Enter(c) \/ CheckBlocked(c) \/ StartChild(c) \/ StartFails(c)
    \/ Register(c) \/ SelectContext(c) \/ SelectFrame(c) \/ SelectExit(c)
    \/ Reap(c) \/ DeferredKill(c) \/ Unregister(c)

Next ==
    \/ \E c \in Calls : RunStep(c) \/ WriteCommand(c) \/ WriteFails(c) \/ ReadFrame(c) \/ KillOne(c)
                        \/ ContextDone(c) \/ ShellPrints(c) \/ ShellDies(c) \/ WaitReturns(c)
    \/ KillAll
    \/ BlockAndKillAll
    \/ BrakeReturns

Spec == Init /\ [][Next]_vars

(* Goroutines run once started, a killed process tree dies and is reaped.   *)
(* Nothing is promised about a shell nobody kills: it may hang before it    *)
(* has read its stdin, and it may never exit.                               *)
LiveSpec ==
    /\ Spec
    /\ WF_vars(BrakeReturns)
    /\ \A c \in Calls :
          /\ WF_vars(InRun(c) /\ RunStep(c))
          /\ WF_vars((c \in killed \/ proc[c] = "dead") /\ WriteFails(c))
          /\ WF_vars(ReadFrame(c))
          /\ WF_vars(KillOne(c))
          /\ WF_vars(c \in killed /\ ShellDies(c))
          /\ WF_vars(c \in killed /\ WaitReturns(c))

-----------------------------------------------------------------------------
(* Types. *)
TypeOK ==
    /\ pc \in [Calls -> {"idle", "entered", "starting", "started", "writing", "selecting",
                         "waiting", "reaping", "killing", "unregistering", "returned"}]
    /\ outcome \in [Calls -> {"none", "ok", "timeout", "blocked", "exited", "error"}]
    /\ done \subseteq Calls
    /\ proc \in [Calls -> {"none", "alive", "dead"}]
    /\ killed \subseteq Calls
    /\ delivered \subseteq Calls
    /\ frame \in [Calls -> {"none", "good", "bad"}]
    /\ reader \in [Calls -> {"off", "reading", "ok", "err"}]
    /\ waitDone \in [Calls -> {"none", "pending", "ready", "taken"}]
    /\ active \subseteq Calls
    /\ blocked \in BOOLEAN
    /\ sweep \subseteq Calls
    /\ brakeSweep \subseteq Calls
    /\ brake \in {"off", "sweeping", "returned"}

(* Shells that hold a command and that nobody has killed. *)
Unstopped == {c \in delivered : c \notin killed /\ proc[c] = "alive"}

(* When BlockAndKillAll has returned, every shell that was or will be given a *)
(* command is killed or gone, including those whose call was between the     *)
(* first check of r.blocked and the registration when the brake was pulled.  *)
BrakeIsTight == brake = "returned" => Unstopped = {}

(* A call leaves nothing behind: its shell is killed or gone, and r.active no *)
(* longer holds it, on every path out of Run.                                 *)
NothingOutlivesItsCall ==
    \A c \in Calls : pc[c] = "returned" =>
        c \notin active /\ (c \in killed \/ proc[c] # "alive")

(* waitDone holds one value and is received at most once: no path of Run     *)
(* waits for a reaping that another select has already consumed.             *)
ReapedOnce ==
    \A c \in Calls : pc[c] \in {"selecting", "waiting", "reaping"} =>
        waitDone[c] \in {"pending", "ready"}

(* "ok" is answered only for a complete frame of a shell that has exited. *)
OkMeansFramed ==
    \A c \in Calls : pc[c] = "returned" /\ outcome[c] = "ok" =>
        frame[c] = "good" /\ proc[c] = "dead" /\ c \in delivered

(* The caller's view of a call. *)
Phase == [c \in Calls |-> IF pc[c] \in {"idle", "returned"} THEN pc[c] ELSE "running"]

Result == [c \in Calls |-> IF pc[c] = "returned" THEN outcome[c] ELSE "none"]

Contract == INSTANCE RunnerContract WITH
    phase <- Phase, result <- Result, executed <- delivered, live <- Unstopped,
    brake <- CASE brake = "off"      -> "off"
               [] brake = "sweeping" -> "pulled"
               [] brake = "returned" -> "effective"

(* Run and BlockAndKillAll keep the contract their callers rely on. *)
KeepsContract == Contract!Spec

(* After the brake every call returns, even one whose shell hangs before it *)
(* has read its command, and whatever its context does.                     *)
BrakeReleasesCallers ==
    \A c \in Calls : (brake = "returned" /\ InRun(c)) ~> (pc[c] = "returned")

(* A call whose command was written returns once its context is done. *)
DeadlineEndsCall ==
    \A c \in Calls : (c \in delivered /\ c \in done) ~> (pc[c] = "returned")
=============================================================================
