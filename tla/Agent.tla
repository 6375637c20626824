--------------------------------- MODULE Agent ---------------------------------
(***************************************************************************)
(* The agent as its clients see it: the command handlers of                *)
(* internal/server/server.go, the kill switch and the life of the process. *)
(*                                                                         *)
(* The handlers check the flag file first and act later; the kill switch   *)
(* writes the file and then pulls the brakes of the job manager, of the    *)
(* runner and of the session manager one after the other.  Several of them *)
(* may do so at the same time.  The runner is its contract, RunnerContract, *)
(* which Runner implements.  Of the job manager and the session manager    *)
(* only the critical sections remain that the handlers meet: JobManager    *)
(* and SessionManager have the rest, limits and pruning included.          *)
(*                                                                         *)
(* A session is taken out of the map under the manager's lock and closed   *)
(* (Abort) later, outside of it; Exec asks whether it is closed, not       *)
(* whether it is in the map.                                               *)
(*                                                                         *)
(* Abstractions: a request stands for the job or the session it creates; a *)
(* request that names a job or a session is sent after the id was answered *)
(* (ids are 128 random bits); requests that fail authentication or         *)
(* decoding change nothing here and are left out.                          *)
(***************************************************************************)
EXTENDS Naturals, Sequences

CONSTANTS
    Requests,   \* the requests clients send
    NoRequest,  \* no target
    Switches,   \* the calls of POST /killswitch that can be in progress at a time
    MaxStarts   \* bound on the starts of the process

ASSUME NoRequestAssumption == NoRequest \notin Requests
ASSUME SwitchesAssumption == {"nobody", "other", "shutdown"} \cap Switches = {}
ASSUME MaxStartsAssumption == MaxStarts \in Nat \ {0}

VARIABLES
    flag,         \* the file KILLED exists
    armed,        \* since the file was last removed a kill switch has written it
                  \* and has been answered 200
    pulling,      \* the kill switches that have written it since and go on
    up, starts,   \* the process runs; how often it was started
    arm,          \* where each call of handleKillSwitch is
    closing,      \* where Shutdown is
    jobsBlocked,  \* jobs.blocked
    kind, pc, target, answer,  \* each request's endpoint, progress, target and status code
    status,       \* job status, by the request that submitted it
    sessions,     \* the sessions in the map, by the request that created them
    taker,        \* who has taken a session out of the map and not closed it yet:
                  \* a kill switch, the shutdown, a DELETE or the reaper ("other")
    reached,      \* requests whose command was handed to a session's shell
    struck,       \* jobs whose shell the runner killed for a brake or a shutdown
    phase, result, done, executed, live, brake  \* the runner

Contract == INSTANCE RunnerContract WITH Calls <- Requests

process == <<pulling, up, starts, arm, closing>>
request == <<kind, pc, target, answer>>
runner  == <<phase, result, done, executed, live, brake>>
others  == <<status, sessions, taker, reached, struck, jobsBlocked>>
vars    == <<flag, armed, process, request, runner, others>>

Kinds == {"exec", "job", "cancel", "create", "session_exec"}

Pending == {r \in Requests : pc[r] \notin {"idle", "ended"}}

Jobs == {r \in Requests : status[r] # "none"}

(* The sessions that are not closed. *)
Open == sessions \cup {s \in Requests : taker[s] # "nobody"}

Init ==
    /\ flag = FALSE
    /\ armed = FALSE
    /\ pulling = {}
    /\ up = FALSE
    /\ starts = 0
    /\ arm = [k \in Switches |-> "idle"]
    /\ closing = "no"
    /\ jobsBlocked = FALSE
    /\ kind \in [Requests -> Kinds]
    /\ pc = [r \in Requests |-> "idle"]
    /\ target = [r \in Requests |-> NoRequest]
    /\ answer = [r \in Requests |-> "none"]
    /\ status = [r \in Requests |-> "none"]
    /\ sessions = {}
    /\ taker = [s \in Requests |-> "nobody"]
    /\ reached = {}
    /\ struck = {}
    /\ Contract!Init

Goto(r, label) == pc' = [pc EXCEPT ![r] = label]

Respond(r, code) == Goto(r, "ended") /\ answer' = [answer EXCEPT ![r] = code]

-----------------------------------------------------------------------------
(* Mutant: a handler that forgets to ask. *)
MRefused(r) == flag /\ kind[r] # "session_exec"

(* rejectIfKilled, the first thing the command handlers do.  Cancelling a job *)
(* is allowed on a braked host.                                               *)
Refused(r) == flag /\ kind[r] # "cancel"

(* The ids a client can name. *)
Targets(r) ==
    CASE kind[r] = "cancel"       -> {t \in Jobs : answer[t] = "202"}
      [] kind[r] = "session_exec" -> {t \in Requests : kind[t] = "create" /\ answer[t] = "201"}
      [] OTHER                    -> {NoRequest}

(* A request arrives and passes, or not, the handler's check. *)
Arrive(r) ==
    /\ up
    /\ pc[r] = "idle"
    /\ \E t \in Targets(r) : target' = [target EXCEPT ![r] = t]
    /\ IF Refused(r) THEN Respond(r, "423") ELSE Goto(r, "admitted") /\ UNCHANGED answer
    /\ UNCHANGED <<flag, armed, process, kind, runner, others>>

(* handleExec calls Run ... *)
ExecRun(r) ==
    /\ pc[r] = "admitted" /\ kind[r] = "exec"
    /\ Contract!Call(r)
    /\ Goto(r, "running")
    /\ UNCHANGED <<flag, armed, process, kind, target, answer, others>>

(* The call of Run is over, and nothing of it is looked at again. *)
Forget(r) ==
    /\ phase' = [phase EXCEPT ![r] = "idle"]
    /\ result' = [result EXCEPT ![r] = "none"]
    /\ done' = done \ {r}
    /\ executed' = executed \ {r}
    /\ UNCHANGED <<live, brake>>

(* Mutant: an undocumented status for a dead shell. *)
MStatusOf(res) ==
    CASE res = "ok"      -> "200"
      [] res = "blocked" -> "423"
      [] res = "timeout" -> "504"
      [] OTHER           -> "502"

StatusOf(res) ==
    CASE res = "ok"      -> "200"
      [] res = "blocked" -> "423"
      [] res = "timeout" -> "504"
      [] OTHER           -> "500"

(* ... and answers with its result. *)
ExecAnswer(r) ==
    /\ pc[r] = "running" /\ kind[r] = "exec"
    /\ phase[r] = "returned"
    /\ Respond(r, StatusOf(result[r]))
    /\ Forget(r)
    /\ UNCHANGED <<flag, armed, process, kind, target, others>>

(* handleJobCreate: Submit looks at jobs.blocked under its lock. *)
Submit(r) ==
    /\ pc[r] = "admitted" /\ kind[r] = "job"
    /\ IF jobsBlocked
       THEN Respond(r, "423") /\ UNCHANGED status
       ELSE /\ status' = [status EXCEPT ![r] = "running"]
            /\ Goto(r, "submitted")
            /\ answer' = [answer EXCEPT ![r] = "202"]
    /\ UNCHANGED <<flag, armed, process, kind, target, runner, sessions, taker, reached,
                   struck, jobsBlocked>>

(* The job's goroutine calls Run ... *)
JobRun(r) ==
    /\ pc[r] = "submitted"
    /\ Contract!Call(r)
    /\ Goto(r, "running")
    /\ UNCHANGED <<flag, armed, process, kind, target, answer, others>>

(* ... and stores the outcome. *)
JobFinish(r) ==
    /\ pc[r] = "running" /\ kind[r] = "job"
    /\ phase[r] = "returned"
    /\ status' = [status EXCEPT ![r] =
          IF @ = "cancelling" THEN "cancelled"
          ELSE CASE result[r] = "ok"      -> "completed"
                 [] result[r] = "timeout" -> "timed_out"
                 [] OTHER                 -> "failed"]
    /\ Goto(r, "ended")
    /\ Forget(r)
    /\ UNCHANGED <<flag, armed, process, kind, target, answer, sessions, taker, reached,
                   struck, jobsBlocked>>

(* handleJobCancel. *)
Cancel(r) ==
    /\ pc[r] = "admitted" /\ kind[r] = "cancel"
    /\ IF status[target[r]] = "running"
       THEN Respond(r, "202") /\ status' = [status EXCEPT ![target[r]] = "cancelling"]
       ELSE Respond(r, "409") /\ UNCHANGED status
    /\ UNCHANGED <<flag, armed, process, kind, target, runner, sessions, taker, reached,
                   struck, jobsBlocked>>

(* handleSessionCreate: the session manager has no flag of its own. *)
Create(r) ==
    /\ pc[r] = "admitted" /\ kind[r] = "create"
    /\ sessions' = sessions \cup {r}
    /\ Respond(r, "201")
    /\ UNCHANGED <<flag, armed, process, kind, target, runner, status, taker, reached,
                   struck, jobsBlocked>>

(* handleSessionExec looks the session up ... *)
LookUp(r) ==
    /\ pc[r] = "admitted" /\ kind[r] = "session_exec"
    /\ IF target[r] \in sessions THEN Goto(r, "found") /\ UNCHANGED answer ELSE Respond(r, "404")
    /\ UNCHANGED <<flag, armed, process, kind, target, runner, others>>

(* ... hands the command to its shell unless it was closed meanwhile, or      *)
(* killed between that check and the write ...                                *)
SessionWrite(r) ==
    /\ pc[r] = "found"
    /\ IF target[r] \in Open
       THEN Goto(r, "using") /\ reached' = reached \cup {r} /\ UNCHANGED answer
       ELSE (\E code \in {"409", "500"} : Respond(r, code)) /\ UNCHANGED reached
    /\ UNCHANGED <<flag, armed, process, kind, target, runner, status, sessions, taker,
                   struck, jobsBlocked>>

(* ... and answers. *)
SessionAnswer(r) ==
    /\ pc[r] = "using"
    /\ \E code \in {"200", "409", "504"} : Respond(r, code)
    /\ UNCHANGED <<flag, armed, process, kind, target, runner, others>>

(* DELETE /session/{id} and the reaper take a session out of the map. *)
SessionEnds(s) ==
    /\ s \in sessions
    /\ sessions' = sessions \ {s}
    /\ taker' = [taker EXCEPT ![s] = "other"]
    /\ UNCHANGED <<flag, armed, process, request, runner, status, reached, struck,
                   jobsBlocked>>

(* Whoever took it closes it, after the unlock. *)
Abort(s) ==
    /\ taker[s] # "nobody"
    /\ taker' = [taker EXCEPT ![s] = "nobody"]
    /\ UNCHANGED <<flag, armed, process, request, runner, status, sessions, reached,
                   struck, jobsBlocked>>

(* sessions.KillAll replaces the map; what was in it is closed one by one. *)
TakeAll(who) ==
    /\ sessions' = {}
    /\ taker' = [s \in Requests |-> IF s \in sessions THEN who ELSE taker[s]]

(* It returns when it has closed what it took, which need not be all. *)
AllClosed(who) == \A s \in Requests : taker[s] # who

(* What the contract allows a call to do on its own. *)
RunnerStep(r) ==
    /\ pc[r] = "running"
    /\ \/ Contract!Execute(r)
       \/ r \in live /\ Contract!Stop(r)
       \/ r \notin done /\ Contract!ContextDone(r)
       \/ \E res \in Contract!Results : Contract!Return(r, res)
    /\ UNCHANGED <<flag, armed, process, request, others>>

-----------------------------------------------------------------------------
(* Mutants: the runner's brake before the jobs'; no runner brake at all. *)
MBrakes == <<"runner", "killing", "jobs", "sessions", "aborting">>
MBrakesWithoutRunner == <<"jobs", "sessions", "aborting", "runner", "killing">>

(* The order in which handleKillSwitch pulls the brakes. *)
Brakes == <<"jobs", "runner", "killing", "sessions", "aborting">>

(* The step after the given one. *)
After(step) ==
    LET i == CHOOSE j \in 1..5 : Brakes[j] = step IN Brakes[i + 1]

(* A call of handleKillSwitch goes to the step behind this one. *)
Advance(k, step) == arm[k] = step /\ arm' = [arm EXCEPT ![k] = After(step)]

(* handleKillSwitch writes the flag file. *)
ArmFlag(k) ==
    /\ up
    /\ arm[k] = "idle"
    /\ flag' = TRUE
    /\ pulling' = pulling \cup {k}
    /\ arm' = [arm EXCEPT ![k] = Brakes[1]]
    /\ UNCHANGED <<armed, up, starts, closing, request, runner, others>>

(* jobs.BlockAndCancelAll, for the kill switch, Close and New. *)
BlockJobs ==
    /\ jobsBlocked' = TRUE
    /\ status' = [r \in Requests |-> IF status[r] = "running" THEN "cancelling" ELSE status[r]]
    /\ UNCHANGED <<sessions, taker, reached, struck>>

ArmJobs(k) ==
    /\ up
    /\ Advance(k, "jobs")
    /\ BlockJobs
    /\ UNCHANGED <<flag, armed, pulling, up, starts, closing, request, runner>>

(* runner.BlockAndKillAll sets the runner's flag, kills ... *)
ArmRunner(k) ==
    /\ up
    /\ Advance(k, "runner")
    /\ IF brake = "off" THEN Contract!Pull ELSE UNCHANGED runner
    /\ UNCHANGED <<flag, armed, pulling, up, starts, closing, request, others>>

(* KillAll or BlockAndKillAll is at work; in a shutdown once the sessions are closed. *)
Killing ==
    \/ closing = "runner" /\ AllClosed("shutdown")
    \/ \E k \in Switches : arm[k] = "killing"

(* Mutant: kill() is not called. *)
MRunnerKills(r) ==
    /\ Killing
    /\ r \in live
    /\ struck' = struck \cup ({r} \cap Jobs)
    /\ UNCHANGED <<flag, armed, process, request, runner, status, sessions, taker,
                   reached, jobsBlocked>>

(* (also for KillAll in Shutdown) *)
RunnerKills(r) ==
    /\ Killing
    /\ r \in live
    /\ Contract!Stop(r)
    /\ struck' = struck \cup ({r} \cap Jobs)
    /\ UNCHANGED <<flag, armed, process, request, status, sessions, taker, reached,
                   jobsBlocked>>

(* ... and returns. *)
ArmRunnerDone(k) ==
    /\ up
    /\ Advance(k, "killing")
    /\ IF brake = "pulled" THEN Contract!TakeEffect ELSE UNCHANGED runner
    /\ UNCHANGED <<flag, armed, pulling, up, starts, closing, request, others>>

(* sessions.KillAll takes the sessions ... *)
ArmSessions(k) ==
    /\ up
    /\ Advance(k, "sessions")
    /\ TakeAll(k)
    /\ UNCHANGED <<flag, armed, pulling, up, starts, closing, request, runner, status, reached,
                   struck, jobsBlocked>>

(* ... and has closed them all: the answer {"armed":true, "sessions_killed":true, ...}. *)
ArmAnswer(k) ==
    /\ up
    /\ arm[k] = "aborting"
    /\ AllClosed(k)
    /\ armed' = (armed \/ k \in pulling)
    /\ pulling' = pulling \ {k}
    /\ arm' = [arm EXCEPT ![k] = "idle"]
    /\ UNCHANGED <<flag, up, starts, closing, request, runner, others>>

-----------------------------------------------------------------------------
(* Shutdown: jobs.Close, sessions.Close, runner.KillAll, one after the other. *)
ShutdownJobs ==
    /\ up
    /\ closing = "no"
    /\ BlockJobs
    /\ closing' = "sessions"
    /\ UNCHANGED <<flag, armed, pulling, up, starts, arm, request, runner>>

ShutdownSessions ==
    /\ up
    /\ closing = "sessions"
    /\ TakeAll("shutdown")
    /\ closing' = "runner"
    /\ UNCHANGED <<flag, armed, pulling, up, starts, arm, request, runner, status, reached,
                   struck, jobsBlocked>>

(* The process ends: after Shutdown, by a crash or by a power failure.  Job *)
(* objects with KILL_ON_JOB_CLOSE take the shells down with it.             *)
Exit ==
    /\ up
    /\ up' = FALSE
    /\ pulling' = {}
    /\ arm' = [k \in Switches |-> "idle"]
    /\ closing' = "no"
    /\ jobsBlocked' = FALSE
    /\ pc' = [r \in Requests |-> IF r \in Pending THEN "ended" ELSE pc[r]]
    /\ status' = [r \in Requests |-> "none"]
    /\ sessions' = {}
    /\ taker' = [s \in Requests |-> "nobody"]
    /\ struck' = {}
    /\ phase' = [r \in Requests |-> "idle"]
    /\ result' = [r \in Requests |-> "none"]
    /\ done' = {}
    /\ executed' = {}
    /\ live' = {}
    /\ brake' = "off"
    /\ UNCHANGED <<flag, armed, starts, kind, target, answer, reached>>

(* Mutant: New does not look for the file. *)
MStart ==
    /\ ~up
    /\ starts < MaxStarts
    /\ up' = TRUE
    /\ starts' = starts + 1
    /\ UNCHANGED <<flag, armed, pulling, arm, closing, request, runner, others>>

(* New: with the flag file present the brakes are pulled before the first *)
(* request.                                                               *)
Start ==
    /\ ~up
    /\ starts < MaxStarts
    /\ up' = TRUE
    /\ starts' = starts + 1
    /\ jobsBlocked' = flag
    /\ brake' = IF flag THEN "effective" ELSE "off"
    /\ UNCHANGED <<flag, armed, pulling, arm, closing, request, phase, result, done, executed, live,
                   status, sessions, taker, reached, struck>>

(* The administrator, on the machine: makes the file by hand, or removes it. *)
LocalArm ==
    /\ ~flag
    /\ flag' = TRUE
    /\ UNCHANGED <<armed, process, request, runner, others>>

Disarm ==
    /\ flag
    /\ flag' = FALSE
    /\ armed' = FALSE
    /\ pulling' = {}
    /\ UNCHANGED <<up, starts, arm, closing, request, runner, others>>

-----------------------------------------------------------------------------
HandlerStep(r) ==
    \/ ExecRun(r) \/ ExecAnswer(r)
    \/ Submit(r) \/ JobRun(r) \/ JobFinish(r) \/ Cancel(r)
    \/ Create(r) \/ LookUp(r) \/ SessionWrite(r) \/ SessionAnswer(r)

ArmStep(k) ==
    \/ ArmJobs(k) \/ ArmRunner(k) \/ ArmRunnerDone(k)
    \/ ArmSessions(k) \/ ArmAnswer(k)

Next ==
    \/ \E r \in Requests : Arrive(r) \/ HandlerStep(r) \/ RunnerStep(r) \/ RunnerKills(r)
    \/ \E s \in Requests : SessionEnds(s) \/ Abort(s)
    \/ \E k \in Switches : ArmFlag(k) \/ ArmStep(k)
    \/ ShutdownJobs \/ ShutdownSessions \/ Exit \/ Start
    \/ LocalArm \/ Disarm

Spec == Init /\ [][Next]_vars

(* The handlers' goroutines run, the brake's kills happen, and a call returns *)
(* once its shell is stopped and its context done or the brake pulled, which  *)
(* Runner's BrakeReleasesCallers shows.  A cancelled job's context is done.   *)
LiveSpec ==
    /\ Spec
    /\ \A k \in Switches : WF_vars(ArmStep(k))
    /\ \A r \in Requests :
          /\ WF_vars(Abort(r))
          /\ WF_vars(HandlerStep(r))
          /\ WF_vars(RunnerKills(r))
          /\ WF_vars(brake # "off" /\ RunnerStep(r) /\ phase'[r] = "returned")

-----------------------------------------------------------------------------
(* Types. *)
TypeOK ==
    /\ {flag, up, jobsBlocked, armed} \subseteq BOOLEAN
    /\ pulling \subseteq Switches
    /\ starts \in 0..MaxStarts
    /\ arm \in [Switches -> {"idle", "jobs", "runner", "killing", "sessions", "aborting"}]
    /\ closing \in {"no", "sessions", "runner"}
    /\ kind \in [Requests -> Kinds]
    /\ pc \in [Requests -> {"idle", "admitted", "submitted", "running", "found", "using", "ended"}]
    /\ target \in [Requests -> Requests \cup {NoRequest}]
    /\ answer \in [Requests -> {"none", "200", "201", "202", "404", "409", "423", "500", "504"}]
    /\ status \in [Requests -> {"none", "running", "cancelling", "completed", "failed", "timed_out", "cancelled"}]
    /\ sessions \subseteq Requests
    /\ taker \in [Requests -> Switches \cup {"nobody", "other", "shutdown"}]
    /\ reached \subseteq Requests
    /\ struck \subseteq Requests
    /\ brake \in {"off", "pulled", "effective"}

(* Requests that will deliver a command to a session if nobody closes it first. *)
Exposed ==
    {r \in Requests : \/ pc[r] = "found" /\ target[r] \in Open
                      \/ pc[r] = "admitted" /\ kind[r] = "session_exec" /\ target[r] \in sessions}

(* From the answer of POST /killswitch until somebody disarms the machine       *)
(* locally no command reaches a shell of the runner: not one whose handler had  *)
(* passed the check before, not one of a job accepted before, and not after a   *)
(* restart either.  Nor does one reach a session that is in the map; the one    *)
(* way left is a session that a DELETE, the reaper, the shutdown or another     *)
(* kill switch has taken out of the map and not closed yet, for a request that  *)
(* had found it before, and no request is added to those.                       *)
NoCommandWhileArmed ==
    [][armed => /\ executed' \subseteq executed
                /\ \A r \in reached' \ reached : taker[target[r]] # "nobody"
                /\ armed' => Exposed' \subseteq Exposed]_vars

(* A job whose shell the agent itself killed, for the kill switch or for a    *)
(* shutdown, is reported cancelled, never failed or timed out: the job table  *)
(* is swept before the runner.                                                *)
StruckJobsAreCancelled == \A r \in struck : status[r] \in {"cancelling", "cancelled"}

(* While the brake holds, no runner shell with a command is left running, and *)
(* the job table takes nothing: a second crash or restart does not open it.   *)
BrakeSurvivesRestart == armed /\ up => jobsBlocked /\ brake = "effective" /\ live = {}

(* POST /killswitch is answered, whatever the commands do, unless the process *)
(* ends first.                                                                *)
KillSwitchIsAnswered == \A k \in Switches : (arm[k] = "jobs") ~> (arm[k] = "idle")

(* Every job that was accepted ends once the kill switch is pulled.           *)
JobsEndAfterKillSwitch ==
    \A r \in Requests, k \in Switches :
        (arm[k] = "aborting" /\ status[r] \in {"running", "cancelling"})
        ~> (status[r] \notin {"running", "cancelling"})

(* "It ... immediately kills all sessions": after the answer none is left.    *)
(* handleSessionCreate may have passed its check before the flag was written. *)
SessionsDieWithBrake == armed => sessions = {}
=============================================================================
