----------------------------- MODULE AgentProofs -----------------------------
(***************************************************************************)
(* Theorems about the agent: its handlers, its kill switch and its         *)
(* restarts, for any number of requests and starts.                        *)
(***************************************************************************)
EXTENDS Agent, TLAPS

(* The runner's part of the types. *)
RunnerTypes == phase \in [Requests -> {"idle", "running", "returned"}] /\ live \subseteq Requests

(* What a request's position says about its answer, its job, its shell and   *)
(* its target.  A session that a request names was answered before.          *)
RequestInv(r) ==
    /\ pc[r] \in {"idle", "admitted"} => status[r] = "none"
    /\ answer[r] = "201" => pc[r] = "ended"
    /\ status[r] # "none" => kind[r] = "job"
    /\ pc[r] = "submitted" => kind[r] = "job"
    /\ pc[r] \in {"submitted", "running"} /\ kind[r] = "job" => status[r] \in {"running", "cancelling"}
    /\ r \in live => pc[r] = "running" /\ phase[r] = "running"
    /\ pc[r] = "found" => kind[r] = "session_exec"
    /\ kind[r] = "cancel" /\ pc[r] = "admitted" => target[r] \in Requests
    /\ kind[r] = "session_exec" /\ pc[r] \in {"admitted", "found"} =>
          target[r] \in Requests /\ answer[target[r]] = "201"

(* How far the brakes are pulled at each step of a kill switch. *)
BrakeInv ==
    /\ armed \/ pulling # {} => flag
    /\ \A k \in Switches :
          /\ arm[k] \in {"runner", "killing", "sessions", "aborting"} => jobsBlocked
          /\ arm[k] = "killing" => brake # "off"
          /\ arm[k] \in {"sessions", "aborting"} => brake = "effective"
    /\ closing # "no" => jobsBlocked
    /\ armed /\ up => jobsBlocked /\ brake = "effective"
    /\ brake = "effective" => live = {}

(* A process that is down has nothing in progress. *)
DownInv ==
    ~up => /\ \A k \in Switches : arm[k] = "idle"
           /\ closing = "no" /\ live = {} /\ sessions = {} /\ pulling = {}
           /\ \A r \in Requests : pc[r] \in {"idle", "ended"} /\ status[r] = "none"

(* The sweep of the job table leaves no running job. *)
SweepInv == jobsBlocked => \A r \in Requests : status[r] # "running"

(* Once the sessions are swept under the flag, no request that has passed its *)
(* check names a session that is in the map.                                  *)
Swept == armed \/ \E k \in pulling : arm[k] = "aborting"
Cut(r) == kind[r] = "session_exec" /\ pc[r] \in {"admitted", "found"} => target[r] \notin sessions
CutInv == Swept => \A r \in Requests : Cut(r)

IndInv ==
    /\ TypeOK /\ RunnerTypes
    /\ \A r \in Requests : RequestInv(r)
    /\ BrakeInv /\ DownInv /\ SweepInv /\ CutInv
    /\ StruckJobsAreCancelled

-----------------------------------------------------------------------------
(* The order of the brakes. *)
LEMMA Order ==
    /\ Brakes[1] = "jobs" /\ After("jobs") = "runner" /\ After("runner") = "killing"
    /\ After("killing") = "sessions" /\ After("sessions") = "aborting"
<1>1. /\ (CHOOSE j \in 1..5 : Brakes[j] = "jobs") = 1 /\ (CHOOSE j \in 1..5 : Brakes[j] = "runner") = 2
      /\ (CHOOSE j \in 1..5 : Brakes[j] = "killing") = 3 /\ (CHOOSE j \in 1..5 : Brakes[j] = "sessions") = 4
  BY DEF Brakes
<1>2. QED
  BY <1>1 DEF After, Brakes

LEMMA Initially == Init => IndInv
<1> SUFFICES ASSUME Init PROVE IndInv
  OBVIOUS
<1> USE DEF Init, Contract!Init
<1>1. TypeOK /\ RunnerTypes
  <2>1. {flag, up, jobsBlocked, armed} \subseteq BOOLEAN
    OBVIOUS
  <2>2. starts \in 0..MaxStarts
    BY MaxStartsAssumption
  <2>3. QED
    BY <2>1, <2>2 DEF TypeOK, RunnerTypes
<1>2. ASSUME NEW r \in Requests PROVE RequestInv(r)
  BY DEF RequestInv
<1>3. BrakeInv /\ DownInv /\ SweepInv /\ CutInv /\ StruckJobsAreCancelled
  BY DEF BrakeInv, DownInv, SweepInv, CutInv, Swept, StruckJobsAreCancelled
<1>4. QED
  BY <1>1, <1>2, <1>3 DEF IndInv

(* What the runner does on its own for a call in progress. *)
LEMMA RunnerMoves ==
    ASSUME IndInv, NEW r \in Requests, RunnerStep(r)
    PROVE  /\ pc[r] = "running" /\ brake' = brake
           /\ UNCHANGED <<flag, armed, process, request, others>>
           /\ RunnerTypes'
           /\ \A s \in Requests \ {r} : phase'[s] = phase[s] /\ (s \in live' <=> s \in live)
           /\ r \in live' => phase'[r] = "running"
           /\ brake = "effective" => live' = {} /\ executed' = executed
<1> USE DEF IndInv, RunnerTypes, RunnerStep, BrakeInv, RequestInv
<1>1. CASE Contract!Execute(r)
  BY <1>1 DEF Contract!Execute
<1>2. CASE Contract!Stop(r)
  BY <1>2 DEF Contract!Stop
<1>3. CASE Contract!ContextDone(r)
  BY <1>3 DEF Contract!ContextDone
<1>4. CASE \E res \in Contract!Results : Contract!Return(r, res)
  BY <1>4 DEF Contract!Return
<1>5. QED
  BY <1>1, <1>2, <1>3, <1>4

(* Every step keeps the types. *)
LEMMA TypesStep == ASSUME IndInv, [Next]_vars PROVE TypeOK' /\ RunnerTypes'
<1>1. TypeOK /\ RunnerTypes /\ \A r \in Requests : RequestInv(r)
  BY DEF IndInv
<1> USE DEF TypeOK, RunnerTypes, process, request, runner, others, Goto, Respond
<1>2. ASSUME NEW r \in Requests, Arrive(r) PROVE TypeOK' /\ RunnerTypes'
  <2>1. Targets(r) \subseteq Requests \cup {NoRequest}
    BY DEF Targets, Jobs
  <2>2. QED
    BY <1>1, <1>2, <2>1 DEF Arrive
<1>3. ASSUME NEW r \in Requests, HandlerStep(r) PROVE TypeOK' /\ RunnerTypes'
  <2>1. CASE ExecRun(r) \/ JobRun(r)
    BY <1>1, <2>1 DEF ExecRun, JobRun, Contract!Call
  <2>2. CASE ExecAnswer(r)
    <3>1. StatusOf(result[r]) \in {"200", "423", "504", "500"}
      BY DEF StatusOf
    <3>2. QED
      BY <1>1, <2>2, <3>1 DEF ExecAnswer, Forget
  <2>3. CASE Submit(r)
    BY <1>1, <2>3 DEF Submit
  <2>4. CASE JobFinish(r)
    BY <1>1, <2>4 DEF JobFinish, Forget
  <2>5. CASE Cancel(r)
    BY <1>1, <2>5 DEF Cancel
  <2>6. CASE Create(r) \/ LookUp(r)
    BY <1>1, <2>6 DEF Create, LookUp
  <2>7. CASE SessionWrite(r) \/ SessionAnswer(r)
    BY <1>1, <2>7 DEF SessionWrite, SessionAnswer
  <2>8. QED
    BY <1>3, <2>1, <2>2, <2>3, <2>4, <2>5, <2>6, <2>7 DEF HandlerStep
<1>4. ASSUME NEW r \in Requests, RunnerStep(r) PROVE TypeOK' /\ RunnerTypes'
  BY <1>1, <1>4, RunnerMoves
<1>5. ASSUME NEW r \in Requests, RunnerKills(r) \/ SessionEnds(r) \/ Abort(r) PROVE TypeOK' /\ RunnerTypes'
  BY <1>1, <1>5 DEF RunnerKills, SessionEnds, Abort, Contract!Stop
<1>6. ASSUME NEW k \in Switches, ArmFlag(k) \/ ArmStep(k) PROVE TypeOK' /\ RunnerTypes'
  <2>1. CASE ArmFlag(k)
    BY <1>1, <2>1, Order DEF ArmFlag
  <2>2. CASE ArmJobs(k)
    BY <1>1, <2>2, Order DEF ArmJobs, Advance, BlockJobs
  <2>3. CASE ArmRunner(k)
    BY <1>1, <2>3, Order DEF ArmRunner, Advance, Contract!Pull
  <2>4. CASE ArmRunnerDone(k)
    BY <1>1, <2>4, Order DEF ArmRunnerDone, Advance, Contract!TakeEffect
  <2>5. CASE ArmSessions(k)
    BY <1>1, <2>5, Order DEF ArmSessions, Advance, TakeAll
  <2>6. CASE ArmAnswer(k)
    <3>1. {flag', up', jobsBlocked', armed'} \subseteq BOOLEAN
      BY <1>1, <2>6 DEF ArmAnswer
    <3>2. pulling' \subseteq Switches /\ arm' = [arm EXCEPT ![k] = "idle"]
      BY <1>1, <2>6 DEF ArmAnswer
    <3>3. UNCHANGED <<starts, closing, request, runner, others>>
      BY <2>6 DEF ArmAnswer
    <3>4. QED
      BY <1>1, <3>1, <3>2, <3>3
  <2>7. QED
    BY <1>6, <2>1, <2>2, <2>3, <2>4, <2>5, <2>6 DEF ArmStep
<1>7. CASE ShutdownJobs \/ ShutdownSessions
  <2>1. CASE ShutdownJobs
    BY <1>1, <2>1 DEF ShutdownJobs, BlockJobs
  <2>2. CASE ShutdownSessions
    BY <1>1, <2>2 DEF ShutdownSessions, TakeAll
  <2>3. QED
    BY <1>7, <2>1, <2>2
<1>8. CASE Exit
  BY <1>1, <1>8 DEF Exit
<1>9. CASE Start
  BY <1>1, <1>9, MaxStartsAssumption DEF Start
<1>10. CASE LocalArm \/ Disarm
  BY <1>1, <1>10 DEF LocalArm, Disarm
<1>11. CASE UNCHANGED vars
  BY <1>1, <1>11 DEF vars
<1>12. QED
  BY <1>2, <1>3, <1>4, <1>5, <1>6, <1>7, <1>8, <1>9, <1>10, <1>11 DEF Next

-----------------------------------------------------------------------------
(* A step of one request leaves what is known of another: a session that the *)
(* other one names belongs to a request that has ended.                      *)
LEMMA OthersKept ==
    ASSUME IndInv, NEW r \in Requests, NEW s \in Requests \ {r}, pc[r] # "ended", kind' = kind,
           pc'[s] = pc[s], target'[s] = target[s], phase'[s] = phase[s],
           \A t \in Requests \ {r} : answer'[t] = answer[t],
           s \in live' => s \in live,
           status'[s] = status[s] \/ (status[s] = "running" /\ status'[s] = "cancelling")
    PROVE  RequestInv(s)'
<1>1. RequestInv(s) /\ (target[s] \in Requests => RequestInv(target[s]))
  BY DEF IndInv
<1>2. QED
  BY <1>1 DEF RequestInv

(* A step of the brakes only cancels jobs and stops shells. *)
LEMMA RequestsKept ==
    ASSUME IndInv, UNCHANGED request, phase' = phase, live' \subseteq live,
           \A s \in Requests : status'[s] = status[s] \/ (status[s] = "running" /\ status'[s] = "cancelling")
    PROVE  \A s \in Requests : RequestInv(s)'
BY DEF IndInv, RequestInv, request

LEMMA RequestsStep == ASSUME IndInv, [Next]_vars PROVE \A s \in Requests : RequestInv(s)'
<1>1. TypeOK /\ RunnerTypes /\ \A r \in Requests : RequestInv(r)
  BY DEF IndInv
<1> USE DEF TypeOK, RunnerTypes, process, request, runner, others, Goto, Respond
<1>2. ASSUME NEW r \in Requests, Arrive(r) PROVE \A s \in Requests : RequestInv(s)'
  <2>1. PICK t \in Targets(r) : target' = [target EXCEPT ![r] = t]
    BY <1>2 DEF Arrive
  <2>2. kind[r] = "cancel" => t \in Requests
    BY <2>1 DEF Targets, Jobs
  <2>3. kind[r] = "session_exec" => t \in Requests /\ answer[t] = "201"
    BY <2>1 DEF Targets
  <2>4. RequestInv(r)'
    <3>1. RequestInv(r)
      BY <1>1
    <3>2. t # r \/ kind[r] # "session_exec"
      BY <1>2, <2>3, <3>1 DEF RequestInv, Arrive
    <3>3. QED
      BY <1>1, <1>2, <2>1, <2>2, <2>3, <3>1, <3>2 DEF Arrive, RequestInv
  <2>5. ASSUME NEW s \in Requests \ {r} PROVE RequestInv(s)'
    BY <1>1, <1>2, <2>1, OthersKept DEF Arrive
  <2>6. QED
    BY <2>4, <2>5
<1>3. ASSUME NEW r \in Requests, HandlerStep(r) PROVE \A s \in Requests : RequestInv(s)'
  <2>1. RequestInv(r)
    BY <1>1
  <2>2. CASE ExecRun(r) \/ JobRun(r)
    <3>1. RequestInv(r)'
      BY <1>1, <2>1, <2>2 DEF ExecRun, JobRun, Contract!Call, RequestInv
    <3>2. ASSUME NEW s \in Requests \ {r} PROVE RequestInv(s)'
      BY <1>1, <2>2, OthersKept DEF ExecRun, JobRun, Contract!Call
    <3>3. QED BY <3>1, <3>2
  <2>3. CASE ExecAnswer(r)
    <3>1. StatusOf(result[r]) # "201"
      BY DEF StatusOf
    <3>2. RequestInv(r)'
      BY <1>1, <2>1, <2>3, <3>1 DEF ExecAnswer, Forget, RequestInv
    <3>3. ASSUME NEW s \in Requests \ {r} PROVE RequestInv(s)'
      BY <1>1, <2>3, OthersKept DEF ExecAnswer, Forget
    <3>4. QED BY <3>2, <3>3
  <2>4. CASE Submit(r)
    <3>1. RequestInv(r)'
      BY <1>1, <2>1, <2>4 DEF Submit, RequestInv
    <3>2. ASSUME NEW s \in Requests \ {r} PROVE RequestInv(s)'
      BY <1>1, <2>4, OthersKept DEF Submit
    <3>3. QED BY <3>1, <3>2
  <2>5. CASE JobFinish(r)
    <3>1. RequestInv(r)'
      BY <1>1, <2>1, <2>5 DEF JobFinish, Forget, RequestInv
    <3>2. ASSUME NEW s \in Requests \ {r} PROVE RequestInv(s)'
      BY <1>1, <2>5, OthersKept DEF JobFinish, Forget
    <3>3. QED BY <3>1, <3>2
  <2>6. CASE Cancel(r)
    <3>1. RequestInv(r)'
      BY <1>1, <2>1, <2>6 DEF Cancel, RequestInv
    <3>2. ASSUME NEW s \in Requests \ {r} PROVE RequestInv(s)'
      BY <1>1, <2>6, OthersKept DEF Cancel
    <3>3. QED BY <3>1, <3>2
  <2>7. CASE Create(r)
    <3>1. RequestInv(r)'
      BY <1>1, <2>1, <2>7 DEF Create, RequestInv
    <3>2. ASSUME NEW s \in Requests \ {r} PROVE RequestInv(s)'
      BY <1>1, <2>7, OthersKept DEF Create
    <3>3. QED BY <3>1, <3>2
  <2>8. CASE LookUp(r) \/ SessionWrite(r) \/ SessionAnswer(r)
    <3>1. RequestInv(r)'
      <4>1. target[r] \in Requests => RequestInv(target[r])
        BY <1>1
      <4>2. CASE LookUp(r)
        BY <1>1, <2>1, <4>1, <4>2 DEF LookUp, RequestInv
      <4>3. CASE SessionWrite(r)
        BY <1>1, <2>1, <4>3 DEF SessionWrite, RequestInv
      <4>4. CASE SessionAnswer(r)
        BY <1>1, <2>1, <4>4 DEF SessionAnswer, RequestInv
      <4>5. QED BY <2>8, <4>2, <4>3, <4>4
    <3>2. ASSUME NEW s \in Requests \ {r} PROVE RequestInv(s)'
      BY <1>1, <2>8, OthersKept DEF LookUp, SessionWrite, SessionAnswer
    <3>3. QED BY <3>1, <3>2
  <2>9. QED
    BY <1>3, <2>2, <2>3, <2>4, <2>5, <2>6, <2>7, <2>8 DEF HandlerStep
<1>4. ASSUME NEW r \in Requests, RunnerStep(r) PROVE \A s \in Requests : RequestInv(s)'
  <2>1. /\ pc[r] = "running" /\ UNCHANGED <<request, others>>
        /\ \A s \in Requests \ {r} : phase'[s] = phase[s] /\ (s \in live' <=> s \in live)
        /\ r \in live' => phase'[r] = "running"
    BY <1>4, RunnerMoves
  <2>2. RequestInv(r)'
    BY <1>1, <2>1 DEF RequestInv
  <2>3. ASSUME NEW s \in Requests \ {r} PROVE RequestInv(s)'
    BY <1>1, <2>1, OthersKept
  <2>4. QED BY <2>2, <2>3
<1>5. ASSUME NEW r \in Requests, RunnerKills(r) \/ SessionEnds(r) \/ Abort(r) PROVE \A s \in Requests : RequestInv(s)'
  BY <1>5, RequestsKept DEF RunnerKills, SessionEnds, Abort, Contract!Stop
<1>6. ASSUME (\E k \in Switches : ArmFlag(k) \/ ArmStep(k)) \/ ShutdownJobs \/ ShutdownSessions
      PROVE  \A s \in Requests : RequestInv(s)'
  <2>1. UNCHANGED <<request, phase, live>>
    BY <1>6 DEF ArmFlag, ArmStep, ArmJobs, BlockJobs, ArmRunner, ArmRunnerDone, ArmSessions,
          ArmAnswer, Contract!Pull, Contract!TakeEffect, ShutdownJobs, ShutdownSessions
  <2>2. \A s \in Requests : status'[s] = status[s] \/ (status[s] = "running" /\ status'[s] = "cancelling")
    BY <1>6 DEF ArmFlag, ArmStep, ArmJobs, BlockJobs, ArmRunner, ArmRunnerDone, ArmSessions,
          ArmAnswer, ShutdownJobs, ShutdownSessions
  <2>3. QED
    BY <2>1, <2>2, RequestsKept
<1>7. CASE Exit
  BY <1>1, <1>7 DEF Exit, RequestInv, Pending
<1>8. CASE Start \/ LocalArm \/ Disarm
  BY <1>8, RequestsKept DEF Start, LocalArm, Disarm
<1>9. CASE UNCHANGED vars
  BY <1>9, RequestsKept DEF vars
<1>10. QED
  BY <1>2, <1>3, <1>4, <1>5, <1>6, <1>7, <1>8, <1>9 DEF Next

-----------------------------------------------------------------------------
(* A step of a request or of the runner touches neither the flag nor the     *)
(* brakes.                                                                   *)
LEMMA BrakesKept ==
    ASSUME IndInv, UNCHANGED <<flag, armed, pulling, up, arm, closing, jobsBlocked, brake>>,
           brake = "effective" => live' = {}
    PROVE  BrakeInv'
BY DEF IndInv, BrakeInv

LEMMA BrakeStep == ASSUME IndInv, [Next]_vars PROVE BrakeInv'
<1>1. TypeOK /\ RunnerTypes /\ BrakeInv /\ DownInv
  BY DEF IndInv
<1> USE DEF process, request, runner, others, Goto, Respond
<1>2. ASSUME NEW r \in Requests, Arrive(r) \/ HandlerStep(r) PROVE BrakeInv'
  <2>1. UNCHANGED <<flag, armed, pulling, up, arm, closing, jobsBlocked, brake, live>>
    BY <1>2 DEF Arrive, HandlerStep, ExecRun, ExecAnswer, Submit, JobRun, JobFinish, Cancel, Create, LookUp,
          SessionWrite, SessionAnswer, Contract!Call, Forget
  <2>2. QED
    BY <1>1, <2>1, BrakesKept DEF BrakeInv
<1>3. ASSUME NEW r \in Requests, RunnerStep(r) PROVE BrakeInv'
  BY <1>3, RunnerMoves, BrakesKept
<1>4. ASSUME NEW r \in Requests, RunnerKills(r) \/ SessionEnds(r) \/ Abort(r) PROVE BrakeInv'
  BY <1>1, <1>4, BrakesKept DEF RunnerKills, SessionEnds, Abort, Contract!Stop, BrakeInv
<1>5. ASSUME NEW k \in Switches, ArmFlag(k) PROVE BrakeInv'
  BY <1>1, <1>5, Order DEF ArmFlag, BrakeInv, TypeOK
<1>6. ASSUME NEW k \in Switches, ArmJobs(k) \/ ArmSessions(k) PROVE BrakeInv'
  BY <1>1, <1>6, Order DEF ArmJobs, ArmSessions, Advance, BlockJobs, BrakeInv, TypeOK
<1>7. ASSUME NEW k \in Switches, ArmRunner(k) \/ ArmRunnerDone(k) PROVE BrakeInv'
  BY <1>1, <1>7, Order DEF ArmRunner, ArmRunnerDone, Advance, Contract!Pull, Contract!TakeEffect, BrakeInv, TypeOK
<1>a. ASSUME NEW k \in Switches, ArmAnswer(k) PROVE BrakeInv'
  BY <1>1, <1>a DEF ArmAnswer, BrakeInv, TypeOK
<1>8. CASE ShutdownJobs \/ ShutdownSessions
  BY <1>1, <1>8 DEF ShutdownJobs, ShutdownSessions, BlockJobs, BrakeInv
<1>9. CASE Exit
  BY <1>1, <1>9 DEF Exit, BrakeInv
<1>10. CASE Start
  BY <1>1, <1>10 DEF Start, BrakeInv, DownInv
<1>11. CASE LocalArm \/ Disarm
  BY <1>1, <1>11 DEF LocalArm, Disarm, BrakeInv
<1>12. CASE UNCHANGED vars
  BY <1>1, <1>12 DEF vars, BrakeInv
<1>13. QED
  BY <1>2, <1>3, <1>4, <1>5, <1>6, <1>7, <1>8, <1>9, <1>10, <1>11, <1>12, <1>a DEF Next, ArmStep

LEMMA DownStep == ASSUME IndInv, [Next]_vars PROVE DownInv'
<1>1. TypeOK /\ RunnerTypes /\ BrakeInv /\ DownInv
  BY DEF IndInv
<1> USE DEF process, request, runner, others, Goto, Respond
<1>2. ASSUME NEW r \in Requests, Arrive(r) \/ HandlerStep(r) PROVE DownInv'
  BY <1>1, <1>2 DEF Arrive, HandlerStep, ExecRun, ExecAnswer, Submit, JobRun, JobFinish, Cancel, Create, LookUp,
        SessionWrite, SessionAnswer, DownInv
<1>3. ASSUME NEW r \in Requests, RunnerStep(r) PROVE DownInv'
  BY <1>1, <1>3, RunnerMoves DEF DownInv
<1>4. ASSUME NEW r \in Requests, RunnerKills(r) \/ SessionEnds(r) \/ Abort(r) PROVE DownInv'
  BY <1>1, <1>4 DEF RunnerKills, SessionEnds, Abort, Contract!Stop, DownInv
<1>5. ASSUME (\E k \in Switches : ArmFlag(k) \/ ArmStep(k)) \/ ShutdownJobs \/ ShutdownSessions \/ Start
      PROVE  DownInv'
  <2>1. up'
    BY <1>5 DEF ArmFlag, ArmStep, ArmJobs, ArmRunner, ArmRunnerDone, ArmSessions, ArmAnswer,
          ShutdownJobs, ShutdownSessions, Start
  <2>2. QED
    BY <2>1 DEF DownInv
<1>6. CASE Exit
  BY <1>1, <1>6 DEF Exit, DownInv, Pending, TypeOK
<1>7. CASE LocalArm \/ Disarm \/ UNCHANGED vars
  BY <1>1, <1>7 DEF LocalArm, Disarm, vars, DownInv
<1>8. QED
  BY <1>2, <1>3, <1>4, <1>5, <1>6, <1>7 DEF Next

(* Submit looks at the flag that the sweep sets, under the same lock. *)
LEMMA SweepStep == ASSUME IndInv, [Next]_vars PROVE SweepInv'
<1>1. TypeOK /\ SweepInv /\ BrakeInv /\ DownInv
  BY DEF IndInv
<1> USE DEF process, request, runner, others, Goto, Respond
<1>2. ASSUME NEW r \in Requests, Submit(r) PROVE SweepInv'
  BY <1>1, <1>2 DEF Submit, SweepInv, TypeOK
<1>3. ASSUME NEW r \in Requests, JobFinish(r) \/ Cancel(r) PROVE SweepInv'
  BY <1>1, <1>3 DEF JobFinish, Cancel, SweepInv, TypeOK
<1>4. ASSUME (\E k \in Switches : ArmJobs(k)) \/ ShutdownJobs PROVE SweepInv'
  BY <1>1, <1>4 DEF ArmJobs, ShutdownJobs, BlockJobs, SweepInv
<1>5. CASE Exit
  BY <1>1, <1>5 DEF Exit, SweepInv
<1>6. CASE Start
  <2>1. \A r \in Requests : status[r] # "running"
    BY <1>1, <1>6 DEF Start, DownInv
  <2>2. QED
    BY <1>6, <2>1 DEF Start, SweepInv
<1>7. ASSUME UNCHANGED <<status, jobsBlocked>> PROVE SweepInv'
  BY <1>1, <1>7 DEF SweepInv
<1>8. ASSUME NEW r \in Requests,
             \/ Arrive(r) \/ ExecRun(r) \/ ExecAnswer(r) \/ JobRun(r) \/ Create(r) \/ LookUp(r)
             \/ SessionWrite(r) \/ SessionAnswer(r) \/ RunnerStep(r) \/ RunnerKills(r) \/ SessionEnds(r)
             \/ Abort(r)
      PROVE  SweepInv'
  BY <1>7, <1>8 DEF Arrive, ExecRun, ExecAnswer, JobRun, Create, LookUp, SessionWrite, SessionAnswer,
        RunnerStep, RunnerKills, SessionEnds, Abort
<1>9. ASSUME \/ \E k \in Switches : ArmFlag(k) \/ ArmRunner(k) \/ ArmRunnerDone(k) \/ ArmSessions(k) \/ ArmAnswer(k)
             \/ ShutdownSessions \/ LocalArm \/ Disarm \/ UNCHANGED vars
      PROVE  SweepInv'
  BY <1>7, <1>9 DEF ArmFlag, ArmRunner, ArmRunnerDone, ArmSessions, ArmAnswer, ShutdownSessions, LocalArm, Disarm,
        vars
<1>10. QED
  BY <1>2, <1>3, <1>4, <1>5, <1>6, <1>8, <1>9 DEF Next, HandlerStep, ArmStep

(* No session is created under an id that an admitted request names, and no  *)
(* request is admitted while the flag is up.                                 *)
LEMMA CutStep == ASSUME IndInv, [Next]_vars PROVE CutInv'
<1>1. TypeOK /\ CutInv /\ BrakeInv
  BY DEF IndInv
<1> USE DEF process, request, runner, others, Goto, Respond
<1>2. ASSUME NEW r \in Requests, Arrive(r) PROVE CutInv'
  BY <1>1, <1>2 DEF Arrive, CutInv, Swept, Cut, Refused, BrakeInv, TypeOK
<1>3. ASSUME NEW r \in Requests, Create(r) PROVE CutInv'
  <2>1. ASSUME NEW s \in Requests, kind[s] = "session_exec", pc[s] \in {"admitted", "found"}
        PROVE  target[s] # r
    <3>1. RequestInv(s) /\ RequestInv(r)
      BY DEF IndInv
    <3>2. QED
      BY <1>3, <2>1, <3>1 DEF RequestInv, Create
  <2>2. QED
    BY <1>1, <1>3, <2>1 DEF Create, CutInv, Swept, Cut, TypeOK
<1>4. ASSUME NEW r \in Requests, ExecRun(r) \/ ExecAnswer(r) \/ Submit(r) \/ JobRun(r) \/ JobFinish(r) \/ Cancel(r)
                                \/ LookUp(r) \/ SessionWrite(r) \/ SessionAnswer(r)
      PROVE  CutInv'
  BY <1>1, <1>4 DEF ExecRun, ExecAnswer, Submit, JobRun, JobFinish, Cancel, LookUp, SessionWrite, SessionAnswer,
        CutInv, Swept, Cut, TypeOK
<1>5. ASSUME NEW r \in Requests, RunnerStep(r) \/ RunnerKills(r) \/ SessionEnds(r) \/ Abort(r) PROVE CutInv'
  BY <1>1, <1>5 DEF RunnerStep, RunnerKills, SessionEnds, Abort, CutInv, Swept, Cut
<1>6. ASSUME NEW k \in Switches, ArmFlag(k) \/ ArmStep(k) PROVE CutInv'
  <2>1. CASE ArmSessions(k) \/ ArmAnswer(k)
    BY <1>1, <2>1 DEF ArmSessions, TakeAll, ArmAnswer, CutInv, Swept, Cut, TypeOK
  <2>2. CASE ArmFlag(k)
    <3>1. Swept' => Swept
      BY <1>1, <2>2, Order DEF ArmFlag, Swept, TypeOK
    <3>2. QED
      BY <1>1, <2>2, <3>1 DEF ArmFlag, CutInv, Cut
  <2>3. CASE ArmJobs(k) \/ ArmRunner(k) \/ ArmRunnerDone(k)
    <3>1. Swept' => Swept
      BY <1>1, <2>3, Order DEF ArmJobs, ArmRunner, ArmRunnerDone, Advance, Swept, TypeOK
    <3>2. QED
      BY <1>1, <2>3, <3>1 DEF ArmJobs, ArmRunner, ArmRunnerDone, BlockJobs, CutInv, Cut
  <2>4. QED
    BY <1>6, <2>1, <2>2, <2>3 DEF ArmStep
<1>7. CASE ShutdownJobs \/ ShutdownSessions \/ Start \/ LocalArm \/ Disarm
  BY <1>1, <1>7 DEF ShutdownJobs, ShutdownSessions, BlockJobs, TakeAll, Start, LocalArm, Disarm, CutInv, Swept, Cut
<1>8. CASE Exit
  BY <1>1, <1>8 DEF Exit, CutInv, Swept, Cut
<1>9. CASE UNCHANGED vars
  BY <1>1, <1>9 DEF vars, CutInv, Swept, Cut
<1>10. QED
  BY <1>2, <1>3, <1>4, <1>5, <1>6, <1>7, <1>8, <1>9 DEF Next, HandlerStep

LEMMA StruckStep == ASSUME IndInv, [Next]_vars PROVE StruckJobsAreCancelled'
<1>1. TypeOK /\ BrakeInv /\ SweepInv /\ StruckJobsAreCancelled /\ \A r \in Requests : RequestInv(r)
  BY DEF IndInv
<1> USE DEF process, request, runner, others, Goto, Respond
<1>2. ASSUME NEW r \in Requests, Submit(r) PROVE StruckJobsAreCancelled'
  <2>1. r \notin struck
    BY <1>1, <1>2 DEF Submit, RequestInv, StruckJobsAreCancelled
  <2>2. QED
    BY <1>1, <1>2, <2>1 DEF Submit, StruckJobsAreCancelled, TypeOK
<1>3. ASSUME NEW r \in Requests, JobFinish(r) \/ Cancel(r) PROVE StruckJobsAreCancelled'
  BY <1>1, <1>3 DEF JobFinish, Cancel, RequestInv, StruckJobsAreCancelled, TypeOK
<1>4. ASSUME NEW r \in Requests, RunnerKills(r) PROVE StruckJobsAreCancelled'
  <2>1. r \in Jobs => status[r] = "cancelling"
    BY <1>1, <1>4 DEF RunnerKills, Killing, Jobs, RequestInv, BrakeInv, SweepInv
  <2>2. QED
    BY <1>1, <1>4, <2>1 DEF RunnerKills, StruckJobsAreCancelled
<1>5. ASSUME (\E k \in Switches : ArmJobs(k)) \/ ShutdownJobs PROVE StruckJobsAreCancelled'
  BY <1>1, <1>5 DEF ArmJobs, ShutdownJobs, BlockJobs, StruckJobsAreCancelled, TypeOK
<1>6. CASE Exit
  BY <1>6 DEF Exit, StruckJobsAreCancelled
<1>7. ASSUME UNCHANGED <<status, struck>> PROVE StruckJobsAreCancelled'
  BY <1>1, <1>7 DEF StruckJobsAreCancelled
<1>8. ASSUME NEW r \in Requests,
             \/ Arrive(r) \/ ExecRun(r) \/ ExecAnswer(r) \/ JobRun(r) \/ Create(r) \/ LookUp(r)
             \/ SessionWrite(r) \/ SessionAnswer(r) \/ RunnerStep(r) \/ SessionEnds(r) \/ Abort(r)
      PROVE  StruckJobsAreCancelled'
  BY <1>7, <1>8 DEF Arrive, ExecRun, ExecAnswer, JobRun, Create, LookUp, SessionWrite, SessionAnswer,
        RunnerStep, SessionEnds, Abort
<1>9. ASSUME \/ \E k \in Switches : ArmFlag(k) \/ ArmRunner(k) \/ ArmRunnerDone(k) \/ ArmSessions(k) \/ ArmAnswer(k)
             \/ ShutdownSessions \/ Start \/ LocalArm \/ Disarm \/ UNCHANGED vars
      PROVE  StruckJobsAreCancelled'
  BY <1>7, <1>9 DEF ArmFlag, ArmRunner, ArmRunnerDone, ArmSessions, ArmAnswer, ShutdownSessions, Start, LocalArm,
        Disarm, vars
<1>10. QED
  BY <1>2, <1>3, <1>4, <1>5, <1>6, <1>8, <1>9 DEF Next, HandlerStep, ArmStep

-----------------------------------------------------------------------------
LEMMA Invariant == Spec => []IndInv
<1>1. IndInv /\ [Next]_vars => IndInv'
  BY TypesStep, RequestsStep, BrakeStep, DownStep, SweepStep, CutStep, StruckStep DEF IndInv
<1>2. QED
  BY Initially, <1>1, PTL DEF Spec

(* The types of the agent's state, every status code it answers included. *)
THEOREM TypeCorrect == Spec => []TypeOK
<1>1. IndInv => TypeOK
  BY DEF IndInv
<1>2. QED
  BY Invariant, <1>1, PTL

(* A job whose shell the kill switch or a shutdown killed is reported         *)
(* cancelled, since both sweep the job table before the runner.               *)
THEOREM StruckJobs == Spec => []StruckJobsAreCancelled
<1>1. IndInv => StruckJobsAreCancelled
  BY DEF IndInv
<1>2. QED
  BY Invariant, <1>1, PTL

(* An armed machine has its brakes pulled whenever the agent runs, after any  *)
(* number of crashes and restarts.                                            *)
THEOREM BrakeSurvives == Spec => []BrakeSurvivesRestart
<1>1. IndInv => BrakeSurvivesRestart
  BY DEF IndInv, BrakeInv, BrakeSurvivesRestart
<1>2. QED
  BY Invariant, <1>1, PTL

-----------------------------------------------------------------------------
(* Under an armed brake an exposed request has found a session that somebody *)
(* has taken out of the map since.                                           *)
LEMMA ExposedAreTaken ==
    IndInv /\ armed => Exposed = {r \in Requests : pc[r] = "found" /\ taker[target[r]] # "nobody"}
<1> SUFFICES ASSUME IndInv, armed
    PROVE  Exposed = {r \in Requests : pc[r] = "found" /\ taker[target[r]] # "nobody"}
  OBVIOUS
<1>1. ASSUME NEW r \in Requests PROVE pc[r] \in {"admitted", "found"} /\ kind[r] = "session_exec" => target[r] \notin sessions
  BY DEF IndInv, CutInv, Swept, Cut
<1>2. ASSUME NEW r \in Requests, pc[r] = "found" PROVE kind[r] = "session_exec" /\ target[r] \in Requests
  BY <1>2 DEF IndInv, RequestInv
<1>3. QED
  BY <1>1, <1>2 DEF Exposed, Open

(* Only what takes sessions out of the map adds takers, and it takes none that *)
(* an admitted request names.                                                  *)
LEMMA NoneExposed ==
    ASSUME IndInv, armed, armed', IndInv',
           \A r \in Requests : pc'[r] = "found" => pc[r] = "found" /\ target'[r] = target[r],
           \A s \in Requests : taker'[s] = taker[s] \/ s \in sessions \/ taker'[s] = "nobody"
    PROVE  Exposed' \subseteq Exposed
<1>a. (IndInv /\ armed => Exposed = {r \in Requests : pc[r] = "found" /\ taker[target[r]] # "nobody"})'
  BY ExposedAreTaken, PTL
<1>1. Exposed' = {r \in Requests : pc'[r] = "found" /\ taker'[target'[r]] # "nobody"}
  BY <1>a
<1>2. ASSUME NEW r \in Requests, pc[r] = "found" PROVE target[r] \in Requests /\ target[r] \notin sessions
  BY <1>2 DEF IndInv, RequestInv, CutInv, Swept, Cut
<1>3. QED
  BY <1>1, <1>2, ExposedAreTaken

(* Between the answer of the kill switch and the local disarm no command      *)
(* reaches a shell through /exec or /jobs, and none reaches a session but one *)
(* that somebody else had taken out of the map and not closed when the brake  *)
(* swept, whatever was admitted before.                                       *)
THEOREM NoCommand == Spec => NoCommandWhileArmed
<1>1. ASSUME IndInv, [Next]_vars, armed
      PROVE  /\ executed' \subseteq executed
             /\ \A r \in reached' \ reached : taker[target[r]] # "nobody"
  <2>1. TypeOK /\ BrakeInv /\ DownInv /\ CutInv /\ \A r \in Requests : RequestInv(r)
    BY <1>1 DEF IndInv
  <2> USE DEF process, request, runner, others, Goto, Respond
  <2>2. ASSUME NEW r \in Requests, SessionWrite(r)
        PROVE  executed' = executed /\ \A s \in reached' \ reached : taker[target[s]] # "nobody"
    BY <1>1, <2>1, <2>2 DEF SessionWrite, Open, CutInv, Swept, Cut, RequestInv
  <2>3. ASSUME NEW r \in Requests, RunnerStep(r) PROVE reached' = reached /\ executed' = executed
    <3>1. pc[r] = "running"
      BY <2>3 DEF RunnerStep
    <3>2. brake = "effective"
      BY <1>1, <2>1, <3>1 DEF DownInv, BrakeInv, TypeOK
    <3>3. QED
      BY <1>1, <2>3, <3>2, RunnerMoves
  <2>4. ASSUME NEW r \in Requests,
               \/ Arrive(r) \/ ExecRun(r) \/ ExecAnswer(r) \/ Submit(r) \/ JobRun(r) \/ JobFinish(r) \/ Cancel(r)
               \/ Create(r) \/ LookUp(r) \/ SessionAnswer(r) \/ RunnerKills(r) \/ SessionEnds(r) \/ Abort(r)
        PROVE  reached' = reached /\ executed' \subseteq executed
    BY <2>4 DEF Arrive, ExecRun, ExecAnswer, Submit, JobRun, JobFinish, Cancel, Create, LookUp, SessionAnswer,
          RunnerKills, SessionEnds, Abort, Forget, Contract!Call, Contract!Stop
  <2>5. ASSUME NEW k \in Switches, ArmFlag(k) \/ ArmStep(k) PROVE reached' = reached /\ executed' = executed
    BY <2>5 DEF ArmFlag, ArmStep, ArmJobs, BlockJobs, ArmRunner, ArmRunnerDone, ArmSessions, ArmAnswer,
          Contract!Pull, Contract!TakeEffect
  <2>6. CASE ShutdownJobs \/ ShutdownSessions \/ Start \/ LocalArm \/ Disarm \/ UNCHANGED vars
    BY <2>6 DEF BlockJobs, ShutdownJobs, ShutdownSessions, Start, LocalArm, Disarm, vars
  <2>7. CASE Exit
    BY <2>7 DEF Exit
  <2>8. QED
    BY <1>1, <2>2, <2>3, <2>4, <2>5, <2>6, <2>7 DEF Next, HandlerStep
<1>2. ASSUME IndInv, IndInv', [Next]_vars, armed, armed' PROVE Exposed' \subseteq Exposed
  <2>1. TypeOK /\ BrakeInv /\ DownInv /\ CutInv /\ \A r \in Requests : RequestInv(r)
    BY <1>2 DEF IndInv
  <2> USE DEF process, request, runner, others, Goto, Respond
  <2>2. ASSUME NEW r \in Requests, LookUp(r) PROVE Exposed' \subseteq Exposed
    <3>1. pc' = [pc EXCEPT ![r] = "ended"]
      BY <1>2, <2>1, <2>2 DEF LookUp, CutInv, Swept, Cut
    <3>2. UNCHANGED <<target, taker>>
      BY <2>2 DEF LookUp
    <3>3. QED
      BY <1>2, <2>1, <3>1, <3>2, NoneExposed DEF TypeOK
  <2>3. ASSUME NEW r \in Requests, Arrive(r) PROVE Exposed' \subseteq Exposed
    BY <1>2, <2>1, <2>3, NoneExposed DEF Arrive, TypeOK
  <2>4. ASSUME NEW r \in Requests,
               \/ ExecRun(r) \/ ExecAnswer(r) \/ Submit(r) \/ JobRun(r) \/ JobFinish(r) \/ Cancel(r)
               \/ Create(r) \/ SessionWrite(r) \/ SessionAnswer(r)
        PROVE  Exposed' \subseteq Exposed
    <3>1. UNCHANGED <<target, taker>>
      BY <2>4 DEF ExecRun, ExecAnswer, Submit, JobRun, JobFinish, Cancel, Create, SessionWrite, SessionAnswer
    <3>2. \A s \in Requests : pc'[s] = "found" => pc[s] = "found"
      BY <2>1, <2>4 DEF ExecRun, ExecAnswer, Submit, JobRun, JobFinish, Cancel, Create, SessionWrite, SessionAnswer, TypeOK
    <3>3. QED
      BY <1>2, <3>1, <3>2, NoneExposed
  <2>5. ASSUME NEW r \in Requests, RunnerStep(r) \/ RunnerKills(r) \/ SessionEnds(r) \/ Abort(r)
        PROVE  Exposed' \subseteq Exposed
    <3>1. UNCHANGED <<target, pc>>
      BY <2>5 DEF RunnerStep, RunnerKills, SessionEnds, Abort
    <3>2. \A s \in Requests : taker'[s] = taker[s] \/ s \in sessions \/ taker'[s] = "nobody"
      BY <2>1, <2>5 DEF RunnerStep, RunnerKills, SessionEnds, Abort, TypeOK
    <3>3. QED
      BY <1>2, <3>1, <3>2, NoneExposed
  <2>6. ASSUME (\E k \in Switches : ArmFlag(k) \/ ArmStep(k)) \/ ShutdownJobs \/ ShutdownSessions
        PROVE  Exposed' \subseteq Exposed
    <3>1. UNCHANGED <<target, pc>>
      BY <2>6 DEF ArmFlag, ArmStep, ArmJobs, ArmRunner, ArmRunnerDone, ArmSessions, ArmAnswer,
            ShutdownJobs, ShutdownSessions
    <3>2. \A s \in Requests : taker'[s] = taker[s] \/ s \in sessions
      BY <2>6 DEF ArmFlag, ArmStep, ArmJobs, ArmRunner, ArmRunnerDone, ArmSessions, ArmAnswer,
            ShutdownJobs, ShutdownSessions, BlockJobs, TakeAll
    <3>3. QED
      BY <1>2, <3>1, <3>2, NoneExposed
  <2>7. CASE Start \/ LocalArm \/ Disarm \/ UNCHANGED vars
    BY <1>2, <2>7, NoneExposed DEF Start, LocalArm, Disarm, vars
  <2>8. CASE Exit
    BY <1>2, <2>1, <2>8, NoneExposed DEF Exit, Pending, TypeOK
  <2>9. QED
    BY <1>2, <2>2, <2>3, <2>4, <2>5, <2>6, <2>7, <2>8 DEF Next, HandlerStep
<1>3. IndInv /\ IndInv' /\ [Next]_vars =>
        [armed => /\ executed' \subseteq executed
                  /\ \A r \in reached' \ reached : taker[target[r]] # "nobody"
                  /\ armed' => Exposed' \subseteq Exposed]_vars
  BY <1>1, <1>2
<1>4. QED
  BY Invariant, <1>3, PTL DEF Spec, NoCommandWhileArmed
=============================================================================
