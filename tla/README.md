# WindowsLLMManager: TLA+ specifications

WindowsLLMManager is a Windows service that runs PowerShell commands for remote
clients over HTTPS: one at a time (`POST /exec`), as asynchronous jobs
(`/jobs`), and in persistent sessions (`/session`). It has a kill switch that
must stop everything, an audit log, access control, and an updater that replaces
the agent while it is running. This directory specifies the parts of it in which
goroutines, processes and files meet, checks them with TLC and proves the main
results with TLAPS.

## 1. The system

### Components

| Component | Source | State | Operations | What makes it correct |
|---|---|---|---|---|
| Job manager | `internal/jobs/manager.go` | job table, `blocked` | Submit, run, Get, Cancel, CancelAll, BlockAndCancelAll, two prune loops | limits hold, cancelled is never reported as timed out or failed, every job ends, nothing slips past the brake |
| Runner | `internal/powershell/runner.go` | set of active shells, `blocked` | Run, KillAll, BlockAndKillAll | no shell outlives its call, the brake misses no shell, a call ends at its deadline |
| Sessions | `internal/powershell/session.go` | session map; per session a shell, `busy`, `closed`, `lastUsed` | Create, Get, Exec, Restart, Delete, KillAll, Close, idle reaper | one command at a time, no orphaned shell, no command on a shell that was killed, idle sessions are reaped |
| Framing and wrapper | `frame.go`, `wrapper.go`, `buffer.go` | none | build the command text, read the frame | a result is only reported for a complete frame |
| HTTP handlers | `internal/server/server.go` | none of their own | check the flag file, call a component, answer | answers mean what the API contract says |
| Kill switch | `server.go` (`handleKillSwitch`, `New`, `isKilled`) | flag file `KILLED`, two in-memory flags | arm (remote), disarm (local) | once armed no command is delivered, across crash and restart |
| Access control | `securityMiddleware`, `internal/security` | blocklist, failure counts | authenticate, block, unblock | blocked addresses get nothing; the count is exact |
| Rate limiter | `internal/security/ratelimit.go` | token buckets | Allow | never more than burst + rate * time |
| Audit log | `internal/audit/logger.go` | log file, archives | Write, rotate | no acknowledged event is lost, also across a failed or interrupted rotation |
| PKI tool | `cmd/pki` | key and certificate files of a CA and a leaf | init-ca, issue | a leaf is signed by the CA it names; success means a whole pair; nothing is replaced without `--force` |
| Updater | `internal/updater`, `cmd/updater` | agent binary, backup, service state | check, download, verify, install, roll back | the machine is never left without an agent; a braked machine is not touched |
| Update scheduler | `internal/updatescheduler` | `running` | tick, launch, wait | at most one updater |
| Token rotation | `scripts/rotate-token.ps1` | token file, backup | rotate with rollback | there is always a token the service can start with |
| Configuration, API types, deploy/release/install scripts, client skill | | | | not modelled, see section 7 |

### How they interact

The handlers read the flag file first (`rejectIfKilled`) and act later, so a
request can pass its check and be overtaken by the kill switch. `/exec` calls
`Runner.Run` in the handler's goroutine; `/jobs` calls it from a goroutine of
the job manager, which shares the runner. Sessions have their own shells. The
kill switch writes the file, then blocks and sweeps the job manager, then the
runner, then the session manager. A killed shell is noticed by whoever waits for
it: through its closed pipes, through `cmd.Wait`, or not at all. Every shell is
in a job object that closes with the agent's process, so a crash takes the
shells down. The scheduler starts the updater as a separate process, which stops
and starts the agent's service and reads the same flag file. Before any handler,
`securityMiddleware` resolves the client's address and asks the blocklist, the
rate limiter and the token check, each under a lock of its own; it and the
handlers write to the audit log, whose errors they drop.

### What is hard here

- State checked, released and used: the runner reads `blocked`, starts a shell
  and registers it later; the reaper collects ids and deletes them later; the
  handlers read the flag file and act later; `now` is read before the lock.
- Three ways for a command to end at the same time: frame, deadline, kill.
- Kills are asynchronous and act outside the locks, on snapshots.
- File updates without a transaction: the updater's renames, the rotation of the
  audit log, the two files of a key pair; each step can fail or be the last.
- Blocking operations that no context covers: the write to the shell's stdin.
- The brake has to hold across goroutines that are already past every check,
  and across a crash between its own steps.

The full list of hazards, each at its line and with the properties that address
it, is in `PROJECT.json`.

## 2. Modules

| Module | Models | Used by |
|---|---|---|
| `JobManager` | `internal/jobs/manager.go` | `MCJobManager`, `JobManagerProofs` |
| `RunnerContract` | what the runner promises its callers (abstract) | `Runner`, `Agent` |
| `Runner` | `internal/powershell/runner.go`, with the frame reader | `MCRunner`, `RunnerProofs` |
| `SessionManager` | `internal/powershell/session.go` and the session handlers' answers | `MCSessionManager`, `SessionManagerProofs` |
| `Agent` | the command handlers, the kill switch, the life of the process; composes `RunnerContract` | `MCAgent`, `AgentProofs` |
| `Updater` | `internal/updater`, the service it controls, and the scheduler that launches it | `MCUpdater`, `UpdaterProofs` |
| `RateLimiter` | `internal/security/ratelimit.go`; also the abstract specification that `AccessControl` implements | `AccessControl` |
| `AccessControl` | `securityMiddleware`, `blocklist.go`, `clientip.go`, `DELETE /blocklist` | `MCAccessControl`, `AccessControlProofs` |
| `AuditLog` | `internal/audit/logger.go` and `writeAudit` | `MCAuditLog`, `AuditLogProofs` |
| `PKI` | `cmd/pki` | `MCPKI`, `PKIProofs` |
| `MC*` | instances for TLC, with their symmetry sets | the `.cfg` files |
| `*Proofs` | theorems | |

Definitions whose name starts with `M` and whose comment starts with "Mutant"
are deliberately wrong variants of the definition that follows; no specification
uses them. Putting one in the place of the original must break the property it
is paired with in `PROJECT.json`, which shows that the property says something.

### JobManager

Each critical section of `m.mu` is an action: `SubmitAccepted` / `SubmitRefused`
(with the pruning both do first), `Get`, `Cancel`, `CancelAll`,
`BlockAndCancelAll` (also `Close`), `Finish` (the locked part of `run`). What
happens outside the lock is a step of its own: `CommandWritten` (the command is
in the shell's stdin), `RunnerReturn` (Run returns and the time is read, before
the lock), `CallCancel` (the collected cancel functions are called after the
unlock), `OnDone`, and `Deadline` (the context's timer). The runner's result is
any that `RunnerContract` allows: a context that is done, whether cancelled or
expired, gives the same `ErrTimedOut`. `time.Now()` readings may be up to
`MaxLag` old when they are used, because the code reads the clock before it
takes the lock. Jobs that left the table keep their last status as history.

### Runner and RunnerContract

A call of `Run` goes through the labels idle, entered, starting, started,
writing, selecting, waiting, reaping, killing, unregistering, returned; each
transition is one action named for the code it stands for. Beside it run the
frame reader (`ReadFrame`), the goroutine in `cmd.Wait` (`WaitReturns`), and the
shell, which prints a good or a bad frame or nothing, and dies when killed or at
any other time. `cmd.Wait` closes the stdout pipe, so the reader may lose what
is still in it: `ReadFrame` chooses. `KillAll` and `BlockAndKillAll` take a
snapshot under the lock and kill shell by shell afterwards (`KillOne`). The
write to stdin succeeds when the shell drains it or the pipe is closed; nothing
else ends it.

`RunnerContract` has six variables and says what a caller may rely on (the
module's header lists it). `Runner` implements it under the mapping in
`KeepsContract`; `Agent` is built on the contract, not on the runner.

### SessionManager

A shell is the pair of its session and its generation. `Exec` is `BeginExec`
(execMu, the closed check, the capture of the shell), `WriteCommand` or
`WriteFails`, `SelectFrame` or `SelectKill`, `Reap`, `RestartInExec`, `Leave`.
`Delete`, `KillAll` and `ReaperDelete` only take sessions out of the map;
`Abort` and `KillShell` are the later steps, outside `m.mu`. `RestartLocked` is
the body of `restartLocked`, used by `Exec` and `Restart`. The clock is the age
since the last use, saturating one above the idle timeout. A failure of the
system's random source (`randomID`) is not modelled.

### Agent

A request stands for itself and for the job or session it creates. `Arrive` is
the handler's check of the flag file; the actions behind it are the calls that
the handlers make. The runner's steps are those of `RunnerContract`. Of the job
manager and the session manager the critical sections remain that decide about
the brake; limits, pruning and restarts are in their own modules. `Forget` ends
a call of `Run`: nothing looks at it again. `ArmFlag`, `ArmJobs`, `ArmRunner`,
`RunnerKills`, `ArmRunnerDone`, `ArmSessions`, `Abort` and `ArmAnswer` are
`handleKillSwitch` in its order; several calls of it may be in progress
(`Switches`). `ShutdownJobs`, `ShutdownSessions`, `Abort` and `RunnerKills` are
`Shutdown`. A session leaves the map in one step (`SessionEnds`, `TakeAll`) and
is closed in a later one (`Abort`); `taker` says who has to do that.
`SessionWrite` asks, as `Session.Exec` does, whether the session is closed
(`Open`), not whether it is in the map. `Exit` ends the process at any time;
`Start` is `New` with its check of the file. `LocalArm` and `Disarm` are an
administrator at the machine. A client names a session or a job only after it
was told the id.

### Updater

An updater process goes through the steps of `CheckAndUpdate` (`CheckFlag` to
`CheckAgain`) and of `installVerified` (`Stop` to `LastStart`); each file
operation and each request to the service control manager is an action, because
the machine may lose power, and the service change its state, between any two.
`StopService` and `StartService` are shared by the paths that use them, as in
the code. The service is `running`, `starting`, `stopping`, `stopped`, or
`crashed`: stopped with a restart due, after a crash of the agent
(`sc.exe failure` in the installer) or a boot. What can fail on the machine is a
fault, of one of nine kinds; each kind happens at most once and `MaxFaults`
bounds their number, so a property can say which faults it survives. A release
that is `Broken` exits during its start; that is no fault. A release's name is
three numbers and perhaps a suffix, which `parseVersion` cuts off, so a candidate
and its release are equal to `newerVersion` and `versionsEqual`. The scheduler is
`Launch` and `ChildExited`; what it knows is lost with the agent.

Three properties of `Updater` leave out behaviours in which the agent crashes:
`stopService` takes a crashed service for a stopped one, the service manager
restarts it behind the updater, the start of the new version then fails as
"already running" and is rolled back, and TLC shows that the rollback can end
with a stopped service.

### RateLimiter and AccessControl

`RateLimiter` has the buckets and the clock. `Allow` is the critical section of
the limiter; `ReadClock` is the `time.Now()` that the middleware passes to it and
that may be up to `MaxLag` ticks old by then. Tokens are counted in the ticks
they take to refill, so all arithmetic is in integers; a bucket's tokens may
become negative through a late reading, as in the code. `mark` and `spent`
remember what was admitted since an arbitrary instant.

`AccessControl` takes a request through the middleware: `Arrive` (with
`Resolve`), `IsBlocked`, `AskClock` and `AskLimiter`, `RecordFailure`, `LogBlock`
and `Refuse`, or `RecordSuccess` and `Serve` or `Remove`. `LogBlock` writes the
block's event to the log or, when `Write` fails, drops it (`dropped`). Requests interleave
between any two of these. A machine may send any `CF-Connecting-IP` header
itself; the proxy sends the true one. A restart forgets the lists and the
buckets, as they live in memory only.

### AuditLog

`Write` holds the logger's mutex, so one event is in progress at a time, and
each of its file operations is an action: `Stat`, `Create`, `Copy`, `Close`,
`Truncate`, `AppendEvent`, `Sync`. Each can fail once (`StepFails`,
`ArchiveFails`, `AppendFails`, `SyncFails`), the process may die and the machine
may lose power between any two. A line has from one to `MaxLine` bytes, and
`size` is what `Stat` compares with `max_bytes`. An archive is readable once its
central directory is written, in `Close`; since `zw.Close` also runs after a
failed copy, an archive that cannot be removed then (`ArchiveStays`) may be
readable and end in a cut-off line. After an append that was cut short the next
event is on the same line (`Whole` leaves it out). A power loss takes what the
current `Write` has not synced; that a line whose sync failed or was never
reached may be lost later is left out, as it was not acknowledged.

### PKI

A run of the tool makes one key pair, which is named after the run. The actions
are its file operations: `StatCert`, `StatKey`, `ReadCert`, `ReadKey`,
`OpenKey`, `WriteKey`, `OpenCert`, `WriteCert`, `WriteIssuer`, `RemoveKey`. The
leaf's file has two blocks, the leaf (`cert`) and the CA certificate behind it
(`behind`), which `issue` writes by two calls. A block is written by one
operation: a mix inside a block, of two runs whose blocks differ in length, is
not modelled. Runs overlap freely. `disturbed` is history: the runs whose files
a forced run may have touched, directly or through a third run.
`ErrorIsShadowed` is the error that `issue` loses.

## 3. Runs

Deadlock checking is on in all but two: in `audit` and `pki` a behaviour ends
when the bounded number of events or runs is used up. Elsewhere some step is
always possible (clients, the clock or the administrator).

| Run | Instance | Checks | Result |
|---|---|---|---|
| `jobs_lifecycle` | 3 jobs, 2 slots, 2 results, retention 1, time 1..2, lag 1 | concurrency and table limit, brake, timed-out only by deadline, cancel is honoured, eviction discipline | holds |
| `jobs_settle` | 2 jobs, 1 slot, 1 result | once its command is written, a cancelled job ends without a timer, and every accepted job ends if timers fire | holds |
| `runner_brake` | 2 calls | brake is tight, no orphan, ok means framed, refinement of `RunnerContract` | holds |
| `runner_returns` | 1 call | calls end after the brake, and after the deadline once the command is written | holds |
| `sessions` | 1 session, 2 calls, 2 shells | every shell owned, calls serialized, no call on a killed shell, closing releases the callers, idle sessions are reaped | holds |
| `agent_brake` | 2 requests of any kind, 2 concurrent kill switches, 2 starts | no command while armed but to sessions that somebody else is about to close, struck jobs are cancelled, brake survives restart | holds |
| `agent_brake_ends` | 1 request, 2 kill switches, 2 starts | the kill switch is answered, jobs end after it | holds |
| `agent_session_survives` | 1 request, 1 kill switch | no session is left after the kill switch | **violated** |
| `updater` | 1 updater at a time, 4 releases, 2 of them broken, 1 a candidate of another, up to 3 faults | a working agent is always on disk, updates are signed and move forward, a braked machine is not updated, the service comes back | holds |
| `access` | 2 requests, 2 addresses (1 the proxy), threshold 2, burst 2 tokens of 2 ticks, lag 1, clock 0..2 | blocks are deserved, and logged unless the write fails; the rate limit holds in every window; no lasting debt; `AccessControl` implements `LimiterSpec` | holds |
| `audit` | 4 events, lines of 1 or 2 bytes, rotation at 2 bytes, each of 11 faults at most once | the log passes its limit by less than a line, acknowledged events stay readable, the trail can be put together again, the log recovers | holds |
| `pki` | 4 runs of `init-ca` and `issue`, with or without `--force` | chains are signed by their CA unless two forced runs share the file, success is real and lasts | holds |

### Bounds, and why they are enough

- Jobs: a limit violation needs one job more than slots; eviction order needs
  two completed jobs and a new one. Three jobs and two slots or results give
  both. The clock needs to pass the retention once after a completion, and one
  unit of lag makes a reading older than a stored stamp.
- Runner: the calls share only the active set, `blocked` and the sweeps; two
  calls give every pair of positions against a brake. The proofs cover any
  number.
- Sessions: sessions share only the map, so one session with two calls (one
  inside, one queued) covers the contention on `execMu`; two generations cover a
  restart. The proofs cover any number of sessions, calls and restarts.
- Agent: a pair of requests gives create/session_exec, job/cancel and every pair
  of handlers against each other and the brake; two kill switches give one that
  has taken a session which the other no longer finds; two starts give a crash at
  any point and a run after it. The proofs cover any number of each.
- Updater: a broken candidate, its good release with the same numbers and a broken
  release after it give a rollback, a success and a rollback to it, each with its
  own backup. Three faults are
  one more than any path of `installVerified` handles. One updater at a time is
  the normal case; a second one is listed under the hazards.
- Access: two requests give every pair of positions in the middleware, and two
  failures reach the threshold; a third party is the proxy. Two ticks of clock, one of
  lag and tokens of two ticks give refills, a full bucket and a negative elapsed
  time. The proofs cover any number of requests and addresses and any rate.
- Audit: with lines as long as the limit every event but the first begins a
  rotation, so four events give three of them; two short lines give a log and an
  archive of two lines, of which the last may be cut. All faults are enabled
  together.
- PKI: an `init-ca`, one with `--force`, and two `issue` in any overlap, which is
  what a chain with blocks of two CAs takes; the pairs
  share nothing but what `loadCA` reads.
- Symmetry is used only in runs without liveness; calls, jobs and requests are
  only compared for equality.

### Fairness

Goroutines that can run do run (weak fairness of the handlers', calls' and
managers' steps: the Go scheduler). In `JobManager` a runner whose context is
done returns, but only once its command is written: before that it may be in
`io.WriteString` to a shell that does not read (`runner.go:128`), which no
context ends, and `CancelSettles` and `AcceptedJobsSettle` start behind that
write. A process whose job object was closed dies, and then `cmd.Wait` returns
and its reader sees the end of its output. Timers are not part of the fair
specifications: the two properties that need them, `AcceptedJobsSettle` and
`IdleSessionsAreReaped`, assume `TimersFire` and `TimePasses` in their
statement; `CancelSettles`, `AbortReleasesCaller` and the brake runs do without.
Nothing is assumed about commands: they may run for ever, and a shell that
nobody kills may never print or die. `SessionManager`'s liveness properties also
assume that shells drain their stdin; `Runner` does not, and section 5 says what
follows. `agent_brake_ends` assumes that a call returns once the brake is pulled
and its shell stopped, which is what `BrakeReleasesCallers` checks in `Runner`,
and that whoever has taken a session closes it. In `Updater` the updater runs to
its end and a service that is starting, stopping or due for a restart gets
there; nothing makes the scheduler tick or the network answer. In `AuditLog` a
`Write` that has the mutex goes on to its next step; nothing makes a next event
arrive.

## 4. What is proved

For all values of the constants, from the named assumptions in the modules
(limits are positive naturals; `MaxResults >= MaxActive`, which
`config.Validate` enforces; "no call" is not a call):

- `JobManagerProofs`: `TypeOK`, `LimitsHold` (both limits),
  `BrakeReachesEveryJob`, `TimedOutOnlyByDeadline`, `ExecutingJobsAreListed`,
  and the action properties `TerminalIsFinal`, `CancelIsHonoured` and
  `EvictionDiscipline`.
  The inductive invariant adds the job's story, which status, completion time
  and context go with which position of its goroutine; without it neither
  "executing jobs are active" (for the limits) nor "a done context has a reason"
  (for timed out) follows. The table limit needs cardinalities: a submission
  evicts enough completed jobs because the active ones are fewer than
  `MaxActive`. So does the discipline of the evictions: the table never has more
  than `MaxResults` entries, so a submission that evicts at all evicts one.
- `RunnerProofs`: `TypeOK`, `BrakeIsTight`, `NothingOutlivesItsCall`,
  `ReapedOnce`, `OkMeansFramed`, and `KeepsContract`: `Spec` implements
  `RunnerContract!Spec`. `CallInv` relates a call's position to its shell, its
  registration and its result; `BrakeInv` says that whatever is registered when
  `blocked` is set is on the brake's kill list. That is what closes the window
  between the check of `blocked` and the registration.
- `SessionManagerProofs`: `TypeOK`, `EveryShellIsOwned`, `CallsAreSerialized`,
  `NoCallOnAKilledShell`. The argument is about who may change `s.process`: the
  holder of `execMu`, or `Abort`, which closes the session for good. `CallInv`
  says what the holder knows of the shell it captured while the session is open,
  `SessionInv` what the next holder finds, `ShellInv` where a running shell is.
- `AccessControlProofs`: the limiter's `RateHolds` and `PatienceIsRewarded`; that
  `AccessControl` implements `LimiterSpec`, from which both hold for it; `TypeOK`,
  `BlockCountIsExact`, `BlockedForOwnFailures`, `BlocksAreLogged`,
  `OnlyDeleteUnblocks`. The limiter's invariant is an account: what a bucket holds
  plus what was spent never exceeds the capacity plus the time from `mark` to
  the bucket's last reading plus `MaxLag` (the reading may lie before `mark`), so
  a late reading takes back exactly what moving `last` backwards gives. For the
  blocklist, `Fair` ties the failures on record to those an address sent itself,
  `TrueAddress` says that a request's address is its sender's, and `Announced`
  that a fresh block has a request on its way to the log. What `BlocksAreLogged`
  promises is that `writeAudit` gets the event; a failing `Write` may lose it.
- `PKIProofs`: `TypeOK`, `ChainIsSigned` and `SuccessIsReal`, for any number of
  overlapping runs. For the chain, `RunInv` says that an issue past `loadCA` has a
  CA whose key it has compared with its certificate, and `LeafInv` that the same
  holds of the run whose certificate is in the leaf's file. For success, `FileInv`
  says who else may be at work on a pair: beside an undisturbed run nobody who
  has `--force` or was disturbed (`Apart`), nobody who has the key file open or
  written (`Sole`), and so the files are still its own (`Owns`). The two blocks of
  a chain are of one run, or both of runs that were disturbed: while a block is
  that of an undisturbed run nobody else has the file open (`Kept`), so nobody can
  write the other one (`Mixed`).

- `AgentProofs`: `TypeOK`, `StruckJobsAreCancelled`, `BrakeSurvivesRestart` and
  `NoCommandWhileArmed`, for any number of requests and starts. `BrakeInv` says
  how far the brakes are pulled at each step of the kill switch and that an
  effective runner brake leaves no command running; `SweepInv` that the sweep of
  the job table leaves no running job; `DownInv` that a process that is down has
  nothing in progress. Sessions have no brake of their own, and there the argument
  is another one: a request that names a session was told its id, so the session
  was created before; `CutInv` says that after the sweep under the flag no
  admitted request names a session that is still in the map. What a request can
  still reach was therefore taken out of the map and not closed
  (`ExposedAreTaken`), and in a step under the brake no request comes to be in that
  position (`NoneExposed`). A session created across
  the kill switch does survive (section 5), but every request that could name it
  finds the flag.
- `UpdaterProofs`: `TypeOK` (only signed releases are installed or started) for
  any number of overlapping updaters; `AlwaysRestorable`, `UpdatesMoveForward`
  and `BrakedMachineIsNotUpdated` for any releases and faults in behaviours in
  which no two updaters are alive at the same time: `Spec /\ []Alone => ...`.
  `Phase` says for each step of `installVerified` what the service can be doing
  and where the working agent is; the step that matters is the removal of the
  old backup, which needs that the installed agent is a good one, and that it is
  because the scheduler that launched this updater ran in it (`RunInv`). For the
  flag, `BrakeInv` uses that the service is stopped from the last check to the
  swap and `POST /killswitch` needs one that is not. For the versions,
  `NewerIsLater` shows that `newerVersion` is the order of the version numbers
  and carries over to another release with the same numbers. `Alone` is a real
  hypothesis and not a consequence: the scheduler's `running` dies with the
  agent it belongs to, so a second updater can be launched by the agent that the
  first one has just started, before the first has seen it running, or by an
  agent restarted after a crash. TLC then finds both updaters in the rollback
  and the removal of the backup, with no agent left. In the code the first tick
  comes a whole interval after the start, while an updater looks at the service
  every half second, so this takes an updater that is held up for that long; the
  model has no such times. The run `updater` has one updater at a time.
- `AuditLogProofs`: `TypeOK` with the bound on the log's size, `TrailIsInOrder`
  and `AcknowledgedEventsStay`, for any limit, any length of a line, any number
  of events and any set of faults. `SizeInv` says that a line has at least one
  byte, so that a log with room left is short of `MaxBytes` lines as well.
  `StepInv` says what the rotation has left at each of its steps (from the copy
  to the truncation the newest archive has the lines of the log); `LogEvents`
  and `ArchiveEvents` that the event being written is newer than all others.
  `FollowsChanged` shows that the order of two files survives whatever happens
  to that event's line, and `Completes` and `PartIsPrefix` that an archive which
  was not finished repeats the beginning of the log it was made of. The count of
  lost events is not inductive: a cut line costs an event only when the next one
  is acknowledged. `LossInv` therefore counts the losses that are still to come
  as well (`Pending`).

Each invariant was model-checked on the instances above before it was proved.
The type invariants of the first five modules and some of the simpler results
(`ExecutingJobsAreListed`, `TerminalIsFinal`, `ReapedOnce`, `BlockCountIsExact`,
`OnlyDeleteUnblocks`) are theorems only: the runs do not repeat them.

Every safety property of a passing run is the statement of a theorem. Only
model-checked: the liveness properties (`CancelSettles`, `AcceptedJobsSettle`,
`BrakeReleasesCallers`, `DeadlineEndsCall`, `AbortReleasesCaller`,
`IdleSessionsAreReaped`, `KillSwitchIsAnswered`, `JobsEndAfterKillSwitch`,
`ServiceReturns`, `WritesRecover`), since the prover does not handle fairness or
ENABLED.

## 5. Findings

The violated run is a disagreement between the code and one of the repository's
documents; `PROJECT.json` quotes both sides.

- `agent_session_survives`: a session created across the kill switch is left
  running. Every request that could name it finds the flag, so no command reaches
  it while the machine is armed.

Other disagreements with `zadanie.md` and `api-contract.md`, or within the code,
are visible in the models and have no run of their own:

- `Abort` in `Agent`: `Delete`, the reaper, `KillAll` and `Close` take a session out of
  the map under the lock and close it after it (`session.go:212-222`, `231-241`), and
  `Session.Exec` asks only whether it is closed (`session.go:47`). While a `DELETE`, the
  reaper, a shutdown or a second kill switch is between the two, the kill switch
  finds an empty map and answers 200, and an exec that had found the session before
  still delivers its command. `NoCommandWhileArmed` states this exception and that
  there is no other.
- `LogBlock` in `AccessControl`: a block whose `Write` fails, for instance in a
  rotation, has no event, against `zadanie.md:247` ("Log every failed-auth attempt and
  every auto-block regardless").
- `Stat` in `AuditLog`: the limit is compared before a line is appended, so the log
  passes `max_bytes` by up to a line before it is rotated; `zadanie.md:573` ("when it
  exceeds the cap") agrees.
- `ArchiveStays` in `AuditLog`: an archive that could neither be finished nor removed
  may be readable and hold only the beginning of the log, with the last line cut
  off; the same lines are archived again later.
- `ReadFrame` in `Runner`: `cmd.Wait` races the reader of `StdoutPipe`, so a
  complete frame can be lost and reported as `shell_failure`, which
  `api-contract.md:54` reserves for results that were not framed.
- `Disarm` in `Agent`: removing the flag file does not restore `/exec` and `/jobs`
  (`zadanie.md:831`), because `jobs.blocked` and `runner.blocked` stay set until
  the service restarts.
- `StopTimesOut` in `Updater`: a stop that takes longer than
  `service_timeout_sec` leaves the service down, against `zadanie.md:339`; so does
  a power loss between the two renames. `ServiceReturns` excludes both faults.
- `Drop` in `AuditLog`: `writeAudit` ignores the error of `Write`, so a command whose
  event could not be written runs all the same, against `zadanie.md:568`
  ("Every executed command is logged").
- `PowerLoss` and `AppendFails` in `AuditLog`: the archive is not synced before the
  log is truncated, and a line that was cut short swallows the event behind it;
  `Allowance` states what they cost.
- `ErrorIsShadowed` in `PKI`: `if err := pem.Encode(...)` hides the outer `err`, so
  the check below never sees a failed write of the certificate chain and `issue`
  reports success (`cmd/pki/main.go:166`).
- `WriteIssuer` in `PKI`: the leaf and the CA certificate are written by two calls, so
  two overlapping `issue --force` with an `init-ca --force` between their loads can
  leave one's leaf in front of the other's CA certificate. `ChainIsSigned` states
  the exception.
- `CertFails` in `PKI`: `init-ca --force` that fails on its certificate has already
  overwritten the old key, and removes the new one; a failed `issue` leaves a key
  that makes the next `issue` refuse.
- `WriteFails` in `Runner`: the write of the command to stdin ignores the
  context; a shell that does not read keeps the call past its deadline, which is
  why `DeadlineEndsCall` starts when the command is written.
- `ReaperDelete` in `SessionManager`: the reaper deletes a session that came into
  use after it was collected.
- `Evictions` in `JobManager`: results leave the table before
  `job_retention_sec` has passed when `max_job_results` is reached.
- `BeginExec` in `SessionManager`: a call overtaken by a delete of its session
  is answered with a retryable 500, not with 404.
- `Submit` in `Agent`: `jobs.Close` sets the kill switch's flag, so a job that
  arrives during a shutdown is answered 423 `killswitch_active`.
- `Cancel` in `Agent`: cancelling a job that is still cancelling is answered 409
  `job_not_running`, which the contract keeps for terminal jobs.

## 6. Plan

In this order:

1. The agent's job table and sessions as abstract specifications that `JobManager`
   and `SessionManager` implement, as `RunnerContract` is for the runner.
2. Overlapping updaters, once the scheduler's interval is part of the model:
   under which times `Alone` follows.

## 7. Not modelled

- Cryptography, TLS, JSON and Windows API calls: outcomes, not state. The token
  comparison in `auth.go` is a choice between right and wrong.
- Reading configuration: its bounds appear as assumptions on constants.
- The read-only endpoints and the decoding of requests.
- The text of the wrapper and of the frames: a frame is good, malformed or
  missing. The float64 rounding of the rate limiter.
- `scripts/rotate-token.ps1` is a script outside the Go program. An interruption
  between its two moves leaves no `token.txt`, and if something else starts the
  service between its stop and its start (the updater does) the old token stays
  in force, since the agent reads the file once.
- In `Agent`, the flag file's way to the disk: nothing syncs it, so what is shown
  about crashes holds for those of the process, and a power loss may take the file.
- In `Updater`, a broken release that dies without reporting `SERVICE_STOPPED`: the
  service manager would restart it (`sc.exe failure`); `ServiceFails` has one that
  reports it.
- The installer, deploy, release and local test scripts and the client skill:
  linear programs without shared state.
