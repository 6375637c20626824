------------------------------ MODULE JobManager ------------------------------
(***************************************************************************)
(* The asynchronous job manager, internal/jobs/manager.go.                 *)
(*                                                                         *)
(* A job is accepted by Submit into the table m.jobs, executed by a        *)
(* goroutine (run) that owns it until the runner returns, cancelled by     *)
(* Cancel, CancelAll or BlockAndCancelAll, and forgotten by the two prune  *)
(* loops.  Each critical section of m.mu is one action.  What the code     *)
(* does outside the mutex is a step of its own: calling the collected      *)
(* cancel functions (CallCancel), the runner's return together with the    *)
(* time stamp taken before the lock (RunnerReturn), the onDone callback    *)
(* (OnDone).                                                               *)
(*                                                                         *)
(* Abstractions: commands, output and error texts are left out; ids are    *)
(* 128 random bits and never collide; a job removed from the table keeps   *)
(* its last status in the functions below, as history.  time.Now().UTC()   *)
(* is a wall-clock reading that is read before the lock is taken, so it    *)
(* may be up to MaxLag older than the instant at which it is used.         *)
(***************************************************************************)
EXTENDS Naturals, FiniteSets

CONSTANTS
    JobIds,      \* the ids randomID may return
    MaxActive,   \* max_async_jobs
    MaxResults,  \* max_job_results
    Retention,   \* job_retention_sec, in clock units
    Reasons,     \* cancel reasons callers pass
    MaxLag,      \* how stale a clock reading can be when it is used
    MaxTime      \* bound on the clock

ASSUME MaxActiveAssumption == MaxActive \in Nat \ {0}
(* config.Validate rejects max_job_results < max_async_jobs. *)
ASSUME MaxResultsAssumption == MaxResults \in Nat /\ MaxResults >= MaxActive
ASSUME RetentionAssumption == Retention \in Nat \ {0}
ASSUME ReasonsAssumption == "none" \notin Reasons
ASSUME TimeAssumption == MaxLag \in Nat /\ MaxTime \in Nat \ {0}

VARIABLES
    table,         \* the keys of m.jobs
    status,        \* snapshot.Status, "none" before Submit
    completedAt,   \* snapshot.CompletedAt, 0 for the zero time
    cancelReason,  \* snapshot.CancelReason
    timedOut,      \* the jobs whose snapshot.Execution.TimedOut is set
    ctx,           \* the job's context: "live", "cancelled" or "deadline"
    pc,            \* where the job's goroutine is
    outcome,       \* what runner.Run returned
    stamp,         \* the time run() read before taking the lock
    blocked,       \* m.blocked
    cancels,       \* jobs whose cancel function was collected and not yet called
    clock          \* the wall clock

vars == <<table, status, completedAt, cancelReason, timedOut, ctx, pc,
          outcome, stamp, blocked, cancels, clock>>

ActiveStatus   == {"running", "cancelling"}
TerminalStatus == {"completed", "failed", "timed_out", "cancelled"}

(* Where a goroutine inside runner.Run is: not yet past the write of the command *)
(* to the shell's stdin, or waiting for the result.                             *)
InRunner == {"writing", "running"}

(* The goroutine has not yet stored the job's result. *)
Executing == {j \in JobIds : pc[j] \in InRunner \cup {"returned"}}

-----------------------------------------------------------------------------
(* Helpers of the critical sections. *)

Readings == {t \in 1..clock : clock - t <= MaxLag}

Active(t) == {j \in t : status[j] \in ActiveStatus}

Completed(t) == {j \in t : completedAt[j] # 0}

(* What pruneExpiredLocked(now) deletes. *)
Expired(t, now) ==
    {j \in Completed(t) : now >= completedAt[j] /\ now - completedAt[j] >= Retention}

(* Mutant: > for >= in the loop condition. *)
MEvictCountOffByOne(t) ==
    IF Cardinality(t) <= MaxResults THEN 0
    ELSE IF Cardinality(Completed(t)) <= Cardinality(t) - MaxResults + 1
         THEN Cardinality(Completed(t))
         ELSE Cardinality(t) - MaxResults + 1

(* How many results pruneCapacityLocked deletes: one per iteration while the *)
(* table is full, fewer when it runs out of completed jobs.                  *)
EvictCount(t) ==
    IF Cardinality(t) < MaxResults THEN 0
    ELSE IF Cardinality(Completed(t)) <= Cardinality(t) - MaxResults + 1
         THEN Cardinality(Completed(t))
         ELSE Cardinality(t) - MaxResults + 1

(* Mutant: any completed job instead of the oldest. *)
MEvictionsAnyCompleted(t) ==
    {e \in SUBSET Completed(t) : Cardinality(e) = EvictCount(t)}

(* The sets pruneCapacityLocked may delete: always the oldest, and among     *)
(* equal time stamps whichever the map iteration meets first.                *)
Evictions(t) ==
    {e \in SUBSET Completed(t) :
        /\ Cardinality(e) = EvictCount(t)
        /\ \A old \in e, kept \in Completed(t) \ e :
              completedAt[old] <= completedAt[kept]}

(* Mutant: the runner's error is looked at before the cancellation. *)
MStatusAfterOutcomeFirst(j) ==
    IF outcome[j] = "timeout" THEN "timed_out"
    ELSE IF status[j] = "cancelling" THEN "cancelled"
    ELSE IF outcome[j] = "error" THEN "failed" ELSE "completed"

(* The status run() stores once the runner has returned. *)
StatusAfter(j) ==
    IF status[j] = "cancelling" THEN "cancelled"
    ELSE CASE outcome[j] = "timeout" -> "timed_out"
           [] outcome[j] = "error"   -> "failed"
           [] OTHER                  -> "completed"

(* The jobs CancelAll and BlockAndCancelAll turn to "cancelling". *)
RunningJobs(t) == {j \in t : status[j] = "running"}

(* Mutant: Submit forgets the brake. *)
MMayStartIgnoresBlock(t) == Cardinality(Active(t)) < MaxActive

(* Mutant: a cancelling job no longer counts as active. *)
MMayStartCountsRunning(t) == ~blocked /\ Cardinality(RunningJobs(t)) < MaxActive

(* Submit's two refusals, ErrBlocked and ErrLimit, both avoided. *)
MayStart(t) == ~blocked /\ Cardinality(Active(t)) < MaxActive

-----------------------------------------------------------------------------
Init ==
    /\ table = {}
    /\ status = [j \in JobIds |-> "none"]
    /\ completedAt = [j \in JobIds |-> 0]
    /\ cancelReason = [j \in JobIds |-> "none"]
    /\ timedOut = {}
    /\ ctx = [j \in JobIds |-> "live"]
    /\ pc = [j \in JobIds |-> "none"]
    /\ outcome = [j \in JobIds |-> "none"]
    /\ stamp = [j \in JobIds |-> 0]
    /\ blocked = FALSE
    /\ cancels = {}
    /\ clock = 1

(* Submit, the accepting path: expired results go, then the oldest ones until *)
(* there is room, then the job is stored and its goroutine started.           *)
SubmitAccepted(id, now, evicted) ==
    LET left == table \ Expired(table, now) IN
    /\ status[id] = "none"
    /\ MayStart(left)
    /\ evicted \in Evictions(left)
    /\ table' = (left \ evicted) \cup {id}
    /\ status' = [status EXCEPT ![id] = "running"]
    /\ pc' = [pc EXCEPT ![id] = "writing"]
    /\ UNCHANGED <<completedAt, cancelReason, timedOut, ctx, outcome, stamp,
                   blocked, cancels, clock>>

(* Submit, ErrBlocked or ErrLimit: expired results are pruned all the same. *)
SubmitRefused(now) ==
    LET left == table \ Expired(table, now) IN
    /\ ~MayStart(left)
    /\ table' = left
    /\ UNCHANGED <<status, completedAt, cancelReason, timedOut, ctx, pc, outcome,
                   stamp, blocked, cancels, clock>>

(* The runner has started a shell and written the command to its stdin.  That *)
(* write looks at no context and may block while the shell does not read.     *)
CommandWritten(j) ==
    /\ pc[j] = "writing"
    /\ pc' = [pc EXCEPT ![j] = "running"]
    /\ UNCHANGED <<table, status, completedAt, cancelReason, timedOut, ctx,
                   outcome, stamp, blocked, cancels, clock>>

(* runner.Run returns, and run() reads the clock.  Before the command is      *)
(* written it may return because of the brake, a failed start or a failed     *)
(* write.  This module relies on no more than that ErrTimedOut is reported    *)
(* only for a context that is done.                                           *)
RunnerReturn(j, result, now) ==
    /\ pc[j] \in InRunner
    /\ result = "timeout" => ctx[j] # "live"
    /\ pc' = [pc EXCEPT ![j] = "returned"]
    /\ outcome' = [outcome EXCEPT ![j] = result]
    /\ stamp' = [stamp EXCEPT ![j] = now]
    /\ UNCHANGED <<table, status, completedAt, cancelReason, timedOut, ctx,
                   blocked, cancels, clock>>

(* result.TimedOut as run() stores it: cleared for a cancelled job. *)
TimedOutAfter(j) == outcome[j] = "timeout" /\ status[j] # "cancelling"

(* run()'s critical section: final status, time stamp, result, j.cancel().  The *)
(* local variables result, runErr and now are not used again.               *)
Finish(j) ==
    /\ pc[j] = "returned"
    /\ pc' = [pc EXCEPT ![j] = "notifying"]
    /\ status' = [status EXCEPT ![j] = StatusAfter(j)]
    /\ completedAt' = [completedAt EXCEPT ![j] = stamp[j]]
    /\ timedOut' = IF TimedOutAfter(j) THEN timedOut \cup {j} ELSE timedOut
    /\ ctx' = [ctx EXCEPT ![j] = IF @ = "live" THEN "cancelled" ELSE @]
    /\ outcome' = [outcome EXCEPT ![j] = "none"]
    /\ stamp' = [stamp EXCEPT ![j] = 0]
    /\ UNCHANGED <<table, cancelReason, blocked, cancels, clock>>

(* run() reports the final snapshot after unlocking. *)
OnDone(j) ==
    /\ pc[j] = "notifying"
    /\ pc' = [pc EXCEPT ![j] = "done"]
    /\ UNCHANGED <<table, status, completedAt, cancelReason, timedOut, ctx,
                   outcome, stamp, blocked, cancels, clock>>

(* Get: whatever id is asked for, expired results are pruned first. *)
Get(now) ==
    /\ table' = table \ Expired(table, now)
    /\ UNCHANGED <<status, completedAt, cancelReason, timedOut, ctx, pc, outcome,
                   stamp, blocked, cancels, clock>>

(* Marking under the lock; the cancel functions are only collected. *)
MarkCancelling(js, r) ==
    /\ status' = [j \in JobIds |-> IF j \in js THEN "cancelling" ELSE status[j]]
    /\ cancelReason' = [j \in JobIds |-> IF j \in js THEN r ELSE cancelReason[j]]
    /\ cancels' = cancels \cup js

(* Mutant: a second cancel is accepted. *)
MMayCancelActive(j) == j \in table /\ status[j] \in ActiveStatus

(* Neither ErrNotFound nor ErrNotRunning. *)
MayCancel(j) == j \in table /\ status[j] = "running"

Cancel(j, r) ==
    /\ MayCancel(j)
    /\ MarkCancelling({j}, r)
    /\ UNCHANGED <<table, completedAt, timedOut, ctx, pc, outcome, stamp,
                   blocked, clock>>

CancelAll(r) ==
    /\ MarkCancelling(RunningJobs(table), r)
    /\ UNCHANGED <<table, completedAt, timedOut, ctx, pc, outcome, stamp,
                   blocked, clock>>

(* The kill switch, and Close with "server_shutdown". *)
BlockAndCancelAll(r) ==
    /\ blocked' = TRUE
    /\ MarkCancelling(RunningJobs(table), r)
    /\ UNCHANGED <<table, completedAt, timedOut, ctx, pc, outcome, stamp, clock>>

(* Mutant: the collected function is dropped. *)
MCancelNeverCalled(j) ==
    /\ j \in cancels
    /\ cancels' = cancels \ {j}
    /\ UNCHANGED <<table, status, completedAt, cancelReason, timedOut, ctx, pc,
                   outcome, stamp, blocked, clock>>

(* A collected cancel function is called after the unlock; a context that is *)
(* already done keeps its first cause.                                       *)
CallCancel(j) ==
    /\ j \in cancels
    /\ cancels' = cancels \ {j}
    /\ ctx' = [ctx EXCEPT ![j] = IF @ = "live" THEN "cancelled" ELSE @]
    /\ UNCHANGED <<table, status, completedAt, cancelReason, timedOut, pc,
                   outcome, stamp, blocked, clock>>

(* Mutant: context.WithCancel instead of context.WithTimeout. *)
MNoTimeout(j) == FALSE /\ UNCHANGED vars

(* context.WithTimeout: the timer of an executing job fires. *)
Deadline(j) ==
    /\ j \in Executing
    /\ ctx[j] = "live"
    /\ ctx' = [ctx EXCEPT ![j] = "deadline"]
    /\ UNCHANGED <<table, status, completedAt, cancelReason, timedOut, pc,
                   outcome, stamp, blocked, cancels, clock>>

Tick ==
    /\ clock < MaxTime
    /\ clock' = clock + 1
    /\ UNCHANGED <<table, status, completedAt, cancelReason, timedOut, ctx, pc,
                   outcome, stamp, blocked, cancels>>

Next ==
    \/ \E id \in JobIds, now \in Readings :
          \E evicted \in SUBSET Completed(table) : SubmitAccepted(id, now, evicted)
    \/ \E now \in Readings : SubmitRefused(now)
    \/ \E j \in JobIds : CommandWritten(j)
    \/ \E j \in JobIds, result \in {"ok", "error", "timeout"}, now \in Readings :
          RunnerReturn(j, result, now)
    \/ \E j \in JobIds : Finish(j)
    \/ \E j \in JobIds : OnDone(j)
    \/ \E now \in Readings : Get(now)
    \/ \E j \in JobIds, r \in Reasons : Cancel(j, r)
    \/ \E r \in Reasons : CancelAll(r)
    \/ \E r \in Reasons : BlockAndCancelAll(r)
    \/ \E j \in JobIds : CallCancel(j)
    \/ \E j \in JobIds : Deadline(j)
    \/ Tick

Spec == Init /\ [][Next]_vars

(* Goroutines that can run do run, and a runner that has written its command  *)
(* answers a context that is done (it kills the process and reaps it; this is *)
(* DeadlineEndsCall of module Runner).  Nothing is promised about when a      *)
(* command ends on its own, nor about a write to a shell that does not read,  *)
(* nor, in CancelSpec, about timers.                                          *)
GoroutinesRun ==
    \A j \in JobIds :
        /\ WF_vars(Finish(j))
        /\ WF_vars(OnDone(j))
        /\ WF_vars(CallCancel(j))
        /\ WF_vars(/\ pc[j] = "running" /\ ctx[j] # "live"
                   /\ \E result \in {"ok", "error", "timeout"}, now \in Readings :
                         RunnerReturn(j, result, now))

CancelSpec == Spec /\ GoroutinesRun

(* The timer of context.WithTimeout fires as well. *)
TimersFire == \A j \in JobIds : WF_vars(Deadline(j))

-----------------------------------------------------------------------------
(* Types of the job table, the snapshots and the goroutines' local state. *)
TypeOK ==
    /\ table \subseteq JobIds
    /\ status \in [JobIds -> ActiveStatus \cup TerminalStatus \cup {"none"}]
    /\ completedAt \in [JobIds -> Nat]
    /\ cancelReason \in [JobIds -> Reasons \cup {"none"}]
    /\ timedOut \subseteq JobIds
    /\ ctx \in [JobIds -> {"live", "cancelled", "deadline"}]
    /\ pc \in [JobIds -> {"none", "writing", "running", "returned", "notifying", "done"}]
    /\ outcome \in [JobIds -> {"none", "ok", "error", "timeout"}]
    /\ stamp \in [JobIds -> Nat]
    /\ blocked \in BOOLEAN
    /\ cancels \subseteq JobIds
    /\ clock \in Nat \ {0}

(* However submits, cancels and completions interleave, no more than          *)
(* max_async_jobs goroutines are inside the runner or on their way out of it: *)
(* a cancelled job keeps its slot until its process is gone.                  *)
RunningWithinLimit == IsFiniteSet(Executing) /\ Cardinality(Executing) <= MaxActive

(* The table never outgrows max_job_results, although a full table of active *)
(* jobs could not be pruned: active jobs plus kept results stay below it.    *)
TableWithinLimit == IsFiniteSet(table) /\ Cardinality(table) <= MaxResults

(* Both limits of the job manager hold, a full table of active and cancelling *)
(* jobs included.                                                             *)
LimitsHold == RunningWithinLimit /\ TableWithinLimit

(* After BlockAndCancelAll no job is left running: everything that still     *)
(* executes has been marked, and its context is done or about to be          *)
(* cancelled by the caller that collected its cancel function.               *)
BrakeReachesEveryJob ==
    blocked => \A j \in Executing :
                  /\ status[j] = "cancelling"
                  /\ ctx[j] = "live" => j \in cancels

(* The runner answers a cancelled context with the same ErrTimedOut as an     *)
(* expired one; a job is nevertheless reported timed out only when its        *)
(* deadline passed, and the stored result's timed_out agrees with the status. *)
TimedOutOnlyByDeadline ==
    \A j \in JobIds :
        /\ status[j] = "timed_out" => ctx[j] = "deadline" /\ cancelReason[j] = "none"
        /\ status[j] = "timed_out" <=> j \in timedOut

(* A job that executes can always be looked up: pruning never drops the entry *)
(* that its goroutine will write to and that Cancel needs to find.            *)
ExecutingJobsAreListed == Executing \subseteq table

(* Once terminal, a job's status, reason and completion time never change,   *)
(* whichever late cancel or kill switch arrives.                              *)
TerminalIsFinal ==
    [][\A j \in JobIds : status[j] \in TerminalStatus =>
          /\ status'[j] = status[j]
          /\ cancelReason'[j] = cancelReason[j]
          /\ completedAt'[j] = completedAt[j]]_vars

(* An acknowledged cancellation is kept: the job can only become "cancelled", *)
(* whatever the runner returns in the meantime, and the first reason stays.   *)
CancelIsHonoured ==
    [][\A j \in JobIds : status[j] = "cancelling" =>
          /\ status'[j] \in {"cancelling", "cancelled"}
          /\ cancelReason'[j] = cancelReason[j]
          /\ cancelReason[j] # "none"]_vars

(* Which entries may leave the table: only finished jobs; one whose retention *)
(* has not passed only when the table is full afterwards, and then no older   *)
(* result is kept; and what left never comes back (404 stays 404).            *)
EvictionDiscipline ==
    [][/\ \A j \in table \ table' :
             /\ status[j] \in TerminalStatus
             /\ clock - completedAt[j] < Retention =>
                   /\ Cardinality(table') = MaxResults
                   /\ \A k \in (table \cap table') \cap Completed(table) :
                         completedAt[j] <= completedAt[k]
       /\ \A j \in table' \ table : status[j] = "none"]_vars

(* A job whose cancellation was acknowledged reaches "cancelled" once its      *)
(* command is written, even if the command would run forever and no timer      *)
(* fires.  Before that the runner does not look at the context (runner.go:128) *)
(* and the job may stay "cancelling".                                          *)
CancelSettles ==
    \A j \in JobIds :
        (status[j] = "cancelling" /\ pc[j] # "writing") ~> (status[j] = "cancelled")

(* Every job whose command is written ends and its end is reported to the      *)
(* onDone callback (the job_finished audit event), if timers fire: nothing     *)
(* runs past its timeout for ever.                                             *)
AcceptedJobsSettle ==
    TimersFire => \A j \in JobIds : (pc[j] = "running") ~> (pc[j] = "done")
=============================================================================
