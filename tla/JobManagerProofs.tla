--------------------------- MODULE JobManagerProofs ---------------------------
(***************************************************************************)
(* Proofs about JobManager, for any set of ids, any limits and any clock.  *)
(*                                                                         *)
(* The state properties do not carry themselves: that a goroutine finds    *)
(* its job in the table needs the link between pc, status and completedAt  *)
(* (JobInv), and the bound on goroutines is the bound on active entries    *)
(* (Counting) transported along that link.                                 *)
(***************************************************************************)
EXTENDS JobManager, FiniteSetTheorems, TLAPS

(* What holds of each job: its goroutine, its status, its time stamp, its   *)
(* context and its cancellation tell one story.                             *)
JobInv(j) ==
    /\ pc[j] \in {"writing", "running", "returned"} <=> status[j] \in ActiveStatus
    /\ pc[j] = "none" <=> status[j] = "none"
    /\ status[j] \in ActiveStatus => j \in table
    /\ j \in table => status[j] # "none"
    /\ status[j] \in TerminalStatus <=> completedAt[j] # 0
    /\ pc[j] = "returned" => stamp[j] # 0 /\ outcome[j] # "none"
    /\ outcome[j] = "timeout" => ctx[j] # "live"
    /\ status[j] = "running" => ctx[j] # "cancelled"
    /\ status[j] = "none" => ctx[j] = "live"
    /\ status[j] = "cancelling" /\ ctx[j] = "live" => j \in cancels
    /\ j \in cancels => status[j] \in {"cancelling", "cancelled"}
    /\ cancelReason[j] # "none" <=> status[j] \in {"cancelling", "cancelled"}
    /\ j \in timedOut <=> status[j] = "timed_out"
    /\ status[j] = "timed_out" => ctx[j] = "deadline"
    /\ blocked => status[j] # "running"

Counting ==
    /\ IsFiniteSet(table)
    /\ Cardinality(table) <= MaxResults
    /\ Cardinality(Active(table)) <= MaxActive

(* The inductive invariant. *)
IndInv == TypeOK /\ (\A j \in JobIds : JobInv(j)) /\ Counting

LEMMA InitTypeOK == Init => TypeOK
<1>1. SUFFICES ASSUME Init PROVE TypeOK
  OBVIOUS
<1>2. blocked \in BOOLEAN
  BY <1>1, Zenon DEF Init
<1>3. QED
  BY <1>1, <1>2 DEF Init, TypeOK, ActiveStatus, TerminalStatus

(* Types are preserved by every step of the manager. *)
LEMMA NextTypeOK == TypeOK /\ [Next]_vars => TypeOK'
<1>1. SUFFICES ASSUME TypeOK, [Next]_vars PROVE TypeOK'
  OBVIOUS
<1> USE DEF ActiveStatus, TerminalStatus
<1>2. ASSUME NEW id \in JobIds, NEW now \in Readings, NEW evicted \in SUBSET Completed(table), SubmitAccepted(id, now, evicted) PROVE TypeOK'
  BY <1>1, <1>2 DEF SubmitAccepted, TypeOK
<1>3. ASSUME NEW now \in Readings, SubmitRefused(now) PROVE TypeOK'
  BY <1>1, <1>3 DEF SubmitRefused, MayStart, TypeOK
<1>4. ASSUME NEW k \in JobIds, NEW result \in {"ok", "error", "timeout"}, NEW now \in Readings, RunnerReturn(k, result, now) PROVE TypeOK'
  BY <1>1, <1>4 DEF RunnerReturn, InRunner, Readings, TypeOK
<1>5. ASSUME NEW k \in JobIds, Finish(k) PROVE TypeOK'
  BY <1>1, <1>5 DEF Finish, StatusAfter, TimedOutAfter, TypeOK
<1>6. ASSUME NEW k \in JobIds, OnDone(k) PROVE TypeOK'
  BY <1>1, <1>6 DEF OnDone, TypeOK
<1>7. ASSUME NEW now \in Readings, Get(now) PROVE TypeOK'
  BY <1>1, <1>7 DEF Get, TypeOK
<1>8. ASSUME NEW k \in JobIds, NEW r \in Reasons, Cancel(k, r) PROVE TypeOK'
  BY <1>1, <1>8 DEF Cancel, MarkCancelling, MayCancel, TypeOK
<1>9. ASSUME NEW r \in Reasons, CancelAll(r) PROVE TypeOK'
  BY <1>1, <1>9 DEF CancelAll, MarkCancelling, RunningJobs, TypeOK
<1>10. ASSUME NEW r \in Reasons, BlockAndCancelAll(r) PROVE TypeOK'
  BY <1>1, <1>10 DEF BlockAndCancelAll, MarkCancelling, RunningJobs, TypeOK
<1>11. ASSUME NEW k \in JobIds, CallCancel(k) PROVE TypeOK'
  BY <1>1, <1>11 DEF CallCancel, TypeOK
<1>12. ASSUME NEW k \in JobIds, Deadline(k) PROVE TypeOK'
  BY <1>1, <1>12 DEF Deadline, Executing, InRunner, TypeOK
<1>13. CASE Tick
  BY <1>1, <1>13 DEF Tick, TypeOK
<1>14. ASSUME NEW k \in JobIds, CommandWritten(k) PROVE TypeOK'
  BY <1>1, <1>14 DEF CommandWritten, TypeOK
<1>15. CASE UNCHANGED vars
  BY <1>1, <1>15 DEF vars, TypeOK
<1>16. QED
  BY <1>1, <1>2, <1>3, <1>4, <1>5, <1>6, <1>7, <1>8, <1>9, <1>10, <1>11, <1>12, <1>13,
     <1>14, <1>15 DEF Next

(* The type invariant, for every value of the constants. *)
THEOREM TypeCorrect == Spec => []TypeOK
BY InitTypeOK, NextTypeOK, PTL DEF Spec

LEMMA InitJobInv == Init => \A j \in JobIds : JobInv(j)
BY DEF Init, JobInv, ActiveStatus, TerminalStatus

(* Every step keeps every job's story consistent. *)
LEMMA NextJobInv ==
    ASSUME TypeOK, TypeOK', \A j \in JobIds : JobInv(j), [Next]_vars, NEW j \in JobIds
    PROVE  JobInv(j)'
<1>1. TypeOK /\ TypeOK' /\ JobInv(j) /\ [Next]_vars
  OBVIOUS
<1> USE DEF ActiveStatus, TerminalStatus
<1>2. ASSUME NEW id \in JobIds, NEW now \in Readings,
              NEW evicted \in SUBSET Completed(table), SubmitAccepted(id, now, evicted) PROVE JobInv(j)'
  BY <1>1, <1>2 DEF SubmitAccepted, Expired, Completed, MayStart, JobInv, TypeOK
<1>3. ASSUME NEW now \in Readings, SubmitRefused(now) PROVE JobInv(j)'
  BY <1>1, <1>3 DEF SubmitRefused, Expired, Completed, MayStart, JobInv, TypeOK
<1>4. ASSUME NEW k \in JobIds, NEW result \in {"ok", "error", "timeout"}, NEW now \in Readings, RunnerReturn(k, result, now) PROVE JobInv(j)'
  BY <1>1, <1>4 DEF RunnerReturn, InRunner, Readings, JobInv, TypeOK
<1>5. ASSUME NEW k \in JobIds, Finish(k) PROVE JobInv(j)'
  BY <1>1, <1>5 DEF Finish, StatusAfter, TimedOutAfter, JobInv, TypeOK
<1>6. ASSUME NEW k \in JobIds, OnDone(k) PROVE JobInv(j)'
  BY <1>1, <1>6 DEF OnDone, JobInv, TypeOK
<1>7. ASSUME NEW now \in Readings, Get(now) PROVE JobInv(j)'
  BY <1>1, <1>7 DEF Get, Expired, Completed, JobInv, TypeOK
<1>8. ASSUME NEW k \in JobIds, NEW r \in Reasons, Cancel(k, r) PROVE JobInv(j)'
  BY <1>1, <1>8, ReasonsAssumption DEF Cancel, MarkCancelling, MayCancel, JobInv, TypeOK
<1>9. ASSUME NEW r \in Reasons, CancelAll(r) PROVE JobInv(j)'
  BY <1>1, <1>9, ReasonsAssumption DEF CancelAll, MarkCancelling, RunningJobs, JobInv, TypeOK
<1>10. ASSUME NEW r \in Reasons, BlockAndCancelAll(r) PROVE JobInv(j)'
  BY <1>1, <1>10, ReasonsAssumption DEF BlockAndCancelAll, MarkCancelling, RunningJobs, JobInv,
     TypeOK
<1>11. ASSUME NEW k \in JobIds, CallCancel(k) PROVE JobInv(j)'
  BY <1>1, <1>11 DEF CallCancel, JobInv, TypeOK
<1>12. ASSUME NEW k \in JobIds, Deadline(k) PROVE JobInv(j)'
  BY <1>1, <1>12 DEF Deadline, Executing, InRunner, JobInv, TypeOK
<1>13. CASE Tick
  BY <1>1, <1>13 DEF Tick, JobInv, TypeOK
<1>14. ASSUME NEW k \in JobIds, CommandWritten(k) PROVE JobInv(j)'
  BY <1>1, <1>14 DEF CommandWritten, JobInv, TypeOK
<1>15. CASE UNCHANGED vars
  BY <1>1, <1>15 DEF vars, JobInv, TypeOK
<1>16. QED
  BY <1>1, <1>2, <1>3, <1>4, <1>5, <1>6, <1>7, <1>8, <1>9, <1>10, <1>11, <1>12, <1>13,
     <1>14, <1>15 DEF Next

(* A table that only loses entries, with no job becoming active, still *)
(* respects both limits.                                              *)
LEMMA CountingShrinks ==
    ASSUME Counting, table' \subseteq table,
           \A j \in table' : status'[j] \in ActiveStatus => status[j] \in ActiveStatus
    PROVE  Counting'
<1>1. IsFiniteSet(table) /\ Cardinality(table) <= MaxResults /\ Cardinality(Active(table)) <= MaxActive
  BY DEF Counting
<1>2. IsFiniteSet(table') /\ Cardinality(table') <= Cardinality(table)
  BY <1>1, FS_Subset
<1>3. Active(table)' \subseteq Active(table) /\ Active(table) \subseteq table
  BY DEF Active
<1>4. IsFiniteSet(Active(table)) /\ Cardinality(Active(table)') <= Cardinality(Active(table))
  BY <1>1, <1>3, FS_Subset
<1>5. Cardinality(table) \in Nat /\ Cardinality(table') \in Nat
      /\ Cardinality(Active(table)) \in Nat /\ Cardinality(Active(table)') \in Nat
  BY <1>1, <1>2, <1>3, <1>4, FS_Subset, FS_CardinalityType
<1>6. QED
  BY <1>1, <1>2, <1>4, <1>5, MaxActiveAssumption, MaxResultsAssumption DEF Counting

(* pruneCapacityLocked always makes room: a full table that still admits a *)
(* job holds a completed one, because max_job_results >= max_async_jobs.   *)
LEMMA EvictionMakesRoom ==
    ASSUME NEW left \in SUBSET table, IsFiniteSet(left), Cardinality(left) <= MaxResults,
           TypeOK, \A j \in JobIds : JobInv(j), MayStart(left),
           NEW evicted \in Evictions(left)
    PROVE  /\ IsFiniteSet(left \ evicted)
           /\ Cardinality(left \ evicted) < MaxResults
<1>1. evicted \subseteq Completed(left) /\ Completed(left) \subseteq left
      /\ Cardinality(evicted) = EvictCount(left)
  BY DEF Evictions, Completed
<1>2. IsFiniteSet(left \ evicted) /\ Cardinality(left \ evicted) <= Cardinality(left)
  BY FS_Subset
<1>3. Cardinality(left) \in Nat /\ Cardinality(left \ evicted) \in Nat
  BY <1>2, FS_CardinalityType
<1>4. CASE Cardinality(left) < MaxResults
  BY <1>2, <1>3, <1>4, MaxResultsAssumption
<1>5. CASE Cardinality(left) = MaxResults
  <2>1. IsFiniteSet(Completed(left)) /\ Cardinality(Completed(left)) \in Nat
    BY <1>1, FS_Subset, FS_CardinalityType
  <2>2. Completed(left) # {}
    <3>1. SUFFICES ASSUME Completed(left) = {} PROVE FALSE
      OBVIOUS
    <3>2. Active(left) = left
      BY <3>1 DEF Active, Completed, JobInv, TypeOK, ActiveStatus, TerminalStatus
    <3>3. QED
      BY <1>3, <1>5, <3>2, MaxActiveAssumption, MaxResultsAssumption DEF MayStart
  <2>3. Cardinality(Completed(left)) # 0
    BY <2>1, <2>2, FS_EmptySet
  <2>4. Cardinality(evicted) # 0
    BY <1>1, <1>5, <2>1, <2>3, MaxActiveAssumption, MaxResultsAssumption DEF EvictCount
  <2>5. evicted # {}
    BY <2>4, FS_EmptySet
  <2>6. PICK x \in evicted : TRUE
    BY <2>5
  <2>7. IsFiniteSet(left \ {x}) /\ Cardinality(left \ {x}) = Cardinality(left) - 1
    BY <1>1, <2>6, FS_RemoveElement
  <2>8. Cardinality(left \ evicted) <= Cardinality(left \ {x})
    BY <2>6, <2>7, FS_Subset, left \ evicted \subseteq left \ {x}
  <2>9. QED
    BY <1>2, <1>3, <1>5, <2>7, <2>8, MaxActiveAssumption, MaxResultsAssumption
<1>6. QED
  BY <1>3, <1>4, <1>5, MaxResultsAssumption

(* An accepted submission respects both limits. *)
LEMMA SubmitCounting ==
    ASSUME IndInv, NEW id \in JobIds, NEW now, NEW evicted, SubmitAccepted(id, now, evicted)
    PROVE  Counting'
<1> DEFINE left == table \ Expired(table, now)
           kept == left \ evicted
<1>1. MayStart(left) /\ evicted \in Evictions(left) /\ table' = kept \cup {id}
      /\ status' = [status EXCEPT ![id] = "running"]
  BY DEF SubmitAccepted
<1>2. IsFiniteSet(left) /\ Cardinality(left) <= MaxResults
  <2>1. IsFiniteSet(left) /\ Cardinality(left) <= Cardinality(table)
    BY FS_Subset DEF IndInv, Counting
  <2>2. Cardinality(table) \in Nat /\ Cardinality(left) \in Nat
    BY <2>1, FS_CardinalityType DEF IndInv, Counting
  <2>3. QED
    BY <2>1, <2>2, MaxResultsAssumption DEF IndInv, Counting
<1>3. IsFiniteSet(kept) /\ Cardinality(kept) < MaxResults /\ Cardinality(kept) \in Nat
  BY <1>1, <1>2, EvictionMakesRoom, FS_CardinalityType DEF IndInv
<1>4. IsFiniteSet(table') /\ Cardinality(table') <= MaxResults
  <2>1. IsFiniteSet(kept \cup {id})
        /\ Cardinality(kept \cup {id})
             = IF id \in kept THEN Cardinality(kept) ELSE Cardinality(kept) + 1
    BY <1>3, FS_AddElement
  <2>2. QED
    BY <1>1, <1>3, <2>1, MaxResultsAssumption
<1>5. Active(left) \subseteq left /\ IsFiniteSet(Active(left)) /\ Cardinality(Active(left)) < MaxActive
  BY <1>1, <1>2, FS_Subset DEF Active, MayStart
<1>6. Active(table)' \subseteq Active(left) \cup {id}
  BY <1>1 DEF Active, IndInv, TypeOK
<1>7. IsFiniteSet(Active(left) \cup {id}) /\ Cardinality(Active(left) \cup {id}) <= MaxActive
  <2>1. Cardinality(Active(left)) \in Nat
    BY <1>5, FS_CardinalityType
  <2>2. IsFiniteSet(Active(left) \cup {id})
        /\ Cardinality(Active(left) \cup {id})
             = IF id \in Active(left) THEN Cardinality(Active(left)) ELSE Cardinality(Active(left)) + 1
    BY <1>5, FS_AddElement
  <2>3. QED
    BY <1>5, <2>1, <2>2, MaxActiveAssumption
<1>8. IsFiniteSet(Active(table)') /\ Cardinality(Active(table)') <= Cardinality(Active(left) \cup {id})
  BY <1>6, <1>7, FS_Subset
<1>9. Cardinality(Active(table)') <= MaxActive
  <2>1. Cardinality(Active(table)') \in Nat /\ Cardinality(Active(left) \cup {id}) \in Nat
    BY <1>7, <1>8, FS_CardinalityType
  <2>2. QED
    BY <1>7, <1>8, <2>1, MaxActiveAssumption
<1>10. QED
  BY <1>4, <1>9 DEF Counting

LEMMA NextCounting == IndInv /\ [Next]_vars => Counting'
<1>1. SUFFICES ASSUME IndInv, [Next]_vars PROVE Counting'
  OBVIOUS
<1> USE DEF ActiveStatus
<1>2. ASSUME NEW id \in JobIds, NEW now \in Readings,
              NEW evicted \in SUBSET Completed(table), SubmitAccepted(id, now, evicted) PROVE Counting'
  BY <1>1, <1>2, SubmitCounting
<1>3. ASSUME NEW now \in Readings, SubmitRefused(now) PROVE Counting'
  BY <1>1, <1>3, CountingShrinks DEF SubmitRefused, MayStart, IndInv, TypeOK
<1>4. ASSUME NEW k \in JobIds, NEW result \in {"ok", "error", "timeout"}, NEW now \in Readings, RunnerReturn(k, result, now) PROVE Counting'
  BY <1>1, <1>4, CountingShrinks DEF RunnerReturn, InRunner, IndInv, TypeOK
<1>5. ASSUME NEW k \in JobIds, Finish(k) PROVE Counting'
  BY <1>1, <1>5, CountingShrinks DEF Finish, StatusAfter, IndInv, TypeOK
<1>6. ASSUME NEW k \in JobIds, OnDone(k) PROVE Counting'
  BY <1>1, <1>6, CountingShrinks DEF OnDone, IndInv, TypeOK
<1>7. ASSUME NEW now \in Readings, Get(now) PROVE Counting'
  BY <1>1, <1>7, CountingShrinks DEF Get, IndInv, TypeOK
<1>8. ASSUME NEW k \in JobIds, NEW r \in Reasons, Cancel(k, r) PROVE Counting'
  BY <1>1, <1>8, CountingShrinks DEF Cancel, MarkCancelling, MayCancel, IndInv, TypeOK
<1>9. ASSUME NEW r \in Reasons, CancelAll(r) PROVE Counting'
  BY <1>1, <1>9, CountingShrinks DEF CancelAll, MarkCancelling, RunningJobs, IndInv, TypeOK
<1>10. ASSUME NEW r \in Reasons, BlockAndCancelAll(r) PROVE Counting'
  BY <1>1, <1>10, CountingShrinks DEF BlockAndCancelAll, MarkCancelling, RunningJobs, IndInv,
     TypeOK
<1>11. ASSUME NEW k \in JobIds, CallCancel(k) PROVE Counting'
  BY <1>1, <1>11, CountingShrinks DEF CallCancel, IndInv, TypeOK
<1>12. ASSUME NEW k \in JobIds, Deadline(k) PROVE Counting'
  BY <1>1, <1>12, CountingShrinks DEF Deadline, IndInv, TypeOK
<1>13. CASE Tick
  BY <1>1, <1>13, CountingShrinks DEF Tick, IndInv, TypeOK
<1>14. ASSUME NEW k \in JobIds, CommandWritten(k) PROVE Counting'
  BY <1>1, <1>14, CountingShrinks DEF CommandWritten, IndInv, TypeOK
<1>15. CASE UNCHANGED vars
  BY <1>1, <1>15, CountingShrinks DEF vars, IndInv, TypeOK
<1>16. QED
  BY <1>1, <1>2, <1>3, <1>4, <1>5, <1>6, <1>7, <1>8, <1>9, <1>10, <1>11, <1>12, <1>13,
     <1>14, <1>15 DEF Next

LEMMA InitIndInv == Init => IndInv
<1>1. SUFFICES ASSUME Init PROVE IndInv
  OBVIOUS
<1>2. Active(table) = {} /\ table = {}
  BY <1>1 DEF Init, Active
<1>3. Counting
  BY <1>2, FS_EmptySet, MaxActiveAssumption, MaxResultsAssumption DEF Counting
<1>4. QED
  BY <1>1, <1>3, InitTypeOK, InitJobInv DEF IndInv

(* The strengthened invariant is inductive. *)
THEOREM Inductive == Spec => []IndInv
<1>1. IndInv /\ [Next]_vars => IndInv'
  BY NextTypeOK, NextJobInv, NextCounting DEF IndInv
<1>2. QED
  BY InitIndInv, <1>1, PTL DEF Spec

(* run() goroutines inside the runner never exceed max_async_jobs.  They are *)
(* exactly the active entries of the table.                                  *)
THEOREM ConcurrencyLimit == Spec => []RunningWithinLimit
<1>1. ASSUME IndInv PROVE RunningWithinLimit
  <2>1. Executing = Active(table)
    BY <1>1 DEF Executing, InRunner, Active, IndInv, JobInv, TypeOK
  <2>2. IsFiniteSet(Active(table))
    BY <1>1, FS_Subset, Active(table) \subseteq table DEF IndInv, Counting, Active
  <2>3. QED
    BY <1>1, <2>1, <2>2 DEF RunningWithinLimit, IndInv, Counting
<1>2. QED
  BY <1>1, Inductive, PTL

(* The result table never outgrows max_job_results. *)
THEOREM TableLimit == Spec => []TableWithinLimit
<1>1. IndInv => TableWithinLimit
  BY DEF IndInv, Counting, TableWithinLimit
<1>2. QED
  BY <1>1, Inductive, PTL

(* max_async_jobs and max_job_results are never exceeded, however submissions, *)
(* cancellations, completions and pruning interleave.                          *)
THEOREM Limits == Spec => []LimitsHold
<1>1. RunningWithinLimit /\ TableWithinLimit => LimitsHold
  BY DEF LimitsHold
<1>2. QED
  BY <1>1, ConcurrencyLimit, TableLimit, PTL

(* After the kill switch or the shutdown every executing job is on its way *)
(* out, whatever was being submitted at that moment.                       *)
THEOREM BrakeIsComplete == Spec => []BrakeReachesEveryJob
<1>1. IndInv => BrakeReachesEveryJob
  BY DEF IndInv, JobInv, BrakeReachesEveryJob, Executing, InRunner, ActiveStatus
<1>2. QED
  BY <1>1, Inductive, PTL

(* A cancellation is never reported as a timeout. *)
THEOREM TimeoutsAreDeadlines == Spec => []TimedOutOnlyByDeadline
<1>1. IndInv => TimedOutOnlyByDeadline
  BY DEF IndInv, JobInv, TimedOutOnlyByDeadline
<1>2. QED
  BY <1>1, Inductive, PTL

(* The prune loops never drop a job that still executes. *)
THEOREM ExecutingListed == Spec => []ExecutingJobsAreListed
<1>1. IndInv => ExecutingJobsAreListed
  BY DEF IndInv, JobInv, ExecutingJobsAreListed, Executing, InRunner
<1>2. QED
  BY <1>1, Inductive, PTL

(* What one step may do to a job that has been cancelled or has ended. *)
Settling(j) ==
    /\ status[j] \in TerminalStatus =>
          /\ status'[j] = status[j]
          /\ cancelReason'[j] = cancelReason[j]
          /\ completedAt'[j] = completedAt[j]
    /\ status[j] = "cancelling" =>
          /\ status'[j] \in {"cancelling", "cancelled"}
          /\ cancelReason'[j] = cancelReason[j]
          /\ cancelReason[j] # "none"

LEMMA StepSettles == ASSUME IndInv, [Next]_vars, NEW j \in JobIds PROVE Settling(j)
<1>1. TypeOK /\ JobInv(j) /\ [Next]_vars
  BY DEF IndInv
<1>a. \A k \in JobIds : JobInv(k)
  BY DEF IndInv
<1> USE DEF ActiveStatus, TerminalStatus
<1>2. ASSUME NEW id \in JobIds, NEW now \in Readings,
              NEW evicted \in SUBSET Completed(table), SubmitAccepted(id, now, evicted) PROVE Settling(j)
  BY <1>1, <1>2, <1>a DEF SubmitAccepted, Settling, JobInv, TypeOK
<1>3. ASSUME NEW now \in Readings, SubmitRefused(now) PROVE Settling(j)
  BY <1>1, <1>3 DEF SubmitRefused, MayStart, Settling, JobInv, TypeOK
<1>4. ASSUME NEW k \in JobIds, NEW result \in {"ok", "error", "timeout"}, NEW now \in Readings, RunnerReturn(k, result, now) PROVE Settling(j)
  BY <1>1, <1>4 DEF RunnerReturn, InRunner, Settling, JobInv, TypeOK
<1>5. ASSUME NEW k \in JobIds, Finish(k) PROVE Settling(j)
  BY <1>1, <1>5, <1>a DEF Finish, StatusAfter, Settling, JobInv, TypeOK
<1>6. ASSUME NEW k \in JobIds, OnDone(k) PROVE Settling(j)
  BY <1>1, <1>6 DEF OnDone, Settling, JobInv, TypeOK
<1>7. ASSUME NEW now \in Readings, Get(now) PROVE Settling(j)
  BY <1>1, <1>7 DEF Get, Settling, JobInv, TypeOK
<1>8. ASSUME NEW k \in JobIds, NEW r \in Reasons, Cancel(k, r) PROVE Settling(j)
  BY <1>1, <1>8 DEF Cancel, MarkCancelling, MayCancel, Settling, JobInv, TypeOK
<1>9. ASSUME NEW r \in Reasons, CancelAll(r) PROVE Settling(j)
  BY <1>1, <1>9 DEF CancelAll, MarkCancelling, RunningJobs, Settling, JobInv, TypeOK
<1>10. ASSUME NEW r \in Reasons, BlockAndCancelAll(r) PROVE Settling(j)
  BY <1>1, <1>10 DEF BlockAndCancelAll, MarkCancelling, RunningJobs, Settling, JobInv, TypeOK
<1>11. ASSUME NEW k \in JobIds, CallCancel(k) PROVE Settling(j)
  BY <1>1, <1>11 DEF CallCancel, Settling, JobInv, TypeOK
<1>12. ASSUME NEW k \in JobIds, Deadline(k) PROVE Settling(j)
  BY <1>1, <1>12 DEF Deadline, Settling, JobInv, TypeOK
<1>13. CASE Tick
  BY <1>1, <1>13 DEF Tick, Settling, JobInv, TypeOK
<1>14. ASSUME NEW k \in JobIds, CommandWritten(k) PROVE Settling(j)
  BY <1>1, <1>14 DEF CommandWritten, Settling, JobInv, TypeOK
<1>15. CASE UNCHANGED vars
  BY <1>1, <1>15 DEF vars, Settling, JobInv, TypeOK
<1>16. QED
  BY <1>1, <1>2, <1>3, <1>4, <1>5, <1>6, <1>7, <1>8, <1>9, <1>10, <1>11, <1>12, <1>13,
     <1>14, <1>15 DEF Next

(* A late cancel or kill switch never rewrites a job that has ended. *)
THEOREM TerminalStays == Spec => TerminalIsFinal
<1>1. IndInv /\ [Next]_vars =>
        [\A j \in JobIds : status[j] \in TerminalStatus =>
            /\ status'[j] = status[j]
            /\ cancelReason'[j] = cancelReason[j]
            /\ completedAt'[j] = completedAt[j]]_vars
  BY StepSettles DEF Settling
<1>2. QED
  BY <1>1, Inductive, PTL DEF Spec, TerminalIsFinal

(* A cancelling job becomes cancelled and nothing else, and keeps the reason *)
(* of the first cancellation.                                                *)
THEOREM CancelStays == Spec => CancelIsHonoured
<1>1. IndInv /\ [Next]_vars =>
        [\A j \in JobIds : status[j] = "cancelling" =>
            /\ status'[j] \in {"cancelling", "cancelled"}
            /\ cancelReason'[j] = cancelReason[j]
            /\ cancelReason[j] # "none"]_vars
  BY StepSettles DEF Settling
<1>2. QED
  BY <1>1, Inductive, PTL DEF Spec, CancelIsHonoured

-----------------------------------------------------------------------------
(* Which jobs may leave the table. *)

LEMMA ExpiredAreOld ==
    ASSUME IndInv, NEW now \in Readings, NEW j \in Expired(table, now)
    PROVE  status[j] \in TerminalStatus /\ ~(clock - completedAt[j] < Retention)
<1>1. /\ j \in JobIds /\ completedAt[j] # 0 /\ completedAt[j] \in Nat /\ now \in Nat /\ clock \in Nat /\ now <= clock
      /\ now - completedAt[j] >= Retention
  BY DEF IndInv, TypeOK, Expired, Completed, Readings
<1>2. QED
  BY <1>1, RetentionAssumption DEF IndInv, JobInv

(* A result that is evicted early makes exactly the room that is needed, and  *)
(* it is the oldest.                                                          *)
LEMMA EvictionIsTight ==
    ASSUME IndInv, NEW id \in JobIds, NEW now \in Readings, NEW evicted, SubmitAccepted(id, now, evicted), NEW j \in evicted
    PROVE  /\ status[j] \in TerminalStatus
           /\ Cardinality(table') = MaxResults
           /\ \A k \in (table \cap table') \cap Completed(table) : completedAt[j] <= completedAt[k]
<1> DEFINE left == table \ Expired(table, now)
           kept == left \ evicted
<1>1. /\ MayStart(left) /\ evicted \in Evictions(left) /\ table' = kept \cup {id} /\ status[id] = "none"
      /\ evicted \subseteq left /\ left \subseteq table /\ evicted \subseteq Completed(left)
      /\ Cardinality(evicted) = EvictCount(left)
  BY DEF SubmitAccepted, Evictions, Completed
<1>2. j \in JobIds /\ completedAt[j] # 0 /\ id \notin table
  BY <1>1 DEF IndInv, TypeOK, JobInv, Completed
<1>3. status[j] \in TerminalStatus
  BY <1>2 DEF IndInv, JobInv
<1>4. /\ IsFiniteSet(left) /\ IsFiniteSet(evicted) /\ Cardinality(left) <= Cardinality(table)
      /\ Cardinality(table) <= MaxResults
  BY <1>1, FS_Subset DEF IndInv, Counting
<1>5. IsFiniteSet(Completed(left))
  BY <1>4, FS_Subset, Completed(left) \subseteq left DEF Completed
<1>6. /\ Cardinality(left) \in Nat /\ Cardinality(evicted) \in Nat /\ Cardinality(table) \in Nat
      /\ Cardinality(Completed(left)) \in Nat
  BY <1>4, <1>5, FS_CardinalityType DEF IndInv, Counting
<1>7. Cardinality(evicted) # 0
  BY <1>4, FS_EmptySet
<1>8. Cardinality(left) = MaxResults /\ Cardinality(evicted) = 1
  <2>1. Cardinality(left) = MaxResults
    BY <1>1, <1>4, <1>6, <1>7, MaxResultsAssumption DEF EvictCount
  <2>2. Cardinality(evicted) <= 1
    BY <1>1, <1>6, <2>1, MaxResultsAssumption DEF EvictCount
  <2>3. QED
    BY <1>6, <1>7, <2>1, <2>2
<1>9. IsFiniteSet(kept) /\ Cardinality(kept) = MaxResults - 1
  <2>1. left \cap evicted = evicted
    BY <1>1
  <2>2. IsFiniteSet(kept) /\ Cardinality(kept) = Cardinality(left) - Cardinality(left \cap evicted)
    BY <1>4, FS_Difference
  <2>3. QED
    BY <1>8, <2>1, <2>2
<1>10. Cardinality(table') = MaxResults
  <2>1. Cardinality(kept \cup {id}) = Cardinality(kept) + 1
    BY <1>1, <1>2, <1>9, FS_AddElement
  <2>2. QED
    BY <1>1, <1>9, <2>1, MaxResultsAssumption
<1>11. ASSUME NEW k \in (table \cap table') \cap Completed(table) PROVE completedAt[j] <= completedAt[k]
  <2>1. k \in Completed(left) \ evicted
    BY <1>1, <1>2 DEF Completed
  <2>2. QED
    BY <1>1, <2>1 DEF Evictions
<1>12. QED
  BY <1>3, <1>10, <1>11

(* Only finished jobs are forgotten; one whose retention has not passed only  *)
(* when the table is full afterwards, the oldest first; and an id that was    *)
(* forgotten stays forgotten.                                                 *)
THEOREM EvictionIsFair == Spec => EvictionDiscipline
<1>1. ASSUME IndInv, [Next]_vars
      PROVE  [/\ \A j \in table \ table' :
                    /\ status[j] \in TerminalStatus
                    /\ clock - completedAt[j] < Retention =>
                          /\ Cardinality(table') = MaxResults
                          /\ \A k \in (table \cap table') \cap Completed(table) :
                                completedAt[j] <= completedAt[k]
              /\ \A j \in table' \ table : status[j] = "none"]_vars
  <2>1. ASSUME NEW id \in JobIds, NEW now \in Readings, NEW evicted, SubmitAccepted(id, now, evicted)
        PROVE  /\ \A j \in table \ table' : j \in Expired(table, now) \/ j \in evicted
               /\ \A j \in table' \ table : status[j] = "none"
    BY <2>1 DEF SubmitAccepted
  <2>2. ASSUME NEW now \in Readings, SubmitRefused(now) \/ Get(now)
        PROVE  table' = table \ Expired(table, now)
    BY <2>2 DEF SubmitRefused, Get
  <2>3. CASE \E id \in JobIds, now \in Readings :
                \E evicted \in SUBSET Completed(table) : SubmitAccepted(id, now, evicted)
    <3>1. PICK id \in JobIds, now \in Readings, evicted \in SUBSET Completed(table) : SubmitAccepted(id, now, evicted)
      BY <2>3
    <3>2. ASSUME NEW j \in table \ table'
          PROVE  /\ status[j] \in TerminalStatus
                 /\ clock - completedAt[j] < Retention =>
                       /\ Cardinality(table') = MaxResults
                       /\ \A k \in (table \cap table') \cap Completed(table) : completedAt[j] <= completedAt[k]
      <4>1. CASE j \in Expired(table, now)
        BY <1>1, <4>1, ExpiredAreOld
      <4>2. CASE j \in evicted
        BY <1>1, <3>1, <4>2, EvictionIsTight
      <4>3. QED
        BY <2>1, <3>1, <4>1, <4>2
    <3>3. QED
      BY <2>1, <3>1, <3>2
  <2>4. CASE \E now \in Readings : SubmitRefused(now) \/ Get(now)
    BY <1>1, <2>2, <2>4, ExpiredAreOld
  <2>5. CASE table' = table
    BY <2>5
  <2>6. QED
    BY <1>1, <2>3, <2>4, <2>5 DEF Next, CommandWritten, RunnerReturn, Finish, OnDone, Cancel, CancelAll, BlockAndCancelAll, CallCancel,
          Deadline, Tick, vars
<1>2. QED
  BY <1>1, Inductive, PTL DEF Spec, EvictionDiscipline
=============================================================================
