------------------------------- MODULE Scheduler -------------------------------
(***************************************************************************)
(* The job table of the scheduler (scheduler/scheduler.go): claims with a   *)
(* lease of five seconds, retries, dead jobs.  Two jobs are of interest:    *)
(* the end of the auction and the expiry of its order.  Time is a counter   *)
(* of coarse steps; a retry delay is shorter than one step.                 *)
(***************************************************************************)
EXTENDS Integers

CONSTANTS
  Runners,        \* the scheduler processes
  MaxAttempts,    \* max_attempts of a job
  MaxFaults,      \* bound: errors and crashes of one run
  MaxClock        \* bound: the last moment

ASSUME SchedulerAssumption ==
  /\ MaxAttempts \in Nat \ {0}
  /\ MaxFaults \in Nat
  /\ MaxClock \in Nat

VARIABLES
  clock,          \* the time
  faults,         \* how many faults have struck
  job,            \* scheduler_jobs, by job type
  runner          \* what each runner has claimed, and how far it is

schedulerVars == <<clock, faults, job, runner>>

Jobs == {"END_AUCTION", "EXPIRE_ORDER"}
JobStates == {"none", "PENDING", "RUNNING", "SUCCEEDED", "FAILED", "DEAD"}

NoJob == [status |-> "none", runAt |-> 0, attempts |-> 0, leased |-> FALSE]
Idle  == [job |-> "none", step |-> "idle"]

(* Steps of a runner whose transaction has committed already. *)
Committed == {"sold", "ended"}

At(r, j, step) == runner[r] = [job |-> j, step |-> step]

Fault == faults < MaxFaults /\ faults' = faults + 1

SchedulerInit ==
  /\ clock = 0
  /\ faults = 0
  /\ job = [j \in Jobs |-> NoJob]
  /\ runner = [r \in Runners |-> Idle]

-----------------------------------------------------------------------------
(* What a transaction does to a row of scheduler_jobs. *)

(* upsertSchedulerJob: a finished job stays finished, a running one loses its lease. *)
Upsert(jobs, j, at) ==
  [jobs EXCEPT ![j].runAt = at, ![j].leased = FALSE,
     ![j].status = IF @ \in {"SUCCEEDED", "DEAD"} THEN @ ELSE "PENDING"]

Succeed(jobs, j) == [jobs EXCEPT ![j].status = "SUCCEEDED", ![j].leased = FALSE]

Reschedule(jobs, j, at) ==
  [jobs EXCEPT ![j].status = "PENDING", ![j].runAt = at, ![j].leased = FALSE]

(* Mutant: an off-by-one, the last attempt is never made. *)
FailEarly(jobs, j) ==
  [jobs EXCEPT ![j].attempts = @ + 1, ![j].leased = FALSE,
     ![j].status = IF jobs[j].attempts + 2 >= MaxAttempts THEN "DEAD" ELSE "FAILED"]

(* markFailure: whoever holds the job by now. *)
Fail(jobs, j) ==
  [jobs EXCEPT ![j].attempts = @ + 1, ![j].leased = FALSE,
     ![j].status = IF jobs[j].attempts + 1 >= MaxAttempts THEN "DEAD" ELSE "FAILED"]

-----------------------------------------------------------------------------
Tick == clock < MaxClock /\ clock' = clock + 1 /\ UNCHANGED <<faults, job, runner>>

(* claimOne.  Which of two due jobs comes first is left open: another runner *)
(* may hold the lock of the earlier one (SKIP LOCKED).                       *)
Claim(r, j) ==
  /\ runner[r] = Idle
  /\ job[j].status \in {"PENDING", "FAILED", "RUNNING"}
  /\ job[j].runAt <= clock
  /\ job[j].status = "RUNNING" => ~job[j].leased
  /\ job' = [job EXCEPT ![j].status = "RUNNING", ![j].leased = TRUE]
  /\ runner' = [runner EXCEPT ![r] = [job |-> j, step |-> "claimed"]]
  /\ UNCHANGED <<clock, faults>>

(* locked_until passes, whether its runner is dead or only slow. *)
LeaseExpires(j) ==
  /\ job[j].status = "RUNNING"
  /\ job[j].leased
  /\ job' = [job EXCEPT ![j].leased = FALSE]
  /\ UNCHANGED <<clock, faults, runner>>

(* The handler returns an error: its transaction is rolled back. *)
RunnerFails(r) ==
  /\ runner[r].job # "none"
  /\ runner[r].step \notin Committed
  /\ Fault
  /\ job' = Fail(job, runner[r].job)
  /\ runner' = [runner EXCEPT ![r] = Idle]
  /\ UNCHANGED clock

RunnerCrashes(r) ==
  /\ runner[r].job # "none"
  /\ Fault
  /\ runner' = [runner EXCEPT ![r] = Idle]
  /\ UNCHANGED <<clock, job>>

SchedulerNext ==
  \/ Tick
  \/ \E r \in Runners : (\E j \in Jobs : Claim(r, j)) \/ RunnerFails(r) \/ RunnerCrashes(r)
  \/ \E j \in Jobs : LeaseExpires(j)

=============================================================================
