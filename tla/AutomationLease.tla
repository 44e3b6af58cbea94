--------------------------- MODULE AutomationLease ---------------------------
(***************************************************************************)
(* The automation scheduler: ticks of one or several replicas list the due *)
(* jobs and run them one after another, operators run a job from the       *)
(* console, and a lease on the job row is to keep two runs of a job apart  *)
(* (src/server/automation/service.ts, scheduler.ts).                       *)
(*                                                                         *)
(* Times are counted down: leaseUntil and nextRunAt are the ticks left     *)
(* until they pass, 0 once they have passed (or leaseUntil is null).       *)
(***************************************************************************)
EXTENDS Integers

CONSTANTS
  Jobs,         \* rows of automation_job
  NoJob,        \* no row: what a runner between jobs works on
  Runners,      \* scheduler ticks and console requests in progress at once
  Lease,        \* LEASE_SECONDS, in ticks
  MaxInterval,  \* bound: the longest intervalSeconds, in ticks
  MaxFaults,    \* bound: crashes and database errors
  MaxUpdates    \* bound: operator changes to jobs and to automation.enabled

ASSUME NoJobAssumption == NoJob \notin Jobs
ASSUME LeaseAssumption == Lease \in Nat \ {0} /\ MaxInterval \in Nat \ {0}
ASSUME BoundsAssumption == MaxFaults \in Nat /\ MaxUpdates \in Nat

VARIABLES
  job,          \* [Jobs -> Job]: the rows
  enabled,      \* the setting automation.enabled
  runner,       \* [Runners -> Runner]
  excuse,       \* [Jobs -> SUBSET {"race", "expiry"}]: how the lease was defeated
                \* since the job was last at rest
  faults,       \* crashes and database errors so far
  updates       \* operator changes so far

vars == <<job, enabled, runner, excuse, faults, updates>>

Leases == 0 .. Lease
Waits == 0 .. MaxInterval
Intervals == 1 .. MaxInterval
Outcomes == {"SUCCEEDED", "FAILED"}    \* SUCCEEDED stands for SKIPPED too

Job == [enabled: BOOLEAN, interval: Intervals, lease: Leases, next: Waits,
        lastStatus: Outcomes \cup {"NONE"}]

\* What a tick has left to do, and the run it is in: the job, the lease and the
\* interval it has read, and how its handler ended.
Steps == {"idle", "pass", "checked", "leased", "running", "finished"}
Runner == [step: Steps, due: SUBSET Jobs, job: Jobs \cup {NoJob}, grant: Leases,
           interval: Intervals, outcome: Outcomes \cup {"NONE"}]

Waiting(step, due) == [step |-> step, due |-> due, job |-> NoJob, grant |-> 0,
                       interval |-> 1, outcome |-> "NONE"]

Busy(r) == runner[r].step \in {"checked", "leased", "running", "finished"}
BusyWith(r, j) == Busy(r) /\ runner[r].job = j
Holds(r, j) == BusyWith(r, j) /\ runner[r].step # "checked"

\* Nobody works on the job.
AtRest(j) == \A r \in Runners : ~BusyWith(r, j)
LeftMutant(ticks) == ticks - 1
Left(ticks) == IF ticks = 0 THEN 0 ELSE ticks - 1

\* A runner is done with its job, one way or the other: on to the next one.
NextJob(r) == runner' = [runner EXCEPT ![r] = Waiting("pass", @.due)]

\* The history of a job ends when nobody works on it any more.
Settled(history) ==
  excuse' = [j \in Jobs |-> IF AtRest(j)' THEN {} ELSE history[j]]

-----------------------------------------------------------------------------
Init ==
  /\ job \in [Jobs -> [enabled: {TRUE}, interval: Intervals, lease: {0},
                       next: {MaxInterval}, lastStatus: {"NONE"}]]
  /\ enabled = TRUE
  /\ runner = [r \in Runners |-> Waiting("idle", {})]
  /\ excuse = [j \in Jobs |-> {}]
  /\ faults = 0
  /\ updates = 0

\* Time passes; a lease may expire under the run it protects.
Tick ==
  /\ job' = [j \in Jobs |-> [job[j] EXCEPT !.lease = Left(@), !.next = Left(@)]]
  /\ runner' = [r \in Runners |-> [runner[r] EXCEPT !.grant = Left(@)]]
  /\ excuse' = [j \in Jobs |->
                  IF Left(job[j].lease) = 0 /\ \E r \in Runners : Holds(r, j)
                  THEN excuse[j] \cup {"expiry"} ELSE excuse[j]]
  /\ UNCHANGED <<enabled, faults, updates>>

\* schedulerTick lists the due jobs.
DueMutant(j) == job[j].enabled /\ job[j].next = 0 /\ job[j].lastStatus # "FAILED"
Due(j) == job[j].enabled /\ job[j].next = 0 /\ job[j].lease = 0

StartPass(r) ==
  /\ runner[r].step = "idle"
  /\ enabled
  /\ runner' = [runner EXCEPT ![r] = Waiting("pass", {j \in Jobs : Due(j)})]
  /\ UNCHANGED <<job, enabled, excuse, faults, updates>>

EndPass(r) ==
  /\ runner[r].step = "pass"
  /\ runner[r].due = {}
  /\ runner' = [runner EXCEPT ![r] = Waiting("idle", {})]
  /\ UNCHANGED <<job, enabled, excuse, faults, updates>>

-----------------------------------------------------------------------------
(* runAutomationJob: read and check the lease; write it; create the run; run the  *)
(* handler; update the run; update the job.  Each is a statement of its own.      *)

\* The lease is free.
LeaseFreeMutant(j) == TRUE
LeaseFree(j) == job[j].lease = 0

\* The read: the lease it will write and the interval it will use are fixed here.
CheckLease(r, j) ==
  /\ LeaseFree(j)
  /\ runner' = [runner EXCEPT ![r] =
                  [@ EXCEPT !.step = "checked", !.job = j, !.due = runner[r].due \ {j},
                            !.grant = Lease, !.interval = job[j].interval]]
  /\ excuse' = [excuse EXCEPT ![j] =
                  IF \E s \in Runners : BusyWith(s, j) /\ runner[s].step = "checked"
                  THEN @ \cup {"race"} ELSE @]
  /\ UNCHANGED <<job, enabled, faults, updates>>

\* The tick takes its next job, or gives it up: the lease is held.
TakeJob(r, j) ==
  /\ runner[r].step = "pass"
  /\ j \in runner[r].due
  /\ CheckLease(r, j)

Conflict(r, j) ==
  /\ runner[r].step = "pass"
  /\ j \in runner[r].due
  /\ ~LeaseFree(j)
  /\ runner' = [runner EXCEPT ![r] = [@ EXCEPT !.due = runner[r].due \ {j}]]
  /\ UNCHANGED <<job, enabled, excuse, faults, updates>>

\* An operator runs the job from the console, due or not, enabled or not.
RunNow(r, j) ==
  /\ runner[r].step = "idle"
  /\ CheckLease(r, j)

WriteLease(r) ==
  LET j == runner[r].job IN
  /\ runner[r].step = "checked"
  /\ job' = [job EXCEPT ![j] = [@ EXCEPT !.lease = runner[r].grant]]
  /\ runner' = [runner EXCEPT ![r] = [@ EXCEPT !.step = "leased", !.grant = 0]]
  /\ excuse' = [excuse EXCEPT ![j] = IF runner[r].grant = 0 THEN @ \cup {"expiry"} ELSE @]
  /\ UNCHANGED <<enabled, faults, updates>>

CreateRun(r) ==
  /\ runner[r].step = "leased"
  /\ runner' = [runner EXCEPT ![r] = [@ EXCEPT !.step = "running"]]
  /\ UNCHANGED <<job, enabled, excuse, faults, updates>>

\* The handler returns a status, or throws: FAILED.
FinishRun(r, outcome) ==
  /\ runner[r].step = "running"
  /\ runner' = [runner EXCEPT ![r] = [@ EXCEPT !.step = "finished", !.outcome = outcome]]
  /\ UNCHANGED <<job, enabled, excuse, faults, updates>>

\* The row of the job when a run ends: the lease is cleared, whoever holds it.
Released(old, run) ==
  [old EXCEPT !.lease = 0, !.lastStatus = run.outcome, !.next = run.interval]

ReleaseJob(r) ==
  /\ runner[r].step = "finished"
  /\ job' = [job EXCEPT ![runner[r].job] = Released(@, runner[r])]
  /\ NextJob(r)
  /\ Settled(excuse)
  /\ UNCHANGED <<enabled, faults, updates>>

-----------------------------------------------------------------------------
(* Faults and operators. *)

\* The process dies, with the lease it wrote left behind.
Crash(r) ==
  /\ runner[r].step # "idle"
  /\ faults < MaxFaults
  /\ faults' = faults + 1
  /\ runner' = [runner EXCEPT ![r] = Waiting("idle", {})]
  /\ Settled(excuse)
  /\ UNCHANGED <<job, enabled, updates>>

\* A statement of the run throws: the tick goes on with the next job.
DatabaseError(r) ==
  /\ Busy(r)
  /\ runner[r].step # "running"
  /\ faults < MaxFaults
  /\ faults' = faults + 1
  /\ NextJob(r)
  /\ Settled(excuse)
  /\ UNCHANGED <<job, enabled, updates>>

\* updateAutomationJob.
UpdateInterval(j, interval) ==
  /\ updates < MaxUpdates
  /\ updates' = updates + 1
  /\ job' = [job EXCEPT ![j] = [@ EXCEPT !.interval = interval, !.next = interval]]
  /\ UNCHANGED <<enabled, runner, excuse, faults>>

UpdateEnabledMutant(j) ==
  /\ updates < MaxUpdates
  /\ updates' = updates + 1
  /\ job' = [job EXCEPT ![j] = [@ EXCEPT !.enabled = ~job[j].enabled, !.lease = 0]]
  /\ UNCHANGED <<enabled, runner, excuse, faults>>

UpdateEnabled(j) ==
  /\ updates < MaxUpdates
  /\ updates' = updates + 1
  /\ job' = [job EXCEPT ![j] = [@ EXCEPT !.enabled = ~job[j].enabled]]
  /\ UNCHANGED <<enabled, runner, excuse, faults>>

UpdateSetting ==
  /\ updates < MaxUpdates
  /\ updates' = updates + 1
  /\ enabled' = ~enabled
  /\ UNCHANGED <<job, runner, excuse, faults>>

-----------------------------------------------------------------------------
RunnerStep(r) ==
  \/ StartPass(r)
  \/ EndPass(r)
  \/ \E j \in Jobs : TakeJob(r, j) \/ Conflict(r, j)
  \/ WriteLease(r)
  \/ CreateRun(r)
  \/ \E outcome \in Outcomes : FinishRun(r, outcome)
  \/ ReleaseJob(r)

Next ==
  \/ Tick
  \/ \E r \in Runners : RunnerStep(r)
  \/ \E r \in Runners, j \in Jobs : RunNow(r, j)
  \/ \E r \in Runners : Crash(r) \/ DatabaseError(r)
  \/ \E j \in Jobs : UpdateEnabled(j) \/ \E interval \in Intervals : UpdateInterval(j, interval)
  \/ UpdateSetting

Spec == Init /\ [][Next]_vars

\* The interval timer fires, time passes and what has begun goes on: handlers return.
FairSpec == Spec /\ WF_vars(Tick) /\ \A r \in Runners : WF_vars(RunnerStep(r))

-----------------------------------------------------------------------------
(* Properties. *)

\* Every variable has its type.
TypeOK ==
  /\ job \in [Jobs -> Job]
  /\ enabled \in BOOLEAN
  /\ runner \in [Runners -> Runner]
  /\ excuse \in [Jobs -> SUBSET {"race", "expiry"}]
  /\ faults \in 0 .. MaxFaults
  /\ updates \in 0 .. MaxUpdates

Alone(j) ==
  \A r, s \in Runners : BusyWith(r, j) /\ BusyWith(s, j) => r = s

\* The lease fails in two ways only: two runs read it free before either wrote it, or
\* it expired before its run was over.  Crashes, database errors, operator changes and
\* the unconditional release open no third way to run a job twice at once.
LeaseExcludes == \A j \in Jobs : excuse[j] = {} => Alone(j)

\* While one undefeated run is between its lease and its release, the row shows it: no
\* release of another run and no update of the job clears a lease that is in use.
LeaseIsShown ==
  \A j \in Jobs, r \in Runners : excuse[j] = {} /\ Holds(r, j) => job[j].lease > 0

\* A replica that dies, or a run that fails, never wedges a job: as long as automation
\* and the job stay enabled, the job is run again and again.
JobKeepsRunning ==
  \A j \in Jobs :
    <>[](enabled /\ job[j].enabled)
      => []<>(\E r \in Runners : BusyWith(r, j) /\ runner[r].step = "running")
=============================================================================
