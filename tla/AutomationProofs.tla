--------------------------- MODULE AutomationProofs ---------------------------
(***************************************************************************)
(* What runs by itself in the control plane.                               *)
(*                                                                         *)
(* AutomationLease, for every set of jobs and of runners, every lease,     *)
(* interval and bound: what the lease keeps apart and what defeats it.     *)
(* PolicyEngine, for every set of policies, devices and nodes and any      *)
(* edits and failures: the cooldown between two decisions to act, in a     *)
(* control plane of one process, the agreement of the simulation, types,   *)
(* and whose the guard of a process is.                                    *)
(***************************************************************************)
EXTENDS AutomationLease, PolicyEngine, TLAPS

USE NoJobAssumption, LeaseAssumption, BoundsAssumption

-----------------------------------------------------------------------------
(* Lemmas about the operators. *)

\* Counting down stays within the bound and reaches 0 only by counting.
LEMMA LeftType == ASSUME NEW b \in Nat, NEW t \in 0 .. b
                  PROVE Left(t) \in 0 .. b /\ Left(t) <= t
BY DEF Left

\* A runner between jobs is a runner, and busy with nothing.
LEMMA WaitingType == ASSUME NEW step \in {"idle", "pass"}, NEW due \in SUBSET Jobs
                     PROVE /\ Waiting(step, due) \in Runner
                           /\ Waiting(step, due).step = step
                           /\ Waiting(step, due).job = NoJob
BY DEF Waiting, Runner, Steps, Intervals, Outcomes, Leases

\* What each write of a runner or of a row keeps.
LEMMA CheckedType ==
  ASSUME NEW old \in Runner, NEW j \in Jobs, NEW interval \in Intervals
  PROVE  [old EXCEPT !.step = "checked", !.job = j, !.due = old.due \ {j},
                     !.grant = Lease, !.interval = interval] \in Runner
<1>1. Lease \in Leases /\ old.due \ {j} \in SUBSET Jobs /\ "checked" \in Steps
  BY DEF Runner, Leases, Steps
<1> QED
  BY <1>1 DEF Runner

LEMMA LeasedType == ASSUME NEW old \in Runner
                    PROVE [old EXCEPT !.step = "leased", !.grant = 0] \in Runner
<1>1. 0 \in Leases /\ "leased" \in Steps
  BY DEF Leases, Steps
<1> QED
  BY <1>1 DEF Runner

LEMMA ReleasedType ==
  ASSUME NEW old \in Job, NEW run \in Runner
  PROVE  Released(old, run) \in Job
<1>1. 0 \in Leases /\ run.interval \in Waits
  BY DEF Runner, Leases, Waits, Intervals
<1> QED
  BY <1>1 DEF Released, Job, Runner

LEMMA UpdatedType ==
  ASSUME NEW old \in Job, NEW interval \in Intervals
  PROVE  [old EXCEPT !.interval = interval, !.next = interval] \in Job
<1>1. interval \in Waits
  BY DEF Waits, Intervals
<1> QED
  BY <1>1 DEF Job

LEMMA AgedType == ASSUME NEW old \in Job
                  PROVE [old EXCEPT !.lease = Left(@), !.next = Left(@)] \in Job
<1>1. old.lease \in 0 .. Lease /\ old.next \in 0 .. MaxInterval
  BY DEF Job, Leases, Waits
<1>2. Left(old.lease) \in Leases /\ Left(old.next) \in Waits
  BY <1>1, LeftType DEF Leases, Waits
<1> QED
  BY <1>2 DEF Job

-----------------------------------------------------------------------------
(* Type correctness. *)

LEMMA TypeInit == Init => TypeOK
<1> SUFFICES ASSUME Init PROVE TypeOK
  OBVIOUS
<1>1. job \in [Jobs -> Job]
  <2>1. [enabled: {TRUE}, interval: Intervals, lease: {0}, next: {MaxInterval},
         lastStatus: {"NONE"}] \subseteq Job
    <3>1. 0 \in Leases /\ MaxInterval \in Waits
      BY DEF Leases, Waits
    <3> QED
      BY <3>1 DEF Job
  <2> QED
    BY <2>1 DEF Init
<1>2. runner \in [Runners -> Runner]
  BY WaitingType DEF Init
<1> QED
  BY <1>1, <1>2 DEF Init, TypeOK

LEMMA TypeNext == TypeOK /\ [Next]_vars => TypeOK'
<1> SUFFICES ASSUME TypeOK, [Next]_vars PROVE TypeOK'
  OBVIOUS
<1> USE DEF TypeOK
<1>1. CASE Tick
  <2>1. \A j \in Jobs : [job[j] EXCEPT !.lease = Left(@), !.next = Left(@)] \in Job
    BY AgedType
  <2>2. ASSUME NEW r \in Runners
        PROVE  [runner[r] EXCEPT !.grant = Left(@)] \in Runner
    <3>1. runner[r].grant \in 0 .. Lease /\ runner[r] \in Runner
      BY DEF Runner, Leases
    <3>2. Left(runner[r].grant) \in Leases
      BY <3>1, LeftType DEF Leases
    <3> QED
      BY <3>1, <3>2 DEF Runner
  <2>3. excuse' \in [Jobs -> SUBSET {"race", "expiry"}]
    BY <1>1 DEF Tick
  <2> QED
    BY <1>1, <2>1, <2>2, <2>3 DEF Tick
<1>2. ASSUME NEW r \in Runners, NEW w \in Runner, runner' = [runner EXCEPT ![r] = w],
             UNCHANGED <<job, enabled, excuse, updates>>, faults' = faults
      PROVE  TypeOK'
  BY <1>2
<1>3. ASSUME NEW h \in [Jobs -> SUBSET {"race", "expiry"}], Settled(h)
      PROVE  excuse' \in [Jobs -> SUBSET {"race", "expiry"}]
  BY <1>3 DEF Settled
<1>4. ASSUME NEW r \in Runners, StartPass(r) PROVE TypeOK'
  BY <1>2, <1>4, WaitingType DEF StartPass
<1>5. ASSUME NEW r \in Runners, EndPass(r) PROVE TypeOK'
  BY <1>2, <1>5, WaitingType DEF EndPass
<1>6. ASSUME NEW r \in Runners, NEW j \in Jobs, CheckLease(r, j) PROVE TypeOK'
  <2>1. [runner[r] EXCEPT !.step = "checked", !.job = j, !.due = runner[r].due \ {j},
                          !.grant = Lease, !.interval = job[j].interval] \in Runner
    BY CheckedType DEF Job
  <2>2. runner' \in [Runners -> Runner]
    BY <1>6, <2>1, Zenon DEF CheckLease
  <2> QED
    BY <1>6, <2>2 DEF CheckLease
<1>7. ASSUME NEW r \in Runners, NEW j \in Jobs, Conflict(r, j) PROVE TypeOK'
  <2>1. [runner[r] EXCEPT !.due = runner[r].due \ {j}] \in Runner
    BY DEF Runner
  <2> QED
    BY <1>7, <2>1 DEF Conflict
<1>8. ASSUME NEW r \in Runners, WriteLease(r) PROVE TypeOK'
  <2>1. [runner[r] EXCEPT !.step = "leased", !.grant = 0] \in Runner
    BY LeasedType
  <2>2. \A j \in Jobs : [job[j] EXCEPT !.lease = runner[r].grant] \in Job
    BY DEF Job, Runner
  <2>3. job' \in [Jobs -> Job]
    BY <1>8, <2>2 DEF WriteLease
  <2> QED
    BY <1>8, <2>1, <2>3 DEF WriteLease
<1>9. ASSUME NEW r \in Runners, CreateRun(r) PROVE TypeOK'
  <2>1. [runner[r] EXCEPT !.step = "running"] \in Runner
    BY DEF Runner, Steps
  <2> QED
    BY <1>2, <1>9, <2>1 DEF CreateRun
<1>10. ASSUME NEW r \in Runners, NEW outcome \in Outcomes, FinishRun(r, outcome)
       PROVE  TypeOK'
  <2>1. [runner[r] EXCEPT !.step = "finished", !.outcome = outcome] \in Runner
    BY ZenonT(60) DEF Runner, Steps
  <2> QED
    BY <1>2, <1>10, <2>1 DEF FinishRun
<1>11. ASSUME NEW r \in Runners, NextJob(r) PROVE runner' \in [Runners -> Runner]
  <2>1. runner[r].due \in SUBSET Jobs
    BY DEF Runner
  <2> QED
    BY <1>11, <2>1, WaitingType DEF NextJob
<1>12. ASSUME NEW r \in Runners, ReleaseJob(r) PROVE TypeOK'
  <2>1. \A j \in Jobs : Released(job[j], runner[r]) \in Job
    BY ReleasedType
  <2>2. job' \in [Jobs -> Job]
    BY <1>12, <2>1 DEF ReleaseJob
  <2> QED
    BY <1>3, <1>11, <1>12, <2>2 DEF ReleaseJob
<1>13. ASSUME NEW r \in Runners, Crash(r) PROVE TypeOK'
  BY <1>3, <1>13, WaitingType DEF Crash
<1>14. ASSUME NEW r \in Runners, DatabaseError(r) PROVE TypeOK'
  BY <1>3, <1>11, <1>14 DEF DatabaseError
<1>15. ASSUME NEW j \in Jobs, NEW interval \in Intervals, UpdateInterval(j, interval)
       PROVE  TypeOK'
  <2>1. [job[j] EXCEPT !.interval = interval, !.next = interval] \in Job
    BY UpdatedType
  <2> QED
    BY <1>15, <2>1 DEF UpdateInterval
<1>16. ASSUME NEW j \in Jobs, UpdateEnabled(j) PROVE TypeOK'
  <2>3. \A b \in BOOLEAN : [job[j] EXCEPT !.enabled = b] \in Job
    BY DEF Job
  <2>1. [job[j] EXCEPT !.enabled = ~job[j].enabled] \in Job
    BY <2>3, Zenon
  <2>2. job' \in [Jobs -> Job]
    BY <1>16, <2>1 DEF UpdateEnabled
  <2> QED
    BY <1>16, <2>2 DEF UpdateEnabled
<1>17. CASE UpdateSetting
  BY <1>17 DEF UpdateSetting
<1>18. CASE UNCHANGED vars
  BY <1>18 DEF vars
<1> QED
  BY <1>1, <1>4, <1>5, <1>6, <1>7, <1>8, <1>9, <1>10, <1>12, <1>13, <1>14, <1>15,
     <1>16, <1>17, <1>18 DEF Next, RunnerStep, TakeJob, RunNow

\* Every reachable state is well typed.
THEOREM TypeCorrect == Spec => []TypeOK
BY TypeInit, TypeNext, PTL DEF Spec

-----------------------------------------------------------------------------
(* The lease.  LeaseExcludes is not inductive: that nobody else passes the  *)
(* check while a run holds the lease is because the row shows it, which is  *)
(* LeaseIsShown; and that a run alone is shown needs LeaseExcludes, for the *)
(* release of another run would hide it.  The two hold together.            *)

LeaseInv == LeaseExcludes /\ LeaseIsShown

LEMMA LeaseInit == Init => LeaseInv
BY DEF Init, LeaseInv, LeaseExcludes, LeaseIsShown, Alone, Holds, BusyWith, Busy, Waiting

\* A runner that leaves its job, the row of which may lose its lease and nothing else
\* of it matters: the runs that remain are as they were.
LEMMA LeaseLeave ==
  ASSUME TypeOK, LeaseInv, NEW r \in Runners, NEW step \in {"idle", "pass"},
         NEW due \in SUBSET Jobs, runner' = [runner EXCEPT ![r] = Waiting(step, due)],
         Settled(excuse),
         \A j \in Jobs : job'[j].lease = job[j].lease \/ Holds(r, j)
  PROVE  LeaseInv'
<1>1. \A j \in Jobs : ~BusyWith(r, j)'
  BY WaitingType DEF BusyWith, Busy, TypeOK
<1>2. \A s \in Runners \ {r}, j \in Jobs :
        (BusyWith(s, j)' <=> BusyWith(s, j)) /\ (Holds(s, j)' <=> Holds(s, j))
  BY DEF BusyWith, Busy, Holds, TypeOK
<1>3. ASSUME NEW j \in Jobs, excuse'[j] = {} PROVE Alone(j)'
  <2>1. CASE AtRest(j)'
    BY <2>1 DEF AtRest, Alone
  <2>2. CASE ~AtRest(j)'
    <3>1. excuse[j] = {}
      BY <1>3, <2>2 DEF Settled
    <3>2. Alone(j)
      BY <3>1 DEF LeaseInv, LeaseExcludes
    <3> QED
      BY <1>1, <1>2, <3>2 DEF Alone
  <2> QED
    BY <2>1, <2>2
<1>4. ASSUME NEW j \in Jobs, NEW s \in Runners, excuse'[j] = {}, Holds(s, j)'
      PROVE  job'[j].lease > 0
  <2>1. s # r /\ Holds(s, j) /\ BusyWith(s, j)
    BY <1>1, <1>2, <1>4 DEF Holds
  <2>2. ~AtRest(j)'
    BY <1>2, <2>1 DEF AtRest
  <2>3. excuse[j] = {}
    BY <1>4, <2>2 DEF Settled
  <2>4. ~Holds(r, j)
    BY <2>1, <2>3 DEF LeaseInv, LeaseExcludes, Alone, Holds
  <2> QED
    BY <2>1, <2>3, <2>4 DEF LeaseInv, LeaseIsShown
<1> QED
  BY <1>3, <1>4 DEF LeaseInv, LeaseExcludes, LeaseIsShown

\* A step that changes no lease, forgets no excuse, and leaves every runner on its job
\* or between jobs.
LEMMA LeaseStay ==
  ASSUME TypeOK, LeaseInv,
         \A j \in Jobs : job'[j].lease = job[j].lease /\ excuse'[j] = excuse[j],
         \A s \in Runners, j \in Jobs :
           (BusyWith(s, j)' => BusyWith(s, j)) /\ (Holds(s, j)' => Holds(s, j))
  PROVE  LeaseInv'
BY DEF LeaseInv, LeaseExcludes, LeaseIsShown, Alone

LEMMA LeaseNext == TypeOK /\ LeaseInv /\ [Next]_vars => LeaseInv'
<1> SUFFICES ASSUME TypeOK, LeaseInv, [Next]_vars PROVE LeaseInv'
  OBVIOUS
<1>1. CASE Tick
  <2>1. \A s \in Runners : runner'[s].step = runner[s].step /\ runner'[s].job = runner[s].job
    BY <1>1 DEF Tick, TypeOK, Runner
  <2>2. \A s \in Runners, j \in Jobs :
          (BusyWith(s, j)' <=> BusyWith(s, j)) /\ (Holds(s, j)' <=> Holds(s, j))
    BY <2>1 DEF BusyWith, Busy, Holds
  <2>3. \A j \in Jobs : excuse[j] \subseteq excuse'[j]
    BY <1>1 DEF Tick, TypeOK
  <2>4. ASSUME NEW j \in Jobs, NEW s \in Runners, excuse'[j] = {}, Holds(s, j)'
        PROVE  job'[j].lease > 0
    <3>1. Left(job[j].lease) # 0
      BY <1>1, <2>2, <2>4 DEF Tick
    <3>2. job'[j].lease = Left(job[j].lease) /\ job[j].lease \in 0 .. Lease
      BY <1>1 DEF Tick, TypeOK, Job, Leases
    <3> QED
      BY <3>1, <3>2, LeftType
  <2> QED
    BY <2>2, <2>3, <2>4 DEF LeaseInv, LeaseExcludes, LeaseIsShown, Alone
<1>2. ASSUME NEW r \in Runners, StartPass(r) PROVE LeaseInv'
  BY <1>2, LeaseStay, WaitingType DEF StartPass, BusyWith, Busy, Holds, TypeOK
<1>3. ASSUME NEW r \in Runners, EndPass(r) PROVE LeaseInv'
  BY <1>3, LeaseStay, WaitingType DEF EndPass, BusyWith, Busy, Holds, TypeOK
<1>4. ASSUME NEW r \in Runners, NEW j \in Jobs, CheckLease(r, j),
             ~Busy(r)
      PROVE  LeaseInv'
  <2>1. /\ runner'[r].step = "checked" /\ runner'[r].job = j
        /\ \A s \in Runners \ {r} : runner'[s] = runner[s]
    BY <1>4 DEF CheckLease, TypeOK, Runner
  <2>2. \A s \in Runners, k \in Jobs :
          /\ BusyWith(s, k)' <=> BusyWith(s, k) \/ (s = r /\ k = j)
          /\ Holds(s, k)' <=> Holds(s, k)
    BY <1>4, <2>1 DEF BusyWith, Busy, Holds
  <2>3. \A k \in Jobs : excuse[k] \subseteq excuse'[k]
    BY <1>4 DEF CheckLease, TypeOK
  <2>4. ASSUME excuse'[j] = {} PROVE \A s \in Runners : ~BusyWith(s, j)
    <3>1. excuse[j] = {}
      BY <2>3, <2>4
    <3>2. \A s \in Runners : BusyWith(s, j) => runner[s].step # "checked"
      BY <1>4, <2>4 DEF CheckLease, TypeOK
    <3>3. \A s \in Runners : ~Holds(s, j)
      BY <1>4, <3>1 DEF CheckLease, LeaseFree, LeaseInv, LeaseIsShown
    <3> QED
      BY <3>2, <3>3 DEF Holds
  <2>5. \A k \in Jobs : excuse'[k] = {} => Alone(k)'
    BY <2>2, <2>3, <2>4 DEF LeaseInv, LeaseExcludes, Alone
  <2> QED
    BY <1>4, <2>2, <2>3, <2>5 DEF CheckLease, LeaseInv, LeaseExcludes, LeaseIsShown
<1>5. ASSUME NEW r \in Runners, NEW j \in Jobs, Conflict(r, j) PROVE LeaseInv'
  <2>1. \A s \in Runners : runner'[s].step = runner[s].step /\ runner'[s].job = runner[s].job
    BY <1>5 DEF Conflict, TypeOK, Runner
  <2> QED
    BY <1>5, <2>1, LeaseStay DEF Conflict, BusyWith, Busy, Holds
<1>6. ASSUME NEW r \in Runners, WriteLease(r) PROVE LeaseInv'
  <2> DEFINE j == runner[r].job
  <2>1. /\ runner'[r].step = "leased" /\ runner'[r].job = j
        /\ \A s \in Runners \ {r} : runner'[s] = runner[s]
    BY <1>6 DEF WriteLease, TypeOK, Runner
  <2>2. \A s \in Runners, k \in Jobs :
          /\ BusyWith(s, k)' <=> BusyWith(s, k)
          /\ Holds(s, k)' => Holds(s, k) \/ k = j
    BY <1>6, <2>1 DEF WriteLease, BusyWith, Busy, Holds
  <2>3. \A k \in Jobs : excuse[k] \subseteq excuse'[k]
    BY <1>6 DEF WriteLease, TypeOK
  <2>4. ASSUME NEW k \in Jobs, NEW s \in Runners, excuse'[k] = {}, Holds(s, k)'
        PROVE  job'[k].lease > 0
    <3>1. CASE k = j
      <4>1. runner[r].grant # 0
        BY <1>6, <2>4, <3>1 DEF WriteLease, TypeOK
      <4>2. runner[r].grant \in 0 .. Lease /\ job'[k].lease = runner[r].grant
        BY <1>6, <3>1 DEF WriteLease, TypeOK, Runner, Job, Leases
      <4> QED
        BY <4>1, <4>2
    <3>2. CASE k # j
      BY <1>6, <2>2, <2>3, <2>4, <3>2 DEF WriteLease, TypeOK, LeaseInv, LeaseIsShown
    <3> QED
      BY <3>1, <3>2
  <2>5. \A k \in Jobs : excuse'[k] = {} => Alone(k)'
    BY <2>2, <2>3 DEF LeaseInv, LeaseExcludes, Alone
  <2> QED
    BY <2>4, <2>5 DEF LeaseInv, LeaseExcludes, LeaseIsShown
<1>7. ASSUME NEW r \in Runners, CreateRun(r) PROVE LeaseInv'
  <2>1. \A s \in Runners : /\ runner'[s].job = runner[s].job
                           /\ runner'[s].step = IF s = r THEN "running" ELSE runner[s].step
    BY <1>7 DEF CreateRun, TypeOK, Runner
  <2> QED
    BY <1>7, <2>1, LeaseStay DEF CreateRun, BusyWith, Busy, Holds
<1>8. ASSUME NEW r \in Runners, NEW outcome \in Outcomes, FinishRun(r, outcome)
      PROVE  LeaseInv'
  <2>1. \A s \in Runners : /\ runner'[s].job = runner[s].job
                           /\ runner'[s].step = IF s = r THEN "finished" ELSE runner[s].step
    BY <1>8 DEF FinishRun, TypeOK, Runner
  <2> QED
    BY <1>8, <2>1, LeaseStay DEF FinishRun, BusyWith, Busy, Holds
<1>9. \A r \in Runners : runner[r].due \in SUBSET Jobs
  BY DEF TypeOK, Runner
<1>10. ASSUME NEW r \in Runners, ReleaseJob(r) PROVE LeaseInv'
  <2>1. \A j \in Jobs : job'[j].lease = job[j].lease \/ Holds(r, j)
    BY <1>10 DEF ReleaseJob, Holds, BusyWith, Busy, TypeOK
  <2> QED
    BY <1>9, <1>10, <2>1, LeaseLeave DEF ReleaseJob, NextJob
<1>11. ASSUME NEW r \in Runners, Crash(r) PROVE LeaseInv'
  <2>1. \A j \in Jobs : job'[j].lease = job[j].lease
    BY <1>11 DEF Crash
  <2>2. {} \in SUBSET Jobs
    OBVIOUS
  <2> QED
    BY <1>11, <2>1, <2>2, LeaseLeave DEF Crash
<1>12. ASSUME NEW r \in Runners, DatabaseError(r) PROVE LeaseInv'
  BY <1>9, <1>12, LeaseLeave DEF DatabaseError, NextJob
<1>13. ASSUME NEW j \in Jobs, NEW interval \in Intervals, UpdateInterval(j, interval)
       PROVE  LeaseInv'
  <2>1. \A k \in Jobs : job'[k].lease = job[k].lease
    BY <1>13 DEF UpdateInterval, TypeOK, Job
  <2> QED
    BY <1>13, <2>1, LeaseStay DEF UpdateInterval, BusyWith, Busy, Holds
<1>14. ASSUME NEW j \in Jobs, UpdateEnabled(j) PROVE LeaseInv'
  <2>1. \A k \in Jobs : job'[k].lease = job[k].lease
    BY <1>14 DEF UpdateEnabled, TypeOK, Job
  <2> QED
    BY <1>14, <2>1, LeaseStay DEF UpdateEnabled, BusyWith, Busy, Holds
<1>15. CASE UpdateSetting
  BY <1>15, LeaseStay DEF UpdateSetting, BusyWith, Busy, Holds
<1>16. CASE UNCHANGED vars
  BY <1>16, LeaseStay DEF vars, BusyWith, Busy, Holds
<1>17. ASSUME NEW r \in Runners, runner[r].step \in {"idle", "pass"} PROVE ~Busy(r)
  BY <1>17 DEF Busy
<1> QED
  BY <1>1, <1>2, <1>3, <1>4, <1>5, <1>6, <1>7, <1>8, <1>10, <1>11, <1>12, <1>13,
     <1>14, <1>15, <1>16, <1>17 DEF Next, RunnerStep, TakeJob, RunNow

\* Only a race between two checks, or an expired lease, lets two runs of a job overlap.
THEOREM LeaseExclusion == Spec => []LeaseExcludes
<1>1. LeaseInv => LeaseExcludes
  BY DEF LeaseInv
<1> QED
  BY <1>1, TypeCorrect, LeaseInit, LeaseNext, PTL DEF Spec

\* The row shows the lease of an undefeated run until that run releases it.
THEOREM LeaseShown == Spec => []LeaseIsShown
<1>1. LeaseInv => LeaseIsShown
  BY DEF LeaseInv
<1> QED
  BY <1>1, TypeCorrect, LeaseInit, LeaseNext, PTL DEF Spec

-----------------------------------------------------------------------------
(* The policy engine: what keeps runs of one process apart keeps a decision *)
(* to act from being taken twice.                                           *)

\* The control plane is one process.  The guard is a variable of a process (engine.ts:543), and
\* keeps no two replicas apart.
OneProcess == \A e, f \in Evaluators : Home[e] = Home[f]

Active(e) == ev[e].step # "idle"
Deciding == {"cooldown", "check", "write", "persist"}
Placed == Deciding \cup {"observe"}

\* A run works on a policy as it was listed, and on a target of it.
Listed(listed) == DOMAIN listed \subseteq Policies /\ \A p \in DOMAIN listed : listed[p].draft \in Draft
Pairs(listed) == {<<p, t>> : p \in DOMAIN listed, t \in Targets}
Place(state) ==
  /\ state = [step |-> state.step, listed |-> state.listed, todo |-> state.todo, at |-> state.at,
              now |-> state.now, read |-> state.read, result |-> state.result]
  /\ Listed(state.listed) /\ state.todo \subseteq Pairs(state.listed) /\ state.at \in Pairs(state.listed)

PolicyTyped ==
  /\ clock \in Nat
  /\ DOMAIN policy = Policies /\ \A p \in Policies : policy[p] # None => policy[p].draft \in Draft /\ "draft" \in DOMAIN policy[p]
  /\ running \in [Processes -> BOOLEAN]
  /\ DOMAIN ev = Evaluators
  /\ \A e \in Evaluators : ev[e].step \in EvaluationSteps
  /\ \A e \in Evaluators : ev[e].step \in Placed => Place(ev[e])
  /\ acted \in [Policies \X Targets -> Nat \cup {None}]

\* One run at a time, and the guard of its process is set.
Guarded ==
  /\ \A e \in Evaluators : Active(e) => running[Home[e]]
  /\ \A e, f \in Evaluators : Active(e) /\ Active(f) => e = f

\* Every decision to act that was kept has its row, with the moment its evaluation began.
HasRow(k) == \E x \in rows : x.policy = k[1] /\ x.target = k[2] /\ x.tag = "ACTION" /\ x.at = acted[k]
ActedHasRow ==
  /\ \A x \in rows : x.tag = "ACTION" => x.result \in {"APPLIED", "NO_OP"}
  /\ \A k \in Policies \X Targets : acted[k] # None => acted[k] <= clock /\ HasRow(k)

\* A run decides at a moment that is not before any decision that was kept, and goes on to
\* act only after the cooldown of the last one.
Decided ==
  \A e \in Evaluators :
    /\ ev[e].step \in Deciding =>
         /\ ev[e].now \in 0 .. clock
         /\ \A k \in Policies \X Targets : acted[k] # None => acted[k] <= ev[e].now
    /\ ev[e].step = "persist" => ev[e].result \in {"APPLIED", "NO_OP"}
    /\ ev[e].step = "check" /\ acted[ev[e].at] # None
         => ev[e].now - acted[ev[e].at] >= Row(e).draft.cooldown

CooldownInv == PolicyTyped /\ Guarded /\ ActedHasRow /\ Decided

-----------------------------------------------------------------------------
(* Steps of a run. *)

LEMMA TargetsAreTargets == ASSUME NEW kind \in {"DEVICE", "NODE", "SYSTEM"} PROVE TargetsForPolicy(kind) \subseteq Targets
BY DEF TargetsForPolicy, Targets

LEMMA WorkIsPairs == ASSUME NEW listed, Listed(listed) PROVE Work(listed) \subseteq Pairs(listed)
<1> SUFFICES ASSUME NEW k \in Work(listed) PROVE k \in Pairs(listed)
  OBVIOUS
<1>1. PICK p \in DOMAIN listed : k \in {<<p, t>> : t \in TargetsForPolicy(listed[p].draft.kind)}
  BY DEF Work
<1>2. listed[p].draft.kind \in {"DEVICE", "NODE", "SYSTEM"}
  BY DEF Listed, Draft
<1> QED
  BY <1>1, <1>2, TargetsAreTargets DEF Pairs

LEMMA OthersIdle == ASSUME Guarded, NEW e \in Evaluators, Active(e), NEW f \in Evaluators, f # e
                    PROVE  ev[f].step = "idle"
BY DEF Guarded, Active

\* A run that goes on to another step of its evaluation, or begins.
LEMMA Arrives ==
  ASSUME CooldownInv, NEW e \in Evaluators, NEW s, ev' = [ev EXCEPT ![e] = s],
         \A f \in Evaluators : f # e => ev[f].step = "idle",
         s.step \in EvaluationSteps, s.step \in Placed => Place(s),
         running' \in [Processes -> BOOLEAN], running'[Home[e]], UNCHANGED <<clock, policy>>,
         acted' \in [Policies \X Targets -> Nat \cup {None}]
  PROVE  PolicyTyped' /\ Guarded'
<1>1. DOMAIN ev' = Evaluators /\ \A f \in Evaluators : ev'[f] = IF f = e THEN s ELSE ev[f]
  BY DEF CooldownInv, PolicyTyped
<1>2. PolicyTyped'
  BY <1>1 DEF CooldownInv, PolicyTyped
<1>3. Guarded'
  BY <1>1 DEF Guarded, Active
<1> QED
  BY <1>2, <1>3

\* A run that ends gives the guard back.
LEMMA Ends ==
  ASSUME CooldownInv, NEW e \in Evaluators, Active(e), Release(e), UNCHANGED <<clock, policy>>,
         acted' \in [Policies \X Targets -> Nat \cup {None}]
  PROVE  PolicyTyped' /\ Guarded' /\ \A f \in Evaluators : ev'[f].step = "idle"
<1>1. DOMAIN ev' = Evaluators /\ \A f \in Evaluators : ev'[f] = IF f = e THEN Idle ELSE ev[f]
  BY DEF CooldownInv, PolicyTyped, Release, Move
<1>2. \A f \in Evaluators : ev'[f].step = "idle"
  BY <1>1, OthersIdle DEF CooldownInv, Idle
<1>3. running' \in [Processes -> BOOLEAN]
  BY DEF CooldownInv, PolicyTyped, Release
<1>4. PolicyTyped'
  BY <1>1, <1>2, <1>3 DEF CooldownInv, PolicyTyped, EvaluationSteps, Placed, Deciding
<1>5. Guarded'
  BY <1>2 DEF Guarded, Active
<1> QED
  BY <1>2, <1>4, <1>5

LEMMA Continues ==
  ASSUME CooldownInv, NEW e \in Evaluators, Active(e), UNCHANGED <<clock, policy>>,
         acted' \in [Policies \X Targets -> Nat \cup {None}],
         NEW listed, NEW todo, Listed(listed), todo \subseteq Pairs(listed), Continue(e, listed, todo)
  PROVE  PolicyTyped' /\ Guarded' /\ Decided'
<1>1. CASE todo = {}
  <2>1. Release(e)
    BY <1>1 DEF Continue
  <2> QED
    BY <2>1, Ends DEF Decided, Deciding
<1>2. CASE todo # {}
  <2>1. PICK k \in First(todo) : Move(e, [step |-> "observe", listed |-> listed, todo |-> todo, at |-> k,
                                    now |-> None, read |-> None, result |-> None])
    BY <1>2 DEF Continue
  <2> DEFINE s == [step |-> "observe", listed |-> listed, todo |-> todo, at |-> k,
                  now |-> None, read |-> None, result |-> None]
  <2>2. Place(s) /\ s.step = "observe"
    BY <2>1 DEF First, Place
  <2>3. ev' = [ev EXCEPT ![e] = s] /\ running' = running
    BY <1>2, <2>1 DEF Continue, Move
  <2> HIDE DEF s
  <2>4. \A f \in Evaluators : f # e => ev[f].step = "idle"
    BY OthersIdle DEF CooldownInv
  <2>5. PolicyTyped' /\ Guarded'
    BY <2>2, <2>3, <2>4, Arrives DEF CooldownInv, PolicyTyped, Guarded, EvaluationSteps
  <2>6. \A f \in Evaluators : ev'[f] = IF f = e THEN s ELSE ev[f]
    BY <2>3 DEF CooldownInv, PolicyTyped
  <2>7. \A f \in Evaluators : ev'[f].step \notin Deciding
    BY <2>2, <2>4, <2>6 DEF Deciding
  <2> QED
    BY <2>5, <2>7 DEF Decided, Deciding
<1> QED
  BY <1>1, <1>2

LEMMA TakesNext ==
  ASSUME CooldownInv, NEW e \in Evaluators, ev[e].step \in Placed, UNCHANGED <<clock, policy>>,
         acted' \in [Policies \X Targets -> Nat \cup {None}], NextTarget(e)
  PROVE  PolicyTyped' /\ Guarded' /\ Decided'
<1>1. Place(ev[e]) /\ Active(e)
  BY DEF CooldownInv, PolicyTyped, Active, Placed, Deciding
<1>2. Listed(ev[e].listed) /\ ev[e].todo \ {ev[e].at} \subseteq Pairs(ev[e].listed)
  BY <1>1 DEF Place
<1> QED
  BY <1>1, <1>2, Continues DEF NextTarget

\* A row of another kind takes no row of an action away.
LEMMA OtherRow ==
  ASSUME CooldownInv, NEW e \in Evaluators, NEW tag \in Tags \ {"ACTION"}, NEW bucket, NEW result, NEW now,
         PersistExecution(e, tag, bucket, result, now), UNCHANGED <<clock, acted>>
  PROVE  ActedHasRow'
<1>1. \A x \in rows : x.tag = "ACTION" => x \in rows'
  BY DEF PersistExecution, Tags
<1>2. \A x \in rows' : x.tag = "ACTION" => x \in rows
  BY DEF PersistExecution, Tags
<1> QED
  BY <1>1, <1>2 DEF CooldownInv, ActedHasRow, HasRow

LEMMA SameRows == ASSUME CooldownInv, UNCHANGED <<clock, rows, acted>> PROVE ActedHasRow'
BY DEF CooldownInv, ActedHasRow, HasRow

\* A run that goes on to a step of its decision.
LEMMA Decides ==
  ASSUME CooldownInv, NEW e \in Evaluators, Active(e), NEW s, ev' = [ev EXCEPT ![e] = s],
         s.step \in Deciding, Place(s), UNCHANGED <<clock, policy, rows, running, acted>>,
         s.now \in 0 .. clock, \A k \in Policies \X Targets : acted[k] # None => acted[k] <= s.now,
         s.step = "persist" => s.result \in {"APPLIED", "NO_OP"},
         s.step = "check" /\ acted[s.at] # None => s.now - acted[s.at] >= s.listed[s.at[1]].draft.cooldown
  PROVE  CooldownInv'
<1>1. \A f \in Evaluators : ev'[f] = IF f = e THEN s ELSE ev[f]
  BY DEF CooldownInv, PolicyTyped
<1>2. \A f \in Evaluators : f # e => ev[f].step = "idle"
  BY OthersIdle DEF CooldownInv
<1>3. PolicyTyped' /\ Guarded'
  BY <1>2, Arrives DEF CooldownInv, PolicyTyped, Guarded, Deciding, EvaluationSteps
<1>4. Decided'
  <2>1. ASSUME NEW f \in Evaluators, f # e
        PROVE  ev'[f].step \notin Deciding
    BY <1>1, <1>2, <2>1 DEF Deciding
  <2>2. ev'[e] = s /\ Row(e)' = s.listed[s.at[1]]
    BY <1>1 DEF Row
  <2> QED
    BY <2>1, <2>2 DEF Decided, Deciding
<1> QED
  BY <1>3, <1>4, SameRows DEF CooldownInv

\* What a state of a decision keeps when its step and a field change.
LEMMA MovesStep ==
  ASSUME NEW s, Place(s), NEW step
  PROVE  [s EXCEPT !.step = step] = [step |-> step, listed |-> s.listed, todo |-> s.todo, at |-> s.at,
                                     now |-> s.now, read |-> s.read, result |-> s.result]
BY DEF Place

LEMMA MovesNow ==
  ASSUME NEW s, Place(s), NEW step, NEW x
  PROVE  [s EXCEPT !.step = step, !.now = x] = [step |-> step, listed |-> s.listed, todo |-> s.todo, at |-> s.at,
                                                now |-> x, read |-> s.read, result |-> s.result]
<1> DEFINE t == [step |-> step, listed |-> s.listed, todo |-> s.todo, at |-> s.at,
                 now |-> s.now, read |-> s.read, result |-> s.result]
<1>1. [s EXCEPT !.step = step] = t
  BY MovesStep
<1>2. [s EXCEPT !.step = step, !.now = x] = [t EXCEPT !.now = x]
  BY <1>1, Zenon
<1>3. [t EXCEPT !.now = x] = [step |-> step, listed |-> s.listed, todo |-> s.todo, at |-> s.at,
       now |-> x, read |-> s.read, result |-> s.result]
  OBVIOUS
<1> QED
  BY <1>2, <1>3, Zenon

LEMMA MovesRead ==
  ASSUME NEW s, Place(s), NEW step, NEW x
  PROVE  [s EXCEPT !.step = step, !.read = x] = [step |-> step, listed |-> s.listed, todo |-> s.todo, at |-> s.at,
                                                 now |-> s.now, read |-> x, result |-> s.result]
<1> DEFINE t == [step |-> step, listed |-> s.listed, todo |-> s.todo, at |-> s.at,
                 now |-> s.now, read |-> s.read, result |-> s.result]
<1>1. [s EXCEPT !.step = step] = t
  BY MovesStep
<1>2. [s EXCEPT !.step = step, !.read = x] = [t EXCEPT !.read = x]
  BY <1>1, Zenon
<1>3. [t EXCEPT !.read = x] = [step |-> step, listed |-> s.listed, todo |-> s.todo, at |-> s.at,
       now |-> s.now, read |-> x, result |-> s.result]
  OBVIOUS
<1> QED
  BY <1>2, <1>3, Zenon

LEMMA MovesResult ==
  ASSUME NEW s, Place(s), NEW step, NEW x
  PROVE  [s EXCEPT !.step = step, !.result = x] = [step |-> step, listed |-> s.listed, todo |-> s.todo, at |-> s.at,
                                                   now |-> s.now, read |-> s.read, result |-> x]
<1> DEFINE t == [step |-> step, listed |-> s.listed, todo |-> s.todo, at |-> s.at,
                 now |-> s.now, read |-> s.read, result |-> s.result]
<1>1. [s EXCEPT !.step = step] = t
  BY MovesStep
<1>2. [s EXCEPT !.step = step, !.result = x] = [t EXCEPT !.result = x]
  BY <1>1, Zenon
<1>3. [t EXCEPT !.result = x] = [step |-> step, listed |-> s.listed, todo |-> s.todo, at |-> s.at,
       now |-> s.now, read |-> s.read, result |-> x]
  OBVIOUS
<1> QED
  BY <1>2, <1>3, Zenon

LEMMA PlaceOf ==
  ASSUME NEW s, Place(s), NEW step, NEW now, NEW read, NEW result
  PROVE  Place([step |-> step, listed |-> s.listed, todo |-> s.todo, at |-> s.at,
                now |-> now, read |-> read, result |-> result])
BY DEF Place

\* The facts of a run that is deciding.
LEMMA DecidingFacts ==
  ASSUME CooldownInv, NEW e \in Evaluators, ev[e].step \in Placed
  PROVE  /\ Place(ev[e]) /\ Active(e) /\ ev[e].at \in Policies \X Targets
         /\ ev[e].at[1] \in DOMAIN ev[e].listed /\ Row(e).draft \in Draft
         /\ ev[e].at = <<ev[e].at[1], ev[e].at[2]>>
<1>1. Place(ev[e]) /\ Active(e)
  BY DEF CooldownInv, PolicyTyped, Active, Placed, Deciding
<1>2. ev[e].at \in Pairs(ev[e].listed) /\ Listed(ev[e].listed)
  BY <1>1 DEF Place
<1>3. PICK p \in DOMAIN ev[e].listed, t \in Targets : ev[e].at = <<p, t>>
  BY <1>2 DEF Pairs
<1> QED
  BY <1>1, <1>2, <1>3 DEF Listed, Row

LEMMA StepEvaluateTarget ==
  ASSUME CooldownInv, NEW e \in Evaluators, EvaluateTarget(e) PROVE CooldownInv'
<1>1. ev[e].step = "observe" /\ UNCHANGED <<clock, policy, acted>>
  BY DEF EvaluateTarget
<1>2. Place(ev[e]) /\ Active(e)
  BY <1>1, DecidingFacts DEF Placed
<1>3. ASSUME NEW tag \in Tags \ {"ACTION"}, NEW bucket, NEW result,
             PersistExecution(e, tag, bucket, result, clock), NextTarget(e)
      PROVE  CooldownInv'
  BY <1>1, <1>3, OtherRow, TakesNext DEF CooldownInv, PolicyTyped, Placed
<1>4. CASE NextTarget(e) /\ UNCHANGED rows
  BY <1>1, <1>4, SameRows, TakesNext DEF CooldownInv, PolicyTyped, Placed
<1>5. CASE Move(e, [ev[e] EXCEPT !.step = "cooldown", !.now = clock]) /\ UNCHANGED <<rows, running>>
  <2> DEFINE s == [step |-> "cooldown", listed |-> ev[e].listed, todo |-> ev[e].todo, at |-> ev[e].at,
                   now |-> clock, read |-> ev[e].read, result |-> ev[e].result]
  <2>4. [ev[e] EXCEPT !.step = "cooldown", !.now = clock] = s
    BY <1>2, MovesNow
  <2>1. ev' = [ev EXCEPT ![e] = s]
    BY <1>5, <2>4 DEF Move
  <2>2. Place(s) /\ s.step = "cooldown" /\ s.now = clock
    BY <1>2, PlaceOf
  <2> HIDE DEF s
  <2>3. clock \in 0 .. clock /\ \A k \in Policies \X Targets : acted[k] # None => acted[k] <= clock
    BY DEF CooldownInv, PolicyTyped, ActedHasRow
  <2> QED
    BY <1>1, <1>2, <1>5, <2>1, <2>2, <2>3, Decides DEF Deciding
<1>6. "UNMEASURABLE" \in Tags \ {"ACTION"} /\ "OVERRIDE" \in Tags \ {"ACTION"} /\ "DRYRUN" \in Tags \ {"ACTION"}
  BY DEF Tags
<1> QED
  BY <1>3, <1>4, <1>5, <1>6 DEF EvaluateTarget

\* Past the cooldown, the last decision to act that was kept is as old as the cooldown: its
\* row would be a recent one otherwise.
LEMMA StepCheckCooldown ==
  ASSUME CooldownInv, NEW e \in Evaluators, CheckCooldown(e) PROVE CooldownInv'
<1>1. ev[e].step = "cooldown" /\ UNCHANGED <<clock, policy, acted>>
  BY DEF CheckCooldown
<1>2. /\ Place(ev[e]) /\ Active(e) /\ ev[e].at \in Policies \X Targets /\ Row(e).draft \in Draft
      /\ ev[e].at = <<ev[e].at[1], ev[e].at[2]>>
  BY <1>1, DecidingFacts DEF Placed, Deciding
<1>3. CASE CooldownActive(e)
  <2>1. PersistExecution(e, "COOLDOWN", MinuteBucket(ev[e].now), "COOLDOWN", ev[e].now) /\ NextTarget(e)
    BY <1>3 DEF CheckCooldown
  <2>2. "COOLDOWN" \in Tags \ {"ACTION"}
    BY DEF Tags
  <2> QED
    BY <1>1, <2>1, <2>2, OtherRow, TakesNext DEF CooldownInv, PolicyTyped, Placed, Deciding
<1>4. CASE ~CooldownActive(e)
  <2> DEFINE s == [step |-> "check", listed |-> ev[e].listed, todo |-> ev[e].todo, at |-> ev[e].at,
                   now |-> ev[e].now, read |-> ev[e].read, result |-> ev[e].result]
  <2>1. ev' = [ev EXCEPT ![e] = s] /\ UNCHANGED <<rows, running>>
    BY <1>2, <1>4, MovesStep DEF Move, CheckCooldown
  <2>2. /\ Place(s) /\ s.step = "check" /\ s.now = ev[e].now /\ s.at = ev[e].at
        /\ s.listed[s.at[1]] = Row(e)
    BY <1>2, PlaceOf DEF Row
  <2> HIDE DEF s
  <2>3. ev[e].now \in 0 .. clock /\ \A k \in Policies \X Targets : acted[k] # None => acted[k] <= ev[e].now
    BY <1>1 DEF CooldownInv, Decided, Deciding
  <2>4. ASSUME acted[ev[e].at] # None PROVE ev[e].now - acted[ev[e].at] >= Row(e).draft.cooldown
    <3>1. PICK x \in rows : /\ x.policy = ev[e].at[1] /\ x.target = ev[e].at[2] /\ x.tag = "ACTION"
                            /\ x.at = acted[ev[e].at]
      BY <1>2, <2>4 DEF CooldownInv, ActedHasRow, HasRow
    <3>2. x.result \in {"APPLIED", "NO_OP"} /\ <<x.policy, x.target>> = ev[e].at
      BY <1>2, <3>1 DEF CooldownInv, ActedHasRow
    <3>3. acted[ev[e].at] \in Nat /\ acted[ev[e].at] <= ev[e].now /\ ev[e].now \in Nat
      BY <1>2, <2>3, <2>4 DEF CooldownInv, PolicyTyped
    <3>4. Row(e).draft.cooldown \in Nat
      BY <1>2 DEF Draft
    <3>5. ~(ev[e].now - x.at < Row(e).draft.cooldown)
      BY <1>4, <3>1, <3>2, <3>3 DEF CooldownActive, Recent
    <3> QED
      BY <3>1, <3>3, <3>4, <3>5
  <2> QED
    BY <1>1, <1>2, <2>1, <2>2, <2>3, <2>4, Decides DEF Deciding
<1> QED
  BY <1>3, <1>4

LEMMA StepCheckAction ==
  ASSUME CooldownInv, NEW e \in Evaluators, CheckAction(e) PROVE CooldownInv'
<1>1. ev[e].step = "check" /\ UNCHANGED <<clock, policy, rows, running, acted>>
  BY DEF CheckAction
<1>2. Place(ev[e]) /\ Active(e)
  BY <1>1, DecidingFacts DEF Placed, Deciding
<1>3. ev[e].now \in 0 .. clock /\ \A k \in Policies \X Targets : acted[k] # None => acted[k] <= ev[e].now
  BY <1>1 DEF CooldownInv, Decided, Deciding
<1>4. CASE Move(e, [ev[e] EXCEPT !.step = "persist", !.result = "NO_OP"])
  <2> DEFINE s == [step |-> "persist", listed |-> ev[e].listed, todo |-> ev[e].todo, at |-> ev[e].at,
                   now |-> ev[e].now, read |-> ev[e].read, result |-> "NO_OP"]
  <2>4. [ev[e] EXCEPT !.step = "persist", !.result = "NO_OP"] = s
    BY <1>2, MovesResult
  <2>1. ev' = [ev EXCEPT ![e] = s]
    BY <1>4, <2>4, Zenon DEF Move
  <2>2. Place(s) /\ s.step = "persist" /\ s.now = ev[e].now /\ s.result = "NO_OP"
    BY <1>2, PlaceOf
  <2> HIDE DEF s
  <2> QED
    BY <1>1, <1>2, <1>3, <2>1, <2>2, Decides DEF Deciding
<1>5. ASSUME NEW read, Move(e, [ev[e] EXCEPT !.step = "write", !.read = read])
      PROVE  CooldownInv'
  <2> DEFINE s == [step |-> "write", listed |-> ev[e].listed, todo |-> ev[e].todo, at |-> ev[e].at,
                   now |-> ev[e].now, read |-> read, result |-> ev[e].result]
  <2>1. ev' = [ev EXCEPT ![e] = s]
    BY <1>2, <1>5, MovesRead DEF Move
  <2>2. Place(s) /\ s.step = "write" /\ s.now = ev[e].now
    BY <1>2, PlaceOf
  <2> HIDE DEF s
  <2> QED
    BY <1>1, <1>2, <1>3, <2>1, <2>2, Decides DEF Deciding
<1> QED
  BY <1>4, <1>5 DEF CheckAction

LEMMA StepRefuse ==
  ASSUME CooldownInv, NEW e \in Evaluators, ev[e].step \in Placed, Refuse(e), UNCHANGED <<clock, policy, acted>>
  PROVE  CooldownInv'
<1>1. "FAILED" \in Tags \ {"ACTION"}
  BY DEF Tags
<1> QED
  BY <1>1, OtherRow, TakesNext DEF Refuse, CooldownInv, PolicyTyped

LEMMA StepWriteAction ==
  ASSUME CooldownInv, NEW e \in Evaluators, WriteAction(e) PROVE CooldownInv'
<1>1. ev[e].step = "write" /\ UNCHANGED <<clock, policy, acted>>
  BY DEF WriteAction
<1>2. Place(ev[e]) /\ Active(e)
  BY <1>1, DecidingFacts DEF Placed, Deciding
<1>3. CASE Refuse(e)
  BY <1>1, <1>3, StepRefuse DEF Placed, Deciding
<1>4. CASE Move(e, [ev[e] EXCEPT !.step = "persist", !.result = "APPLIED"]) /\ UNCHANGED <<rows, running>>
  <2> DEFINE s == [step |-> "persist", listed |-> ev[e].listed, todo |-> ev[e].todo, at |-> ev[e].at,
                   now |-> ev[e].now, read |-> ev[e].read, result |-> "APPLIED"]
  <2>4. [ev[e] EXCEPT !.step = "persist", !.result = "APPLIED"] = s
    BY <1>2, MovesResult
  <2>1. ev' = [ev EXCEPT ![e] = s]
    BY <1>4, <2>4, Zenon DEF Move
  <2>2. Place(s) /\ s.step = "persist" /\ s.now = ev[e].now /\ s.result = "APPLIED"
    BY <1>2, PlaceOf
  <2>3. ev[e].now \in 0 .. clock /\ \A k \in Policies \X Targets : acted[k] # None => acted[k] <= ev[e].now
    BY <1>1 DEF CooldownInv, Decided, Deciding
  <2> HIDE DEF s
  <2> QED
    BY <1>1, <1>2, <1>4, <2>1, <2>2, <2>3, Decides DEF Deciding
<1> QED
  BY <1>3, <1>4 DEF WriteAction

\* The row of the decision replaces the one of its key, whose result it keeps; the rows of
\* every other pair stay.
LEMMA StepPersist ==
  ASSUME CooldownInv, NEW e \in Evaluators, Persist(e) PROVE CooldownInv'
<1>1. /\ ev[e].step = "persist" /\ UNCHANGED <<clock, policy>> /\ NextTarget(e)
      /\ PersistExecution(e, "ACTION", MinuteBucket(ev[e].now), ev[e].result, ev[e].now)
      /\ acted' = IF policy[ev[e].at[1]] = None THEN acted ELSE [acted EXCEPT ![ev[e].at] = ev[e].now]
  BY DEF Persist
<1>2. ev[e].at \in Policies \X Targets /\ ev[e].at = <<ev[e].at[1], ev[e].at[2]>>
  BY <1>1, DecidingFacts DEF Placed, Deciding
<1>3. ev[e].now \in 0 .. clock /\ ev[e].result \in {"APPLIED", "NO_OP"} /\ clock \in Nat
  BY <1>1 DEF CooldownInv, Decided, Deciding, PolicyTyped
<1>4. acted \in [Policies \X Targets -> Nat \cup {None}] /\ ev[e].now \in Nat
  BY <1>3 DEF CooldownInv, PolicyTyped
<1>5. acted' \in [Policies \X Targets -> Nat \cup {None}]
  BY <1>1, <1>2, <1>4
<1>6. PolicyTyped' /\ Guarded' /\ Decided'
  BY <1>1, <1>5, TakesNext DEF Placed, Deciding
<1>7. CASE policy[ev[e].at[1]] = None
  <2>1. UNCHANGED <<clock, rows, acted>>
    BY <1>1, <1>7 DEF PersistExecution
  <2> QED
    BY <1>6, <2>1, SameRows DEF CooldownInv
<1>8. CASE policy[ev[e].at[1]] # None
  <2> DEFINE old == {x \in rows : x.policy = ev[e].at[1] /\ x.target = ev[e].at[2] /\ x.tag = "ACTION"
                                  /\ x.bucket = MinuteBucket(ev[e].now)}
             kept == IF old = {} THEN ev[e].result ELSE (CHOOSE x \in old : TRUE).result
             row == [policy |-> ev[e].at[1], target |-> ev[e].at[2], tag |-> "ACTION",
                     bucket |-> MinuteBucket(ev[e].now), result |-> kept, at |-> ev[e].now]
  <2>1. rows' = (rows \ old) \cup {row}
    BY <1>1, <1>8 DEF PersistExecution
  <2>2. \A x \in old : x \in rows /\ x.tag = "ACTION" /\ x.policy = ev[e].at[1] /\ x.target = ev[e].at[2]
    OBVIOUS
  <2>3. kept \in {"APPLIED", "NO_OP"}
    <3>1. CASE old = {}
      BY <1>3, <3>1
    <3>2. CASE old # {}
      <4>1. (CHOOSE x \in old : TRUE) \in old
        BY <3>2
      <4> QED
        BY <2>2, <3>2, <4>1 DEF CooldownInv, ActedHasRow
    <3> QED
      BY <3>1, <3>2
  <2>4. /\ row.policy = ev[e].at[1] /\ row.target = ev[e].at[2] /\ row.tag = "ACTION" /\ row.at = ev[e].now
        /\ row.result = kept
    OBVIOUS
  <2> HIDE DEF old, kept, row
  <2>5. \A x \in rows' : x.tag = "ACTION" => x.result \in {"APPLIED", "NO_OP"}
    BY <2>1, <2>3, <2>4 DEF CooldownInv, ActedHasRow
  <2>6. ASSUME NEW k \in Policies \X Targets, acted'[k] # None
        PROVE  acted'[k] <= clock' /\ HasRow(k)'
    <3>1. CASE k = ev[e].at
      <4>1. acted'[k] = ev[e].now
        BY <1>1, <1>2, <1>4, <1>8, <3>1
      <4>2. row \in rows' /\ row.policy = k[1] /\ row.target = k[2] /\ row.tag = "ACTION" /\ row.at = acted'[k]
        BY <2>1, <2>4, <3>1, <4>1
      <4>3. HasRow(k)'
        BY <4>2 DEF HasRow
      <4> QED
        BY <1>1, <1>3, <4>1, <4>3
    <3>2. CASE k # ev[e].at
      <4>1. acted'[k] = acted[k]
        BY <1>1, <1>4, <1>8, <3>2
      <4>2. PICK x \in rows : x.policy = k[1] /\ x.target = k[2] /\ x.tag = "ACTION" /\ x.at = acted[k]
        BY <2>6, <4>1 DEF CooldownInv, ActedHasRow, HasRow
      <4>3. k = <<k[1], k[2]>>
        OBVIOUS
      <4>4. x \notin old
        BY <1>2, <2>2, <3>2, <4>2, <4>3
      <4>5. HasRow(k)'
        BY <2>1, <4>1, <4>2, <4>4 DEF HasRow
      <4> QED
        BY <1>1, <2>6, <4>1, <4>5 DEF CooldownInv, ActedHasRow
    <3> QED
      BY <3>1, <3>2
  <2>7. ActedHasRow'
    BY <2>5, <2>6 DEF ActedHasRow
  <2> QED
    BY <1>6, <2>7 DEF CooldownInv
<1> QED
  BY <1>7, <1>8

LEMMA StepListPolicies ==
  ASSUME CooldownInv, NEW e \in Evaluators, ListPolicies(e) PROVE CooldownInv'
<1> DEFINE listed == [p \in {q \in Policies : policy[q] # None /\ policy[q].enabled} |-> policy[p]]
<1>1. /\ ev[e].step = "list" /\ Continue(e, listed, Work(listed))
      /\ UNCHANGED <<clock, policy, rows, acted>>
  BY DEF ListPolicies
<1>2. Listed(listed)
  BY DEF Listed, CooldownInv, PolicyTyped
<1> HIDE DEF listed
<1>3. Work(listed) \subseteq Pairs(listed)
  BY <1>2, WorkIsPairs
<1>4. PolicyTyped' /\ Guarded' /\ Decided'
  BY <1>1, <1>2, <1>3, Continues DEF Active, CooldownInv, PolicyTyped
<1> QED
  BY <1>1, <1>4, SameRows DEF CooldownInv

\* The guard of the one process is down only when no run is under way.
LEMMA StepStartRun ==
  ASSUME OneProcess, CooldownInv, NEW e \in Evaluators, StartRun(e) PROVE CooldownInv'
<1> DEFINE s == [step |-> "list"]
<1>1. /\ ev[e] = Idle /\ ~running[Home[e]] /\ running' = [running EXCEPT ![Home[e]] = TRUE]
      /\ ev' = [ev EXCEPT ![e] = s] /\ UNCHANGED <<clock, policy, rows, acted>>
  BY DEF StartRun, Move
<1>2. s.step = "list"
  OBVIOUS
<1> HIDE DEF s
<1>3. \A f \in Evaluators : ev[f].step = "idle"
  BY <1>1 DEF OneProcess, CooldownInv, Guarded, Active
<1>4. Home[e] \in Processes /\ running \in [Processes -> BOOLEAN]
  BY HomeAssumption DEF CooldownInv, PolicyTyped
<1>5. running' \in [Processes -> BOOLEAN] /\ running'[Home[e]]
  BY <1>1, <1>4
<1>6. s.step \in EvaluationSteps /\ s.step \notin Placed
  BY <1>2 DEF EvaluationSteps, Placed, Deciding
<1>7. acted' \in [Policies \X Targets -> Nat \cup {None}]
  BY <1>1 DEF CooldownInv, PolicyTyped
<1>8. PolicyTyped' /\ Guarded'
  BY <1>1, <1>3, <1>5, <1>6, <1>7, Arrives
<1>9. \A f \in Evaluators : ev'[f].step \notin Deciding
  BY <1>1, <1>2, <1>3 DEF CooldownInv, PolicyTyped, Deciding
<1>10. Decided'
  BY <1>9 DEF Decided, Deciding
<1> QED
  BY <1>1, <1>8, <1>10, SameRows DEF CooldownInv

\* A failed statement ends the run or leaves the target.
LEMMA StepFails ==
  ASSUME CooldownInv, NEW e \in Evaluators,
         FailRun(e) \/ FailTarget(e) \/ FailAction(e) \/ LoseRow(e)
  PROVE  CooldownInv'
<1>1. acted' = acted /\ UNCHANGED <<clock, policy>> /\ acted' \in [Policies \X Targets -> Nat \cup {None}]
  BY DEF FailRun, FailTarget, FailAction, LoseRow, CooldownInv, PolicyTyped
<1>2. CASE FailRun(e)
  <2>1. Active(e) /\ Release(e) /\ rows' = rows
    BY <1>2 DEF FailRun, Active
  <2>2. PolicyTyped' /\ Guarded' /\ \A f \in Evaluators : ev'[f].step = "idle"
    BY <1>1, <2>1, Ends
  <2>3. Decided'
    BY <2>2 DEF Decided, Deciding
  <2> QED
    BY <1>1, <2>1, <2>2, <2>3, SameRows DEF CooldownInv
<1>3. CASE FailTarget(e) \/ LoseRow(e)
  <2>1. ev[e].step \in Placed /\ NextTarget(e) /\ rows' = rows
    BY <1>3 DEF FailTarget, LoseRow, Placed, Deciding
  <2> QED
    BY <1>1, <2>1, TakesNext, SameRows DEF CooldownInv
<1>4. CASE FailAction(e)
  BY <1>1, <1>4, StepRefuse DEF FailAction, Placed, Deciding
<1> QED
  BY <1>2, <1>3, <1>4

\* What goes on outside the runs: the clock, the operators' edits, the process.
LEMMA Outside ==
  ASSUME CooldownInv, clock' \in Nat, clock <= clock', UNCHANGED <<ev, running, rows, acted>>,
         DOMAIN policy' = Policies,
         \A p \in Policies : policy'[p] # None => policy'[p].draft \in Draft /\ "draft" \in DOMAIN policy'[p]
  PROVE  CooldownInv'
<1>1. PolicyTyped' /\ Guarded'
  BY DEF CooldownInv, PolicyTyped, Guarded, Active
<1>2. ActedHasRow'
  <2>1. ASSUME NEW k \in Policies \X Targets, acted[k] # None PROVE acted[k] <= clock'
    BY <2>1 DEF CooldownInv, ActedHasRow, PolicyTyped
  <2> QED
    BY <2>1 DEF CooldownInv, ActedHasRow, HasRow
<1>3. Decided'
  <2>1. ASSUME NEW e \in Evaluators, ev[e].step \in Deciding PROVE ev[e].now \in 0 .. clock'
    BY <2>1 DEF CooldownInv, Decided, PolicyTyped
  <2> QED
    BY <2>1 DEF CooldownInv, Decided, Row
<1> QED
  BY <1>1, <1>2, <1>3 DEF CooldownInv

\* The rows of a policy go with it, and so does what was kept of its decisions.
LEMMA StepDeletePolicy ==
  ASSUME CooldownInv, NEW p \in Policies, DeletePolicy(p) PROVE CooldownInv'
<1>1. /\ UNCHANGED <<clock, ev, running>> /\ policy' = [policy EXCEPT ![p] = None]
      /\ rows' = {x \in rows : x.policy # p}
      /\ acted' = [k \in DOMAIN acted |-> IF k[1] = p THEN None ELSE acted[k]]
  BY DEF DeletePolicy
<1>2. acted \in [Policies \X Targets -> Nat \cup {None}] /\ DOMAIN acted = Policies \X Targets
  BY DEF CooldownInv, PolicyTyped
<1>3. acted' \in [Policies \X Targets -> Nat \cup {None}]
  BY <1>1, <1>2
<1>4. \A k \in Policies \X Targets : acted'[k] # None => acted'[k] = acted[k] /\ k[1] # p
  BY <1>1, <1>2
<1>5. PolicyTyped' /\ Guarded'
  BY <1>1, <1>3 DEF CooldownInv, PolicyTyped, Guarded, Active
<1>6. ActedHasRow'
  <2>1. \A x \in rows' : x.tag = "ACTION" => x.result \in {"APPLIED", "NO_OP"}
    BY <1>1 DEF CooldownInv, ActedHasRow
  <2>2. ASSUME NEW k \in Policies \X Targets, acted'[k] # None
        PROVE  acted'[k] <= clock' /\ HasRow(k)'
    <3>1. acted'[k] = acted[k] /\ k[1] # p /\ acted[k] # None
      BY <1>4, <2>2
    <3>2. PICK x \in rows : x.policy = k[1] /\ x.target = k[2] /\ x.tag = "ACTION" /\ x.at = acted[k]
      BY <3>1 DEF CooldownInv, ActedHasRow, HasRow
    <3> QED
      BY <1>1, <3>1, <3>2 DEF CooldownInv, ActedHasRow, HasRow
  <2> QED
    BY <2>1, <2>2 DEF ActedHasRow
<1>7. Decided'
  <2>1. ASSUME NEW e \in Evaluators, ev[e].step = "check" PROVE ev[e].at \in Policies \X Targets
    BY <2>1, DecidingFacts DEF Placed, Deciding
  <2> QED
    BY <1>1, <1>4, <2>1 DEF CooldownInv, Decided, Row
<1> QED
  BY <1>5, <1>6, <1>7 DEF CooldownInv

LEMMA StepProcessDies ==
  ASSUME CooldownInv, NEW h \in Processes, ProcessDies(h) PROVE CooldownInv'
<1>1. /\ UNCHANGED <<clock, policy, rows, acted>> /\ running' = [running EXCEPT ![h] = FALSE]
      /\ ev' = [e \in Evaluators |-> IF Home[e] = h THEN Idle ELSE ev[e]]
  BY DEF ProcessDies
<1>2. \A e \in Evaluators : IF Home[e] = h THEN ev'[e].step = "idle" ELSE ev'[e] = ev[e]
  BY <1>1 DEF Idle
<1>3. running' \in [Processes -> BOOLEAN] /\ \A g \in Processes : g # h => running'[g] = running[g]
  BY <1>1 DEF CooldownInv, PolicyTyped
<1>4. PolicyTyped'
  BY <1>1, <1>2, <1>3 DEF CooldownInv, PolicyTyped, Placed, Deciding, EvaluationSteps
<1>5. Guarded'
  <2>1. ASSUME NEW e \in Evaluators, Active(e)' PROVE Active(e) /\ Home[e] # h
    BY <1>2, <2>1 DEF Active
  <2>2. ASSUME NEW e \in Evaluators, Active(e)' PROVE running'[Home[e]]
    BY <1>3, <2>1, <2>2, HomeAssumption DEF CooldownInv, Guarded
  <2> QED
    BY <2>1, <2>2 DEF CooldownInv, Guarded
<1>6. Decided'
  BY <1>1, <1>2 DEF CooldownInv, Decided, Deciding, Row
<1> QED
  BY <1>1, <1>4, <1>5, <1>6, SameRows DEF CooldownInv

LEMMA StepEdits ==
  ASSUME CooldownInv,
         \/ ClockTick
         \/ \E t \in Targets, metric \in Metrics : \E held \in Sources(metric) : Measure(t, metric, held)
         \/ \E t \in Devices \cup Nodes : ChangeTarget(t)
         \/ \E k \in Policies \X Targets : ReviewAnomaly(k)
         \/ \E p \in Policies :
              \/ \E draft \in Drafts, on \in BOOLEAN : UpdatePolicy(p, draft, on)
              \/ \E until \in {None} \cup (clock + 1 .. MaxClock) : SetPolicyOverride(p, until)
  PROVE  CooldownInv'
<1>1. clock \in Nat /\ DOMAIN policy = Policies
      /\ \A p \in Policies : policy[p] # None => policy[p].draft \in Draft /\ "draft" \in DOMAIN policy[p]
  BY DEF CooldownInv, PolicyTyped
<1>2. CASE ClockTick
  <2>1. clock' \in Nat /\ clock <= clock' /\ UNCHANGED <<ev, running, rows, acted, policy>>
    BY <1>1, <1>2 DEF ClockTick
  <2> QED
    BY <1>1, <2>1, Outside
<1>3. ASSUME UNCHANGED <<clock, policy, rows, running, ev, acted>> PROVE CooldownInv'
  BY <1>1, <1>3, Outside
<1>4. ASSUME NEW t, NEW metric, NEW held, Measure(t, metric, held) PROVE CooldownInv'
  BY <1>3, <1>4 DEF Measure
<1>5. ASSUME NEW t, ChangeTarget(t) PROVE CooldownInv'
  BY <1>3, <1>5 DEF ChangeTarget
<1>6. ASSUME NEW k, ReviewAnomaly(k) PROVE CooldownInv'
  BY <1>3, <1>6 DEF ReviewAnomaly
<1>7. ASSUME NEW p \in Policies, NEW draft \in Drafts, NEW on \in BOOLEAN, UpdatePolicy(p, draft, on)
      PROVE  CooldownInv'
  <2>1. /\ policy[p] # None /\ UNCHANGED <<clock, rows, running, ev, acted>>
        /\ policy' = [policy EXCEPT ![p] = [@ EXCEPT !.draft = draft, !.enabled = on]]
    BY <1>7 DEF UpdatePolicy
  <2> DEFINE row == [policy[p] EXCEPT !.draft = draft, !.enabled = on]
  <2>2. row.draft = draft /\ "draft" \in DOMAIN row
    BY <1>1, <2>1
  <2>3. policy' = [policy EXCEPT ![p] = row]
    BY <2>1
  <2> HIDE DEF row
  <2>4. draft \in Draft
    BY DraftsAssumption
  <2> QED
    BY <1>1, <2>1, <2>2, <2>3, <2>4, Outside
<1>8. ASSUME NEW p \in Policies, NEW until, SetPolicyOverride(p, until) PROVE CooldownInv'
  <2>1. /\ policy[p] # None /\ UNCHANGED <<clock, rows, running, ev, acted>>
        /\ policy' = [policy EXCEPT ![p] = [@ EXCEPT !.override = until]]
    BY <1>8 DEF SetPolicyOverride
  <2> DEFINE row == [policy[p] EXCEPT !.override = until]
  <2>2. row.draft = policy[p].draft /\ "draft" \in DOMAIN row
    BY <1>1, <2>1
  <2>3. policy' = [policy EXCEPT ![p] = row]
    BY <2>1
  <2> HIDE DEF row
  <2> QED
    BY <1>1, <2>1, <2>2, <2>3, Outside
<1> QED
  BY <1>2, <1>4, <1>5, <1>6, <1>7, <1>8

LEMMA CooldownStep == ASSUME OneProcess, CooldownInv, [PolicyNext]_policyVars PROVE CooldownInv'
<1>1. CASE UNCHANGED policyVars
  <2>1. UNCHANGED <<clock, policy, rows, running, ev, acted>>
    BY <1>1 DEF policyVars
  <2>2. clock' \in Nat /\ clock <= clock' /\ DOMAIN policy' = Policies
        /\ \A p \in Policies : policy'[p] # None => policy'[p].draft \in Draft /\ "draft" \in DOMAIN policy'[p]
    BY <2>1 DEF CooldownInv, PolicyTyped
  <2> QED
    BY <2>1, <2>2, Outside
<1>2. ASSUME NEW e \in Evaluators,
             StartRun(e) \/ Proceed(e) \/ FailRun(e) \/ FailTarget(e) \/ FailAction(e) \/ LoseRow(e)
      PROVE  CooldownInv'
  <2>1. CASE Proceed(e)
    BY <2>1, StepListPolicies, StepEvaluateTarget, StepCheckCooldown, StepCheckAction, StepWriteAction, StepPersist
       DEF Proceed
  <2> QED
    BY <1>2, <2>1, StepStartRun, StepFails
<1>3. ASSUME NEW p \in Policies, DeletePolicy(p) PROVE CooldownInv'
  BY <1>3, StepDeletePolicy
<1>4. ASSUME NEW h \in Processes, ProcessDies(h) PROVE CooldownInv'
  BY <1>4, StepProcessDies
<1> QED
  BY <1>1, <1>2, <1>3, <1>4, StepEdits DEF PolicyNext

LEMMA CooldownStart == ASSUME PolicyInit PROVE CooldownInv
<1>1. /\ clock = 0 /\ rows = {} /\ running = [h \in Processes |-> FALSE] /\ ev = [e \in Evaluators |-> Idle]
      /\ acted = [k \in Policies \X Targets |-> None]
      /\ policy \in [Policies -> {NewPolicy(draft) : draft \in {d \in Drafts : Validate(d)}}]
  BY DEF PolicyInit
<1>2. \A e \in Evaluators : ev[e].step = "idle"
  BY <1>1 DEF Idle
<1>3. ASSUME NEW p \in Policies PROVE policy[p].draft \in Draft /\ "draft" \in DOMAIN policy[p]
  <2>1. PICK draft \in Drafts : policy[p] = NewPolicy(draft)
    BY <1>1
  <2>2. policy[p].draft = draft /\ "draft" \in DOMAIN policy[p]
    BY <2>1 DEF NewPolicy
  <2> QED
    BY <2>2, DraftsAssumption
<1>4. PolicyTyped
  BY <1>1, <1>2, <1>3 DEF PolicyTyped, EvaluationSteps, Placed, Deciding
<1>5. Guarded /\ ActedHasRow /\ Decided
  BY <1>1, <1>2 DEF Guarded, Active, ActedHasRow, Decided, Deciding
<1> QED
  BY <1>4, <1>5 DEF CooldownInv

\* Of one policy on one target, a decision to act that was kept is followed by no other
\* before the cooldown has run out, in a control plane of one process (evaluatePolicies,
\* its guard, and the rows that the cooldown reads).
THEOREM CooldownKept == ASSUME OneProcess PROVE PolicySpec => CooldownHolds
<1>1. PolicyInit => CooldownInv
  BY CooldownStart
<1>2. CooldownInv /\ [PolicyNext]_policyVars => CooldownInv'
  BY CooldownStep
<1>3. CooldownInv /\ [PolicyNext]_policyVars
        => [\A e \in Evaluators :
              LET k == ev[e].at IN
              ev[e].step = "check" /\ ev'[e].step \in {"write", "persist"} /\ acted[k] # None
                => ev[e].now - acted[k] >= Row(e).draft.cooldown]_policyVars
  BY DEF CooldownInv, Decided
<1> QED
  BY <1>1, <1>2, <1>3, PTL DEF PolicySpec, CooldownHolds

\* The two tables agree on every action but a drain.
LEMMA TablesAgree ==
  ASSUME NEW p, NEW action, action # "DRAIN_NODE", NEW t, IsAlreadySatisfied(action, t)
  PROVE  AlreadyDone(p, action, t)
BY DEF IsAlreadySatisfied, AlreadyDone

\* Only the first read of a handler leads to its write, and only when it found work to do.
LEMMA WritesAfterCheck ==
  ASSUME DOMAIN ev = Evaluators, [PolicyNext]_policyVars, NEW e \in Evaluators,
         ev[e].step = "check", ev'[e].step = "write"
  PROVE  CheckAction(e) /\ ~AlreadyDone(ev[e].at[1], Row(e).draft.action, ev[e].at[2])
<1>1. ASSUME ev'[e] = ev[e] PROVE FALSE
  BY <1>1
<1>2. ASSUME NEW f \in Evaluators, NEW s, Move(f, s), f # e PROVE FALSE
  BY <1>1, <1>2 DEF Move
<1>3. ASSUME NEW f \in Evaluators, Release(f) PROVE FALSE
  BY <1>2, <1>3 DEF Release, Move, Idle
<1>4. ASSUME NEW f \in Evaluators, NEW listed, NEW todo, Continue(f, listed, todo) PROVE FALSE
  <2>1. CASE todo = {}
    BY <1>3, <1>4, <2>1 DEF Continue
  <2>2. CASE todo # {}
    <3>1. PICK k \in First(todo) : Move(f, [step |-> "observe", listed |-> listed, todo |-> todo, at |-> k,
                                      now |-> None, read |-> None, result |-> None])
      BY <1>4, <2>2 DEF Continue
    <3> QED
      BY <1>2, <3>1 DEF Move
  <2> QED
    BY <2>1, <2>2
<1>5. ASSUME NEW f \in Evaluators, NextTarget(f) PROVE FALSE
  BY <1>4, <1>5 DEF NextTarget
<1>6. ASSUME NEW f \in Evaluators, f # e,
             StartRun(f) \/ Proceed(f) \/ FailRun(f) \/ FailTarget(f) \/ FailAction(f) \/ LoseRow(f)
      PROVE  FALSE
  BY <1>2, <1>3, <1>4, <1>5, <1>6 DEF StartRun, Proceed, ListPolicies, EvaluateTarget, CheckCooldown, CheckAction,
     WriteAction, Refuse, Persist, FailRun, FailTarget, FailAction, LoseRow
<1>7. ASSUME StartRun(e) \/ Proceed(e) \/ FailRun(e) \/ FailTarget(e) \/ FailAction(e) \/ LoseRow(e)
      PROVE  CheckAction(e)
  BY <1>3, <1>4, <1>5, <1>7 DEF StartRun, Idle, Proceed, ListPolicies, EvaluateTarget, CheckCooldown,
     WriteAction, Refuse, Persist, FailRun, FailTarget, FailAction, LoseRow
<1>8. ASSUME NEW h \in Processes, ProcessDies(h) PROVE FALSE
  BY <1>1, <1>8 DEF ProcessDies, Idle
<1>9. CheckAction(e)
  <2>1. ev' # ev
    BY <1>1
  <2> QED
    BY <1>6, <1>7, <1>8, <2>1 DEF PolicyNext, policyVars, ClockTick, Measure, ChangeTarget, ReviewAnomaly, UpdatePolicy,
       SetPolicyOverride, DeletePolicy
<1>10. ASSUME AlreadyDone(ev[e].at[1], Row(e).draft.action, ev[e].at[2]) PROVE FALSE
  <2>1. ev'[e] = [ev[e] EXCEPT !.step = "persist", !.result = "NO_OP"]
    BY <1>9, <1>10 DEF CheckAction, Move
  <2>2. ev'[e].step # "write"
    BY <2>1
  <2> QED
    BY <2>2
<1> QED
  BY <1>9, <1>10

\* The engine goes on to write to no target that a simulation of the same policy would, at
\* that moment, count as already satisfied (simulate.ts and the handlers).
THEOREM SimulationAgreed == PolicySpec => SimulationAgrees
<1>1. PolicyInit => DOMAIN ev = Evaluators
  BY DEF PolicyInit
<1>2. DOMAIN ev = Evaluators /\ [PolicyNext]_policyVars => (DOMAIN ev = Evaluators)'
  <2> SUFFICES ASSUME DOMAIN ev = Evaluators, [PolicyNext]_policyVars PROVE DOMAIN ev' = Evaluators
    OBVIOUS
  <2>1. ASSUME NEW f \in Evaluators, NEW s, Move(f, s) PROVE DOMAIN ev' = Evaluators
    BY <2>1 DEF Move
  <2>2. ASSUME NEW f \in Evaluators, NEW listed, NEW todo, Continue(f, listed, todo) PROVE DOMAIN ev' = Evaluators
    BY <2>1, <2>2 DEF Continue, Release
  <2>3. ASSUME NEW f \in Evaluators,
               StartRun(f) \/ Proceed(f) \/ FailRun(f) \/ FailTarget(f) \/ FailAction(f) \/ LoseRow(f)
        PROVE  DOMAIN ev' = Evaluators
    BY <2>1, <2>2, <2>3 DEF StartRun, Proceed, ListPolicies, EvaluateTarget, CheckCooldown, CheckAction, NextTarget,
       WriteAction, Refuse, Persist, FailRun, FailTarget, FailAction, LoseRow, Release
  <2> QED
    BY <2>3 DEF PolicyNext, policyVars, ClockTick, Measure, ChangeTarget, ReviewAnomaly, UpdatePolicy,
       SetPolicyOverride, DeletePolicy, ProcessDies
<1>3. DOMAIN ev = Evaluators /\ [PolicyNext]_policyVars
        => [\A e \in Evaluators :
              ev[e].step = "check" /\ ev'[e].step = "write" /\ Row(e).draft.action # "DRAIN_NODE"
                => ev[e].at[2] \notin SimulatePolicy(Row(e).draft)]_policyVars
  BY WritesAfterCheck, TablesAgree DEF SimulatePolicy
<1> QED
  BY <1>1, <1>2, <1>3, PTL DEF PolicySpec, SimulationAgrees

-----------------------------------------------------------------------------
(* The policy engine's types, and whose the guard of a process is, for any *)
(* number of processes.                                                    *)

\* What a run remembers at each of its steps.
RunState(s) ==
  /\ s.step \in EvaluationSteps
  /\ s.step \in Placed => Place(s)
  /\ s.step \in Deciding => s.now \in Times
  /\ s.step = "write" /\ s.at[2] \in Nodes => s.read \in NodeRow
  /\ s.step = "persist" => s.result \in Results

\* The guard of a process is set exactly while one run of it is under way.
GuardIsOwned ==
  /\ \A h \in Processes : running[h] => \E e \in Evaluators : Home[e] = h /\ Active(e)
  /\ \A e \in Evaluators : Active(e) => running[Home[e]]
  /\ \A e, f \in Evaluators : Active(e) /\ Active(f) /\ Home[e] = Home[f] => e = f

RunsInv ==
  /\ running \in [Processes -> BOOLEAN]
  /\ DOMAIN ev = Evaluators /\ \A e \in Evaluators : RunState(ev[e])
  /\ GuardIsOwned

\* What the engine and its operators change besides.
TablesTyped ==
  /\ clock \in Times
  /\ policy \in [Policies -> {None} \cup [draft: Draft, enabled: BOOLEAN, override: Times \cup {None}]]
  /\ rows \subseteq Execution
  /\ DOMAIN target = Devices \cup Nodes
  /\ \A t \in Devices : target[t] \in DeviceRow
  /\ \A t \in Nodes : target[t] \in NodeRow
  /\ anomaly \in [Policies \X Targets -> {None, "OPEN", "CLOSED"}]
  /\ DOMAIN source = Targets
  /\ \A t \in Targets : DOMAIN source[t] = Metrics /\ \A metric \in Metrics : source[t][metric] \in Sources(metric)
  /\ acted \in [Policies \X Targets -> Times \cup {None}]
  /\ <<runs, edits, failures>> \in (0 .. MaxRuns) \X (0 .. MaxEdits) \X (0 .. MaxFailures)

EngineInv == TablesTyped /\ RunsInv

\* A run that goes on keeps its guard, and one that ends gives it back.
LEMMA RunMoves ==
  ASSUME RunsInv, NEW e \in Evaluators, Active(e), NEW s, RunState(s), ev' = [ev EXCEPT ![e] = s],
         \/ s.step # "idle" /\ running' = running
         \/ s.step = "idle" /\ running' = [running EXCEPT ![Home[e]] = FALSE]
  PROVE  RunsInv'
<1>1. DOMAIN ev' = Evaluators /\ \A f \in Evaluators : ev'[f] = IF f = e THEN s ELSE ev[f]
  BY DEF RunsInv
<1>2. \A f \in Evaluators : RunState(ev'[f])
  BY <1>1 DEF RunsInv
<1>3. running' \in [Processes -> BOOLEAN]
  BY DEF RunsInv
<1>4. \A f \in Evaluators : f # e /\ Active(f) => Home[f] # Home[e]
  BY DEF RunsInv, GuardIsOwned
<1>5. \A f \in Evaluators : Home[f] \in Processes
  BY HomeAssumption
<1>6. CASE s.step # "idle" /\ running' = running
  <2>1. \A f \in Evaluators : (ev'[f].step # "idle") <=> Active(f)
    BY <1>1, <1>6 DEF Active
  <2>2. GuardIsOwned'
    BY <1>6, <2>1 DEF RunsInv, GuardIsOwned, Active
  <2> QED
    BY <1>1, <1>2, <1>3, <2>2 DEF RunsInv, RunState
<1>7. CASE s.step = "idle" /\ running' = [running EXCEPT ![Home[e]] = FALSE]
  <2>1. \A f \in Evaluators : (ev'[f].step # "idle") <=> (Active(f) /\ f # e)
    BY <1>1, <1>7 DEF Active
  <2>2. \A h \in Processes : running'[h] = IF h = Home[e] THEN FALSE ELSE running[h]
    BY <1>7 DEF RunsInv
  <2>3. GuardIsOwned'
    BY <1>4, <1>5, <2>1, <2>2 DEF RunsInv, GuardIsOwned, Active
  <2> QED
    BY <1>1, <1>2, <1>3, <2>3 DEF RunsInv, RunState
<1> QED
  BY <1>6, <1>7

LEMMA RunContinues ==
  ASSUME RunsInv, NEW e \in Evaluators, Active(e), NEW listed, NEW todo,
         Listed(listed), todo \subseteq Pairs(listed), Continue(e, listed, todo)
  PROVE  RunsInv'
<1>1. CASE todo = {}
  <2>1. ev' = [ev EXCEPT ![e] = Idle] /\ running' = [running EXCEPT ![Home[e]] = FALSE]
    BY <1>1 DEF Continue, Release, Move
  <2>2. RunState(Idle) /\ Idle.step = "idle"
    BY DEF RunState, Idle, EvaluationSteps, Placed, Deciding
  <2> QED
    BY <2>1, <2>2, RunMoves
<1>2. CASE todo # {}
  <2>1. PICK k \in First(todo) : Move(e, [step |-> "observe", listed |-> listed, todo |-> todo, at |-> k,
                                    now |-> None, read |-> None, result |-> None])
    BY <1>2 DEF Continue
  <2> DEFINE s == [step |-> "observe", listed |-> listed, todo |-> todo, at |-> k,
                  now |-> None, read |-> None, result |-> None]
  <2>2. Place(s) /\ s.step = "observe"
    BY <2>1 DEF First, Place
  <2>3. ev' = [ev EXCEPT ![e] = s] /\ running' = running
    BY <1>2, <2>1 DEF Continue, Move
  <2> HIDE DEF s
  <2>4. RunState(s)
    BY <2>2 DEF RunState, EvaluationSteps, Placed, Deciding
  <2> QED
    BY <2>2, <2>3, <2>4, RunMoves
<1> QED
  BY <1>1, <1>2

LEMMA RunPlaced ==
  ASSUME RunsInv, NEW e \in Evaluators, ev[e].step \in Placed
  PROVE  /\ Place(ev[e]) /\ Active(e) /\ Listed(ev[e].listed)
         /\ ev[e].at[1] \in Policies /\ ev[e].at[2] \in Targets /\ ev[e].at \in Policies \X Targets
         /\ Row(e).draft \in Draft
<1>1. Place(ev[e]) /\ Active(e)
  BY DEF RunsInv, RunState, Active, Placed, Deciding
<1>2. ev[e].at \in Pairs(ev[e].listed) /\ Listed(ev[e].listed)
  BY <1>1 DEF Place
<1>3. PICK p \in DOMAIN ev[e].listed, t \in Targets : ev[e].at = <<p, t>>
  BY <1>2 DEF Pairs
<1>4. p \in Policies
  BY <1>2, <1>3 DEF Listed
<1>5. ev[e].at \in Policies \X Targets
  BY <1>3, <1>4
<1>6. Row(e).draft \in Draft
  BY <1>2, <1>3 DEF Listed, Row
<1> QED
  BY <1>1, <1>2, <1>3, <1>4, <1>5, <1>6

LEMMA RunTakesNext ==
  ASSUME RunsInv, NEW e \in Evaluators, ev[e].step \in Placed, NextTarget(e) PROVE RunsInv'
<1>1. Place(ev[e]) /\ Active(e) /\ Listed(ev[e].listed) /\ ev[e].todo \ {ev[e].at} \subseteq Pairs(ev[e].listed)
  BY RunPlaced DEF Place
<1> QED
  BY <1>1, RunContinues DEF NextTarget

\* The row that an evaluation leaves behind.
LEMMA RowType ==
  ASSUME TablesTyped, RunsInv, NEW e \in Evaluators, ev[e].step \in Placed,
         NEW tag \in Tags, NEW bucket \in Nat, NEW result \in Results, NEW now \in Times,
         PersistExecution(e, tag, bucket, result, now)
  PROVE  rows' \subseteq Execution
<1> DEFINE p == ev[e].at[1]
           t == ev[e].at[2]
           old == {x \in rows : x.policy = p /\ x.target = t /\ x.tag = tag /\ x.bucket = bucket}
           kept == IF old = {} THEN result ELSE (CHOOSE x \in old : TRUE).result
<1>1. p \in Policies /\ t \in Targets
  BY RunPlaced
<1>2. rows \subseteq Execution
  BY DEF TablesTyped
<1>3. kept \in Results
  <2>1. CASE old = {}
    BY <2>1
  <2>2. CASE old # {}
    <3>1. (CHOOSE x \in old : TRUE) \in old
      BY <2>2
    <3> QED
      BY <1>2, <2>2, <3>1 DEF Execution
  <2> QED
    BY <2>1, <2>2
<1>4. rows' = rows \/ rows' = (rows \ old) \cup {[policy |-> p, target |-> t, tag |-> tag, bucket |-> bucket,
                                               result |-> kept, at |-> now]}
  BY DEF PersistExecution
<1> HIDE DEF kept, old, p, t
<1> QED
  BY <1>1, <1>2, <1>3, <1>4 DEF Execution

LEMMA BucketType == ASSUME NEW now \in Times PROVE MinuteBucket(now) \in Nat
BY PolicyBounds DEF MinuteBucket, Times

\* A handler's write leaves a row of the table: fields of the other kind of target it has not.
LEMMA DeviceWritten ==
  ASSUME NEW action, NEW row \in DeviceRow, NEW read, NEW disconnect
  PROVE  Written(action, row, read, disconnect) \in DeviceRow
<1> USE DEF DeviceRow
<1>1. DOMAIN row = {"blocked", "sessions", "profile", "review"}
  OBVIOUS
<1>2. [row EXCEPT !.blocked = TRUE, !.sessions = 0] \in DeviceRow
  <2>1. PICK one : one = [row EXCEPT !.blocked = TRUE]
    OBVIOUS
  <2>2. one \in DeviceRow
    BY <2>1
  <2>3. [one EXCEPT !.sessions = 0] \in DeviceRow
    BY <2>2
  <2>4. [row EXCEPT !.blocked = TRUE, !.sessions = 0] = [one EXCEPT !.sessions = 0]
    BY <2>1, Zenon
  <2> QED
    BY <2>3, <2>4
<1>3. DrainNode(row, read, disconnect) \in DeviceRow
  <2>1. PICK one : one = [row EXCEPT !.draining = TRUE]
    OBVIOUS
  <2>2. PICK two : two = [one EXCEPT !.assigning = FALSE]
    OBVIOUS
  <2>3. one = row /\ two = row
    <3>1. one = row
      BY <1>1, <2>1
    <3> QED
      BY <1>1, <2>2, <3>1
  <2>4. DrainNode(row, read, disconnect) = [two EXCEPT !.sessions = IF disconnect /\ read.sessions > 0 THEN 0 ELSE row.sessions]
    BY <2>1, <2>2, <2>3, Zenon DEF DrainNode
  <2> QED
    BY <2>3, <2>4
<1>4. [row EXCEPT !.degraded = TRUE] = row /\ [row EXCEPT !.assigning = FALSE] = row
      /\ [row EXCEPT !.weight = Lowered(read.weight)] = row
  BY <1>1
<1>5. [row EXCEPT !.sessions = 0] \in DeviceRow
  OBVIOUS
<1>6. [row EXCEPT !.profile = TRUE] \in DeviceRow
  OBVIOUS
<1>7. [row EXCEPT !.review = TRUE] \in DeviceRow
  OBVIOUS
<1> QED
  BY <1>2, <1>3, <1>4, <1>5, <1>6, <1>7 DEF Written, DisconnectSession, BlockReconnect, ApplyOptimization, SecurityReview, MarkNodeDegraded,
     LowerRoutingPriority, StopNewAssignments

LEMMA NodeWritten ==
  ASSUME NEW action, NEW row \in NodeRow, NEW read \in NodeRow, NEW disconnect
  PROVE  Written(action, row, read, disconnect) \in NodeRow
<1> USE DEF NodeRow
<1>1. DOMAIN row = {"degraded", "weight", "draining", "assigning", "sessions"}
  OBVIOUS
<1>2. [row EXCEPT !.blocked = TRUE, !.sessions = 0] \in NodeRow
  <2>1. PICK one : one = [row EXCEPT !.blocked = TRUE]
    OBVIOUS
  <2>2. one = row
    BY <1>1, <2>1
  <2>3. [row EXCEPT !.blocked = TRUE, !.sessions = 0] = [one EXCEPT !.sessions = 0]
    BY <2>1, Zenon
  <2> QED
    BY <2>2, <2>3
<1>3. DrainNode(row, read, disconnect) \in NodeRow
  <2>1. PICK one : one = [row EXCEPT !.draining = TRUE]
    OBVIOUS
  <2>2. PICK two : two = [one EXCEPT !.assigning = FALSE]
    OBVIOUS
  <2>3. one \in NodeRow /\ one.sessions = row.sessions
    BY <2>1
  <2>4. two \in NodeRow /\ two.sessions = row.sessions
    BY <2>2, <2>3
  <2>5. DrainNode(row, read, disconnect) = [two EXCEPT !.sessions = IF disconnect /\ read.sessions > 0 THEN 0 ELSE two.sessions]
    BY <2>1, <2>2, <2>4, Zenon DEF DrainNode
  <2> QED
    BY <2>4, <2>5
<1>4. [row EXCEPT !.profile = TRUE] = row /\ [row EXCEPT !.review = TRUE] = row
  BY <1>1
<1>5. [row EXCEPT !.sessions = 0] \in NodeRow
  OBVIOUS
<1>6. [row EXCEPT !.weight = Lowered(read.weight)] \in NodeRow
  BY PolicyBounds DEF Lowered
<1>7. [row EXCEPT !.degraded = TRUE] \in NodeRow
  OBVIOUS
<1>8. [row EXCEPT !.assigning = FALSE] \in NodeRow
  OBVIOUS
<1> QED
  BY <1>2, <1>3, <1>4, <1>5, <1>6, <1>7, <1>8 DEF Written, DisconnectSession, BlockReconnect, ApplyOptimization, SecurityReview,
     MarkNodeDegraded, LowerRoutingPriority, StopNewAssignments

\* A step of a run that goes on within its evaluation.
LEMMA RunGoesOn ==
  ASSUME RunsInv, NEW e \in Evaluators, ev[e].step \in Placed, NEW s,
         s = [step |-> s.step, listed |-> ev[e].listed, todo |-> ev[e].todo, at |-> ev[e].at,
              now |-> s.now, read |-> s.read, result |-> s.result],
         s.step \in Deciding, s.now \in Times, s.step = "write" /\ s.at[2] \in Nodes => s.read \in NodeRow,
         s.step = "persist" => s.result \in Results, ev' = [ev EXCEPT ![e] = s], UNCHANGED running
  PROVE  RunsInv'
<1>1. Place(ev[e]) /\ Active(e)
  BY RunPlaced
<1>2. Place(s)
  BY <1>1 DEF Place
<1>3. RunState(s) /\ s.step # "idle"
  BY <1>2 DEF RunState, Deciding, EvaluationSteps
<1> QED
  BY <1>1, <1>3, RunMoves

LEMMA EngineEvaluates ==
  ASSUME EngineInv, NEW e \in Evaluators, EvaluateTarget(e) PROVE EngineInv'
<1>1. ev[e].step = "observe" /\ ev[e].step \in Placed /\ clock \in Times
      /\ UNCHANGED <<clock, policy, target, anomaly, source, acted, runs, edits, failures>>
  BY DEF EvaluateTarget, Placed, EngineInv, TablesTyped
<1>2. ASSUME NEW tag \in Tags, NEW bucket \in Nat, NEW result \in Results,
             PersistExecution(e, tag, bucket, result, clock), NextTarget(e)
      PROVE  EngineInv'
  <2>1. rows' \subseteq Execution
    BY <1>1, <1>2, RowType DEF EngineInv
  <2>2. TablesTyped'
    BY <1>1, <2>1 DEF EngineInv, TablesTyped
  <2> QED
    BY <1>1, <1>2, <2>2, RunTakesNext DEF EngineInv
<1>3. CASE NextTarget(e) /\ UNCHANGED rows
  BY <1>1, <1>3, RunTakesNext DEF EngineInv, TablesTyped
<1>4. CASE Move(e, [ev[e] EXCEPT !.step = "cooldown", !.now = clock]) /\ UNCHANGED <<rows, running>>
  <2>1. Place(ev[e])
    BY <1>1, RunPlaced DEF EngineInv
  <2> DEFINE s == [step |-> "cooldown", listed |-> ev[e].listed, todo |-> ev[e].todo, at |-> ev[e].at,
                   now |-> clock, read |-> ev[e].read, result |-> ev[e].result]
  <2>2. [ev[e] EXCEPT !.step = "cooldown", !.now = clock] = s
    BY <2>1, MovesNow
  <2>3. ev' = [ev EXCEPT ![e] = s]
    BY <1>4, <2>2, Zenon DEF Move
  <2>4. RunsInv'
    BY <1>1, <1>4, <2>3, RunGoesOn DEF EngineInv, Deciding
  <2> QED
    BY <1>1, <1>4, <2>4 DEF EngineInv, TablesTyped
<1>5. \/ \E tag \in Tags, result \in Results : \E bucket \in {0, MinuteBucket(clock)} :
           PersistExecution(e, tag, bucket, result, clock) /\ NextTarget(e)
      \/ NextTarget(e) /\ UNCHANGED rows
      \/ Move(e, [ev[e] EXCEPT !.step = "cooldown", !.now = clock]) /\ UNCHANGED <<rows, running>>
  BY DEF EvaluateTarget, Tags, Results
<1> QED
  BY <1>1, <1>2, <1>3, <1>4, <1>5, BucketType

LEMMA EngineChecksCooldown ==
  ASSUME EngineInv, NEW e \in Evaluators, CheckCooldown(e) PROVE EngineInv'
<1>1. ev[e].step = "cooldown" /\ ev[e].step \in Placed /\ ev[e].now \in Times
      /\ UNCHANGED <<clock, policy, target, anomaly, source, acted, runs, edits, failures>>
  BY DEF CheckCooldown, Placed, Deciding, EngineInv, RunsInv, RunState
<1>2. CASE PersistExecution(e, "COOLDOWN", MinuteBucket(ev[e].now), "COOLDOWN", ev[e].now) /\ NextTarget(e)
  <2>1. rows' \subseteq Execution
    BY <1>1, <1>2, RowType, BucketType DEF EngineInv, Tags, Results
  <2>2. TablesTyped'
    BY <1>1, <2>1 DEF EngineInv, TablesTyped
  <2> QED
    BY <1>1, <1>2, <2>2, RunTakesNext DEF EngineInv
<1>3. CASE Move(e, [ev[e] EXCEPT !.step = "check"]) /\ UNCHANGED <<rows, running>>
  <2>1. Place(ev[e])
    BY <1>1, RunPlaced DEF EngineInv
  <2> DEFINE s == [step |-> "check", listed |-> ev[e].listed, todo |-> ev[e].todo, at |-> ev[e].at,
                   now |-> ev[e].now, read |-> ev[e].read, result |-> ev[e].result]
  <2>2. [ev[e] EXCEPT !.step = "check"] = s
    BY <2>1, MovesStep
  <2>3. ev' = [ev EXCEPT ![e] = s]
    BY <1>3, <2>2, Zenon DEF Move
  <2>4. RunsInv'
    BY <1>1, <1>3, <2>3, RunGoesOn DEF EngineInv, Deciding
  <2> QED
    BY <1>1, <1>3, <2>4 DEF EngineInv, TablesTyped
<1> QED
  BY <1>2, <1>3 DEF CheckCooldown

LEMMA EngineChecksAction ==
  ASSUME EngineInv, NEW e \in Evaluators, CheckAction(e) PROVE EngineInv'
<1>1. ev[e].step = "check" /\ ev[e].step \in Placed /\ ev[e].now \in Times
      /\ UNCHANGED <<clock, policy, rows, target, anomaly, source, running, acted, runs, edits, failures>>
  BY DEF CheckAction, Placed, Deciding, EngineInv, RunsInv, RunState
<1>2. TablesTyped'
  BY <1>1 DEF EngineInv, TablesTyped
<1>3. Place(ev[e])
  BY <1>1, RunPlaced DEF EngineInv
<1>4. CASE Move(e, [ev[e] EXCEPT !.step = "persist", !.result = "NO_OP"])
  <2> DEFINE s == [step |-> "persist", listed |-> ev[e].listed, todo |-> ev[e].todo, at |-> ev[e].at,
                   now |-> ev[e].now, read |-> ev[e].read, result |-> "NO_OP"]
  <2>1. [ev[e] EXCEPT !.step = "persist", !.result = "NO_OP"] = s
    BY <1>3, MovesResult
  <2>2. ev' = [ev EXCEPT ![e] = s]
    BY <1>4, <2>1, Zenon DEF Move
  <2>3. RunsInv'
    BY <1>1, <2>2, RunGoesOn DEF EngineInv, Deciding, Results
  <2> QED
    BY <1>2, <2>3 DEF EngineInv
<1>5. ASSUME NEW read, read = IF ev[e].at[2] = System THEN None ELSE target[ev[e].at[2]],
             Move(e, [ev[e] EXCEPT !.step = "write", !.read = read])
      PROVE  EngineInv'
  <2> DEFINE s == [step |-> "write", listed |-> ev[e].listed, todo |-> ev[e].todo, at |-> ev[e].at,
                   now |-> ev[e].now, read |-> read, result |-> ev[e].result]
  <2>1. [ev[e] EXCEPT !.step = "write", !.read = read] = s
    BY <1>3, MovesRead
  <2>2. ev' = [ev EXCEPT ![e] = s]
    BY <1>5, <2>1, Zenon DEF Move
  <2>3. ev[e].at[2] \in Nodes => read \in NodeRow
    BY <1>5, ApartAssumption DEF EngineInv, TablesTyped
  <2>4. RunsInv'
    BY <1>1, <2>2, <2>3, RunGoesOn DEF EngineInv, Deciding
  <2> QED
    BY <1>2, <2>4 DEF EngineInv
<1> QED
  BY <1>4, <1>5 DEF CheckAction

LEMMA EngineRefuses ==
  ASSUME EngineInv, NEW e \in Evaluators, ev[e].step \in Deciding, Refuse(e), UNCHANGED <<clock, policy, source, acted, runs, edits>>,
         failures' \in 0 .. MaxFailures
  PROVE  EngineInv'
<1>1. ev[e].step \in Placed /\ ev[e].now \in Times
  BY DEF Placed, EngineInv, RunsInv, RunState
<1>2. rows' \subseteq Execution
  BY <1>1, RowType, BucketType DEF Refuse, EngineInv, Tags, Results
<1>3. TablesTyped'
  BY <1>2 DEF Refuse, EngineInv, TablesTyped
<1> QED
  BY <1>1, <1>3, RunTakesNext DEF Refuse, EngineInv

LEMMA EngineWrites ==
  ASSUME EngineInv, NEW e \in Evaluators, WriteAction(e) PROVE EngineInv'
<1>1. ev[e].step = "write" /\ ev[e].step \in Deciding /\ ev[e].step \in Placed /\ ev[e].now \in Times
      /\ UNCHANGED <<clock, policy, source, acted, runs, edits, failures>>
  BY DEF WriteAction, Placed, Deciding, EngineInv, RunsInv, RunState
<1>0. Place(ev[e]) /\ ev[e].at \in Policies \X Targets
  BY <1>1, RunPlaced DEF EngineInv
<1>2. [ev[e] EXCEPT !.step = "persist", !.result = "APPLIED"]
        = [step |-> "persist", listed |-> ev[e].listed, todo |-> ev[e].todo, at |-> ev[e].at,
           now |-> ev[e].now, read |-> ev[e].read, result |-> "APPLIED"]
  BY <1>0, MovesResult
<1> DEFINE k == ev[e].at
           draft == Row(e).draft
<1>3. CASE Refuse(e)
  BY <1>1, <1>3, EngineRefuses DEF EngineInv, TablesTyped
<1>4. CASE /\ Move(e, [ev[e] EXCEPT !.step = "persist", !.result = "APPLIED"])
           /\ target' = IF k[2] = System THEN target
                        ELSE [target EXCEPT ![k[2]] = Written(draft.action, @, ev[e].read, draft.disconnect)]
           /\ anomaly' = IF draft.action = "CREATE_ANOMALY_EVENT" THEN [anomaly EXCEPT ![k] = "OPEN"] ELSE anomaly
           /\ UNCHANGED <<rows, running>>
  <2> DEFINE s == [step |-> "persist", listed |-> ev[e].listed, todo |-> ev[e].todo, at |-> ev[e].at,
                   now |-> ev[e].now, read |-> ev[e].read, result |-> "APPLIED"]
  <2>2. ev' = [ev EXCEPT ![e] = s]
    BY <1>2, <1>4, Zenon DEF Move
  <2>3. RunsInv'
    BY <1>1, <1>4, <2>2, RunGoesOn DEF EngineInv, Deciding, Results
  <2> HIDE DEF s
  <2>4. anomaly' \in [Policies \X Targets -> {None, "OPEN", "CLOSED"}]
    BY <1>0, <1>4 DEF EngineInv, TablesTyped
  <2>5. k[2] \in Nodes => ev[e].read \in NodeRow
    BY <1>1 DEF EngineInv, RunsInv, RunState
  <2> DEFINE write == Written(draft.action, target[k[2]], ev[e].read, draft.disconnect)
  <2>6. k[2] \in Devices => write \in DeviceRow
    BY DeviceWritten DEF EngineInv, TablesTyped
  <2>7. k[2] \in Nodes => write \in NodeRow
    BY <2>5, NodeWritten DEF EngineInv, TablesTyped
  <2>8. target' = target \/ target' = [target EXCEPT ![k[2]] = write]
    BY <1>4
  <2> HIDE DEF write, k, draft
  <2>9. /\ DOMAIN target' = Devices \cup Nodes
        /\ \A t \in Devices : target'[t] \in DeviceRow
        /\ \A t \in Nodes : target'[t] \in NodeRow
    BY <2>6, <2>7, <2>8 DEF EngineInv, TablesTyped
  <2>10. TablesTyped'
    BY <1>1, <1>4, <2>4, <2>9 DEF EngineInv, TablesTyped
  <2> QED
    BY <2>3, <2>10 DEF EngineInv
<1> QED
  BY <1>3, <1>4 DEF WriteAction

LEMMA EnginePersists ==
  ASSUME EngineInv, NEW e \in Evaluators, Persist(e) PROVE EngineInv'
<1>1. ev[e].step \in Placed /\ ev[e].now \in Times /\ ev[e].result \in Results
      /\ UNCHANGED <<clock, policy, target, anomaly, source, runs, edits, failures>>
  BY DEF Persist, Placed, Deciding, EngineInv, RunsInv, RunState
<1>2. rows' \subseteq Execution
  BY <1>1, RowType, BucketType DEF Persist, EngineInv, Tags
<1>3. ev[e].at \in Policies \X Targets
  BY <1>1, RunPlaced DEF EngineInv
<1>4. acted' \in [Policies \X Targets -> Times \cup {None}]
  BY <1>1, <1>3 DEF Persist, EngineInv, TablesTyped
<1>5. TablesTyped'
  BY <1>1, <1>2, <1>4 DEF EngineInv, TablesTyped
<1> QED
  BY <1>1, <1>5, RunTakesNext DEF Persist, EngineInv

LEMMA EngineFails ==
  ASSUME EngineInv, NEW e \in Evaluators, FailRun(e) \/ FailTarget(e) \/ FailAction(e) \/ LoseRow(e)
  PROVE  EngineInv'
<1>1. failures' \in 0 .. MaxFailures
  BY PolicyBounds DEF FailRun, FailTarget, FailAction, LoseRow, Fault, EngineInv, TablesTyped
<1>2. CASE FailAction(e)
  BY <1>1, <1>2, EngineRefuses DEF FailAction, Deciding
<1>3. CASE FailRun(e) \/ FailTarget(e) \/ LoseRow(e)
  <2>1. UNCHANGED <<clock, policy, rows, target, anomaly, source, acted, runs, edits>>
    BY <1>3 DEF FailRun, FailTarget, LoseRow
  <2>2. TablesTyped'
    BY <1>1, <2>1 DEF EngineInv, TablesTyped
  <2>3. CASE FailRun(e)
    <3>1. ev' = [ev EXCEPT ![e] = Idle] /\ running' = [running EXCEPT ![Home[e]] = FALSE] /\ Active(e)
      BY <2>3 DEF FailRun, Release, Move, Active
    <3>2. RunState(Idle) /\ Idle.step = "idle"
      BY DEF RunState, Idle, EvaluationSteps, Placed, Deciding
    <3> QED
      BY <2>2, <3>1, <3>2, RunMoves DEF EngineInv
  <2>4. CASE FailTarget(e) \/ LoseRow(e)
    BY <2>2, <2>4, RunTakesNext DEF FailTarget, LoseRow, Placed, Deciding, EngineInv
  <2> QED
    BY <1>3, <2>3, <2>4
<1> QED
  BY <1>2, <1>3

LEMMA EngineLists ==
  ASSUME EngineInv, NEW e \in Evaluators, ListPolicies(e) PROVE EngineInv'
<1> DEFINE listed == [p \in {q \in Policies : policy[q] # None /\ policy[q].enabled} |-> policy[p]]
<1>1. /\ Active(e) /\ Continue(e, listed, Work(listed))
      /\ UNCHANGED <<clock, policy, rows, target, anomaly, source, acted, runs, edits, failures>>
  BY DEF ListPolicies, Active
<1>2. Listed(listed)
  BY DEF Listed, EngineInv, TablesTyped
<1> HIDE DEF listed
<1>3. Work(listed) \subseteq Pairs(listed)
  BY <1>2, WorkIsPairs
<1>4. TablesTyped'
  BY <1>1 DEF EngineInv, TablesTyped
<1> QED
  BY <1>1, <1>2, <1>3, <1>4, RunContinues DEF EngineInv

\* The guard of a process is down only when no run of it is under way.
LEMMA EngineStarts ==
  ASSUME EngineInv, NEW e \in Evaluators, StartRun(e) PROVE EngineInv'
<1> DEFINE s == [step |-> "list"]
<1>1. /\ ~running[Home[e]] /\ running' = [running EXCEPT ![Home[e]] = TRUE] /\ ev' = [ev EXCEPT ![e] = s]
      /\ UNCHANGED <<clock, policy, rows, target, anomaly, source, acted, edits, failures>>
      /\ runs < MaxRuns /\ runs' = runs + 1
  BY DEF StartRun, Move
<1>2. s.step = "list"
  OBVIOUS
<1> HIDE DEF s
<1>3. RunState(s)
  BY <1>2 DEF RunState, EvaluationSteps, Placed, Deciding
<1>4. TablesTyped'
  BY <1>1, PolicyBounds DEF EngineInv, TablesTyped
<1>5. DOMAIN ev' = Evaluators /\ \A f \in Evaluators : ev'[f] = IF f = e THEN s ELSE ev[f]
  BY <1>1 DEF EngineInv, RunsInv
<1>6. running' \in [Processes -> BOOLEAN] /\ \A h \in Processes : running'[h] = (h = Home[e] \/ running[h])
  BY <1>1, HomeAssumption DEF EngineInv, RunsInv
<1>7. \A f \in Evaluators : Active(f) => Home[f] # Home[e]
  BY <1>1 DEF EngineInv, RunsInv, GuardIsOwned
<1>8. \A f \in Evaluators : (ev'[f].step # "idle") <=> (Active(f) \/ f = e)
  BY <1>2, <1>5 DEF Active
<1>9. \A f \in Evaluators : Home[f] \in Processes
  BY HomeAssumption
<1>10. GuardIsOwned'
  BY <1>6, <1>7, <1>8, <1>9 DEF EngineInv, RunsInv, GuardIsOwned, Active
<1>11. \A f \in Evaluators : RunState(ev'[f])
  BY <1>3, <1>5 DEF EngineInv, RunsInv
<1>12. RunsInv'
  BY <1>5, <1>6, <1>10, <1>11 DEF RunsInv, RunState
<1> QED
  BY <1>4, <1>12 DEF EngineInv

LEMMA EngineProcessDies ==
  ASSUME EngineInv, NEW h \in Processes, ProcessDies(h) PROVE EngineInv'
<1>1. /\ UNCHANGED <<clock, policy, rows, target, anomaly, source, acted, runs, edits>>
      /\ running' = [running EXCEPT ![h] = FALSE]
      /\ ev' = [e \in Evaluators |-> IF Home[e] = h THEN Idle ELSE ev[e]]
      /\ failures < MaxFailures /\ failures' = failures + 1
  BY DEF ProcessDies, Fault
<1>2. RunState(Idle) /\ Idle.step = "idle"
  BY DEF RunState, Idle, EvaluationSteps, Placed, Deciding
<1>3. TablesTyped'
  BY <1>1, PolicyBounds DEF EngineInv, TablesTyped
<1>4. DOMAIN ev' = Evaluators /\ \A e \in Evaluators : ev'[e] = IF Home[e] = h THEN Idle ELSE ev[e]
  BY <1>1
<1>5. \A e \in Evaluators : RunState(ev'[e])
  BY <1>2, <1>4 DEF EngineInv, RunsInv
<1>6. running' \in [Processes -> BOOLEAN] /\ \A g \in Processes : running'[g] = (g # h /\ running[g])
  BY <1>1 DEF EngineInv, RunsInv
<1>7. \A e \in Evaluators : (ev'[e].step # "idle") <=> (Active(e) /\ Home[e] # h)
  BY <1>2, <1>4 DEF Active
<1>8. \A e \in Evaluators : Home[e] \in Processes
  BY HomeAssumption
<1>9. GuardIsOwned'
  BY <1>6, <1>7, <1>8 DEF EngineInv, RunsInv, GuardIsOwned, Active
<1>10. RunsInv'
  BY <1>4, <1>5, <1>6, <1>9 DEF RunsInv, RunState
<1> QED
  BY <1>3, <1>10 DEF EngineInv

\* What goes on outside the runs leaves them alone.
LEMMA RunsUntouched == ASSUME RunsInv, UNCHANGED <<running, ev>> PROVE RunsInv'
BY DEF RunsInv, RunState, GuardIsOwned, Active

\* Fields of a row that change one at a time.
LEMMA TargetChanged ==
  ASSUME TablesTyped, NEW t \in Devices \cup Nodes, ChangeTarget(t)
  PROVE  /\ DOMAIN target' = Devices \cup Nodes
         /\ \A d \in Devices : target'[d] \in DeviceRow
         /\ \A n \in Nodes : target'[n] \in NodeRow
<1>1. CASE t \in Devices
  <2>1. target[t] \in DeviceRow
    BY <1>1 DEF TablesTyped
  <2>2. [target[t] EXCEPT !.sessions = 1 - target[t].sessions] \in DeviceRow
    BY <2>1 DEF DeviceRow
  <2>3. [target[t] EXCEPT !.blocked = ~target[t].blocked] \in DeviceRow
    BY <2>1 DEF DeviceRow
  <2>4. \E row \in DeviceRow : target' = [target EXCEPT ![t] = row]
    BY <1>1, <2>2, <2>3 DEF ChangeTarget
  <2> QED
    BY <1>1, <2>4, ApartAssumption DEF TablesTyped
<1>2. CASE t \in Nodes
  <2>1. target[t] \in NodeRow
    BY <1>2 DEF TablesTyped
  <2>2. [target[t] EXCEPT !.sessions = 1 - target[t].sessions] \in NodeRow
    BY <2>1 DEF NodeRow
  <2>3. [target[t] EXCEPT !.draining = FALSE, !.assigning = TRUE] \in NodeRow
    <3>1. PICK one : one = [target[t] EXCEPT !.draining = FALSE]
      OBVIOUS
    <3>2. one \in NodeRow
      BY <2>1, <3>1 DEF NodeRow
    <3>3. [one EXCEPT !.assigning = TRUE] \in NodeRow
      BY <3>2 DEF NodeRow
    <3>4. [target[t] EXCEPT !.draining = FALSE, !.assigning = TRUE] = [one EXCEPT !.assigning = TRUE]
      BY <3>1, Zenon
    <3> QED
      BY <3>3, <3>4
  <2>4. [target[t] EXCEPT !.degraded = FALSE] \in NodeRow
    BY <2>1 DEF NodeRow
  <2>5. [target[t] EXCEPT !.weight = Delta] \in NodeRow
    BY <2>1, PolicyBounds DEF NodeRow
  <2>6. t \notin Devices
    BY <1>2, ApartAssumption
  <2>7. \E row \in NodeRow : target' = [target EXCEPT ![t] = row]
    BY <2>2, <2>3, <2>4, <2>5, <2>6 DEF ChangeTarget
  <2> QED
    BY <2>6, <1>2, <2>7 DEF TablesTyped
<1> QED
  BY <1>1, <1>2

LEMMA EngineEdits ==
  ASSUME EngineInv,
         \/ ClockTick
         \/ \E t \in Targets, metric \in Metrics : \E held \in Sources(metric) : Measure(t, metric, held)
         \/ \E t \in Devices \cup Nodes : ChangeTarget(t)
         \/ \E k \in Policies \X Targets : ReviewAnomaly(k)
         \/ \E p \in Policies :
              \/ \E draft \in Drafts, on \in BOOLEAN : UpdatePolicy(p, draft, on)
              \/ \E until \in {None} \cup (clock + 1 .. MaxClock) : SetPolicyOverride(p, until)
              \/ DeletePolicy(p)
  PROVE  EngineInv'
<1>i. TablesTyped /\ RunsInv
  BY DEF EngineInv
<1>0. MaxEdits \in Nat /\ MaxClock \in Nat
  BY PolicyBounds
<1>1. CASE ClockTick
  <2>1. TablesTyped'
    BY <1>i, <1>0, <1>1 DEF ClockTick, TablesTyped, Times
  <2>r. RunsInv'
    BY <1>i, <1>1, RunsUntouched DEF ClockTick
  <2> QED
    BY <2>1, <2>r DEF EngineInv
<1>2. ASSUME NEW t \in Targets, NEW metric \in Metrics, NEW held \in Sources(metric), Measure(t, metric, held)
      PROVE  EngineInv'
  <2>1. source' = [source EXCEPT ![t] = [source[t] EXCEPT ![metric] = held]]
    BY <1>i, <1>2 DEF Measure
  <2>2. /\ DOMAIN source' = Targets
        /\ \A u \in Targets : DOMAIN source'[u] = Metrics /\ \A m \in Metrics : source'[u][m] \in Sources(m)
    BY <1>i, <2>1 DEF TablesTyped
  <2>3. edits' \in 0 .. MaxEdits
    BY <1>i, <1>0, <1>2 DEF Measure, Edit, TablesTyped
  <2>4. TablesTyped'
    BY <1>i, <1>2, <2>2, <2>3 DEF Measure, TablesTyped
  <2>r. RunsInv'
    BY <1>i, <1>2, RunsUntouched DEF Measure
  <2> QED
    BY <2>4, <2>r DEF EngineInv
<1>3. ASSUME NEW t \in Devices \cup Nodes, ChangeTarget(t) PROVE EngineInv'
  <2>0. edits < MaxEdits /\ edits' = edits + 1
    BY <1>3, Zenon DEF ChangeTarget, Edit
  <2>1. edits' \in 0 .. MaxEdits
    BY <1>i, <1>0, <2>0 DEF TablesTyped
  <2>2. TablesTyped'
    BY <1>i, <1>3, <2>1, TargetChanged DEF ChangeTarget, TablesTyped
  <2>r. RunsInv'
    BY <1>i, <1>3, RunsUntouched DEF ChangeTarget
  <2> QED
    BY <2>2, <2>r DEF EngineInv
<1>4. ASSUME NEW k \in Policies \X Targets, ReviewAnomaly(k) PROVE EngineInv'
  <2>1. edits' \in 0 .. MaxEdits
    BY <1>i, <1>0, <1>4 DEF ReviewAnomaly, Edit, TablesTyped
  <2>2. TablesTyped'
    BY <1>i, <1>4, <2>1 DEF ReviewAnomaly, TablesTyped
  <2>r. RunsInv'
    BY <1>i, <1>4, RunsUntouched DEF ReviewAnomaly
  <2> QED
    BY <2>2, <2>r DEF EngineInv
<1>5. ASSUME NEW p \in Policies, policy[p] # None,
             NEW row \in [draft: Draft, enabled: BOOLEAN, override: Times \cup {None}], policy' = [policy EXCEPT ![p] = row], Edit,
             UNCHANGED <<clock, rows, target, anomaly, source, running, ev, acted, runs, failures>>
      PROVE  EngineInv'
  <2>1. edits' \in 0 .. MaxEdits
    BY <1>i, <1>0, <1>5 DEF Edit, TablesTyped
  <2>2. TablesTyped'
    BY <1>i, <1>5, <2>1 DEF TablesTyped
  <2>r. RunsInv'
    BY <1>i, <1>5, RunsUntouched
  <2> QED
    BY <2>2, <2>r DEF EngineInv
<1>6. ASSUME NEW p \in Policies, NEW draft \in Drafts, NEW on \in BOOLEAN, UpdatePolicy(p, draft, on) PROVE EngineInv'
  <2>1. policy[p] \in [draft: Draft, enabled: BOOLEAN, override: Times \cup {None}]
    BY <1>i, <1>6 DEF UpdatePolicy, TablesTyped
  <2>2. PICK one : one = [policy[p] EXCEPT !.draft = draft]
    OBVIOUS
  <2>3. one \in [draft: Draft, enabled: BOOLEAN, override: Times \cup {None}]
    BY <1>i, <2>1, <2>2, DraftsAssumption
  <2>4. PICK row : row = [one EXCEPT !.enabled = on]
    OBVIOUS
  <2>5. row \in [draft: Draft, enabled: BOOLEAN, override: Times \cup {None}]
    BY <1>i, <2>3, <2>4
  <2>6. policy' = [policy EXCEPT ![p] = row]
    BY <1>i, <1>6, <2>2, <2>4, Zenon DEF UpdatePolicy
  <2> QED
    BY <1>i, <1>5, <1>6, <2>5, <2>6 DEF UpdatePolicy
<1>7. ASSUME NEW p \in Policies, NEW until \in {None} \cup (clock + 1 .. MaxClock), SetPolicyOverride(p, until) PROVE EngineInv'
  <2>1. policy[p] \in [draft: Draft, enabled: BOOLEAN, override: Times \cup {None}]
    BY <1>i, <1>7 DEF SetPolicyOverride, TablesTyped
  <2>2. until \in Times \cup {None}
    BY <1>i, <1>0 DEF TablesTyped, Times
  <2>3. PICK row : row = [policy[p] EXCEPT !.override = until]
    OBVIOUS
  <2>4. row \in [draft: Draft, enabled: BOOLEAN, override: Times \cup {None}]
    BY <1>i, <2>1, <2>2, <2>3
  <2>5. policy' = [policy EXCEPT ![p] = row]
    BY <1>i, <1>7, <2>3, Zenon DEF SetPolicyOverride
  <2> QED
    BY <1>i, <1>5, <1>7, <2>4, <2>5 DEF SetPolicyOverride
<1>8. ASSUME NEW p \in Policies, DeletePolicy(p) PROVE EngineInv'
  <2>1. edits' \in 0 .. MaxEdits
    BY <1>i, <1>0, <1>8 DEF DeletePolicy, Edit, TablesTyped
  <2>2. acted' \in [Policies \X Targets -> Times \cup {None}]
    BY <1>i, <1>8 DEF DeletePolicy, TablesTyped
  <2>3. TablesTyped'
    BY <1>i, <1>8, <2>1, <2>2 DEF DeletePolicy, TablesTyped
  <2>r. RunsInv'
    BY <1>i, <1>8, RunsUntouched DEF DeletePolicy
  <2> QED
    BY <2>3, <2>r DEF EngineInv
<1> QED
  BY <1>1, <1>2, <1>3, <1>4, <1>6, <1>7, <1>8

LEMMA EngineStart == ASSUME PolicyInit PROVE EngineInv
<1>0. MaxClock \in Nat /\ MaxRuns \in Nat /\ MaxEdits \in Nat /\ MaxFailures \in Nat /\ Delta \in Nat
  BY PolicyBounds
<1>1. policy \in [Policies -> {None} \cup [draft: Draft, enabled: BOOLEAN, override: Times \cup {None}]]
  <2> DEFINE Rows == [draft: Draft, enabled: BOOLEAN, override: Times \cup {None}]
             New == {NewPolicy(draft) : draft \in {d \in Drafts : Validate(d)}}
  <2>1. \A d \in Draft : NewPolicy(d) \in Rows
    BY DEF NewPolicy
  <2>2. policy \in [Policies -> New]
    BY DEF PolicyInit
  <2>3. New \subseteq Rows
    BY <2>1, DraftsAssumption
  <2> HIDE DEF Rows, New
  <2>4. policy \in [Policies -> {None} \cup Rows]
    BY <2>2, <2>3
  <2> QED
    BY <2>4 DEF Rows
<1>2. \A m : Sources(m) # {}
  <2>1. Silent \in {Silent} /\ [buckets |-> 0, bytes |-> 0] \in Window
    BY DEF Window
  <2>2. [recent |-> [buckets |-> 0, bytes |-> 0], baseline |-> [buckets |-> 0, bytes |-> 0]] \in [recent : Window, baseline : Window]
    BY <2>1
  <2>3. [sessions |-> 0, activity |-> 0] \in [sessions : 0 .. 1, activity : 0 .. 1]
    OBVIOUS
  <2>4. {} \in SUBSET {1, 2} /\ 0 \in 0 .. 1
    OBVIOUS
  <2> QED
    BY <2>1, <2>2, <2>3, <2>4 DEF Sources
<1>3. DOMAIN source = Targets /\ \A t \in Targets : DOMAIN source[t] = Metrics /\ \A m \in Metrics : source[t][m] \in Sources(m)
  <2>1. PICK p \in Policies : \E held \in Sources(policy[p].draft.metric) :
          source = [t \in Targets |-> [m \in Metrics |->
                      IF m = policy[p].draft.metric THEN held ELSE CHOOSE s \in Sources(m) : TRUE]]
    BY DEF PolicyInit
  <2>2. PICK held \in Sources(policy[p].draft.metric) :
          source = [t \in Targets |-> [m \in Metrics |->
                      IF m = policy[p].draft.metric THEN held ELSE CHOOSE s \in Sources(m) : TRUE]]
    BY <2>1
  <2>3. \A m \in Metrics : (CHOOSE s \in Sources(m) : TRUE) \in Sources(m)
    BY <1>2
  <2> QED
    BY <2>2, <2>3
<1>4. /\ DOMAIN target = Devices \cup Nodes
      /\ \A t \in Devices : target[t] \in DeviceRow
      /\ \A t \in Nodes : target[t] \in NodeRow
  <2>1. \A t \in Nodes : t \notin Devices
    BY ApartAssumption
  <2> QED
    BY <1>0, <2>1 DEF PolicyInit, DeviceRow, NodeRow
<1>5. /\ clock \in Times /\ rows \subseteq Execution
      /\ anomaly \in [Policies \X Targets -> {None, "OPEN", "CLOSED"}]
      /\ acted \in [Policies \X Targets -> Times \cup {None}]
      /\ <<runs, edits, failures>> \in (0 .. MaxRuns) \X (0 .. MaxEdits) \X (0 .. MaxFailures)
  BY <1>0 DEF PolicyInit, Times
<1>6. TablesTyped
  BY <1>1, <1>3, <1>4, <1>5 DEF TablesTyped
<1>7. RunState(Idle) /\ Idle.step = "idle"
  BY DEF RunState, Idle, EvaluationSteps, Placed, Deciding
<1>8. DOMAIN ev = Evaluators /\ (\A e \in Evaluators : ev[e] = Idle) /\ running = [h \in Processes |-> FALSE]
  BY DEF PolicyInit
<1>9. RunsInv
  BY <1>7, <1>8, HomeAssumption DEF RunsInv, GuardIsOwned, Active
<1> QED
  BY <1>6, <1>9 DEF EngineInv

LEMMA EngineStep == ASSUME EngineInv, [PolicyNext]_policyVars PROVE EngineInv'
<1>1. CASE UNCHANGED policyVars
  <2>1. TablesTyped'
    BY <1>1 DEF EngineInv, TablesTyped, policyVars
  <2>2. RunsInv'
    BY <1>1, RunsUntouched DEF EngineInv, policyVars
  <2> QED
    BY <2>1, <2>2 DEF EngineInv
<1>2. ASSUME NEW e \in Evaluators,
             StartRun(e) \/ Proceed(e) \/ FailRun(e) \/ FailTarget(e) \/ FailAction(e) \/ LoseRow(e)
      PROVE  EngineInv'
  BY <1>2, EngineStarts, EngineLists, EngineEvaluates, EngineChecksCooldown, EngineChecksAction,
     EngineWrites, EnginePersists, EngineFails DEF Proceed
<1>3. CASE \E h \in Processes : ProcessDies(h)
  BY <1>3, EngineProcessDies
<1> QED
  BY <1>1, <1>2, <1>3, EngineEdits DEF PolicyNext

\* The tables and the runs of the engine keep their kinds, whatever fails or is edited: a
\* run that ends or is cut short leaves a row of the table behind, or none.
THEOREM PolicyTypeCorrect == PolicySpec => []PolicyTypeOK
<1>1. EngineInv => PolicyTypeOK
  BY DEF EngineInv, TablesTyped, RunsInv, RunState, PolicyTypeOK
<1>2. PolicyInit => EngineInv
  BY EngineStart
<1>3. EngineInv /\ [PolicyNext]_policyVars => EngineInv'
  BY EngineStep
<1> QED
  BY <1>1, <1>2, <1>3, PTL DEF PolicySpec

\* The guard of evaluatePolicies is set exactly while one run of its process is under way,
\* and two runs of a process are never under way together, whatever fails: no error path
\* leaves the guard set, which would end the evaluation of policies for good.
THEOREM GuardOwned == PolicySpec => []GuardIsOwned
<1>1. EngineInv => GuardIsOwned
  BY DEF EngineInv, RunsInv
<1>2. PolicyInit => EngineInv
  BY EngineStart
<1>3. EngineInv /\ [PolicyNext]_policyVars => EngineInv'
  BY EngineStep
<1> QED
  BY <1>1, <1>2, <1>3, PTL DEF PolicySpec
=============================================================================
