------------------------------- MODULE Ledger -------------------------------
(***************************************************************************)
(* Simulated billing: pricing, the cost of a period's traffic, receipts    *)
(* and cost records, and the budget whose thresholds are announced as the  *)
(* spending crosses them (src/server/billing, src/server/receipts, the     *)
(* rollover and receipt jobs of automation/jobs.ts).                       *)
(*                                                                         *)
(* Bytes are whole GB and prices whole units of a currency.  The clock     *)
(* counts billing periods.  A hash stands for the payload it is taken of.  *)
(***************************************************************************)
EXTENDS Integers, FiniteSets, FiniteSetsExt

CONSTANTS
  Tasks,        \* handlers and jobs in progress at once
  Receipts,     \* rows of receipt
  Currencies,
  Prices,       \* per GB
  Template,     \* the pricing of the environment file
  Limits,       \* of the budget
  None,
  Workloads,    \* sets of operations that one behaviour of the instance mixes
  MaxPeriods,   \* bound: billing periods
  MaxTraffic,   \* bound: GB in a period
  MaxEdits,     \* bound: pricing and budget edits
  MaxCrashes    \* bound: processes that die in a task

ASSUME LedgerAssumption ==
  /\ Limits \subseteq Nat \ {0} /\ Prices \subseteq Nat
  /\ MaxPeriods \in Nat \ {0} /\ {MaxTraffic, MaxEdits, MaxCrashes} \subseteq Nat
ASSUME TemplateAssumption ==
  Template \in [currency: Currencies, price: Prices, base: Nat, free: Nat]

VARIABLES
  clock,     \* the current billing period
  traffic,   \* [Periods -> [Granularities -> Row]]: the system's rows of traffic_aggregate
  config,    \* the active row of billing_config, None while the template applies
  budget,    \* the row of the budget, None when there is none
  events,    \* rows of budget_event
  announced, \* [Periods -> [Thresholds -> how often budget.threshold was published]]
  receipt,   \* [Receipts -> row or None]
  record,    \* [Periods -> row of cost_record or None]
  task,      \* [Tasks -> Task]
  work,      \* the workload of this behaviour
  edits,
  crashes

vars == <<clock, traffic, config, budget, events, announced, receipt, record, task, work, edits, crashes>>

Periods == 0 .. MaxPeriods - 1
\* BUDGET_THRESHOLDS.
Thresholds == {50, 75, 90, 100}
\* The rollup keeps every sample in a row of its hour and in one of its day.
Granularities == {"HOUR", "DAY"}
Row == [raw: Nat, optimized: Nat, seen: BOOLEAN]
Pricing == [currency: Currencies, price: Prices, base: Nat, free: Nat]
Measure == [raw: Nat, optimized: Nat \cup {None}]
Budget == [id: Nat, limit: Limits, enabled: BOOLEAN, warned: [Thresholds -> Periods \cup {None}]]
Event == [threshold: Thresholds, period: Periods]

ASSUME NoneAssumption == None \notin Nat \cup Currencies \cup BOOLEAN \cup Budget

Steps == {"idle", "consume", "upsert", "mark", "announce", "roll",
          "measure", "insert", "price", "remeasure", "persist"}
Idle == [step |-> "idle"]

Unwarned == [t \in Thresholds |-> None]

Init ==
  /\ clock = 0
  /\ traffic = [p \in Periods |-> [g \in Granularities |->
                                   [raw |-> 0, optimized |-> 0, seen |-> FALSE]]]
  /\ config = None
  /\ budget = None
  /\ events = {}
  /\ announced = [p \in Periods |-> [t \in Thresholds |-> 0]]
  /\ receipt = [r \in Receipts |-> None]
  /\ record = [p \in Periods |-> None]
  /\ task = [t \in Tasks |-> Idle]
  /\ work \in Workloads
  /\ edits = 0
  /\ crashes = 0

Become(t, state) == task' = [task EXCEPT ![t] = state]
End(t) == Become(t, Idle)
Edit == edits < MaxEdits /\ edits' = edits + 1

\* Bound: a behaviour of receipts only stays within a period.
NextPeriod ==
  /\ "budget" \in work
  /\ clock + 1 \in Periods
  /\ clock' = clock + 1
  /\ UNCHANGED <<traffic, config, budget, events, announced, receipt, record, task, edits, crashes>>

\* The data plane reports the optimized volume of some of the traffic only.
Carry(measured, optimized) ==
  /\ traffic[clock]["HOUR"].raw < MaxTraffic
  /\ traffic' = [traffic EXCEPT ![clock] =
                   [g \in Granularities |->
                      [raw |-> @[g].raw + 1,
                       optimized |-> @[g].optimized + (IF measured THEN optimized ELSE 0),
                       seen |-> @[g].seen \/ measured]]]
  /\ UNCHANGED <<clock, config, budget, events, announced, receipt, record, task, edits, crashes>>

-----------------------------------------------------------------------------
(* Pricing and cost. *)

ActivePricing == IF config = None THEN Template ELSE config

UpdateBillingConfig(currency, price) ==
  /\ Edit
  /\ currency = ActivePricing.currency \/ price = ActivePricing.price
  /\ config' = [ActivePricing EXCEPT !.currency = currency, !.price = price]
  /\ UNCHANGED <<clock, traffic, budget, events, announced, receipt, record, task, crashes>>

\* The sum of all rows of the dimension that begin within the period.
MeasurePeriod(p) ==
  [raw |-> MapThenSumSet(LAMBDA g : traffic[p][g].raw, Granularities),
   optimized |-> IF \E g \in Granularities : traffic[p][g].seen
                 THEN MapThenSumSet(LAMBDA g : traffic[p][g].optimized, Granularities)
                 ELSE None]

Floor(value) == IF value > 0 THEN value ELSE 0
Carried(measured) == IF measured.optimized = None THEN measured.raw ELSE measured.optimized

\* base_fee + max(0, actual_gb - free_quota_gb) * price_per_gb
ComputeCost(measured, pricing) ==
  pricing.base + Floor(Carried(measured) - pricing.free) * pricing.price

\* The totals of the overview: the current period at the active pricing.
CurrentSpending == ComputeCost(MeasurePeriod(clock), ActivePricing)

-----------------------------------------------------------------------------
(* The budget. *)

CreateBudget(limit) ==
  /\ "budget" \in work
  /\ budget = None
  /\ budget' = [id |-> edits, limit |-> limit, enabled |-> TRUE, warned |-> Unwarned]
  /\ UNCHANGED <<clock, traffic, config, events, announced, receipt, record, task, edits, crashes>>

UpdateBudget(limit, enabled) ==
  /\ Edit
  /\ budget # None
  /\ budget' = [budget EXCEPT !.limit = limit, !.enabled = enabled]
  /\ UNCHANGED <<clock, traffic, config, events, announced, receipt, record, task, crashes>>

\* Its events go with it.
DeleteBudget ==
  /\ Edit
  /\ budget # None
  /\ budget' = None
  /\ events' = {}
  /\ UNCHANGED <<clock, traffic, config, announced, receipt, record, task, crashes>>

\* evaluateBudgets takes the time and reads the budgets.
EvaluateBudgets(t) ==
  /\ task[t] = Idle
  /\ budget # None /\ budget.enabled
  /\ Become(t, [step |-> "consume", now |-> clock, read |-> budget])
  /\ UNCHANGED <<clock, traffic, config, budget, events, announced, receipt, record, edits, crashes>>

Reached(spent, limit) == {threshold \in Thresholds : spent * 100 >= threshold * limit}

\* The highest threshold crossed, unless it is flagged already.
Due(spent, read) ==
  LET reached == Reached(spent, read.limit) IN
  IF reached = {} THEN None
  ELSE IF read.warned[Max(reached)] # None THEN None ELSE Max(reached)

\* consumptionFor costs what is the current period by now.
Consume(t) ==
  LET due == IF MeasurePeriod(clock).raw > 0 THEN Due(CurrentSpending, task[t].read) ELSE None
  IN
  /\ task[t].step = "consume"
  /\ IF due = None
     THEN End(t)
     ELSE Become(t, [step |-> "upsert", id |-> task[t].read.id, now |-> task[t].now, period |-> clock, threshold |-> due])
  /\ UNCHANGED <<clock, traffic, config, budget, events, announced, receipt, record, edits, crashes>>

Gone(t) == budget = None \/ budget.id # task[t].id

\* The event's foreign key fails the evaluation when the budget is gone.
UpsertEvent(t) ==
  /\ task[t].step = "upsert"
  /\ IF Gone(t)
     THEN End(t) /\ UNCHANGED events
     ELSE /\ events' = events \cup {[threshold |-> task[t].threshold, period |-> task[t].period]}
          /\ Become(t, [task[t] EXCEPT !.step = "mark"])
  /\ UNCHANGED <<clock, traffic, config, budget, announced, receipt, record, edits, crashes>>

\* Mutant: whether the warning is new is asked of the row that has just been flagged.
MarkThresholdMutant(t) ==
  /\ task[t].step = "mark"
  /\ End(t)
  /\ budget' = IF Gone(t) THEN budget
               ELSE [budget EXCEPT !.warned = [@ EXCEPT ![task[t].threshold] = task[t].now]]
  /\ UNCHANGED <<clock, traffic, config, events, announced, receipt, record, edits, crashes>>
MarkThreshold(t) ==
  /\ task[t].step = "mark"
  /\ IF Gone(t)
     THEN End(t) /\ UNCHANGED budget
     ELSE /\ budget' = [budget EXCEPT !.warned = [@ EXCEPT ![task[t].threshold] = task[t].now]]
          /\ Become(t, [task[t] EXCEPT !.step = "announce"])
  /\ UNCHANGED <<clock, traffic, config, events, announced, receipt, record, edits, crashes>>

Announce(t) ==
  /\ task[t].step = "announce"
  /\ announced' = [announced EXCEPT ![task[t].period][task[t].threshold] = IF @ < 2 THEN @ + 1 ELSE @]
  /\ End(t)
  /\ UNCHANGED <<clock, traffic, config, budget, events, receipt, record, edits, crashes>>

Stale(stamp, start) == stamp # None /\ stamp < start

\* billingPeriodRollover reads the period and the budgets, then clears what it found.
StartRollover(t) ==
  /\ task[t] = Idle
  /\ budget # None /\ budget.enabled
  /\ \E threshold \in Thresholds : Stale(budget.warned[threshold], clock)
  /\ Become(t, [step |-> "roll", id |-> budget.id,
                stale |-> {threshold \in Thresholds : Stale(budget.warned[threshold], clock)}])
  /\ UNCHANGED <<clock, traffic, config, budget, events, announced, receipt, record, edits, crashes>>

Rollover(t) ==
  /\ task[t].step = "roll"
  /\ budget' = IF Gone(t) THEN budget
               ELSE [budget EXCEPT !.warned =
                       [threshold \in Thresholds |->
                          IF threshold \in task[t].stale THEN None ELSE budget.warned[threshold]]]
  /\ End(t)
  /\ UNCHANGED <<clock, traffic, config, events, announced, receipt, record, edits, crashes>>

-----------------------------------------------------------------------------
(* Receipts and cost records. *)

\* What a row shows of a calculation, and what its hash covers.
Calculation(p, measured, pricing) ==
  [period |-> p, raw |-> measured.raw, optimized |-> Carried(measured),
   saved |-> IF measured.optimized = None THEN 0 ELSE Floor(measured.raw - measured.optimized),
   currency |-> pricing.currency, price |-> pricing.price, base |-> pricing.base,
   free |-> pricing.free, total |-> ComputeCost(measured, pricing)]

\* canonicalPayloadOf covers the status too.
Canonical(row) == [shown |-> row.shown, status |-> row.status]

Valid(row) == Canonical(row) = row.payload

\* createReceipt reads the pricing, which the caller may override.
StartReceipt(t, p, price, keep) ==
  /\ "receipts" \in work
  /\ task[t] = Idle
  /\ p <= clock /\ price # ActivePricing.price
  /\ Become(t, [step |-> "measure", period |-> p, keep |-> keep,
                pricing |-> IF price = None THEN ActivePricing ELSE [ActivePricing EXCEPT !.price = price]])
  /\ UNCHANGED <<clock, traffic, config, budget, events, announced, receipt, record, edits, crashes>>

\* The automation job bills the current period at the active pricing.
ReceiptIssue(t) == StartReceipt(t, clock, None, FALSE)

MeasureReceipt(t) ==
  /\ task[t].step = "measure"
  /\ Become(t, [step |-> "insert", keep |-> task[t].keep,
                shown |-> Calculation(task[t].period, MeasurePeriod(task[t].period), task[t].pricing)])
  /\ UNCHANGED <<clock, traffic, config, budget, events, announced, receipt, record, edits, crashes>>

InsertReceipt(t, r) ==
  LET row == [shown |-> task[t].shown, status |-> "ISSUED"] IN
  /\ task[t].step = "insert"
  /\ receipt[r] = None
  /\ receipt' = [receipt EXCEPT ![r] =
                   [shown |-> row.shown, status |-> row.status, payload |-> Canonical(row)]]
  /\ IF task[t].keep
     THEN Become(t, [step |-> "price", period |-> row.shown.period])
     ELSE End(t)
  /\ UNCHANGED <<clock, traffic, config, budget, events, announced, record, edits, crashes>>

\* persistCostRecord takes the active pricing and measures once more.
PriceRecord(t) ==
  /\ task[t].step = "price"
  /\ Become(t, [step |-> "remeasure", period |-> task[t].period, pricing |-> ActivePricing])
  /\ UNCHANGED <<clock, traffic, config, budget, events, announced, receipt, record, edits, crashes>>

MeasureRecord(t) ==
  /\ task[t].step = "remeasure"
  /\ Become(t, [step |-> "persist", period |-> task[t].period,
                shown |-> Calculation(task[t].period, MeasurePeriod(task[t].period), task[t].pricing)])
  /\ UNCHANGED <<clock, traffic, config, budget, events, announced, receipt, record, edits, crashes>>

\* Mutant: an update keeps the price it finds.
RefreshedMutant(old, new) == [new EXCEPT !.currency = old.currency, !.price = old.price]
\* An update writes all but the currency.
Refreshed(old, new) == [new EXCEPT !.currency = old.currency]

\* The input hash is of what has been computed now.
UpsertCostRecord(t) ==
  LET p == task[t].period
      new == task[t].shown
  IN
  /\ task[t].step = "persist"
  /\ record' = [record EXCEPT ![p] =
                  [shown |-> IF @ = None THEN new ELSE Refreshed(@.shown, new), inputs |-> new]]
  /\ End(t)
  /\ UNCHANGED <<clock, traffic, config, budget, events, announced, receipt, edits, crashes>>

VoidReceipt(r) ==
  /\ receipt[r] # None
  /\ receipt[r].status # "VOID"
  /\ receipt' = [receipt EXCEPT ![r] = [@ EXCEPT !.status = "VOID"]]
  /\ UNCHANGED <<clock, traffic, config, budget, events, announced, record, task, edits, crashes>>

Crash(t) ==
  /\ task[t] # Idle
  /\ crashes < MaxCrashes
  /\ crashes' = crashes + 1
  /\ End(t)
  /\ UNCHANGED <<clock, traffic, config, budget, events, announced, receipt, record, edits>>

-----------------------------------------------------------------------------

Proceed(t) ==
  \/ Consume(t) \/ UpsertEvent(t) \/ MarkThreshold(t) \/ Announce(t)
  \/ Rollover(t)
  \/ MeasureReceipt(t)
  \/ \E r \in Receipts : InsertReceipt(t, r)
  \/ PriceRecord(t) \/ MeasureRecord(t) \/ UpsertCostRecord(t)

Start(t) ==
  \/ EvaluateBudgets(t)
  \/ StartRollover(t)
  \/ /\ \E r \in Receipts : receipt[r] = None
     /\ \/ ReceiptIssue(t)
        \/ \E p \in Periods, price \in Prices \cup {None}, keep \in BOOLEAN :
             StartReceipt(t, p, price, keep)

Operate ==
  \/ \E currency \in Currencies, price \in Prices : UpdateBillingConfig(currency, price)
  \/ \E limit \in Limits : CreateBudget(limit) \/ \E enabled \in BOOLEAN : UpdateBudget(limit, enabled)
  \/ DeleteBudget
  \/ \E r \in Receipts : VoidReceipt(r)

Next ==
  /\ \/ NextPeriod
     \/ \E measured \in BOOLEAN, optimized \in 0 .. 1 : Carry(measured, optimized)
     \/ Operate
     \/ \E t \in Tasks : Start(t) \/ Proceed(t) \/ Crash(t)
  /\ UNCHANGED work

Spec == Init /\ [][Next]_vars

-----------------------------------------------------------------------------

\* Every row has its shape.
TypeOK ==
  /\ clock \in Periods
  /\ traffic \in [Periods -> [Granularities -> Row]]
  /\ config \in Pricing \cup {None}
  /\ budget \in Budget \cup {None}
  /\ events \subseteq Event
  /\ announced \in [Periods -> [Thresholds -> Nat]]
  /\ \A r \in Receipts : receipt[r] # None => receipt[r].status \in {"ISSUED", "VOID"}
  /\ \A t \in Tasks : task[t].step \in Steps
  /\ work \in Workloads /\ edits \in 0 .. MaxEdits /\ crashes \in 0 .. MaxCrashes

Recomputed(shown) ==
  shown.base + Floor(shown.optimized - shown.free) * shown.price

\* A receipt can be recomputed from its own columns, and it verifies until it is void.
ReceiptReproducible ==
  \A r \in Receipts : receipt[r] # None =>
    /\ receipt[r].shown.total = Recomputed(receipt[r].shown)
    /\ Valid(receipt[r]) <=> receipt[r].status = "ISSUED"

\* So can a cost record, and but for the currency its hash is that of its columns.
RecordReproducible ==
  \A p \in Periods : record[p] # None =>
    /\ record[p].shown.total = Recomputed(record[p].shown)
    /\ record[p].inputs = [record[p].shown EXCEPT !.currency = record[p].inputs.currency]

\* Whatever prices and traffic do between the reads of a receipt and its insert, and however
\* often a cost record is computed anew, what is stored is one calculation, not a mixture of
\* two (receipts/service.ts:376, 547, billing/service.ts:589).
StoredIsReproducible == ReceiptReproducible /\ RecordReproducible

\* A flag is preceded by the row of its event.
FlagHasEvent ==
  budget # None =>
    \A threshold \in Thresholds :
      budget.warned[threshold] # None =>
        \E e \in events : e.threshold = threshold /\ e.period >= budget.warned[threshold]

\* It has been announced, or is about to be, unless a process has died on the way.
FlagMeansAnnounced ==
  budget # None =>
    \A threshold \in Thresholds :
      budget.warned[threshold] # None =>
        \/ \E p \in budget.warned[threshold] .. MaxPeriods - 1 : announced[p][threshold] > 0
        \/ \E t \in Tasks : task[t].step = "announce" /\ task[t].threshold = threshold
        \/ crashes > 0

\* A flag keeps its threshold silent, so it must be true: the event is stored and the warning
\* has gone out, also when evaluations overlap, the period turns over between two statements,
\* or the budget is deleted under one (budget.ts:254, 281, 300).
FlagIsTrue == FlagHasEvent /\ FlagMeansAnnounced
=============================================================================
