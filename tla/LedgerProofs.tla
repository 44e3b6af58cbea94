---------------------------- MODULE LedgerProofs ----------------------------
(***************************************************************************)
(* What Ledger promises, for every number of tasks, receipts, periods and  *)
(* edits: a stored receipt or cost record is one calculation, and a flag   *)
(* of the budget stands for an event and a warning.                        *)
(***************************************************************************)
EXTENDS Ledger, TLAPS

-----------------------------------------------------------------------------
(* Operators. *)

LEMMA MaxIsMember ==
  ASSUME NEW S \in SUBSET Thresholds, S # {}
  PROVE  Max(S) \in S
<1>1. \E x \in S : \A y \in S : x >= y
  <2>1. CASE 100 \in S
    BY <2>1 DEF Thresholds
  <2>2. CASE 100 \notin S /\ 90 \in S
    BY <2>2 DEF Thresholds
  <2>3. CASE 100 \notin S /\ 90 \notin S /\ 75 \in S
    BY <2>3 DEF Thresholds
  <2>4. CASE 100 \notin S /\ 90 \notin S /\ 75 \notin S
    <3>1. \A y \in S : y = 50
      BY <2>4 DEF Thresholds
    <3> QED
      BY <3>1
  <2> QED
    BY <2>1, <2>2, <2>3, <2>4
<1> QED
  BY <1>1 DEF Max

\* Only a threshold that is not flagged yet is due.
LEMMA DueIsThreshold ==
  ASSUME NEW spent, NEW read, Due(spent, read) # None
  PROVE  Due(spent, read) \in Thresholds
BY MaxIsMember DEF Due, Reached

\* A write of a task touches no other task.
LEMMA BecomeIs ==
  ASSUME DOMAIN task = Tasks, NEW t \in Tasks, NEW state, Become(t, state)
  PROVE  /\ DOMAIN task' = Tasks
         /\ task'[t] = state
         /\ \A u \in Tasks \ {t} : task'[u] = task[u]
BY DEF Become

\* A write of a field of the budget leaves its other fields.
LEMMA BudgetIs ==
  ASSUME NEW b \in Budget
  PROVE  /\ \A l \in Limits, on \in BOOLEAN :
              LET c == [b EXCEPT !.limit = l, !.enabled = on]
              IN  c \in Budget /\ c.id = b.id /\ c.warned = b.warned
         /\ \A w \in [Thresholds -> Periods \cup {None}] :
              LET c == [b EXCEPT !.warned = w]
              IN  c \in Budget /\ c.id = b.id /\ c.warned = w
BY DEF Budget

-----------------------------------------------------------------------------
(* Type correctness: what a task carries has the kind its step needs. *)

Evaluation == [step: {"consume"}, now: Periods, read: Budget]
Warning == [step: {"upsert", "mark", "announce"}, id: Nat,
            now: Periods, period: Periods, threshold: Thresholds]
Clearing == [step: {"roll"}, id: Nat, stale: SUBSET Thresholds]
Carries(x) ==
  /\ x.step \in Steps
  /\ x.step = "consume" => x \in Evaluation
  /\ x.step \in {"upsert", "mark", "announce"} => x \in Warning
  /\ x.step = "roll" => x \in Clearing

ReceiptShaped(x) == x = [shown |-> x.shown, status |-> x.status, payload |-> x.payload]

Typed ==
  /\ TypeOK
  /\ DOMAIN task = Tasks /\ DOMAIN receipt = Receipts /\ DOMAIN record = Periods
  /\ \A t \in Tasks : Carries(task[t])
  /\ \A r \in Receipts : receipt[r] # None => ReceiptShaped(receipt[r])

\* A void row shows what it showed, beside the hash it had.
LEMMA VoidedIs ==
  ASSUME NEW x, ReceiptShaped(x)
  PROVE  LET y == [x EXCEPT !.status = "VOID"]
         IN  ReceiptShaped(y) /\ y.shown = x.shown /\ y.status = "VOID" /\ y.payload = x.payload
<1> DEFINE y == [x EXCEPT !.status = "VOID"]
<1>1. y = [shown |-> x.shown, status |-> "VOID", payload |-> x.payload]
  BY DEF ReceiptShaped
<1> QED
  BY <1>1 DEF ReceiptShaped

LEMMA IdleCarries == Carries(Idle)
BY DEF Carries, Idle, Steps

LEMMA TasksTyped ==
  ASSUME Typed, NEW t \in Tasks, NEW state, Carries(state), Become(t, state)
  PROVE  /\ DOMAIN task' = Tasks
         /\ \A u \in Tasks : Carries(task'[u]) /\ task'[u].step \in Steps
BY BecomeIs DEF Typed, Carries

LEMMA EndTyped ==
  ASSUME Typed, NEW t \in Tasks, End(t)
  PROVE  /\ DOMAIN task' = Tasks
         /\ \A u \in Tasks : Carries(task'[u]) /\ task'[u].step \in Steps
BY TasksTyped, IdleCarries DEF End

LEMMA TypedInit == Init => Typed
<1> SUFFICES ASSUME Init PROVE Typed
  OBVIOUS
<1>1. \A t \in Tasks : Carries(task[t]) /\ task[t].step \in Steps
  BY IdleCarries DEF Init, Carries
<1>2. 0 \in Periods
  BY LedgerAssumption DEF Periods
<1>3. traffic \in [Periods -> [Granularities -> Row]]
  BY DEF Init, Row
<1>4. announced \in [Periods -> [Thresholds -> Nat]]
  BY DEF Init
<1>5. edits \in 0 .. MaxEdits /\ crashes \in 0 .. MaxCrashes
  BY LedgerAssumption DEF Init
<1> QED
  BY <1>1, <1>2, <1>3, <1>4, <1>5 DEF Init, Typed, TypeOK

\* What a task has read of the budget, where its step still needs it.
BudgetId(x) == IF x.step = "consume" THEN x.read.id ELSE x.id

LEMMA TypedNumbers ==
  ASSUME Typed
  PROVE  /\ clock \in Nat /\ edits \in Nat /\ crashes \in Nat /\ Periods \subseteq Nat
         /\ budget # None => budget \in Budget /\ budget.id \in Nat
                             /\ budget.warned \in [Thresholds -> Periods \cup {None}]
         /\ \A t \in Tasks :
              /\ task[t].step = "consume" => task[t] \in Evaluation /\ BudgetId(task[t]) \in Nat
                                             /\ task[t].now \in Periods
              /\ task[t].step \in {"upsert", "mark", "announce"} =>
                   /\ task[t] \in Warning /\ BudgetId(task[t]) \in Nat
                   /\ task[t].now \in Periods /\ task[t].period \in Periods
                   /\ task[t].threshold \in Thresholds
              /\ task[t].step = "roll" => task[t] \in Clearing /\ BudgetId(task[t]) \in Nat
<1>1. clock \in Nat /\ edits \in Nat /\ crashes \in Nat /\ Periods \subseteq Nat
  BY LedgerAssumption DEF Typed, TypeOK, Periods
<1>2. budget # None => budget \in Budget /\ budget.id \in Nat
                       /\ budget.warned \in [Thresholds -> Periods \cup {None}]
  BY DEF Typed, TypeOK, Budget
<1>3. ASSUME NEW t \in Tasks
      PROVE  /\ task[t].step = "consume" => task[t] \in Evaluation /\ BudgetId(task[t]) \in Nat
                                            /\ task[t].now \in Periods
             /\ task[t].step \in {"upsert", "mark", "announce"} =>
                  /\ task[t] \in Warning /\ BudgetId(task[t]) \in Nat
                  /\ task[t].now \in Periods /\ task[t].period \in Periods
                  /\ task[t].threshold \in Thresholds
             /\ task[t].step = "roll" => task[t] \in Clearing /\ BudgetId(task[t]) \in Nat
  BY DEF Typed, Carries, Evaluation, Warning, Clearing, Budget, BudgetId
<1> QED
  BY <1>1, <1>2, <1>3

\* A flag is set on the budget the evaluation has read, and on nothing else of it.
LEMMA MarkIs ==
  ASSUME Typed, NEW t \in Tasks, MarkThreshold(t), ~Gone(t)
  PROVE  /\ task[t].step = "mark" /\ task[t].threshold \in Thresholds /\ task[t].now \in Periods
         /\ budget # None /\ budget' \in Budget /\ budget' # None /\ budget'.id = budget.id
         /\ budget'.warned = [budget.warned EXCEPT ![task[t].threshold] = task[t].now]
         /\ Become(t, [task[t] EXCEPT !.step = "announce"])
<1> DEFINE w == [budget.warned EXCEPT ![task[t].threshold] = task[t].now]
<1>1. budget # None /\ budget \in Budget /\ budget.warned \in [Thresholds -> Periods \cup {None}]
  BY TypedNumbers DEF Gone
<1>2. task[t].step = "mark" /\ task[t].threshold \in Thresholds /\ task[t].now \in Periods
  BY TypedNumbers DEF MarkThreshold
<1>3. w \in [Thresholds -> Periods \cup {None}]
  BY <1>1, <1>2
<1>4. budget' = [budget EXCEPT !.warned = w] /\ Become(t, [task[t] EXCEPT !.step = "announce"])
  BY DEF MarkThreshold
<1> HIDE DEF w
<1>5. budget' \in Budget /\ budget'.id = budget.id /\ budget'.warned = w
  BY <1>1, <1>3, <1>4, BudgetIs
<1> QED
  BY <1>1, <1>2, <1>4, <1>5, NoneAssumption DEF w

\* A rollover clears flags and sets none.
LEMMA RolloverIs ==
  ASSUME Typed, NEW t \in Tasks, Rollover(t), ~Gone(t)
  PROVE  /\ budget # None /\ budget' \in Budget /\ budget' # None /\ budget'.id = budget.id
         /\ \A h \in Thresholds : budget'.warned[h] \in {None, budget.warned[h]}
<1> DEFINE w == [threshold \in Thresholds |->
                   IF threshold \in task[t].stale THEN None ELSE budget.warned[threshold]]
<1>1. budget # None /\ budget \in Budget /\ budget.warned \in [Thresholds -> Periods \cup {None}]
  BY TypedNumbers DEF Gone
<1>2. /\ w \in [Thresholds -> Periods \cup {None}]
      /\ \A h \in Thresholds : w[h] \in {None, budget.warned[h]}
  BY <1>1
<1>3. budget' = [budget EXCEPT !.warned = w]
  BY DEF Rollover
<1> HIDE DEF w
<1>4. budget' \in Budget /\ budget'.id = budget.id /\ budget'.warned = w
  BY <1>1, <1>2, <1>3, BudgetIs
<1> QED
  BY <1>1, <1>2, <1>4, NoneAssumption

LEMMA TypedNext == Typed /\ [Next]_vars => Typed'
<1> SUFFICES ASSUME Typed, [Next]_vars PROVE Typed'
  OBVIOUS
<1>0. /\ clock \in Periods /\ work \in Workloads /\ edits \in 0 .. MaxEdits /\ crashes \in 0 .. MaxCrashes
      /\ traffic \in [Periods -> [Granularities -> Row]]
      /\ config \in Pricing \cup {None} /\ budget \in Budget \cup {None}
      /\ events \subseteq Event /\ announced \in [Periods -> [Thresholds -> Nat]]
      /\ \A r \in Receipts : receipt[r] # None => receipt[r].status \in {"ISSUED", "VOID"}
      /\ \A t \in Tasks : task[t].step \in Steps
      /\ DOMAIN task = Tasks /\ DOMAIN receipt = Receipts /\ DOMAIN record = Periods
      /\ \A t \in Tasks : Carries(task[t])
      /\ \A r \in Receipts : receipt[r] # None => ReceiptShaped(receipt[r])
  BY DEF Typed, TypeOK
<1>1. CASE NextPeriod /\ UNCHANGED work
  BY <1>0, <1>1 DEF NextPeriod, Typed, TypeOK
<1>2. ASSUME NEW measured \in BOOLEAN, NEW optimized \in 0 .. 1, Carry(measured, optimized), UNCHANGED work
      PROVE  Typed'
  <2> DEFINE row(g) == [raw |-> traffic[clock][g].raw + 1,
                        optimized |-> traffic[clock][g].optimized + (IF measured THEN optimized ELSE 0),
                        seen |-> traffic[clock][g].seen \/ measured]
  <2>1. \A g \in Granularities : traffic[clock][g] \in Row
    BY <1>0
  <2>2. \A g \in Granularities : row(g) \in Row
    BY <2>1, <1>2 DEF Row
  <2>3. traffic' = [traffic EXCEPT ![clock] = [g \in Granularities |-> row(g)]]
    BY <1>2 DEF Carry
  <2> HIDE DEF row
  <2>4. traffic' \in [Periods -> [Granularities -> Row]]
    BY <1>0, <2>2, <2>3
  <2> QED
    BY <1>0, <1>2, <2>4 DEF Carry, Typed, TypeOK
<1>3. CASE Operate /\ UNCHANGED work
  <2>0. edits < MaxEdits => edits + 1 \in 0 .. MaxEdits
    BY <1>0, LedgerAssumption
  <2>1. ASSUME NEW currency \in Currencies, NEW price \in Prices, UpdateBillingConfig(currency, price)
        PROVE  Typed'
    <3>1. ActivePricing \in Pricing
      BY <1>0, TemplateAssumption, LedgerAssumption DEF ActivePricing, Pricing
    <3>2. config' \in Pricing
      BY <2>1, <3>1 DEF UpdateBillingConfig, Pricing
    <3> QED
      BY <1>0, <1>3, <2>0, <2>1, <3>2 DEF UpdateBillingConfig, Edit, Typed, TypeOK
  <2>2. ASSUME NEW limit \in Limits, CreateBudget(limit)
        PROVE  Typed'
    <3>1. budget' \in Budget
      BY <1>0, <2>2 DEF CreateBudget, Budget, Unwarned
    <3> QED
      BY <1>0, <1>3, <2>2, <3>1 DEF CreateBudget, Typed, TypeOK
  <2>3. ASSUME NEW limit \in Limits, NEW enabled \in BOOLEAN, UpdateBudget(limit, enabled)
        PROVE  Typed'
    <3>1. budget' \in Budget
      BY <1>0, <2>3, BudgetIs DEF UpdateBudget
    <3> QED
      BY <1>0, <1>3, <2>0, <2>3, <3>1 DEF UpdateBudget, Edit, Typed, TypeOK
  <2>4. CASE DeleteBudget
    BY <1>0, <1>3, <2>0, <2>4 DEF DeleteBudget, Edit, Typed, TypeOK
  <2>5. ASSUME NEW r \in Receipts, VoidReceipt(r)
        PROVE  Typed'
    <3>1. ReceiptShaped(receipt[r]) /\ receipt' = [receipt EXCEPT ![r] = [receipt[r] EXCEPT !.status = "VOID"]]
      BY <1>0, <2>5 DEF VoidReceipt
    <3>2. /\ [receipt[r] EXCEPT !.status = "VOID"].status = "VOID"
          /\ ReceiptShaped([receipt[r] EXCEPT !.status = "VOID"])
      BY <3>1, VoidedIs
    <3>3. /\ DOMAIN receipt' = Receipts
          /\ receipt'[r] = [receipt[r] EXCEPT !.status = "VOID"]
          /\ \A s \in Receipts \ {r} : receipt'[s] = receipt[s]
      BY <1>0, <3>1
    <3>4. \A s \in Receipts : receipt'[s] # None =>
            ReceiptShaped(receipt'[s]) /\ receipt'[s].status \in {"ISSUED", "VOID"}
      BY <1>0, <3>2, <3>3
    <3> QED
      BY <1>0, <1>3, <2>5, <3>3, <3>4 DEF VoidReceipt, Typed, TypeOK
  <2> QED
    BY <1>3, <2>1, <2>2, <2>3, <2>4, <2>5 DEF Operate
<1>4. ASSUME NEW t \in Tasks, Start(t), UNCHANGED work PROVE Typed'
  <2>1. CASE EvaluateBudgets(t)
    <3>1. budget \in Budget
      BY <1>0, <2>1 DEF EvaluateBudgets
    <3>2. Carries([step |-> "consume", now |-> clock, read |-> budget])
      BY <1>0, <3>1 DEF Carries, Steps, Evaluation
    <3>3. Become(t, [step |-> "consume", now |-> clock, read |-> budget])
      BY <2>1 DEF EvaluateBudgets
    <3>4. /\ DOMAIN task' = Tasks
          /\ \A u \in Tasks : Carries(task'[u]) /\ task'[u].step \in Steps
      BY <3>2, <3>3, TasksTyped
    <3> QED
      BY <1>0, <1>4, <2>1, <3>4 DEF EvaluateBudgets, Typed, TypeOK
  <2>2. CASE StartRollover(t)
    <3> DEFINE stale == {threshold \in Thresholds : Stale(budget.warned[threshold], clock)}
    <3>1. budget \in Budget /\ budget.id \in Nat
      BY <1>0, <2>2 DEF StartRollover, Budget
    <3>2. Carries([step |-> "roll", id |-> budget.id, stale |-> stale])
      BY <3>1 DEF Carries, Steps, Clearing
    <3>3. Become(t, [step |-> "roll", id |-> budget.id, stale |-> stale])
      BY <2>2 DEF StartRollover
    <3> HIDE DEF stale
    <3>4. /\ DOMAIN task' = Tasks
          /\ \A u \in Tasks : Carries(task'[u]) /\ task'[u].step \in Steps
      BY <3>2, <3>3, TasksTyped
    <3> QED
      BY <1>0, <1>4, <2>2, <3>4 DEF StartRollover, Typed, TypeOK
  <2>3. ASSUME NEW p, NEW price, NEW keep, StartReceipt(t, p, price, keep) PROVE Typed'
    <3>1. PICK pricing : Become(t, [step |-> "measure", period |-> p, keep |-> keep, pricing |-> pricing])
      BY <2>3 DEF StartReceipt
    <3>2. Carries([step |-> "measure", period |-> p, keep |-> keep, pricing |-> pricing])
      BY DEF Carries, Steps
    <3>3. /\ DOMAIN task' = Tasks
          /\ \A u \in Tasks : Carries(task'[u]) /\ task'[u].step \in Steps
      BY <3>1, <3>2, TasksTyped
    <3> QED
      BY <1>0, <1>4, <2>3, <3>3 DEF StartReceipt, Typed, TypeOK
  <2> QED
    BY <1>4, <2>1, <2>2, <2>3 DEF Start, ReceiptIssue

<1>5. ASSUME NEW t \in Tasks, End(t), UNCHANGED <<clock, traffic, config, receipt, record, work, edits>>,
             events' \subseteq Event, budget' \in Budget \cup {None},
             announced' \in [Periods -> [Thresholds -> Nat]], crashes' \in 0 .. MaxCrashes
      PROVE  Typed'
  <2>1. /\ DOMAIN task' = Tasks
        /\ \A u \in Tasks : Carries(task'[u]) /\ task'[u].step \in Steps
    BY <1>5, EndTyped
  <2> QED
    BY <1>0, <1>5, <2>1 DEF Typed, TypeOK
<1>6. ASSUME NEW t \in Tasks, NEW state, Carries(state), Become(t, state),
             UNCHANGED <<clock, traffic, config, announced, receipt, record, work, edits, crashes>>,
             events' \subseteq Event, budget' \in Budget \cup {None}
      PROVE  Typed'
  <2>1. /\ DOMAIN task' = Tasks
        /\ \A u \in Tasks : Carries(task'[u]) /\ task'[u].step \in Steps
    BY <1>6, TasksTyped
  <2> QED
    BY <1>0, <1>6, <2>1 DEF Typed, TypeOK
<1>7. ASSUME NEW t \in Tasks, Proceed(t), UNCHANGED work PROVE Typed'
  <2>0. /\ task[t].step = "consume" => task[t] \in Evaluation
        /\ task[t].step \in {"upsert", "mark", "announce"} => task[t] \in Warning
        /\ task[t].step = "roll" => task[t] \in Clearing
    BY <1>0 DEF Carries
  <2>1. CASE Consume(t)
    <3> DEFINE due == IF MeasurePeriod(clock).raw > 0 THEN Due(CurrentSpending, task[t].read) ELSE None
               state == [step |-> "upsert", id |-> task[t].read.id, now |-> task[t].now,
                         period |-> clock, threshold |-> due]
    <3>1. CASE due = None
      BY <1>0, <1>5, <1>7, <2>1, <3>1 DEF Consume
    <3>2. CASE due # None
      <4>1. due \in Thresholds
        BY <3>2, DueIsThreshold
      <4> HIDE DEF due
      <4>2. task[t].read.id \in Nat /\ task[t].now \in Periods
        BY <2>0, <2>1 DEF Consume, Evaluation, Budget
      <4>3. Carries(state)
        BY <1>0, <4>1, <4>2 DEF Carries, Steps, Warning
      <4>4. Become(t, state)
        BY <2>1, <3>2 DEF Consume, due
      <4> HIDE DEF state
      <4> QED
        BY <1>0, <1>6, <1>7, <2>1, <4>3, <4>4 DEF Consume
    <3> QED
      BY <3>1, <3>2
  <2>2. CASE UpsertEvent(t)
    <3> DEFINE state == [task[t] EXCEPT !.step = "mark"]
               event == [threshold |-> task[t].threshold, period |-> task[t].period]
    <3>1. task[t] \in Warning
      BY <2>0, <2>2 DEF UpsertEvent
    <3>2. event \in Event /\ Carries(state)
      BY <3>1 DEF Event, Warning, Carries, Steps
    <3>3. CASE Gone(t)
      BY <1>0, <1>5, <1>7, <2>2, <3>3 DEF UpsertEvent
    <3>4. CASE ~Gone(t)
      <4>1. events' = events \cup {event} /\ Become(t, state)
        BY <2>2, <3>4 DEF UpsertEvent
      <4> HIDE DEF state, event
      <4> QED
        BY <1>0, <1>6, <1>7, <2>2, <3>2, <4>1 DEF UpsertEvent
    <3> QED
      BY <3>3, <3>4
  <2>3. CASE MarkThreshold(t)
    <3> DEFINE state == [task[t] EXCEPT !.step = "announce"]
    <3>1. task[t] \in Warning
      BY <2>0, <2>3 DEF MarkThreshold
    <3>2. Carries(state)
      BY <3>1 DEF Warning, Carries, Steps
    <3>3. CASE Gone(t)
      BY <1>0, <1>5, <1>7, <2>3, <3>3 DEF MarkThreshold
    <3>4. CASE ~Gone(t)
      <4>1. budget' \in Budget /\ Become(t, state)
        BY <2>3, <3>4, MarkIs
      <4> HIDE DEF state
      <4> QED
        BY <1>0, <1>6, <1>7, <2>3, <3>2, <4>1 DEF MarkThreshold
    <3> QED
      BY <3>3, <3>4
  <2>4. CASE Announce(t)
    <3>1. task[t].period \in Periods /\ task[t].threshold \in Thresholds
      BY <2>0, <2>4 DEF Announce, Warning
    <3>2. announced' \in [Periods -> [Thresholds -> Nat]]
      BY <1>0, <2>4, <3>1 DEF Announce
    <3> QED
      BY <1>0, <1>5, <1>7, <2>4, <3>2 DEF Announce
  <2>5. CASE Rollover(t)
    <3>1. CASE Gone(t)
      BY <1>0, <1>5, <1>7, <2>5, <3>1 DEF Rollover
    <3>2. CASE ~Gone(t)
      <4>1. budget' \in Budget
        BY <2>5, <3>2, RolloverIs
      <4> QED
        BY <1>0, <1>5, <1>7, <2>5, <4>1 DEF Rollover
    <3> QED
      BY <3>1, <3>2
  <2>6. CASE MeasureReceipt(t)
    <3>1. PICK state : state.step = "insert" /\ Become(t, state)
      BY <2>6 DEF MeasureReceipt
    <3>2. Carries(state)
      BY <3>1 DEF Carries, Steps
    <3> QED
      BY <1>0, <1>6, <1>7, <2>6, <3>1, <3>2 DEF MeasureReceipt
  <2>7. ASSUME NEW r \in Receipts, InsertReceipt(t, r) PROVE Typed'
    <3> DEFINE shown == task[t].shown
               row == [shown |-> shown, status |-> "ISSUED",
                       payload |-> [shown |-> shown, status |-> "ISSUED"]]
               state == [step |-> "price", period |-> shown.period]
    <3>1. receipt' = [receipt EXCEPT ![r] = row]
      BY <2>7 DEF InsertReceipt, Canonical
    <3>2. ReceiptShaped(row) /\ row.status = "ISSUED"
      BY DEF ReceiptShaped
    <3>3. Carries(state) /\ (Become(t, state) \/ Become(t, Idle))
      BY <2>7 DEF InsertReceipt, End, Carries, Steps
    <3> HIDE DEF row, state
    <3>4. DOMAIN receipt' = Receipts
      BY <1>0, <3>1
    <3>5. \A s \in Receipts : receipt'[s] # None =>
            ReceiptShaped(receipt'[s]) /\ receipt'[s].status \in {"ISSUED", "VOID"}
      BY <1>0, <3>1, <3>2
    <3>6. /\ DOMAIN task' = Tasks
          /\ \A u \in Tasks : Carries(task'[u]) /\ task'[u].step \in Steps
      BY <3>3, TasksTyped, IdleCarries
    <3> QED
      BY <1>0, <1>7, <2>7, <3>4, <3>5, <3>6 DEF InsertReceipt, Typed, TypeOK
  <2>8. CASE PriceRecord(t)
    <3>1. PICK state : state.step = "remeasure" /\ Become(t, state)
      BY <2>8 DEF PriceRecord
    <3>2. Carries(state)
      BY <3>1 DEF Carries, Steps
    <3> QED
      BY <1>0, <1>6, <1>7, <2>8, <3>1, <3>2 DEF PriceRecord
  <2>9. CASE MeasureRecord(t)
    <3>1. PICK state : state.step = "persist" /\ Become(t, state)
      BY <2>9 DEF MeasureRecord
    <3>2. Carries(state)
      BY <3>1 DEF Carries, Steps
    <3> QED
      BY <1>0, <1>6, <1>7, <2>9, <3>1, <3>2 DEF MeasureRecord
  <2>10. CASE UpsertCostRecord(t)
    <3>1. /\ DOMAIN task' = Tasks
          /\ \A u \in Tasks : Carries(task'[u]) /\ task'[u].step \in Steps
      BY <2>10, EndTyped DEF UpsertCostRecord
    <3>2. DOMAIN record' = Periods
      BY <1>0, <2>10 DEF UpsertCostRecord
    <3> QED
      BY <1>0, <1>7, <2>10, <3>1, <3>2 DEF UpsertCostRecord, Typed, TypeOK
  <2> QED
    BY <1>7, <2>1, <2>2, <2>3, <2>4, <2>5, <2>6, <2>7, <2>8, <2>9, <2>10 DEF Proceed
<1>8. ASSUME NEW t \in Tasks, Crash(t), UNCHANGED work PROVE Typed'
  <2>1. crashes' \in 0 .. MaxCrashes
    BY <1>0, <1>8, LedgerAssumption DEF Crash
  <2> QED
    BY <1>0, <1>5, <1>8, <2>1 DEF Crash
<1>9. CASE UNCHANGED vars
  BY <1>0, <1>9 DEF vars, Typed, TypeOK
<1> QED
  BY <1>1, <1>2, <1>3, <1>4, <1>7, <1>8, <1>9 DEF Next

\* Every row and every task in progress has its shape.
THEOREM TypeCorrect == Spec => []TypeOK
<1>1. Typed => TypeOK
  BY DEF Typed
<1> QED
  BY TypedInit, TypedNext, <1>1, PTL DEF Spec

-----------------------------------------------------------------------------
(* The inductive invariant of the flags.  A task holds the identifier of   *)
(* the budget it has read.  Identifiers are numbered by edits, and to      *)
(* delete a budget is an edit: so a task whose budget is gone never takes  *)
(* a later one for it.  And the period of an event is not before the time  *)
(* the evaluation took for the flag.                                       *)

BudgetSteps == {"consume", "upsert", "mark", "announce", "roll"}

\* A task's budget is the one there is, or it is gone for good.
Named(t) ==
  task[t].step \in BudgetSteps =>
    BudgetId(task[t]) <= edits /\ (budget = None => BudgetId(task[t]) < edits)
\* The event of a flag is of the time of the flag or later.
Ordered(t) ==
  /\ task[t].step = "consume" => task[t].now <= clock
  /\ task[t].step \in {"upsert", "mark", "announce"} => task[t].now <= task[t].period
\* The event is stored before the flag.
Stored(t) ==
  task[t].step = "mark" /\ ~Gone(t) =>
    [threshold |-> task[t].threshold, period |-> task[t].period] \in events

\* A flag's warning has gone out in its period or later, or a task is about to send it.
Pending ==
  budget # None =>
    \A threshold \in Thresholds :
      budget.warned[threshold] # None =>
        \/ \E p \in budget.warned[threshold] .. MaxPeriods - 1 : announced[p][threshold] > 0
        \/ \E t \in Tasks : /\ task[t].step = "announce" /\ task[t].threshold = threshold
                            /\ task[t].period >= budget.warned[threshold]
        \/ crashes > 0

Founded ==
  /\ \A t \in Tasks : Named(t) /\ Ordered(t) /\ Stored(t)
  /\ budget # None => budget.id <= edits
  /\ FlagHasEvent
  /\ Pending

LEMMA FoundedInit == Init => Founded
BY DEF Init, Founded, Named, Ordered, Stored, FlagHasEvent, Pending, Idle, BudgetSteps

\* What a step may do to the numbers: the clock and the edits go on, and a budget keeps its
\* identifier until an edit deletes it, with its events.
Onward ==
  /\ clock' >= clock /\ edits' >= edits /\ crashes' >= crashes
  /\ \/ budget = None /\ budget' = None
     \/ budget # None /\ budget' # None /\ budget'.id = budget.id /\ events \subseteq events'
     \/ budget = None /\ budget' # None /\ budget'.id = edits /\ edits' = edits
     \/ budget' = None /\ edits' > edits

LEMMA NextOnward ==
  ASSUME Typed, Typed', [Next]_vars
  PROVE  Onward
<1>0. clock \in Nat /\ edits \in Nat /\ crashes \in Nat
  BY TypedNumbers
<1>1. CASE NextPeriod
  BY <1>0, <1>1 DEF NextPeriod, Onward
<1>2. ASSUME NEW measured, NEW optimized, Carry(measured, optimized) PROVE Onward
  BY <1>0, <1>2 DEF Carry, Onward
<1>3. CASE Operate
  <2>1. ASSUME NEW limit \in Limits, CreateBudget(limit) PROVE Onward
    <3>1. budget' \in Budget /\ budget'.id = edits
      BY <1>0, <2>1 DEF CreateBudget, Budget, Unwarned
    <3> QED
      BY <1>0, <2>1, <3>1, NoneAssumption DEF CreateBudget, Onward
  <2>2. ASSUME NEW limit \in Limits, NEW enabled \in BOOLEAN, UpdateBudget(limit, enabled) PROVE Onward
    <3>1. budget # None /\ budget \in Budget
      BY <2>2, TypedNumbers DEF UpdateBudget
    <3>2. budget' \in Budget /\ budget'.id = budget.id
      BY <2>2, <3>1, BudgetIs DEF UpdateBudget
    <3> QED
      BY <1>0, <2>2, <3>1, <3>2, NoneAssumption DEF UpdateBudget, Edit, Onward
  <2>3. CASE DeleteBudget
    BY <1>0, <2>3 DEF DeleteBudget, Edit, Onward
  <2>4. ASSUME NEW c, NEW p, UpdateBillingConfig(c, p) PROVE Onward
    BY <1>0, <2>4 DEF UpdateBillingConfig, Edit, Onward
  <2>5. ASSUME NEW r, VoidReceipt(r) PROVE Onward
    BY <1>0, <2>5 DEF VoidReceipt, Onward
  <2> QED
    BY <1>3, <2>1, <2>2, <2>3, <2>4, <2>5 DEF Operate
<1>4. ASSUME NEW t \in Tasks, Start(t) PROVE Onward
  <2>1. UNCHANGED <<clock, budget, events, edits, crashes>>
    BY <1>4 DEF Start, EvaluateBudgets, StartRollover, ReceiptIssue, StartReceipt
  <2> QED
    BY <1>0, <2>1 DEF Onward
<1>5. ASSUME NEW t \in Tasks, Proceed(t) PROVE Onward
  <2>1. CASE UNCHANGED <<clock, budget, edits, crashes>> /\ events \subseteq events'
    BY <1>0, <2>1 DEF Onward
  <2>2. CASE MarkThreshold(t) \/ Rollover(t)
    <3>1. \/ budget' = budget
          \/ budget # None /\ budget' # None /\ budget'.id = budget.id
      BY <2>2, MarkIs, RolloverIs DEF MarkThreshold, Rollover
    <3> QED
      BY <1>0, <2>2, <3>1 DEF MarkThreshold, Rollover, Onward
  <2> QED
    BY <1>5, <2>1, <2>2 DEF Proceed, Consume, UpsertEvent, Announce, MeasureReceipt, InsertReceipt,
       PriceRecord, MeasureRecord, UpsertCostRecord
<1>6. ASSUME NEW t \in Tasks, Crash(t) PROVE Onward
  BY <1>0, <1>6 DEF Crash, Onward
<1>7. CASE UNCHANGED vars
  BY <1>0, <1>7 DEF vars, Onward
<1> QED
  BY <1>1, <1>2, <1>3, <1>4, <1>5, <1>6, <1>7 DEF Next

\* A task that does nothing in a step stays as well founded as it was.
LEMMA IdlersFounded ==
  ASSUME Typed, Typed', Founded, Onward, NEW t \in Tasks, task'[t] = task[t]
  PROVE  Named(t)' /\ Ordered(t)' /\ Stored(t)'
<1>0. /\ clock \in Nat /\ clock' \in Nat /\ edits \in Nat /\ edits' \in Nat
      /\ clock' >= clock /\ edits' >= edits
  BY TypedNumbers DEF Onward, Typed, TypeOK
<1>1. Named(t) /\ Ordered(t) /\ Stored(t)
  BY DEF Founded
<1>2. task[t].step \in BudgetSteps => BudgetId(task[t]) \in Nat
  BY TypedNumbers DEF BudgetSteps
<1>3. Named(t)'
  BY <1>0, <1>1, <1>2 DEF Named, Onward
<1>4. Ordered(t)'
  <2>1. /\ task[t].step = "consume" => task[t].now \in Nat
        /\ task[t].step \in {"upsert", "mark", "announce"} => task[t].now \in Nat /\ task[t].period \in Nat
    BY TypedNumbers
  <2> QED
    BY <1>0, <1>1, <2>1 DEF Ordered
<1>5. Stored(t)'
  <2> SUFFICES ASSUME task[t].step = "mark", budget' # None, budget'.id = task[t].id
               PROVE  [threshold |-> task[t].threshold, period |-> task[t].period] \in events'
    BY DEF Stored, Gone
  <2>1. task[t].id = BudgetId(task[t]) /\ task[t].id \in Nat
    BY <1>2 DEF BudgetId, BudgetSteps
  <2>2. budget # None /\ budget'.id = budget.id /\ events \subseteq events'
    BY <1>0, <1>1, <2>1 DEF Onward, Named, BudgetSteps
  <2> QED
    BY <1>1, <2>2 DEF Stored, Gone
<1> QED
  BY <1>3, <1>4, <1>5

\* A task whose step has nothing of the budget is well founded.
LEMMA OthersFounded ==
  ASSUME NEW t, task'[t].step \notin BudgetSteps
  PROVE  Named(t)' /\ Ordered(t)' /\ Stored(t)'
BY DEF Named, Ordered, Stored, BudgetSteps

\* A step of a task founds what it writes to it.
LEMMA ActorFounded ==
  ASSUME Typed, Typed', Founded, NEW t \in Tasks, Start(t) \/ Proceed(t) \/ Crash(t)
  PROVE  /\ \A u \in Tasks \ {t} : task'[u] = task[u]
         /\ Named(t)' /\ Ordered(t)' /\ Stored(t)'
<1>0. /\ clock \in Nat /\ edits \in Nat /\ DOMAIN task = Tasks
      /\ Named(t) /\ Ordered(t)
      /\ budget # None => budget.id <= edits
  BY TypedNumbers DEF Founded, Typed
<1>1. ASSUME NEW state, Become(t, state), state.step \notin BudgetSteps
      PROVE  /\ \A u \in Tasks \ {t} : task'[u] = task[u]
             /\ Named(t)' /\ Ordered(t)' /\ Stored(t)'
  BY <1>0, <1>1, BecomeIs, OthersFounded
<1>2. ASSUME End(t)
      PROVE  /\ \A u \in Tasks \ {t} : task'[u] = task[u]
             /\ Named(t)' /\ Ordered(t)' /\ Stored(t)'
  <2>1. Idle.step \notin BudgetSteps
    BY DEF Idle, BudgetSteps
  <2> QED
    BY <1>1, <1>2, <2>1 DEF End
<1>3. CASE EvaluateBudgets(t)
  <2> DEFINE state == [step |-> "consume", now |-> clock, read |-> budget]
  <2>1. Become(t, state) /\ UNCHANGED <<clock, edits, budget>> /\ budget # None
    BY <1>3 DEF EvaluateBudgets
  <2>2. state.step = "consume" /\ state.now = clock /\ BudgetId(state) = budget.id
    BY DEF BudgetId
  <2> HIDE DEF state
  <2>3. task'[t] = state /\ \A u \in Tasks \ {t} : task'[u] = task[u]
    BY <1>0, <2>1, BecomeIs
  <2> QED
    BY <1>0, <2>1, <2>2, <2>3 DEF Named, Ordered, Stored, BudgetId
<1>4. CASE StartRollover(t)
  <2> DEFINE state == [step |-> "roll", id |-> budget.id,
                       stale |-> {threshold \in Thresholds : Stale(budget.warned[threshold], clock)}]
  <2>1. Become(t, state) /\ UNCHANGED <<clock, edits, budget>> /\ budget # None
    BY <1>4 DEF StartRollover
  <2>2. state.step = "roll" /\ BudgetId(state) = budget.id
    BY DEF BudgetId
  <2> HIDE DEF state
  <2>3. task'[t] = state /\ \A u \in Tasks \ {t} : task'[u] = task[u]
    BY <1>0, <2>1, BecomeIs
  <2> QED
    BY <1>0, <2>1, <2>2, <2>3 DEF Named, Ordered, Stored, BudgetId
<1>5. CASE Consume(t)
  <2> DEFINE due == IF MeasurePeriod(clock).raw > 0 THEN Due(CurrentSpending, task[t].read) ELSE None
             state == [step |-> "upsert", id |-> task[t].read.id, now |-> task[t].now,
                       period |-> clock, threshold |-> due]
  <2>1. CASE due = None
    BY <1>2, <1>5, <2>1 DEF Consume
  <2>2. CASE due # None
    <3>1. Become(t, state) /\ UNCHANGED <<clock, edits, budget>>
      BY <1>5, <2>2 DEF Consume
    <3>2. /\ state.step = "upsert" /\ state.now = task[t].now /\ state.period = clock
          /\ BudgetId(state) = BudgetId(task[t]) /\ task[t].step = "consume"
      BY <1>5 DEF BudgetId, Consume
    <3> HIDE DEF state
    <3>3. task'[t] = state /\ \A u \in Tasks \ {t} : task'[u] = task[u]
      BY <1>0, <3>1, BecomeIs
    <3> QED
      BY <1>0, <3>1, <3>2, <3>3 DEF Named, Ordered, Stored, BudgetSteps, BudgetId
  <2> QED
    BY <2>1, <2>2
<1>6. CASE UpsertEvent(t)
  <2> DEFINE state == [task[t] EXCEPT !.step = "mark"]
             event == [threshold |-> task[t].threshold, period |-> task[t].period]
  <2>1. CASE Gone(t)
    BY <1>2, <1>6, <2>1 DEF UpsertEvent
  <2>2. CASE ~Gone(t)
    <3>1. Become(t, state) /\ UNCHANGED <<clock, edits, budget>> /\ events' = events \cup {event}
      BY <1>6, <2>2 DEF UpsertEvent
    <3>2. task[t] \in Warning /\ task[t].step = "upsert"
      BY <1>6, TypedNumbers DEF UpsertEvent
    <3>3. /\ state.step = "mark" /\ state.now = task[t].now /\ state.period = task[t].period
          /\ state.threshold = task[t].threshold /\ BudgetId(state) = BudgetId(task[t])
      BY <3>2 DEF BudgetId, Warning
    <3> HIDE DEF state
    <3>4. task'[t] = state /\ \A u \in Tasks \ {t} : task'[u] = task[u]
      BY <1>0, <3>1, BecomeIs
    <3> QED
      BY <1>0, <3>1, <3>2, <3>3, <3>4 DEF Named, Ordered, Stored, BudgetSteps, BudgetId
  <2> QED
    BY <2>1, <2>2
<1>7. CASE MarkThreshold(t)
  <2> DEFINE state == [task[t] EXCEPT !.step = "announce"]
  <2>1. CASE Gone(t)
    BY <1>2, <1>7, <2>1 DEF MarkThreshold
  <2>2. CASE ~Gone(t)
    <3>1. Become(t, state) /\ UNCHANGED <<clock, edits>> /\ budget' # None
      BY <1>7, <2>2, MarkIs DEF MarkThreshold
    <3>2. task[t] \in Warning /\ task[t].step = "mark"
      BY <1>7, TypedNumbers DEF MarkThreshold
    <3>3. /\ state.step = "announce" /\ state.now = task[t].now /\ state.period = task[t].period
          /\ BudgetId(state) = BudgetId(task[t])
      BY <3>2 DEF BudgetId, Warning
    <3> HIDE DEF state
    <3>4. task'[t] = state /\ \A u \in Tasks \ {t} : task'[u] = task[u]
      BY <1>0, <3>1, BecomeIs
    <3> QED
      BY <1>0, <3>1, <3>2, <3>3, <3>4 DEF Named, Ordered, Stored, BudgetSteps, BudgetId
  <2> QED
    BY <2>1, <2>2
<1>8. CASE Announce(t) \/ Rollover(t) \/ Crash(t) \/ UpsertCostRecord(t)
  BY <1>2, <1>8 DEF Announce, Rollover, Crash, UpsertCostRecord
<1>9. ASSUME NEW p, NEW price, NEW keep, StartReceipt(t, p, price, keep)
      PROVE  \E state : Become(t, state) /\ state.step = "measure"
  <2> DEFINE state == [step |-> "measure", period |-> p, keep |-> keep,
                       pricing |-> IF price = None THEN ActivePricing ELSE [ActivePricing EXCEPT !.price = price]]
  <2>1. Become(t, state) /\ state.step = "measure"
    BY <1>9 DEF StartReceipt
  <2> HIDE DEF state
  <2> QED
    BY <2>1
<1>10. CASE MeasureReceipt(t)
  <2>1. \E state : Become(t, state) /\ state.step = "insert"
    BY <1>10 DEF MeasureReceipt
  <2> QED
    BY <1>1, <2>1 DEF BudgetSteps
<1>11. ASSUME NEW r, InsertReceipt(t, r)
       PROVE  \/ End(t)
              \/ \E state : Become(t, state) /\ state.step = "price"
  BY <1>11 DEF InsertReceipt
<1>12. CASE PriceRecord(t)
  <2>1. \E state : Become(t, state) /\ state.step = "remeasure"
    BY <1>12 DEF PriceRecord
  <2> QED
    BY <1>1, <2>1 DEF BudgetSteps
<1>13. CASE MeasureRecord(t)
  <2>1. \E state : Become(t, state) /\ state.step = "persist"
    BY <1>13 DEF MeasureRecord
  <2> QED
    BY <1>1, <2>1 DEF BudgetSteps
<1>14. ASSUME NEW p, NEW price, NEW keep, StartReceipt(t, p, price, keep)
       PROVE  /\ \A u \in Tasks \ {t} : task'[u] = task[u]
              /\ Named(t)' /\ Ordered(t)' /\ Stored(t)'
  BY <1>1, <1>9, <1>14 DEF BudgetSteps
<1>15. ASSUME NEW r, InsertReceipt(t, r)
       PROVE  /\ \A u \in Tasks \ {t} : task'[u] = task[u]
              /\ Named(t)' /\ Ordered(t)' /\ Stored(t)'
  BY <1>1, <1>2, <1>11, <1>15 DEF BudgetSteps
<1> QED
  BY <1>3, <1>4, <1>5, <1>6, <1>7, <1>8, <1>10, <1>12, <1>13, <1>14, <1>15 DEF Start, Proceed, ReceiptIssue

\* Whatever a step does to the flags: a budget that is new has none, an evaluation sets the
\* one whose event it has stored, and else a flag is kept or cleared.
LEMMA FlagOrigin ==
  ASSUME Typed, Typed', [Next]_vars, budget' # None
  PROVE  \/ budget'.warned = Unwarned
         \/ /\ budget # None
            /\ \A h \in Thresholds : budget'.warned[h] \in {None, budget.warned[h]}
         \/ \E t \in Tasks : MarkThreshold(t) /\ ~Gone(t)
<1>1. CASE UNCHANGED budget
  BY <1>1
<1>2. ASSUME NEW limit \in Limits, CreateBudget(limit) PROVE budget'.warned = Unwarned
  BY <1>2 DEF CreateBudget
<1>3. ASSUME NEW limit \in Limits, NEW enabled \in BOOLEAN, UpdateBudget(limit, enabled)
      PROVE  budget # None /\ budget'.warned = budget.warned
  <2>1. budget \in Budget
    BY <1>3, TypedNumbers DEF UpdateBudget
  <2> QED
    BY <1>3, <2>1, BudgetIs DEF UpdateBudget
<1>4. CASE DeleteBudget
  BY <1>4 DEF DeleteBudget
<1>5. ASSUME NEW t \in Tasks, MarkThreshold(t)
      PROVE  UNCHANGED budget \/ ~Gone(t)
  BY <1>5 DEF MarkThreshold
<1>6. ASSUME NEW t \in Tasks, Rollover(t)
      PROVE  \/ UNCHANGED budget
             \/ /\ budget # None
                /\ \A h \in Thresholds : budget'.warned[h] \in {None, budget.warned[h]}
  BY <1>6, RolloverIs DEF Rollover
<1>7. ASSUME NEW t \in Tasks, Start(t) \/ Proceed(t) \/ Crash(t), ~MarkThreshold(t), ~Rollover(t)
      PROVE  UNCHANGED budget
  BY <1>7 DEF Start, Proceed, Crash, EvaluateBudgets, StartRollover, ReceiptIssue, StartReceipt, Consume,
     UpsertEvent, Announce, MeasureReceipt, InsertReceipt, PriceRecord, MeasureRecord, UpsertCostRecord
<1>8. CASE NextPeriod \/ UNCHANGED vars
  BY <1>1, <1>8 DEF NextPeriod, vars
<1>9. ASSUME NEW measured, NEW optimized, Carry(measured, optimized) PROVE UNCHANGED budget
  BY <1>9 DEF Carry
<1>10. ASSUME NEW a, NEW b, UpdateBillingConfig(a, b) \/ VoidReceipt(a) PROVE UNCHANGED budget
  BY <1>10 DEF UpdateBillingConfig, VoidReceipt
<1>11. CASE Operate
  <2>1. CASE \E limit \in Limits : CreateBudget(limit)
    BY <1>2, <2>1
  <2>2. CASE \E limit \in Limits, enabled \in BOOLEAN : UpdateBudget(limit, enabled)
    BY <1>3, <2>2
  <2>3. CASE \/ \E currency \in Currencies, price \in Prices : UpdateBillingConfig(currency, price)
             \/ \E r \in Receipts : VoidReceipt(r)
    BY <1>1, <1>10, <2>3
  <2> QED
    BY <1>4, <1>11, <2>1, <2>2, <2>3 DEF Operate
<1>12. ASSUME NEW t \in Tasks, Start(t) \/ Proceed(t) \/ Crash(t)
       PROVE  \/ UNCHANGED budget
              \/ /\ budget # None
                 /\ \A h \in Thresholds : budget'.warned[h] \in {None, budget.warned[h]}
              \/ MarkThreshold(t) /\ ~Gone(t)
  BY <1>5, <1>6, <1>7, <1>12
<1> QED
  BY <1>1, <1>8, <1>9, <1>11, <1>12 DEF Next

\* An event goes only with its budget.
LEMMA EventsStay ==
  ASSUME Typed, Typed', [Next]_vars, budget # None, budget' # None
  PROVE  events \subseteq events'
BY NextOnward DEF Onward

LEMMA FlagHasEventNext ==
  ASSUME Typed, Typed', Founded, [Next]_vars
  PROVE  FlagHasEvent'
<1> SUFFICES ASSUME budget' # None, NEW h \in Thresholds, budget'.warned[h] # None
             PROVE  \E e \in events' : e.threshold = h /\ e.period >= budget'.warned[h]
  BY DEF FlagHasEvent
<1>1. CASE budget'.warned = Unwarned
  BY <1>1 DEF Unwarned
<1>2. CASE budget # None /\ budget'.warned[h] = budget.warned[h]
  <2>1. events \subseteq events'
    BY <1>2, EventsStay
  <2> QED
    BY <1>2, <2>1 DEF Founded, FlagHasEvent
<1>3. ASSUME NEW t \in Tasks, MarkThreshold(t), ~Gone(t), ~(budget'.warned[h] = budget.warned[h])
      PROVE  \E e \in events' : e.threshold = h /\ e.period >= budget'.warned[h]
  <2> DEFINE event == [threshold |-> task[t].threshold, period |-> task[t].period]
  <2>1. /\ task[t].step = "mark" /\ h = task[t].threshold
        /\ budget'.warned[h] = task[t].now
    <3>1. budget.warned \in [Thresholds -> Periods \cup {None}]
      BY <1>3, TypedNumbers DEF Gone
    <3> QED
      BY <1>3, <3>1, MarkIs
  <2>2. event \in events' /\ task[t].now <= task[t].period
    BY <1>3, <2>1 DEF Founded, Stored, Ordered, MarkThreshold
  <2>3. event.threshold = h /\ event.period = task[t].period /\ task[t].period \in Nat /\ task[t].now \in Nat
    BY <2>1, TypedNumbers
  <2> HIDE DEF event
  <2> QED
    BY <2>1, <2>2, <2>3
<1> QED
  BY <1>1, <1>2, <1>3, MarkIs, FlagOrigin

\* A warning that went out stays so.
LEMMA AnnouncedStays ==
  ASSUME Typed, Typed', [Next]_vars, NEW p \in Periods, NEW h \in Thresholds, announced[p][h] > 0
  PROVE  announced'[p][h] > 0
<1>1. CASE UNCHANGED announced
  BY <1>1
<1>2. ASSUME NEW t \in Tasks, Announce(t) PROVE announced'[p][h] > 0
  <2>1. announced \in [Periods -> [Thresholds -> Nat]]
    BY DEF Typed, TypeOK
  <2>2. announced[p][h] \in Nat
    BY <2>1
  <2>3. announced'[p][h] \in {announced[p][h], announced[p][h] + 1}
    BY <1>2, <2>1 DEF Announce
  <2> QED
    BY <2>2, <2>3
<1>3. ASSUME NEW t \in Tasks, Start(t) \/ Proceed(t) \/ Crash(t), ~Announce(t)
      PROVE  UNCHANGED announced
  BY <1>3 DEF Start, Proceed, Crash, EvaluateBudgets, StartRollover, ReceiptIssue, StartReceipt, Consume,
     UpsertEvent, MarkThreshold, Rollover, MeasureReceipt, InsertReceipt, PriceRecord, MeasureRecord, UpsertCostRecord
<1>4. CASE Operate
  BY <1>1, <1>4 DEF Operate, UpdateBillingConfig, CreateBudget, UpdateBudget, DeleteBudget, VoidReceipt
<1> QED
  BY <1>1, <1>2, <1>3, <1>4 DEF Next, NextPeriod, Carry, vars

\* What a step does to tasks: nothing, or one of them acts and no other moves.
LEMMA TasksMove ==
  ASSUME Typed, Typed', Founded, [Next]_vars
  PROVE  \/ UNCHANGED task
         \/ \E t \in Tasks : /\ Start(t) \/ Proceed(t) \/ Crash(t)
                             /\ \A u \in Tasks \ {t} : task'[u] = task[u]
<1>1. CASE Operate
  BY <1>1 DEF Operate, UpdateBillingConfig, CreateBudget, UpdateBudget, DeleteBudget, VoidReceipt
<1> QED
  BY <1>1, ActorFounded DEF Next, NextPeriod, Carry, vars

\* A warning that is due is sent, or the process dies on the way.
LEMMA WarningIsSent ==
  ASSUME Typed, Typed', Founded, [Next]_vars, NEW t \in Tasks, task[t].step = "announce"
  PROVE  task'[t] = task[t] \/ Announce(t) \/ crashes' > 0
<1>1. ASSUME Start(t) PROVE FALSE
  <2>1. task[t] = Idle
    BY <1>1 DEF Start, EvaluateBudgets, StartRollover, ReceiptIssue, StartReceipt
  <2> QED
    BY <2>1 DEF Idle
<1>2. ASSUME Proceed(t) PROVE Announce(t)
  BY <1>2 DEF Proceed, Consume, UpsertEvent, MarkThreshold, Rollover, MeasureReceipt, InsertReceipt,
     PriceRecord, MeasureRecord, UpsertCostRecord
<1>3. ASSUME Crash(t) PROVE crashes' > 0
  BY <1>3, TypedNumbers DEF Crash
<1> QED
  BY <1>1, <1>2, <1>3, TasksMove

LEMMA PendingNext ==
  ASSUME Typed, Typed', Founded, [Next]_vars
  PROVE  Pending'
<1> SUFFICES ASSUME budget' # None, NEW h \in Thresholds, budget'.warned[h] # None
             PROVE  \/ \E p \in budget'.warned[h] .. MaxPeriods - 1 : announced'[p][h] > 0
                    \/ \E t \in Tasks : /\ task'[t].step = "announce" /\ task'[t].threshold = h
                                        /\ task'[t].period >= budget'.warned[h]
                    \/ crashes' > 0
  BY DEF Pending
<1> DEFINE w == budget'.warned[h]
<1>0. w \in Periods /\ Periods \subseteq Nat /\ Periods = 0 .. MaxPeriods - 1 /\ MaxPeriods \in Nat
  <2>1. budget' \in Budget
    BY DEF Typed, TypeOK
  <2>2. budget'.warned \in [Thresholds -> Periods \cup {None}]
    BY <2>1 DEF Budget
  <2> QED
    BY <2>2, LedgerAssumption DEF Periods
<1>1. CASE budget'.warned = Unwarned
  BY <1>1 DEF Unwarned
<1>2. CASE budget # None /\ w = budget.warned[h]
  <2>1. CASE \E p \in w .. MaxPeriods - 1 : announced[p][h] > 0
    <3>1. PICK p \in w .. MaxPeriods - 1 : announced[p][h] > 0
      BY <2>1
    <3>2. p \in Periods
      BY <1>0
    <3>3. announced'[p][h] > 0
      BY <3>1, <3>2, AnnouncedStays
    <3> QED
      BY <3>3
  <2>2. ASSUME NEW t \in Tasks, task[t].step = "announce", task[t].threshold = h, task[t].period >= w
        PROVE  \/ \E p \in w .. MaxPeriods - 1 : announced'[p][h] > 0
               \/ /\ task'[t].step = "announce" /\ task'[t].threshold = h
                  /\ task'[t].period >= w
               \/ crashes' > 0
    <3>1. task[t].period \in Periods
      BY <2>2, TypedNumbers
    <3>2. ASSUME Announce(t) PROVE announced'[task[t].period][h] > 0
      <4>1. announced \in [Periods -> [Thresholds -> Nat]]
        BY DEF Typed, TypeOK
      <4>2. announced[task[t].period][h] \in Nat
        BY <3>1, <4>1
      <4>3. announced'[task[t].period][h] =
              IF announced[task[t].period][h] < 2 THEN announced[task[t].period][h] + 1
              ELSE announced[task[t].period][h]
        BY <2>2, <3>1, <3>2, <4>1 DEF Announce
      <4> QED
        BY <4>2, <4>3
    <3>3. task[t].period \in w .. MaxPeriods - 1
      BY <1>0, <2>2, <3>1
    <3> QED
      BY <2>2, <3>2, <3>3, WarningIsSent
  <2>3. CASE crashes > 0
    BY <2>3, NextOnward, TypedNumbers DEF Onward, Typed, TypeOK
  <2> QED
    BY <1>2, <2>1, <2>2, <2>3 DEF Founded, Pending
<1>3. ASSUME NEW t \in Tasks, MarkThreshold(t), ~Gone(t), ~(w = budget.warned[h])
      PROVE  /\ task'[t].step = "announce" /\ task'[t].threshold = h
             /\ task'[t].period >= w
  <2> DEFINE state == [task[t] EXCEPT !.step = "announce"]
  <2>1. budget.warned \in [Thresholds -> Periods \cup {None}]
    BY <1>3, TypedNumbers DEF Gone
  <2>2. h = task[t].threshold /\ w = task[t].now /\ Become(t, state) /\ task[t].step = "mark"
    BY <1>3, <2>1, MarkIs
  <2>3. task[t] \in Warning /\ task[t].now <= task[t].period /\ task[t].now \in Nat /\ task[t].period \in Nat
    BY <2>2, TypedNumbers DEF Founded, Ordered
  <2>4. state.step = "announce" /\ state.threshold = task[t].threshold /\ state.period = task[t].period
    BY <2>3 DEF Warning
  <2>5. task'[t] = state
    BY <2>2, BecomeIs DEF Typed
  <2> HIDE DEF state, w
  <2> QED
    BY <2>2, <2>3, <2>4, <2>5
<1> QED
  BY <1>1, <1>2, <1>3, MarkIs, FlagOrigin

LEMMA FoundedNext == Typed /\ Typed' /\ Founded /\ [Next]_vars => Founded'
<1> SUFFICES ASSUME Typed, Typed', Founded, [Next]_vars PROVE Founded'
  OBVIOUS
<1>1. Onward
  BY NextOnward
<1>2. \A t \in Tasks : Named(t)' /\ Ordered(t)' /\ Stored(t)'
  BY <1>1, TasksMove, ActorFounded, IdlersFounded
<1>3. budget' # None => budget'.id <= edits'
  <2>1. budget # None => budget.id <= edits /\ budget.id \in Nat
    BY TypedNumbers DEF Founded
  <2>2. edits \in Nat /\ edits' \in Nat
    BY DEF Typed, TypeOK
  <2> QED
    BY <1>1, <2>1, <2>2 DEF Onward
<1> QED
  BY <1>2, <1>3, FlagHasEventNext, PendingNext DEF Founded

\* A flag keeps its threshold silent, and it is true: its event is stored, and its warning
\* has gone out, is about to, or was lost with a process that died.
THEOREM FlagsTrue == Spec => []FlagIsTrue
<1>1. Typed /\ Founded => FlagIsTrue
  <2> SUFFICES ASSUME Typed, Founded PROVE FlagMeansAnnounced
    BY DEF Founded, FlagIsTrue
  <2> QED
    BY DEF Founded, Pending, FlagMeansAnnounced
<1> QED
  BY TypedInit, TypedNext, FoundedInit, FoundedNext, <1>1, PTL DEF Spec

-----------------------------------------------------------------------------
(* Receipts and cost records.  A calculation is made in one step, before   *)
(* the row is written; so what a task is about to write can be recomputed. *)

\* The columns of a calculation, its total reckoned from the others.
Computed(x) ==
  /\ x = [period |-> x.period, raw |-> x.raw, optimized |-> x.optimized, saved |-> x.saved,
          currency |-> x.currency, price |-> x.price, base |-> x.base, free |-> x.free, total |-> x.total]
  /\ x.total = Recomputed(x)

Reproducible ==
  /\ \A t \in Tasks : task[t].step \in {"insert", "persist"} => Computed(task[t].shown)
  /\ \A r \in Receipts : receipt[r] # None =>
       /\ Computed(receipt[r].shown)
       /\ receipt[r].payload = [shown |-> receipt[r].shown, status |-> "ISSUED"]
  /\ \A p \in Periods : record[p] # None =>
       /\ Computed(record[p].shown) /\ Computed(record[p].inputs)
       /\ record[p].inputs = [record[p].shown EXCEPT !.currency = record[p].inputs.currency]

\* The total is reckoned from what the row shows, whatever was measured at whatever prices.
LEMMA CalculationIsComputed ==
  ASSUME NEW p, NEW measured, NEW pricing
  PROVE  Computed(Calculation(p, measured, pricing))
BY DEF Computed, Calculation, Recomputed, ComputeCost

\* An update that keeps the currency is still a calculation, and differs in nothing else.
LEMMA RefreshedIsComputed ==
  ASSUME NEW old, NEW new, Computed(new)
  PROVE  /\ Computed(Refreshed(old, new))
         /\ new = [Refreshed(old, new) EXCEPT !.currency = new.currency]
<1> DEFINE x == Refreshed(old, new)
<1>1. x = [period |-> new.period, raw |-> new.raw, optimized |-> new.optimized, saved |-> new.saved,
           currency |-> old.currency, price |-> new.price, base |-> new.base, free |-> new.free,
           total |-> new.total]
  BY DEF Computed, Refreshed
<1>2. Recomputed(x) = Recomputed(new)
  BY <1>1 DEF Recomputed
<1>3. new = [period |-> new.period, raw |-> new.raw, optimized |-> new.optimized, saved |-> new.saved,
             currency |-> new.currency, price |-> new.price, base |-> new.base, free |-> new.free,
             total |-> new.total]
  BY DEF Computed
<1> HIDE DEF x
<1>4. Computed(x)
  BY <1>1, <1>2 DEF Computed
<1>5. new = [x EXCEPT !.currency = new.currency]
  BY <1>1, <1>3
<1> QED
  BY <1>4, <1>5 DEF x

LEMMA ReproducibleInit == Init => Reproducible
BY DEF Init, Reproducible, Idle

\* What a task is about to write was calculated in one step.
LEMMA WritesComputed ==
  ASSUME Typed, Reproducible, [Next]_vars, NEW u \in Tasks, task'[u].step \in {"insert", "persist"}
  PROVE  Computed(task'[u].shown)
<1>0. DOMAIN task = Tasks
  BY DEF Typed
<1>1. CASE task'[u] = task[u]
  BY <1>1 DEF Reproducible
<1>2. ASSUME NEW t \in Tasks, NEW state, Become(t, state), state.step \notin {"insert", "persist"}
      PROVE  task'[u] = task[u]
  BY <1>0, <1>2, BecomeIs
<1>3. ASSUME NEW t \in Tasks, End(t) PROVE task'[u] = task[u]
  <2>1. Idle.step \notin {"insert", "persist"}
    BY DEF Idle
  <2> QED
    BY <1>2, <1>3, <2>1 DEF End
<1>4. ASSUME NEW t \in Tasks, MeasureReceipt(t) \/ MeasureRecord(t) PROVE Computed(task'[u].shown)
  <2>1. PICK p, measured, pricing, state :
           /\ Become(t, state) /\ state.shown = Calculation(p, measured, pricing)
    <3>1. CASE MeasureReceipt(t)
      <4> DEFINE state == [step |-> "insert", keep |-> task[t].keep,
                           shown |-> Calculation(task[t].period, MeasurePeriod(task[t].period), task[t].pricing)]
      <4>1. Become(t, state) /\ state.shown = Calculation(task[t].period, MeasurePeriod(task[t].period), task[t].pricing)
        BY <3>1 DEF MeasureReceipt
      <4> HIDE DEF state
      <4> QED
        BY <4>1
    <3>2. CASE MeasureRecord(t)
      <4> DEFINE state == [step |-> "persist", period |-> task[t].period,
                           shown |-> Calculation(task[t].period, MeasurePeriod(task[t].period), task[t].pricing)]
      <4>1. Become(t, state) /\ state.shown = Calculation(task[t].period, MeasurePeriod(task[t].period), task[t].pricing)
        BY <3>2 DEF MeasureRecord
      <4> HIDE DEF state
      <4> QED
        BY <4>1
    <3> QED
      BY <1>4, <3>1, <3>2
  <2>2. task'[t] = state /\ \A v \in Tasks \ {t} : task'[v] = task[v]
    BY <1>0, <2>1, BecomeIs
  <2> QED
    BY <1>1, <2>1, <2>2, CalculationIsComputed
<1>5. ASSUME NEW t \in Tasks, Start(t) PROVE task'[u] = task[u]
  <2>1. CASE EvaluateBudgets(t)
    <3>1. \E state : Become(t, state) /\ state.step = "consume"
      BY <2>1 DEF EvaluateBudgets
    <3> QED
      BY <1>2, <3>1
  <2>2. CASE StartRollover(t)
    <3>1. \E state : Become(t, state) /\ state.step = "roll"
      BY <2>2 DEF StartRollover
    <3> QED
      BY <1>2, <3>1
  <2>3. ASSUME NEW p, NEW price, NEW keep, StartReceipt(t, p, price, keep) PROVE task'[u] = task[u]
    <3>1. PICK pricing : Become(t, [step |-> "measure", period |-> p, keep |-> keep, pricing |-> pricing])
      BY <2>3 DEF StartReceipt
    <3> QED
      BY <1>2, <3>1
  <2> QED
    BY <1>5, <2>1, <2>2, <2>3 DEF Start, ReceiptIssue
<1>6. ASSUME NEW t \in Tasks, Proceed(t), ~MeasureReceipt(t), ~MeasureRecord(t) PROVE task'[u] = task[u]
  <2>1. CASE Consume(t)
    <3>1. End(t) \/ \E state : Become(t, state) /\ state.step = "upsert"
      BY <2>1 DEF Consume
    <3> QED
      BY <1>2, <1>3, <3>1
  <2>2. CASE UpsertEvent(t) \/ MarkThreshold(t)
    <3>1. task[t] \in Warning
      BY <2>2, TypedNumbers DEF UpsertEvent, MarkThreshold
    <3>2. /\ [task[t] EXCEPT !.step = "mark"].step = "mark"
          /\ [task[t] EXCEPT !.step = "announce"].step = "announce"
      BY <3>1 DEF Warning
    <3>3. \/ End(t)
          \/ Become(t, [task[t] EXCEPT !.step = "mark"])
          \/ Become(t, [task[t] EXCEPT !.step = "announce"])
      BY <2>2 DEF UpsertEvent, MarkThreshold
    <3> QED
      BY <1>2, <1>3, <3>2, <3>3
  <2>3. CASE Announce(t) \/ Rollover(t) \/ UpsertCostRecord(t)
    BY <1>3, <2>3 DEF Announce, Rollover, UpsertCostRecord
  <2>4. ASSUME NEW r, InsertReceipt(t, r) PROVE task'[u] = task[u]
    <3>1. End(t) \/ \E state : Become(t, state) /\ state.step = "price"
      BY <2>4 DEF InsertReceipt
    <3> QED
      BY <1>2, <1>3, <3>1
  <2>5. CASE PriceRecord(t)
    <3>1. \E state : Become(t, state) /\ state.step = "remeasure"
      BY <2>5 DEF PriceRecord
    <3> QED
      BY <1>2, <3>1
  <2> QED
    BY <1>6, <2>1, <2>2, <2>3, <2>4, <2>5 DEF Proceed
<1>7. CASE Operate
  BY <1>1, <1>7 DEF Operate, UpdateBillingConfig, CreateBudget, UpdateBudget, DeleteBudget, VoidReceipt
<1>8. ASSUME NEW t \in Tasks, Crash(t) PROVE task'[u] = task[u]
  BY <1>3, <1>8 DEF Crash
<1> QED
  BY <1>1, <1>4, <1>5, <1>6, <1>7, <1>8 DEF Next, NextPeriod, Carry, vars

\* A receipt is inserted as issued, with the hash of what it shows, and only its status changes.
LEMMA ReceiptsKept ==
  ASSUME Typed, Reproducible, [Next]_vars, NEW s \in Receipts, receipt'[s] # None
  PROVE  /\ Computed(receipt'[s].shown)
         /\ receipt'[s].payload = [shown |-> receipt'[s].shown, status |-> "ISSUED"]
<1>0. DOMAIN receipt = Receipts
  BY DEF Typed
<1>1. CASE receipt'[s] = receipt[s]
  BY <1>1 DEF Reproducible
<1>2. ASSUME NEW r \in Receipts, VoidReceipt(r)
      PROVE  /\ Computed(receipt'[s].shown)
             /\ receipt'[s].payload = [shown |-> receipt'[s].shown, status |-> "ISSUED"]
  <2>1. ReceiptShaped(receipt[r]) /\ receipt[r] # None
    BY <1>2 DEF Typed, VoidReceipt
  <2>2. receipt' = [receipt EXCEPT ![r] = [receipt[r] EXCEPT !.status = "VOID"]]
    BY <1>2 DEF VoidReceipt
  <2>3. CASE s = r
    <3>1. receipt'[s].shown = receipt[s].shown /\ receipt'[s].payload = receipt[s].payload
      BY <1>0, <2>1, <2>2, <2>3, VoidedIs
    <3> QED
      BY <2>1, <2>3, <3>1 DEF Reproducible
  <2> QED
    BY <1>0, <1>1, <2>2, <2>3
<1>3. ASSUME NEW t \in Tasks, NEW r \in Receipts, InsertReceipt(t, r)
      PROVE  /\ Computed(receipt'[s].shown)
             /\ receipt'[s].payload = [shown |-> receipt'[s].shown, status |-> "ISSUED"]
  <2> DEFINE shown == task[t].shown
             row == [shown |-> shown, status |-> "ISSUED",
                     payload |-> [shown |-> shown, status |-> "ISSUED"]]
  <2>1. receipt' = [receipt EXCEPT ![r] = row]
    BY <1>3 DEF InsertReceipt, Canonical
  <2>2. Computed(shown)
    BY <1>3 DEF Reproducible, InsertReceipt
  <2>3. row.shown = shown /\ row.payload = [shown |-> shown, status |-> "ISSUED"]
    OBVIOUS
  <2> HIDE DEF row, shown
  <2>4. CASE s = r
    BY <1>0, <2>1, <2>2, <2>3, <2>4
  <2> QED
    BY <1>0, <1>1, <2>1, <2>4
<1>4. ASSUME NEW t \in Tasks, Start(t) \/ Proceed(t) \/ Crash(t), \A r \in Receipts : ~InsertReceipt(t, r)
      PROVE  UNCHANGED receipt
  BY <1>4 DEF Start, Proceed, Crash, EvaluateBudgets, StartRollover, ReceiptIssue, StartReceipt, Consume,
     UpsertEvent, MarkThreshold, Announce, Rollover, MeasureReceipt, PriceRecord, MeasureRecord, UpsertCostRecord
<1>5. CASE Operate
  BY <1>1, <1>2, <1>5 DEF Operate, UpdateBillingConfig, CreateBudget, UpdateBudget, DeleteBudget
<1> QED
  BY <1>1, <1>3, <1>4, <1>5 DEF Next, NextPeriod, Carry, vars

\* A cost record is written with the hash of what was computed for it.
LEMMA RecordsKept ==
  ASSUME Typed, Reproducible, [Next]_vars, NEW p \in Periods, record'[p] # None
  PROVE  /\ Computed(record'[p].shown) /\ Computed(record'[p].inputs)
         /\ record'[p].inputs = [record'[p].shown EXCEPT !.currency = record'[p].inputs.currency]
<1>0. DOMAIN record = Periods
  BY DEF Typed
<1>1. CASE record'[p] = record[p]
  BY <1>1 DEF Reproducible
<1>2. ASSUME NEW t \in Tasks, UpsertCostRecord(t)
      PROVE  /\ Computed(record'[p].shown) /\ Computed(record'[p].inputs)
             /\ record'[p].inputs = [record'[p].shown EXCEPT !.currency = record'[p].inputs.currency]
  <2> DEFINE new == task[t].shown
             shown == IF record[p] = None THEN new ELSE Refreshed(record[p].shown, new)
  <2>1. Computed(new)
    BY <1>2 DEF Reproducible, UpsertCostRecord
  <2>2. /\ Computed(shown)
        /\ new = [shown EXCEPT !.currency = new.currency]
    <3>1. new = [new EXCEPT !.currency = new.currency]
      BY <2>1 DEF Computed
    <3>2. /\ Computed(Refreshed(record[p].shown, new))
          /\ new = [Refreshed(record[p].shown, new) EXCEPT !.currency = new.currency]
      BY <2>1, RefreshedIsComputed
    <3> QED
      BY <2>1, <3>1, <3>2
  <2>3. CASE p = task[t].period
    <3>1. record'[p] = [shown |-> shown, inputs |-> new]
      BY <1>0, <1>2, <2>3 DEF UpsertCostRecord
    <3> HIDE DEF shown, new
    <3> QED
      BY <2>1, <2>2, <3>1
  <2>4. CASE p # task[t].period
    <3>1. record'[p] = record[p]
      BY <1>0, <1>2, <2>4 DEF UpsertCostRecord
    <3> QED
      BY <1>1, <3>1
  <2> QED
    BY <2>3, <2>4
<1>3. ASSUME NEW t \in Tasks, Start(t) \/ Proceed(t) \/ Crash(t), ~UpsertCostRecord(t)
      PROVE  UNCHANGED record
  BY <1>3 DEF Start, Proceed, Crash, EvaluateBudgets, StartRollover, ReceiptIssue, StartReceipt, Consume,
     UpsertEvent, MarkThreshold, Announce, Rollover, MeasureReceipt, InsertReceipt, PriceRecord, MeasureRecord
<1>4. CASE Operate
  BY <1>1, <1>4 DEF Operate, UpdateBillingConfig, CreateBudget, UpdateBudget, DeleteBudget, VoidReceipt
<1> QED
  BY <1>1, <1>2, <1>3, <1>4 DEF Next, NextPeriod, Carry, vars

LEMMA ReproducibleNext == Typed /\ Reproducible /\ [Next]_vars => Reproducible'
BY WritesComputed, ReceiptsKept, RecordsKept DEF Reproducible

\* What is stored is one calculation: a receipt can be recomputed from its own columns and
\* verifies until it is void, and so can a cost record, whose hash is that of its columns.
THEOREM StoredReproducible == Spec => []StoredIsReproducible
<1>1. Typed /\ Reproducible => StoredIsReproducible
  <2> SUFFICES ASSUME Typed, Reproducible PROVE ReceiptReproducible /\ RecordReproducible
    BY DEF StoredIsReproducible
  <2>1. ASSUME NEW r \in Receipts, receipt[r] # None
        PROVE  /\ receipt[r].shown.total = Recomputed(receipt[r].shown)
               /\ Valid(receipt[r]) <=> receipt[r].status = "ISSUED"
    <3>1. /\ Computed(receipt[r].shown)
          /\ receipt[r].payload = [shown |-> receipt[r].shown, status |-> "ISSUED"]
      BY <2>1 DEF Reproducible
    <3>2. receipt[r].status \in {"ISSUED", "VOID"}
      BY <2>1 DEF Typed, TypeOK
    <3> QED
      BY <3>1, <3>2 DEF Valid, Canonical, Computed
  <2>2. RecordReproducible
    BY DEF Reproducible, RecordReproducible, Computed
  <2> QED
    BY <2>1, <2>2 DEF ReceiptReproducible
<1> QED
  BY TypedInit, TypedNext, ReproducibleInit, ReproducibleNext, <1>1, PTL DEF Spec
=============================================================================
