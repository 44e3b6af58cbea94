---------------------------- MODULE DnsFiltering ----------------------------
(***************************************************************************)
(* DNS filtering: lists and rules of operators, counts that gateways       *)
(* report, and the settings both read (src/server/dns/service.ts,          *)
(* app/api/gateway/dns/route.ts, src/server/settings/service.ts).          *)
(*                                                                         *)
(* A request is a task that stops at every await.  An entry of a report    *)
(* names the row it counts in: node, device or none, domain, action and    *)
(* hour are one model value.  Domains are valid ones.  Audit rows, notes   *)
(* and whether a list blocks or allows, which decides nothing here, are    *)
(* left out.                                                               *)
(***************************************************************************)
EXTENDS Settings, Sequences, Functions

CONSTANTS
  Tasks,
  Reports,    \* sequences of [row, count] that a gateway may send
  Rows,       \* identities of rows
  BlockedRows,  \* those of them that count blocked lookups
  Domains, Scopes, Names,
  Assumed,    \* the key of the setting that an estimate uses; the others only decide audit rows
  ListIds,    \* bound: lists that can be made
  Gone,       \* what is left of a list that was deleted
  MaxActs     \* bound, by workload: requests of operators and gateways, clean-ups, and what
              \* fails.  The workloads, lists and reports, share no state: a behaviour has one.

ASSUME BlockedAssumption == BlockedRows \subseteq Rows
ASSUME ReportsAssumption == Reports \subseteq Seq([row: Rows, count: Nat])
ASSUME DnsBounds == MaxActs \in [{"lists", "reports"} -> Nat] /\ Assumed \in Keys /\ Values \subseteq Nat

VARIABLES
  work,      \* the workload
  stat,      \* [Rows -> None or [count, saved]]
  list,      \* [ListIds -> None, Gone or [name, entryCount]]
  entries,   \* [ListIds -> [Domains \X (Scopes \cup {None}) -> how many rows]]
  task,      \* [Tasks -> the request the task serves]
  written,   \* history: [Rows -> what reports have counted in it]
  healed,    \* history: the list of the last edit, where no other edit ran beside it
  acts

dnsVars == <<settings, work, stat, list, entries, task, written, healed, acts>>

IdleTask == [op |-> "idle"]
Bag == [Domains \X (Scopes \cup {None}) -> Nat]
Nothing == [e \in Domains \X (Scopes \cup {None}) |-> 0]
Unread == [k \in Keys |-> None]
Edits == {"create", "update", "rule"}
Stat == [count: Nat, saved: Nat \cup {None}]
ASSUME NoStatAssumption == None \notin Stat

DnsInit ==
  /\ SettingsInit /\ work \in DOMAIN MaxActs
  /\ stat = [r \in Rows |-> None] /\ list = [l \in ListIds |-> None] /\ entries = [l \in ListIds |-> Nothing]
  /\ task = [t \in Tasks |-> IdleTask]
  /\ written = [r \in Rows |-> 0] /\ healed = None /\ acts = 0

Act == acts < MaxActs[work] /\ acts' = acts + 1
At(t, op, step) == task[t].op = op /\ task[t].step = step
Become(t, state) == task' = [task EXCEPT ![t] = state]
Go(t, step) == Become(t, [task[t] EXCEPT !.step = step])
\* A statement that fails, or a process that has died, leaves what was written.
End(t) == Become(t, IdleTask)

Begin(t, state) == Act /\ task[t] = IdleTask /\ Become(t, state)

-----------------------------------------------------------------------------
(* Settings: what operators save and what requests read. *)

Save(t, k, value) ==
  /\ Begin(t, [op |-> "save", step |-> "invalidate", keys |-> {k}])
  /\ StoreValue(k, value)
  /\ UNCHANGED <<work, stat, list, entries, written, healed>>

\* First boot: the rows that are missing, then the rows.
StartSeed(t) ==
  /\ Begin(t, [op |-> "seed", step |-> "create", missing |-> MissingRows])
  /\ UNCHANGED <<settings, work, stat, list, entries, written, healed>>
Seed(t) ==
  /\ At(t, "seed", "create")
  /\ IF task[t].missing = {} THEN End(t) ELSE Become(t, [op |-> "save", step |-> "invalidate", keys |-> Keys])
  /\ stored' = Seeded(task[t].missing)
  /\ UNCHANGED <<cache, chosen, work, stat, list, entries, written, healed, acts>>
FinishSave(t) ==
  /\ At(t, "save", "invalidate") /\ End(t)
  /\ Invalidate(task[t].keys)
  /\ UNCHANGED <<stored, chosen, work, stat, list, entries, written, healed, acts>>

\* A page or a job that reads one setting or, with getSettings, several at once.
View(t, keys) ==
  /\ task[t] = IdleTask
  /\ LET missed == {k \in keys : ~Hit(k)} IN
     /\ missed # {}
     /\ Become(t, [op |-> "view", step |-> "rows", read |-> [k \in Keys |-> IF k \in missed THEN OrDefault(k, stored[k]) ELSE None]])
  /\ UNCHANGED <<settings, work, stat, list, entries, written, healed, acts>>
FinishView(t) ==
  /\ At(t, "view", "rows") /\ End(t)
  /\ Remember(task[t].read)
  /\ UNCHANGED <<stored, chosen, work, stat, list, entries, written, healed, acts>>

-----------------------------------------------------------------------------
(* Reports of a gateway. *)

\* Both settings are asked for at once, and each goes on when its row is there.
Receive(t, report) ==
  /\ Begin(t, [op |-> "report", step |-> "settings", report |-> report, next |-> 1, seen |-> None,
               read |-> [k \in Keys |-> IF Hit(k) THEN None ELSE OrDefault(k, stored[k])],
               value |-> [k \in Keys |-> IF Hit(k) THEN cache[k] ELSE None]])
  /\ UNCHANGED <<settings, work, stat, list, entries, written, healed>>

\* A setting that cannot be read is 0, or off.
ReadSetting(t, k) ==
  /\ At(t, "report", "settings") /\ task[t].read[k] # None
  /\ \/ Remember([Unread EXCEPT ![k] = task[t].read[k]])
        /\ Become(t, [task[t] EXCEPT !.read[k] = None, !.value[k] = task[t].read[k]])
        /\ UNCHANGED acts
     \/ Act /\ UNCHANGED cache /\ Become(t, [task[t] EXCEPT !.read[k] = None, !.value[k] = 0])
  /\ UNCHANGED <<stored, chosen, work, stat, list, entries, written, healed>>

\* The loop: find the row of the entry, and write it.
Look(t) ==
  LET s == task[t] IN
  /\ \/ At(t, "report", "settings") /\ s.read = Unread
     \/ At(t, "report", "look")
  /\ IF s.next > Len(s.report) THEN End(t)
     ELSE Become(t, [s EXCEPT !.step = "write", !.seen = stat[s.report[s.next].row]])
  /\ UNCHANGED <<settings, work, stat, list, entries, written, healed, acts>>

\* Mutant: the count that was read is written back.
IncrementedMutant(row, seen, n) == [row EXCEPT !.count = seen.count + n]
\* The increment.  What is saved stays what it was when the row was made.
Incremented(row, seen, n) == [row EXCEPT !.count = @ + n]

Made(entry, assumed) ==
  [count |-> entry.count, saved |-> IF entry.row \in BlockedRows /\ assumed > 0 THEN assumed * entry.count ELSE None]

\* A row that was made or removed since ends the request: what it has written stays.
Write(t) ==
  LET s == task[t]
      entry == s.report[s.next]
      row == stat[entry.row] IN
  /\ At(t, "report", "write")
  /\ IF (s.seen = None) # (row = None)
     THEN End(t) /\ UNCHANGED <<stat, written>>
     ELSE /\ stat' = [stat EXCEPT ![entry.row] =
                        IF row = None THEN Made(entry, s.value[Assumed]) ELSE Incremented(row, s.seen, entry.count)]
          /\ written' = [written EXCEPT ![entry.row] = @ + entry.count]
          /\ Become(t, [s EXCEPT !.step = "look", !.next = @ + 1, !.seen = None])
  /\ UNCHANGED <<settings, work, list, entries, healed, acts>>

\* What the DNS page shows of them.
DnsStatsFor(rows) == SumFunctionOnSet([r \in Rows |-> IF stat[r] = None THEN 0 ELSE stat[r].count], rows)
DnsOverview == [blocked |-> DnsStatsFor(BlockedRows), allowed |-> DnsStatsFor(Rows \ BlockedRows)]

\* Retention, or the deletion of a device, takes rows.
Purge(r) ==
  /\ Act /\ stat[r] # None
  /\ stat' = [stat EXCEPT ![r] = None] /\ written' = [written EXCEPT ![r] = 0]
  /\ UNCHANGED <<settings, work, list, entries, task, healed>>

-----------------------------------------------------------------------------
(* Lists and rules. *)

Add(bag, added) == [e \in DOMAIN bag |-> bag[e] + added[e]]
Without(bag, removed) == [e \in DOMAIN bag |-> IF removed[e] > bag[e] THEN 0 ELSE bag[e] - removed[e]]
Size(bag) == SumFunction(bag)
Global(domains) == [e \in DOMAIN Nothing |-> IF e[1] \in domains /\ e[2] = None THEN 1 ELSE 0]
Of(bag, domains) == [e \in DOMAIN bag |-> IF e[1] \in domains THEN bag[e] ELSE 0]

\* entryCount: the rows are counted anew.
Counted(l, bag) == Size(bag)

Editing(t) == task[t].op \in Edits

EditOf(op, step, l) ==
  [op |-> op, step |-> step, id |-> l, name |-> None, entry |-> None, add |-> {}, remove |-> {},
   removed |-> Nothing, count |-> 0, alone |-> TRUE]

\* Two edits that run beside each other are no longer alone.
BeginEdit(t, state) ==
  LET beside == {u \in Tasks : Editing(u)} IN
  /\ Act /\ task[t] = IdleTask /\ healed' = None
  /\ task' = [u \in Tasks |-> IF u = t THEN [state EXCEPT !.alone = beside = {}]
                              ELSE IF u \in beside THEN [task[u] EXCEPT !.alone = FALSE] ELSE task[u]]

FinishEdit(t, l) == End(t) /\ healed' = IF task[t].alone THEN l ELSE None

NewList(name) == [name |-> name, entryCount |-> 0]
FreeIds == {l \in ListIds : list[l] = None}
There(l) == list[l] \notin {None, Gone}

CreateDnsList(t, name, domains) ==
  \E l \in FreeIds :
    /\ BeginEdit(t, [EditOf("create", IF domains = {} THEN "count" ELSE "fill", l) EXCEPT !.add = domains])
    /\ list' = [list EXCEPT ![l] = NewList(name)]
    /\ UNCHANGED <<settings, work, stat, entries, written>>

\* Rows of a list that has gone cannot be made.  A row without a scope is never a duplicate.
FillList(t) ==
  LET l == task[t].id IN
  /\ At(t, "create", "fill")
  /\ IF ~There(l) THEN End(t) /\ UNCHANGED entries
     ELSE Go(t, "count") /\ entries' = [entries EXCEPT ![l] = Add(@, Global(task[t].add))]
  /\ UNCHANGED <<settings, work, stat, list, written, healed, acts>>

\* The count of a create or a rule, and the update that stores it.
CountEntries(t) ==
  /\ At(t, "create", "count") \/ At(t, "rule", "count")
  /\ IF ~There(task[t].id) THEN End(t)
     ELSE Become(t, [task[t] EXCEPT !.step = "store", !.count = Counted(task[t].id, entries[task[t].id])])
  /\ UNCHANGED <<settings, work, stat, list, entries, written, healed, acts>>
StoreCount(t) ==
  LET l == task[t].id IN
  /\ At(t, "create", "store") \/ At(t, "rule", "store")
  /\ IF ~There(l) THEN End(t) /\ UNCHANGED <<list, healed>>
     ELSE list' = [list EXCEPT ![l].entryCount = task[t].count] /\ FinishEdit(t, l)
  /\ UNCHANGED <<settings, work, stat, entries, written, acts>>

\* updateDnsList: what its transaction adds, removes and counts is what is committed and its own.
UpdateDnsList(t, l, name, add, remove) ==
  /\ There(l)
  /\ BeginEdit(t, [EditOf("update", "change", l) EXCEPT !.name = name, !.add = add, !.remove = remove])
  /\ UNCHANGED <<settings, work, stat, list, entries, written>>
ChangeList(t) ==
  LET s == task[t]
      present == Add(entries[s.id], Global(s.add)) IN
  /\ At(t, "update", "change")
  /\ IF ~There(s.id) THEN End(t)
     ELSE Become(t, [s EXCEPT !.step = "commit", !.removed = Of(present, s.remove),
                              !.count = Counted(s.id, Without(present, Of(present, s.remove)))])
  /\ UNCHANGED <<settings, work, stat, list, entries, written, healed, acts>>
CommitList(t) ==
  LET s == task[t] IN
  /\ At(t, "update", "commit")
  /\ \/ /\ There(s.id)
        /\ entries' = [entries EXCEPT ![s.id] = Without(Add(@, Global(s.add)), s.removed)]
        /\ list' = [list EXCEPT ![s.id] = [name |-> s.name, entryCount |-> s.count]]
        /\ FinishEdit(t, s.id)
     \/ ~There(s.id) /\ End(t) /\ UNCHANGED <<entries, list, healed>>
  /\ UNCHANGED <<settings, work, stat, written, acts>>

DeleteDnsList(l) ==
  /\ Act /\ There(l)
  /\ list' = [list EXCEPT ![l] = Gone] /\ entries' = [entries EXCEPT ![l] = Nothing]
  /\ UNCHANGED <<settings, work, stat, task, written, healed>>

\* upsertDnsRule: the list named custom, which the first rule makes.
UpsertDnsRule(t, entry) ==
  /\ BeginEdit(t, [EditOf("rule", "find", None) EXCEPT !.entry = entry])
  /\ UNCHANGED <<settings, work, stat, list, entries, written>>
FindCustom(t) ==
  /\ At(t, "rule", "find")
  /\ LET custom == {l \in ListIds : There(l) /\ list[l].name = "custom"} IN
     IF custom = {} THEN Go(t, "make") ELSE \E l \in custom : Become(t, [task[t] EXCEPT !.step = "enter", !.id = l])
  /\ UNCHANGED <<settings, work, stat, list, entries, written, healed, acts>>
MakeCustom(t) ==
  /\ At(t, "rule", "make")
  /\ \E l \in FreeIds :
       /\ list' = [list EXCEPT ![l] = NewList("custom")]
       /\ Become(t, [task[t] EXCEPT !.step = "enter", !.id = l])
  /\ UNCHANGED <<settings, work, stat, entries, written, healed, acts>>
\* Only an entry with a scope is found again: without one the lookup asks for the empty scope.
EnterRule(t) ==
  LET l == task[t].id
      e == task[t].entry IN
  /\ At(t, "rule", "enter")
  /\ IF ~There(l) THEN End(t) /\ UNCHANGED entries
     ELSE /\ Go(t, "count")
          /\ entries' = IF e[2] # None /\ entries[l][e] > 0 THEN entries ELSE [entries EXCEPT ![l][e] = @ + 1]
  /\ UNCHANGED <<settings, work, stat, list, written, healed, acts>>

-----------------------------------------------------------------------------

\* A statement of a request fails.
Fail(t) ==
  /\ Act /\ task[t] # IdleTask /\ End(t)
  /\ UNCHANGED <<settings, work, stat, list, entries, written, healed>>

Crash ==
  /\ Act /\ task' = [t \in Tasks |-> IdleTask] /\ cache' = [k \in Keys |-> None]
  /\ UNCHANGED <<stored, chosen, work, stat, list, entries, written, healed>>

Expire(k) == Lapse(k) /\ UNCHANGED <<work, stat, list, entries, task, written, healed, acts>>

PatchSetting(t) == \E k \in Keys, value \in Values : Save(t, k, value)
PostReport(t) == \E report \in Reports : Receive(t, report)
PostList(t) == \E name \in Names, domains \in SUBSET Domains : CreateDnsList(t, name, domains)
PatchList(t) ==
  \E l \in ListIds, name \in Names, add \in SUBSET Domains, remove \in SUBSET Domains : UpdateDnsList(t, l, name, add, remove)
PostRule(t) == \E entry \in DOMAIN Nothing : UpsertDnsRule(t, entry)

NewRequest(t) ==
  \/ work = "reports" /\ (PatchSetting(t) \/ StartSeed(t) \/ PostReport(t) \/ \E keys \in SUBSET Keys : View(t, keys))
  \/ work = "lists" /\ (PostList(t) \/ PatchList(t) \/ PostRule(t))

Step(t) ==
  \/ Seed(t) \/ FinishSave(t) \/ FinishView(t)
  \/ \E k \in Keys : ReadSetting(t, k)
  \/ Look(t) \/ Write(t)
  \/ FillList(t) \/ CountEntries(t) \/ StoreCount(t) \/ ChangeList(t) \/ CommitList(t)
  \/ FindCustom(t) \/ MakeCustom(t) \/ EnterRule(t)

DnsNext ==
  \/ \E t \in Tasks : NewRequest(t) \/ Step(t) \/ Fail(t)
  \/ \E r \in Rows : Purge(r)
  \/ \E l \in ListIds : DeleteDnsList(l)
  \/ \E k \in Keys : Expire(k)
  \/ Crash

DnsSpec == DnsInit /\ [][DnsNext]_dnsVars

\* Requests go on, and the lifetime of a cache entry ends.
FairDnsSpec == DnsSpec /\ \A t \in Tasks : WF_dnsVars(Step(t)) /\ \A k \in Keys : WF_dnsVars(Expire(k))

-----------------------------------------------------------------------------
(* Properties. *)

\* Reports that are handled side by side for the same row, one of them failing in its
\* middle or sent again, add up: a row holds what was written into it, no write lost, and
\* the DNS page shows the sum.
ReportsAddUp ==
  LET Reported(rows) == SumFunctionOnSet(written, rows) IN
  /\ \A r \in Rows : IF stat[r] = None THEN written[r] = 0 ELSE stat[r].count = written[r]
  /\ DnsOverview = [blocked |-> Reported(BlockedRows), allowed |-> Reported(Rows \ BlockedRows)]

\* The entry count of a list, which edits that overlap may leave wrong, is right again after
\* an edit that nothing ran beside.
CountHeals == healed # None /\ There(healed) => list[healed].entryCount = Size(entries[healed])

\* The counts that the console shows.
CountsAddUp == ReportsAddUp /\ CountHeals

\* Once operators stop saving, every setting that the cache answers with is the one that was
\* saved last, or the default of one that never was: a read that crossed a write, or a first
\* boot beside it, does not stay.
SettingsSettle == <>[](\A k \in Keys : Settled(k))
=============================================================================
