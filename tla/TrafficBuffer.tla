---------------------------- MODULE TrafficBuffer ----------------------------
(***************************************************************************)
(* How observed traffic becomes history: ingest queues raw samples in the  *)
(* memory of a control-plane process, and a flush writes a batch of them   *)
(* to the database - the raw samples in one statement, the hourly and      *)
(* daily aggregates in one transaction per chunk of rows, the measured     *)
(* optimization records one by one - and requeues the batch when any of    *)
(* these fails (src/server/traffic/buffer.ts).                             *)
(*                                                                         *)
(* What a table holds is counted per sample: how often its bytes are in a  *)
(* row, and of an optimization record for which aggregate row it counted   *)
(* them there.                                                             *)
(***************************************************************************)
EXTENDS Integers, Sequences, FiniteSets, Functions

CONSTANTS
  Processes,    \* replicas of the control plane, each with a buffer of its own
  Samples,      \* raw samples, each reported once
  Rows,         \* aggregate rows: a granularity, a bucket and a dimension
  RowsOf,       \* [Samples -> SUBSET Rows]: the rows `rollup` counts a sample in
  Records,      \* optimization records: a granularity, a bucket and a dimension
  RecordOf,     \* [Rows -> [Samples -> Records]]: the record of a row that begins with
                \* a sample, whose device, node and owner name it
  Optimized,    \* samples that carry bytesOptimized
  MaxPending,   \* MAX_PENDING, the ceiling of a buffer
  ChunkSize,    \* aggregate rows per transaction
  MaxFaults     \* bound: failed flushes and crashes

ASSUME RowsAssumption ==
  /\ RowsOf \in [Samples -> SUBSET Rows]
  /\ RecordOf \in [Rows -> [Samples -> Records]]
  /\ Optimized \subseteq Samples
ASSUME SizesAssumption == MaxPending \in Nat \ {0} /\ ChunkSize \in Nat \ {0}

VARIABLES
  pending,      \* [Processes -> Seq(Samples)]: the buffers
  batch,        \* [Processes -> Seq(Samples)]: what a flush in progress is writing
  step,         \* [Processes -> Steps]: the statement it has reached
  todo,         \* [Processes -> SUBSET Rows]: the rows that statement has left
  at,           \* [Processes -> SUBSET Rows]: the row whose record it has read,
  found,        \* [Processes -> SUBSET Records]: which record that is,
  read,         \* [Processes -> [Rows -> [Samples -> Nat]]]: and what it held
  raw,          \* [Samples -> Nat]: traffic_sample
  total,        \* [Rows -> [Samples -> Nat]]: traffic_aggregate
  measured,     \* [Records -> [Rows -> [Samples -> Nat]]]: optimization_record
  arrived,      \* samples reported so far
  retried,      \* samples that were in a batch that failed
  lost,         \* samples dropped from a full buffer or with their process
  faults

vars == <<pending, batch, step, todo, at, found, read, raw, total, measured, arrived, retried, lost, faults>>

Steps == {"idle", "raw", "aggregate", "measure"}

Nothing == [s \in Samples |-> 0]

\* A record that is not there.
Missing == [r \in Rows |-> Nothing]

\* A table row with the samples of a batch counted once more.
Counted(row, samples) == [s \in Samples |-> row[s] + (IF s \in samples THEN 1 ELSE 0)]

Init ==
  /\ pending = [p \in Processes |-> <<>>]
  /\ batch = [p \in Processes |-> <<>>]
  /\ step = [p \in Processes |-> "idle"]
  /\ todo = [p \in Processes |-> {}]
  /\ at = [p \in Processes |-> {}]
  /\ found = [p \in Processes |-> {}]
  /\ read = [p \in Processes |-> Missing]
  /\ raw = Nothing
  /\ total = [r \in Rows |-> Nothing]
  /\ measured = [d \in Records |-> Missing]
  /\ arrived = {}
  /\ retried = {}
  /\ lost = {}
  /\ faults = 0

-----------------------------------------------------------------------------
(* The buffer. *)

\* Mutant: the batch is copied, and stays in the buffer.
BeginMutant(p, samples) ==
  /\ batch' = [batch EXCEPT ![p] = samples]
  /\ pending' = [pending EXCEPT ![p] = samples]
  /\ step' = [step EXCEPT ![p] = "raw"]

\* The part of a flush that runs before its first await.
Begin(p, samples) ==
  /\ batch' = [batch EXCEPT ![p] = samples]
  /\ pending' = [pending EXCEPT ![p] = <<>>]
  /\ step' = [step EXCEPT ![p] = "raw"]

\* queueSample: a buffer that reaches its ceiling is flushed at once, unless a flush
\* is in progress; then it grows on.
QueueSample(p, s) ==
  LET queue == Append(pending[p], s) IN
  /\ s \notin arrived
  /\ arrived' = arrived \cup {s}
  /\ IF Len(queue) >= MaxPending /\ step[p] = "idle"
     THEN Begin(p, queue)
     ELSE pending' = [pending EXCEPT ![p] = queue] /\ UNCHANGED <<batch, step>>
  /\ UNCHANGED <<todo, at, found, read, raw, total, measured, retried, lost, faults>>

\* Mutant: the timer leaves a buffer alone that is not full.
MayFlushMutant(p) == step[p] = "idle" /\ Len(pending[p]) >= MaxPending
MayFlush(p) == step[p] = "idle" /\ pending[p] # <<>>

\* The timer's flush.
Flush(p) ==
  /\ MayFlush(p)
  /\ Begin(p, pending[p])
  /\ UNCHANGED <<todo, at, found, read, raw, total, measured, arrived, retried, lost, faults>>

-----------------------------------------------------------------------------
(* A flush. *)

Batch(p) == Range(batch[p])

\* The aggregate rows of a set of samples.
RowsFor(samples) == UNION {RowsOf[s] : s \in samples}

\* createMany.
StoreRaw(p) ==
  /\ step[p] = "raw"
  /\ raw' = Counted(raw, Batch(p))
  /\ step' = [step EXCEPT ![p] = "aggregate"]
  /\ todo' = [todo EXCEPT ![p] = RowsFor(Batch(p))]
  /\ UNCHANGED <<pending, batch, at, found, read, total, measured, arrived, retried, lost, faults>>

\* The samples of a batch that are counted in a row.
SamplesOf(r, samples) == {s \in samples : r \in RowsOf[s]}

\* A chunk: as many rows as fit, in an order that is left open.
IsChunk(rows, left) ==
  /\ rows \subseteq left
  /\ rows = left \/ Cardinality(rows) = ChunkSize
  /\ Cardinality(rows) <= ChunkSize

\* One transaction of upserts, by increments.
ApplyChunk(p) ==
  /\ step[p] = "aggregate"
  /\ todo[p] # {}
  /\ \E rows \in SUBSET todo[p] :
       /\ IsChunk(rows, todo[p])
       /\ total' = [r \in Rows |-> IF r \in rows
                                   THEN Counted(total[r], SamplesOf(r, Batch(p)))
                                   ELSE total[r]]
       /\ todo' = [todo EXCEPT ![p] = @ \ rows]
  /\ UNCHANGED <<pending, batch, step, at, found, read, raw, measured, arrived, retried, lost, faults>>

\* Mutant: the measured samples for their rows.
MeasuredRowsMutant(samples) == samples \cap Optimized

\* The rows that have an optimization record: a sample of theirs was measured.
MeasuredRows(samples) == RowsFor(samples \cap Optimized)

EndAggregates(p) ==
  /\ step[p] = "aggregate"
  /\ todo[p] = {}
  /\ step' = [step EXCEPT ![p] = "measure"]
  /\ todo' = [todo EXCEPT ![p] = MeasuredRows(Batch(p))]
  /\ UNCHANGED <<pending, batch, at, found, read, raw, total, measured, arrived, retried, lost, faults>>

\* The sample a row begins with: its first in the batch.
FirstOf(r, samples) == Head(SelectSeq(samples, LAMBDA s : r \in RowsOf[s]))

\* recordOptimizationFromBatch, row by row: find the record ...
FindRecord(p) ==
  /\ step[p] = "measure"
  /\ at[p] = {}
  /\ \E r \in todo[p], s \in Batch(p) :
       /\ s = FirstOf(r, batch[p])
       /\ at' = [at EXCEPT ![p] = {r}]
       /\ found' = [found EXCEPT ![p] = {RecordOf[r][s]}]
       /\ read' = [read EXCEPT ![p] = measured[RecordOf[r][s]]]
  /\ UNCHANGED <<pending, batch, step, todo, raw, total, measured, arrived, retried, lost, faults>>

\* Mutant: a record that had to be created is then updated as well.
MergedMutant(old, r, samples) ==
  [old EXCEPT ![r] = IF old = Missing THEN Counted(Counted(@, samples), samples)
                                      ELSE Counted(@, samples)]

\* The merged totals: of the whole row, not of its measured samples only.
Merged(old, r, samples) == [old EXCEPT ![r] = Counted(@, samples)]

\* ... and write it, as computed from what was read.  A create that finds the record
\* there by now violates its unique key, which FailFlush covers.
WriteRecord(p) ==
  /\ step[p] = "measure"
  /\ \E r \in at[p], d \in found[p] :
       /\ read[p] = Missing => measured[d] = Missing
       /\ measured' = [measured EXCEPT ![d] = Merged(read[p], r, SamplesOf(r, Batch(p)))]
  /\ todo' = [todo EXCEPT ![p] = @ \ at[p]]
  /\ at' = [at EXCEPT ![p] = {}]
  /\ found' = [found EXCEPT ![p] = {}]
  /\ read' = [read EXCEPT ![p] = Missing]
  /\ UNCHANGED <<pending, batch, step, raw, total, arrived, retried, lost, faults>>

\* The flush of p is over, one way or the other.
End(p) ==
  /\ batch' = [batch EXCEPT ![p] = <<>>]
  /\ step' = [step EXCEPT ![p] = "idle"]
  /\ todo' = [todo EXCEPT ![p] = {}]
  /\ at' = [at EXCEPT ![p] = {}]
  /\ found' = [found EXCEPT ![p] = {}]
  /\ read' = [read EXCEPT ![p] = Missing]

EndFlush(p) ==
  /\ step[p] = "measure"
  /\ todo[p] = {}
  /\ End(p)
  /\ UNCHANGED <<pending, raw, total, measured, arrived, retried, lost, faults>>

-----------------------------------------------------------------------------
(* Failures. *)

Overflows(p) == Len(pending[p]) + Len(batch[p]) > MaxPending

\* The last samples of a sequence, at most n.
Newest(seq, n) == SubSeq(seq, IF Len(seq) > n THEN Len(seq) - n + 1 ELSE 1, Len(seq))

\* Mutant: the batch replaces what was queued meanwhile.
RequeuedMutant(p) == Newest(batch[p], MaxPending)

\* The buffer after a failed flush: the batch goes to its front; when both do not fit,
\* what was queued meanwhile is dropped, and then the oldest samples of the batch.
Requeued(p) ==
  IF Overflows(p) THEN Newest(batch[p], MaxPending) ELSE batch[p] \o pending[p]

\* A statement of the flush throws, a unique key violated by another replica's create
\* among the reasons.
Requeue(p) ==
  /\ step[p] # "idle"
  /\ pending' = [pending EXCEPT ![p] = Requeued(p)]
  /\ retried' = retried \cup Batch(p)
  /\ lost' = IF Overflows(p)
             THEN lost \cup ((Range(pending[p]) \cup Batch(p)) \ Range(Requeued(p)))
             ELSE lost
  /\ End(p)
  /\ UNCHANGED <<raw, total, measured, arrived>>

\* Another replica created the record that this one found missing.
Collides(p) == step[p] = "measure" /\ \E d \in found[p] : read[p] = Missing /\ measured[d] # Missing

FailFlush(p) ==
  /\ Requeue(p)
  /\ \/ Collides(p) /\ UNCHANGED faults
     \/ faults < MaxFaults /\ faults' = faults + 1

\* The process dies with its buffer and is started again.
Crash(p) ==
  /\ faults < MaxFaults
  /\ faults' = faults + 1
  /\ lost' = lost \cup Range(pending[p]) \cup Batch(p)
  /\ pending' = [pending EXCEPT ![p] = <<>>]
  /\ End(p)
  /\ UNCHANGED <<raw, total, measured, arrived, retried>>

-----------------------------------------------------------------------------
FlushStep(p) ==
  \/ StoreRaw(p) \/ ApplyChunk(p) \/ EndAggregates(p)
  \/ FindRecord(p) \/ WriteRecord(p) \/ EndFlush(p)
  \/ Collides(p) /\ FailFlush(p)

Next ==
  \E p \in Processes :
    \/ \E s \in Samples : QueueSample(p, s)
    \/ Flush(p)
    \/ FlushStep(p)
    \/ FailFlush(p)
    \/ Crash(p)

Spec == Init /\ [][Next]_vars

\* The interval timer fires, and a statement sent to the database returns or fails.
FairSpec == Spec /\ \A p \in Processes : WF_vars(Flush(p)) /\ WF_vars(FlushStep(p))

-----------------------------------------------------------------------------
(* Properties. *)

\* Every variable has its type.
TypeOK ==
  /\ pending \in [Processes -> Seq(Samples)]
  /\ batch \in [Processes -> Seq(Samples)]
  /\ step \in [Processes -> Steps]
  /\ todo \in [Processes -> SUBSET Rows]
  /\ at \in [Processes -> SUBSET Rows]
  /\ found \in [Processes -> SUBSET Records]
  /\ read \in [Processes -> [Rows -> [Samples -> Nat]]]
  /\ raw \in [Samples -> Nat]
  /\ total \in [Rows -> [Samples -> Nat]]
  /\ measured \in [Records -> [Rows -> [Samples -> Nat]]]
  /\ arrived \subseteq Samples
  /\ retried \subseteq Samples
  /\ lost \subseteq Samples
  /\ faults \in Nat

Held(s) == \E p \in Processes : s \in Range(pending[p]) \cup Batch(p)
Durable(s) == raw[s] > 0 /\ \A r \in RowsOf[s] : total[r][s] > 0

\* A sample that was reported is in memory, or durable in the raw table and in every
\* aggregate of its own, or it was lost in one of the two ways the code admits: with
\* its process, or from a buffer over its ceiling.  No failed statement, requeue or
\* sample queued during a flush opens a third one (flush: a failure "does not create a
\* hole in billing history").
NoSampleVanishes == \A s \in arrived : Held(s) \/ Durable(s) \/ s \in lost

\* What is derived is never ahead of what it derives from, at any point of a flush:
\* a record counts a sample for an aggregate row no more often than the row itself, nor
\* the row more often than the raw table, with retries, and replicas that overwrite each
\* other's records.
DerivedNeverAhead ==
  \A r \in Rows, s \in Samples :
    total[r][s] <= raw[s] /\ \A d \in Records : measured[d][r][s] <= total[r][s]

\* Only a retry counts a sample twice: as long as no batch that held it failed, its
\* bytes are in each table at most once.
CountedOnce ==
  \A s \in Samples \ retried : raw[s] <= 1

\* A sample does not stay in memory for good: it becomes durable or is lost.
SampleSettles == \A s \in Samples : s \in arrived ~> ~Held(s)
=============================================================================
