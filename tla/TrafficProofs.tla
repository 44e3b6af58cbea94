---------------------------- MODULE TrafficProofs -----------------------------
(***************************************************************************)
(* What arrives in a stream and is written down in a table.                *)
(*                                                                         *)
(* TrafficBuffer, for any number of replicas, samples, rows and failures:  *)
(* types, that no sample vanishes, and that no table runs ahead of the one *)
(* it derives from.  Alerts, for any number of events, detection runs and  *)
(* crashes: types, that the timeline counts every occurrence that was      *)
(* written, and that an anomaly is announced once.                         *)
(***************************************************************************)
EXTENDS TrafficBuffer, Alerts, SequenceTheorems, FiniteSetTheorems, FunctionTheorems, TLAPS

-----------------------------------------------------------------------------
(* Sequences of samples. *)

LEMMA RangeType ==
  ASSUME NEW S, NEW q \in Seq(S) PROVE Range(q) \subseteq S
BY DEF Range

LEMMA RangeAppend ==
  ASSUME NEW S, NEW q \in Seq(S), NEW s \in S
  PROVE  Append(q, s) \in Seq(S) /\ Range(Append(q, s)) = Range(q) \cup {s}
<1>1. Len(q) \in Nat /\ <<s>> \in Seq(S) /\ Range(<<s>>) = {s}
  BY DEF Range
<1>2. Append(q, s) \in Seq(S) /\ Append(q, s) = q \o <<s>>
  BY AppendProperties, AppendIsConcat
<1>3. Range(q \o <<s>>) = Range(q) \cup Range(<<s>>)
  BY ZenonT(60), <1>1, RangeConcatenation
<1> QED
  BY <1>1, <1>2, <1>3

LEMMA RangeConcat ==
  ASSUME NEW S, NEW q \in Seq(S), NEW t \in Seq(S)
  PROVE  q \o t \in Seq(S) /\ Range(q \o t) = Range(q) \cup Range(t)
BY ConcatProperties, RangeConcatenation

LEMMA LastOfSequence ==
  ASSUME NEW S, NEW q \in Seq(S), NEW n \in Nat \ {0}
  PROVE  Newest(q, n) \in Seq(S) /\ Range(Newest(q, n)) \subseteq Range(q)
<1> DEFINE first == IF Len(q) > n THEN Len(q) - n + 1 ELSE 1
<1>1. Len(q) \in Nat /\ first \in 1 .. Len(q) + 1 /\ DOMAIN q = 1 .. Len(q)
  OBVIOUS
<1>2. Newest(q, n) = SubSeq(q, first, Len(q))
  BY DEF Newest
<1> HIDE DEF first
<1>3. /\ SubSeq(q, first, Len(q)) \in Seq(S)
      /\ \A i \in DOMAIN SubSeq(q, first, Len(q)) :
           i + first - 1 \in 1 .. Len(q) /\ SubSeq(q, first, Len(q))[i] = q[i + first - 1]
  BY <1>1
<1> QED
  BY <1>1, <1>2, <1>3 DEF Range

\* A requeue keeps nothing that the buffer or the batch did not hold, and everything
\* they held unless they overflow.
LEMMA RequeueKeeps ==
  ASSUME TypeOK, NEW p \in Processes
  PROVE  /\ Requeued(p) \in Seq(Samples)
         /\ Range(Requeued(p)) \subseteq Range(pending[p]) \cup Batch(p)
         /\ ~Overflows(p) => Range(Requeued(p)) = Range(pending[p]) \cup Batch(p)
<1>1. pending[p] \in Seq(Samples) /\ batch[p] \in Seq(Samples)
  BY DEF TypeOK
<1>2. CASE Overflows(p)
  BY <1>1, <1>2, LastOfSequence, SizesAssumption DEF Requeued, Batch
<1>3. CASE ~Overflows(p)
  BY <1>1, <1>3, RangeConcat DEF Requeued, Batch
<1> QED
  BY <1>2, <1>3

-----------------------------------------------------------------------------
(* Types. *)

LEMMA CountedType ==
  ASSUME NEW row \in [Samples -> Nat], NEW samples
  PROVE  /\ Counted(row, samples) \in [Samples -> Nat]
         /\ \A s \in Samples : Counted(row, samples)[s] >= row[s]
         /\ \A s \in Samples \cap samples : Counted(row, samples)[s] = row[s] + 1
         /\ \A s \in Samples \ samples : Counted(row, samples)[s] = row[s]
BY DEF Counted

LEMMA RowsType ==
  ASSUME NEW samples \in SUBSET Samples PROVE RowsFor(samples) \subseteq Rows
BY RowsAssumption DEF RowsFor

LEMMA BatchType ==
  ASSUME TypeOK, NEW p \in Processes
  PROVE  Batch(p) \subseteq Samples /\ Range(pending[p]) \subseteq Samples
BY RangeType DEF TypeOK, Batch

LEMMA NothingType == Nothing \in [Samples -> Nat] /\ Missing \in [Rows -> [Samples -> Nat]]
BY DEF Nothing, Missing

LEMMA TypeStep == TypeOK /\ [Next]_vars => TypeOK'
<1> SUFFICES ASSUME TypeOK, [Next]_vars PROVE TypeOK'
  OBVIOUS
<1> USE DEF TypeOK
<1>0. "idle" \in Steps /\ "raw" \in Steps /\ "aggregate" \in Steps /\ "measure" \in Steps
  BY DEF Steps
<1>1. ASSUME NEW p \in Processes, NEW q \in Seq(Samples), Begin(p, q)
      PROVE  /\ batch' \in [Processes -> Seq(Samples)]
             /\ pending' \in [Processes -> Seq(Samples)]
             /\ step' \in [Processes -> Steps]
  <2>1. <<>> \in Seq(Samples)
    OBVIOUS
  <2> QED
    BY <1>0, <1>1, <2>1 DEF Begin
<1>2. ASSUME NEW p \in Processes, NEW s \in Samples, QueueSample(p, s) PROVE TypeOK'
  <2>1. Append(pending[p], s) \in Seq(Samples)
    BY RangeAppend
  <2>2. CASE Begin(p, Append(pending[p], s))
    BY <1>1, <1>2, <2>1, <2>2 DEF QueueSample
  <2>3. CASE /\ pending' = [pending EXCEPT ![p] = Append(pending[p], s)]
             /\ UNCHANGED <<batch, step>>
    BY <1>2, <2>1, <2>3 DEF QueueSample
  <2> QED
    BY <1>2, <2>2, <2>3 DEF QueueSample
<1>3. ASSUME NEW p \in Processes, Flush(p) PROVE TypeOK'
  BY <1>1, <1>3 DEF Flush
<1>4. ASSUME NEW p \in Processes, StoreRaw(p) PROVE TypeOK'
  <2>1. raw' \in [Samples -> Nat]
    BY <1>4, CountedType DEF StoreRaw
  <2>2. RowsFor(Batch(p)) \subseteq Rows
    BY BatchType, RowsType
  <2> QED
    BY <1>0, <1>4, <2>1, <2>2 DEF StoreRaw
<1>5. ASSUME NEW p \in Processes, ApplyChunk(p) PROVE TypeOK'
  <2>1. PICK rows \in SUBSET todo[p] :
          /\ total' = [r \in Rows |-> IF r \in rows
                                      THEN Counted(total[r], SamplesOf(r, Batch(p)))
                                      ELSE total[r]]
          /\ todo' = [todo EXCEPT ![p] = @ \ rows]
    BY <1>5 DEF ApplyChunk
  <2>2. total' \in [Rows -> [Samples -> Nat]]
    BY <2>1, CountedType
  <2>3. todo' \in [Processes -> SUBSET Rows]
    BY <2>1
  <2> QED
    BY <1>5, <2>2, <2>3 DEF ApplyChunk
<1>6. ASSUME NEW p \in Processes, EndAggregates(p) PROVE TypeOK'
  <2>1. MeasuredRows(Batch(p)) \subseteq Rows
    BY BatchType, RowsType DEF MeasuredRows
  <2> QED
    BY <1>0, <1>6, <2>1 DEF EndAggregates
<1>7. ASSUME NEW p \in Processes, FindRecord(p) PROVE TypeOK'
  <2>1. PICK r \in todo[p], s \in Batch(p) :
          /\ at' = [at EXCEPT ![p] = {r}]
          /\ found' = [found EXCEPT ![p] = {RecordOf[r][s]}]
          /\ read' = [read EXCEPT ![p] = measured[RecordOf[r][s]]]
    BY <1>7 DEF FindRecord
  <2>2. r \in Rows /\ RecordOf[r][s] \in Records
    BY BatchType, RowsAssumption
  <2> QED
    BY ZenonT(60), <1>7, <2>1, <2>2 DEF FindRecord
<1>8. ASSUME NEW p \in Processes, WriteRecord(p) PROVE TypeOK'
  <2>1. PICK r \in at[p], d \in found[p] :
          measured' = [measured EXCEPT ![d] = Merged(read[p], r, SamplesOf(r, Batch(p)))]
    BY <1>8 DEF WriteRecord
  <2>2. Counted(read[p][r], SamplesOf(r, Batch(p))) \in [Samples -> Nat]
    BY DEF Counted
  <2>3. Merged(read[p], r, SamplesOf(r, Batch(p))) \in [Rows -> [Samples -> Nat]]
    BY <2>2 DEF Merged
  <2>4. measured' \in [Records -> [Rows -> [Samples -> Nat]]]
    BY <2>1, <2>3
  <2> QED
    BY <1>8, <2>4, NothingType DEF WriteRecord
<1>9. ASSUME NEW p \in Processes, End(p)
      PROVE  /\ batch' \in [Processes -> Seq(Samples)] /\ step' \in [Processes -> Steps]
             /\ todo' \in [Processes -> SUBSET Rows] /\ at' \in [Processes -> SUBSET Rows]
             /\ found' \in [Processes -> SUBSET Records]
             /\ read' \in [Processes -> [Rows -> [Samples -> Nat]]]
  <2>1. <<>> \in Seq(Samples)
    OBVIOUS
  <2> QED
    BY <1>0, <1>9, <2>1, NothingType DEF End
<1>10. ASSUME NEW p \in Processes, EndFlush(p) PROVE TypeOK'
  BY <1>9, <1>10 DEF EndFlush
<1>11. ASSUME NEW p \in Processes, FailFlush(p) PROVE TypeOK'
  <2>1. Requeue(p) /\ faults' \in Nat
    BY <1>11 DEF FailFlush
  <2>2. pending' \in [Processes -> Seq(Samples)]
    BY <2>1, RequeueKeeps DEF Requeue
  <2>3. retried' \subseteq Samples /\ lost' \subseteq Samples
    BY <2>1, BatchType DEF Requeue
  <2> QED
    BY <1>9, <2>1, <2>2, <2>3 DEF Requeue
<1>12. ASSUME NEW p \in Processes, Crash(p) PROVE TypeOK'
  <2>1. pending' \in [Processes -> Seq(Samples)] /\ lost' \subseteq Samples
    BY <1>12, BatchType DEF Crash
  <2> QED
    BY <1>9, <1>12, <2>1 DEF Crash
<1>13. CASE UNCHANGED vars
  BY <1>13 DEF vars
<1> QED
  BY <1>2, <1>3, <1>4, <1>5, <1>6, <1>7, <1>8, <1>10, <1>11, <1>12, <1>13 DEF Next, FlushStep

\* Every reachable state is well typed.
THEOREM TypeCorrect == Spec => []TypeOK
<1>1. Init => TypeOK
  BY NothingType DEF Init, TypeOK, Steps
<1> QED
  BY <1>1, TypeStep, PTL DEF Spec

-----------------------------------------------------------------------------
(* No sample vanishes.  A flush may forget its batch only because, at its end, every *)
(* sample of the batch is durable; so the invariant says how far a flush has come.    *)

\* What a flush has written so far.
Progress(p) ==
  /\ step[p] = "idle" => batch[p] = <<>>
  /\ step[p] = "aggregate" =>
       \A s \in Batch(p) : raw[s] > 0 /\ \A r \in RowsOf[s] \ todo[p] : total[r][s] > 0
  /\ step[p] = "measure" => \A s \in Batch(p) : Durable(s)

ProgressMade == \A p \in Processes : Progress(p)

Conserved == NoSampleVanishes /\ ProgressMade

\* No table ever counts a sample less often.
Grows ==
  /\ \A s \in Samples : raw'[s] >= raw[s]
  /\ \A r \in Rows, s \in Samples : total'[r][s] >= total[r][s]

\* A step of p does not set back the flush of another process.
LEMMA OthersProgress ==
  ASSUME TypeOK, TypeOK', Grows, NEW p \in Processes, ProgressMade, Progress(p)',
         \A q \in Processes \ {p} :
           step'[q] = step[q] /\ batch'[q] = batch[q] /\ todo'[q] = todo[q]
  PROVE  ProgressMade'
<1> SUFFICES ASSUME NEW q \in Processes \ {p} PROVE Progress(q)'
  BY DEF ProgressMade
<1>1. Progress(q)
  BY DEF ProgressMade
<1>2. Batch(q) \subseteq Samples /\ \A s \in Samples : RowsOf[s] \subseteq Rows
  BY BatchType, RowsAssumption
<1>3. Batch(q)' = Batch(q)
  BY DEF Batch
<1>4. \A s \in Samples : raw[s] > 0 => raw'[s] > 0
  BY DEF TypeOK, Grows
<1>5. \A r \in Rows, s \in Samples : total[r][s] > 0 => total'[r][s] > 0
  BY SMTT(30) DEF TypeOK, Grows
<1> QED
  BY <1>1, <1>2, <1>3, <1>4, <1>5 DEF Progress, Durable

\* A sample that was durable stays so.
LEMMA DurableStays ==
  ASSUME TypeOK, TypeOK', Grows, NEW s \in Samples, Durable(s)
  PROVE  Durable(s)'
<1>1. RowsOf[s] \subseteq Rows
  BY RowsAssumption
<1> QED
  BY <1>1 DEF Durable, Grows, TypeOK

\* What no step may do: let go of a sample that is neither durable nor lost.
LEMMA NothingDropped ==
  ASSUME TypeOK, TypeOK', Grows, NoSampleVanishes,
         lost \subseteq lost',
         \A s \in arrived' \ arrived : Held(s)',
         \A s \in Samples : Held(s) => Held(s)' \/ Durable(s)' \/ s \in lost'
  PROVE  NoSampleVanishes'
BY DurableStays DEF NoSampleVanishes, TypeOK

\* A process whose memory, the rest of it, is unchanged goes on holding it.
LEMMA HoldersElsewhere ==
  ASSUME NEW p \in Processes,
         \A q \in Processes \ {p} : pending'[q] = pending[q] /\ batch'[q] = batch[q],
         NEW s \in Samples, Held(s), s \notin Range(pending[p]) \cup Batch(p)
  PROVE  Held(s)'
<1>1. PICK q \in Processes \ {p} : s \in Range(pending[q]) \cup Batch(q)
  BY DEF Held
<1>2. s \in (Range(pending[q]) \cup Batch(q))'
  BY <1>1 DEF Batch
<1> QED
  BY <1>2 DEF Held

\* A step that leaves the tables alone grows them.
LEMMA UnchangedGrows ==
  ASSUME TypeOK, raw' = raw, total' = total PROVE Grows
BY DEF TypeOK, Grows

\* Where a flush begins, the buffer becomes the batch.
LEMMA BeginKeeps ==
  ASSUME TypeOK, NEW p \in Processes, NEW q \in Seq(Samples), Begin(p, q)
  PROVE  /\ (Range(pending[p]) \cup Batch(p))' = Range(q)
         /\ Progress(p)'
         /\ \A o \in Processes \ {p} : /\ pending'[o] = pending[o] /\ batch'[o] = batch[o]
                                       /\ step'[o] = step[o]
<1>1. pending'[p] = <<>> /\ batch'[p] = q /\ step'[p] = "raw"
  BY DEF Begin, TypeOK
<1>2. Range(<<>>) = {}
  BY DEF Range
<1> QED
  BY <1>1, <1>2 DEF Begin, Batch, Progress, TypeOK

\* Where it ends, the batch is gone.
LEMMA EndKeeps ==
  ASSUME TypeOK, NEW p \in Processes, End(p)
  PROVE  /\ Batch(p)' = {} /\ Progress(p)'
         /\ \A o \in Processes \ {p} : /\ batch'[o] = batch[o] /\ step'[o] = step[o]
                                       /\ todo'[o] = todo[o]
<1>1. batch'[p] = <<>> /\ step'[p] = "idle"
  BY DEF End, TypeOK
<1>2. Range(<<>>) = {}
  BY DEF Range
<1> QED
  BY <1>1, <1>2 DEF End, Batch, Progress, TypeOK

\* A statement of a flush moves no sample.
LEMMA InPlace ==
  ASSUME TypeOK, TypeOK', Conserved, Grows, NEW p \in Processes, Progress(p)',
         UNCHANGED <<pending, batch, arrived, lost>>,
         \A o \in Processes \ {p} : step'[o] = step[o] /\ todo'[o] = todo[o]
  PROVE  Conserved'
<1>1. ProgressMade'
  BY OthersProgress DEF Conserved
<1>2. \A s \in Samples : Held(s) => Held(s)'
  BY DEF Held, Batch
<1>3. NoSampleVanishes'
  BY <1>2, NothingDropped DEF Conserved
<1> QED
  BY <1>1, <1>3 DEF Conserved

LEMMA QueueSampleConserves ==
  ASSUME TypeOK, TypeOK', Conserved, NEW p \in Processes, NEW s \in Samples, QueueSample(p, s)
  PROVE  Conserved'
<1>1. /\ Append(pending[p], s) \in Seq(Samples)
      /\ Range(Append(pending[p], s)) = Range(pending[p]) \cup {s}
  BY RangeAppend DEF TypeOK
<1>2. Grows
  BY UnchangedGrows DEF QueueSample
<1>3. Progress(p)
  BY DEF Conserved, ProgressMade
<1>4. /\ Progress(p)'
      /\ (Range(pending[p]) \cup Batch(p))' = Range(pending[p]) \cup Batch(p) \cup {s}
      /\ \A o \in Processes \ {p} : /\ pending'[o] = pending[o] /\ batch'[o] = batch[o]
                                    /\ step'[o] = step[o]
  <2>1. CASE step[p] = "idle" /\ Begin(p, Append(pending[p], s))
    <3>1. Batch(p) = {}
      BY <1>3, <2>1 DEF Progress, Batch, Range
    <3> QED
      BY <1>1, <2>1, <3>1, BeginKeeps
  <2>2. CASE /\ pending' = [pending EXCEPT ![p] = Append(pending[p], s)]
             /\ UNCHANGED <<batch, step>>
    <3>1. pending'[p] = Append(pending[p], s)
      BY <2>2 DEF TypeOK
    <3>2. UNCHANGED <<raw, total, todo>>
      BY DEF QueueSample
    <3>3. Progress(p)'
      BY <1>3, <2>2, <3>2 DEF Progress, Batch, Durable
    <3> QED
      BY <1>1, <2>2, <3>1, <3>3 DEF Batch, TypeOK
  <2> QED
    BY <2>1, <2>2 DEF QueueSample
<1>5. ProgressMade'
  BY <1>2, <1>4, OthersProgress DEF QueueSample, Conserved
<1>6. \A x \in Samples : Held(x) => Held(x)'
  BY <1>4, HoldersElsewhere DEF Held
<1>7. Held(s)' /\ arrived' = arrived \cup {s} /\ lost' = lost
  BY <1>4 DEF Held, QueueSample
<1>8. NoSampleVanishes'
  BY <1>2, <1>6, <1>7, NothingDropped DEF Conserved
<1> QED
  BY <1>5, <1>8 DEF Conserved

LEMMA FlushConserves ==
  ASSUME TypeOK, TypeOK', Conserved, NEW p \in Processes, Flush(p)
  PROVE  Conserved'
<1>1. pending[p] \in Seq(Samples)
  BY DEF TypeOK
<1>2. Grows
  BY UnchangedGrows DEF Flush
<1>3. Batch(p) = {}
  BY DEF Flush, MayFlush, Conserved, ProgressMade, Progress, Batch, Range
<1>4. /\ Progress(p)'
      /\ (Range(pending[p]) \cup Batch(p))' = Range(pending[p]) \cup Batch(p)
      /\ \A o \in Processes \ {p} : /\ pending'[o] = pending[o] /\ batch'[o] = batch[o]
                                    /\ step'[o] = step[o]
  BY <1>1, <1>3, BeginKeeps DEF Flush
<1>5. ProgressMade'
  BY <1>2, <1>4, OthersProgress DEF Flush, Conserved
<1>6. \A x \in Samples : Held(x) => Held(x)'
  BY <1>4, HoldersElsewhere DEF Held
<1>7. NoSampleVanishes'
  BY <1>2, <1>6, NothingDropped DEF Conserved, Flush
<1> QED
  BY <1>5, <1>7 DEF Conserved

LEMMA StatementConserves ==
  ASSUME TypeOK, TypeOK', Conserved, NEW p \in Processes,
         \/ StoreRaw(p) \/ ApplyChunk(p) \/ EndAggregates(p)
         \/ FindRecord(p) \/ WriteRecord(p)
  PROVE  Conserved'
<1>0. Progress(p) /\ Batch(p) \subseteq Samples /\ \A s \in Samples : RowsOf[s] \subseteq Rows
  BY BatchType, RowsAssumption DEF Conserved, ProgressMade
<1>1. CASE StoreRaw(p)
  <2>1. raw' = Counted(raw, Batch(p)) /\ total' = total /\ Batch(p)' = Batch(p)
    BY <1>1 DEF StoreRaw, Batch
  <2>2. Grows
    BY <2>1 DEF Counted, Grows, TypeOK
  <2>3. \A s \in Batch(p) : raw'[s] > 0
    BY <1>0, <2>1 DEF Counted, TypeOK
  <2>4. step'[p] = "aggregate" /\ todo'[p] = RowsFor(Batch(p))
    BY <1>1 DEF StoreRaw, TypeOK
  <2>5. Progress(p)'
    BY <2>1, <2>3, <2>4 DEF Progress, RowsFor
  <2> QED
    BY <1>1, <2>2, <2>5, InPlace DEF StoreRaw, TypeOK
<1>2. CASE ApplyChunk(p)
  <2>1. PICK rows \in SUBSET todo[p] :
          /\ total' = [r \in Rows |-> IF r \in rows
                                      THEN Counted(total[r], SamplesOf(r, Batch(p)))
                                      ELSE total[r]]
          /\ todo' = [todo EXCEPT ![p] = @ \ rows]
    BY <1>2 DEF ApplyChunk
  <2>2. \A r \in Rows, s \in Samples : total'[r][s] >= total[r][s]
    BY <2>1 DEF Counted, TypeOK
  <2>3. Grows
    BY <1>2, <2>2 DEF Grows, ApplyChunk, TypeOK
  <2>4. \A r \in rows, s \in Batch(p) : r \in RowsOf[s] => total'[r][s] > 0
    <3> SUFFICES ASSUME NEW r \in rows, NEW s \in Batch(p), r \in RowsOf[s] PROVE total'[r][s] > 0
      OBVIOUS
    <3>1. r \in Rows /\ s \in Samples /\ s \in SamplesOf(r, Batch(p))
      BY <1>0 DEF TypeOK, SamplesOf
    <3>2. total'[r] = Counted(total[r], SamplesOf(r, Batch(p))) /\ total[r] \in [Samples -> Nat]
      BY <2>1, <3>1 DEF TypeOK
    <3>3. total'[r][s] = total[r][s] + 1 /\ total[r][s] \in Nat
      BY <3>1, <3>2, CountedType
    <3> QED
      BY <3>3
  <2>5. /\ step[p] = "aggregate" /\ step' = step /\ raw' = raw /\ Batch(p)' = Batch(p)
        /\ todo'[p] = todo[p] \ rows
    BY <1>2, <2>1 DEF ApplyChunk, Batch, TypeOK
  <2>6. \A r \in Rows, s \in Samples : total[r][s] > 0 => total'[r][s] > 0
    BY <2>2 DEF TypeOK
  <2>7. ASSUME NEW s \in Batch(p), NEW r \in RowsOf[s] \ todo'[p] PROVE total'[r][s] > 0
    <3>1. CASE r \in rows
      BY <2>4, <2>7, <3>1
    <3>2. CASE r \notin rows
      BY <1>0, <2>5, <2>6, <2>7, <3>2 DEF Progress
    <3> QED
      BY <3>1, <3>2
  <2>8. Progress(p)'
    BY <1>0, <2>5, <2>7 DEF Progress
  <2> QED
    BY <1>2, <2>1, <2>3, <2>8, InPlace DEF ApplyChunk, TypeOK
<1>3. CASE EndAggregates(p)
  <2>1. step'[p] = "measure" /\ UNCHANGED <<raw, total>> /\ Batch(p)' = Batch(p)
    BY <1>3 DEF EndAggregates, Batch, TypeOK
  <2>2. \A s \in Batch(p) : Durable(s)
    BY <1>0, <1>3 DEF EndAggregates, Progress, Durable
  <2>3. Progress(p)'
    BY <2>1, <2>2 DEF Progress, Durable
  <2> QED
    BY <1>3, <2>1, <2>3, UnchangedGrows, InPlace DEF EndAggregates, TypeOK
<1>4. CASE FindRecord(p) \/ WriteRecord(p)
  <2>1. /\ UNCHANGED <<pending, batch, step, raw, total, arrived, lost>> /\ step[p] = "measure"
        /\ \A o \in Processes \ {p} : todo'[o] = todo[o]
    BY <1>4 DEF FindRecord, WriteRecord, TypeOK
  <2>2. Progress(p)'
    BY <1>0, <2>1 DEF Progress, Durable, Batch
  <2> QED
    BY <2>1, <2>2, UnchangedGrows, InPlace
<1> QED
  BY <1>1, <1>2, <1>3, <1>4

\* What ends a flush accounts for every sample that its process held.
LEMMA EndConserves ==
  ASSUME TypeOK, TypeOK', Conserved, NEW p \in Processes, End(p),
         UNCHANGED <<raw, total, arrived>>, lost \subseteq lost',
         \A o \in Processes \ {p} : pending'[o] = pending[o],
         \A s \in Range(pending[p]) \cup Batch(p) :
           s \in Range(pending'[p]) \/ Durable(s) \/ s \in lost'
  PROVE  Conserved'
<1>1. Grows
  BY UnchangedGrows
<1>2. ProgressMade'
  BY <1>1, EndKeeps, OthersProgress DEF Conserved
<1>3. \A o \in Processes \ {p} : pending'[o] = pending[o] /\ batch'[o] = batch[o]
  BY EndKeeps
<1>4. ASSUME NEW s \in Samples, Held(s) PROVE Held(s)' \/ Durable(s)' \/ s \in lost'
  <2>1. CASE s \notin Range(pending[p]) \cup Batch(p)
    BY <1>3, <1>4, <2>1, HoldersElsewhere
  <2>2. CASE s \in Range(pending'[p])
    BY <2>2 DEF Held
  <2>3. CASE Durable(s)
    BY <1>1, <2>3, DurableStays
  <2> QED
    BY <2>1, <2>2, <2>3
<1>5. NoSampleVanishes'
  BY <1>1, <1>4, NothingDropped DEF Conserved
<1> QED
  BY <1>2, <1>5 DEF Conserved

LEMMA EndFlushConserves ==
  ASSUME TypeOK, TypeOK', Conserved, NEW p \in Processes, EndFlush(p)
  PROVE  Conserved'
<1>1. \A s \in Batch(p) : Durable(s)
  BY DEF Conserved, ProgressMade, Progress, EndFlush
<1> QED
  BY <1>1, EndConserves DEF EndFlush

LEMMA FailureConserves ==
  ASSUME TypeOK, TypeOK', Conserved, NEW p \in Processes, FailFlush(p) \/ Crash(p)
  PROVE  Conserved'
<1>1. CASE FailFlush(p)
  <2>1. Requeue(p) /\ pending'[p] = Requeued(p)
        /\ \A o \in Processes \ {p} : pending'[o] = pending[o]
    BY <1>1 DEF FailFlush, Requeue, TypeOK
  <2>2. lost' = IF Overflows(p)
                THEN lost \cup ((Range(pending[p]) \cup Batch(p)) \ Range(Requeued(p)))
                ELSE lost
    BY <2>1 DEF Requeue
  <2>3. \A s \in Range(pending[p]) \cup Batch(p) : s \in Range(pending'[p]) \/ s \in lost'
    BY <2>1, <2>2, RequeueKeeps
  <2>4. lost \subseteq lost' /\ End(p) /\ UNCHANGED <<raw, total, arrived>>
    BY <2>1, <2>2 DEF Requeue
  <2> QED
    BY <2>1, <2>3, <2>4, EndConserves
<1>2. CASE Crash(p)
  <2>1. /\ End(p) /\ UNCHANGED <<raw, total, arrived>> /\ lost \subseteq lost'
        /\ \A s \in Range(pending[p]) \cup Batch(p) : s \in lost'
        /\ \A o \in Processes \ {p} : pending'[o] = pending[o]
    BY <1>2 DEF Crash, TypeOK
  <2> QED
    BY <2>1, EndConserves
<1> QED
  BY <1>1, <1>2

LEMMA ConservedInit == Init => Conserved
BY DEF Init, Conserved, NoSampleVanishes, ProgressMade, Progress

LEMMA ConservedStep == TypeOK /\ TypeOK' /\ Conserved /\ [Next]_vars => Conserved'
<1> SUFFICES ASSUME TypeOK, TypeOK', Conserved, [Next]_vars PROVE Conserved'
  OBVIOUS
<1>1. CASE UNCHANGED vars
  BY <1>1 DEF vars, Conserved, NoSampleVanishes, ProgressMade, Progress, Durable, Held, Batch
<1>2. CASE Next
  BY <1>2, QueueSampleConserves, FlushConserves, StatementConserves, EndFlushConserves,
     FailureConserves DEF Next, FlushStep
<1> QED
  BY <1>1, <1>2

\* No statement, failure, requeue, crash or sample queued meanwhile makes a reported
\* sample vanish: it is in memory, durable in all its tables, or lost with its process
\* or from a full buffer (buffer.ts, flush).
THEOREM NoneVanishes == Spec => []NoSampleVanishes
<1>1. Conserved => NoSampleVanishes
  BY DEF Conserved
<1> QED
  BY <1>1, ConservedInit, ConservedStep, TypeCorrect, PTL DEF Spec

-----------------------------------------------------------------------------
(* What is derived is never ahead.  A flush is about to count its batch in the rows it *)
(* has left, so these must still be behind; and two flushes must not hold one sample,  *)
(* or the second would count it without having stored it.                              *)

Own(p) == Range(pending[p]) \cup Batch(p)

\* No sample is in the memory of two processes.
Apart ==
  /\ \A p \in Processes : Own(p) \subseteq arrived
  /\ \A p, q \in Processes : p # q => Own(p) \cap Own(q) = {}

\* p has stored the sample and not yet counted it in the row.
Behind(p, r, s) ==
  s \in Batch(p) /\ r \in RowsOf[s] /\ step[p] = "aggregate" /\ r \in todo[p]

\* p has counted it in the row and not yet in the record of the row.
Ahead(p, r, s) ==
  /\ s \in Batch(p) /\ r \in RowsOf[s]
  /\ \/ step[p] = "aggregate" /\ r \notin todo[p]
     \/ step[p] = "measure" /\ r \in todo[p]

\* The record a flush has read is that of a row it is about to write.
Reading ==
  \A p \in Processes : /\ at[p] \subseteq todo[p]
                       /\ at[p] # {} => step[p] = "measure"
                       /\ found[p] # {} => at[p] # {}

ReadAhead(p, d, r, s) == d \in found[p] => read[p][r][s] < total[r][s]

InOrder(d, r, s) ==
  /\ measured[d][r][s] <= total[r][s] /\ total[r][s] <= raw[s]
  /\ \A p \in Processes :
       /\ d \in found[p] => read[p][r][s] <= total[r][s]
       /\ Behind(p, r, s) => total[r][s] < raw[s]
       /\ Ahead(p, r, s) => /\ measured[d][r][s] < total[r][s]
                            /\ \A q \in Processes : ReadAhead(q, d, r, s)

Ordered == Reading /\ \A d \in Records, r \in Rows, s \in Samples : InOrder(d, r, s)

LEMMA ApartStep == TypeOK /\ Apart /\ ProgressMade /\ [Next]_vars => Apart'
<1> SUFFICES ASSUME TypeOK, Apart, ProgressMade, [Next]_vars PROVE Apart'
  OBVIOUS
<1>1. ASSUME NEW p \in Processes, Own(p)' \subseteq Own(p) \cup (arrived' \ arrived),
             arrived \subseteq arrived',
             \A q \in Processes \ {p} : pending'[q] = pending[q] /\ batch'[q] = batch[q]
      PROVE  Apart'
  <2>1. \A q \in Processes \ {p} : Own(q)' = Own(q)
    BY <1>1 DEF Own, Batch
  <2> QED
    BY <1>1, <2>1 DEF Apart
<1>2. ASSUME NEW p \in Processes, NEW s \in Samples, QueueSample(p, s) PROVE Apart'
  <2>1. /\ Append(pending[p], s) \in Seq(Samples)
        /\ Range(Append(pending[p], s)) = Range(pending[p]) \cup {s}
    BY RangeAppend DEF TypeOK
  <2>2. /\ Own(p)' \subseteq Own(p) \cup {s}
        /\ \A q \in Processes \ {p} : pending'[q] = pending[q] /\ batch'[q] = batch[q]
    <3>1. CASE Begin(p, Append(pending[p], s))
      BY <2>1, <3>1, BeginKeeps DEF Own
    <3>2. CASE /\ pending' = [pending EXCEPT ![p] = Append(pending[p], s)]
               /\ UNCHANGED <<batch, step>>
      <4>1. pending'[p] = Append(pending[p], s)
        BY <3>2 DEF TypeOK
      <4> QED
        BY <2>1, <3>2, <4>1 DEF Own, Batch, TypeOK
    <3> QED
      BY <1>2, <3>1, <3>2 DEF QueueSample
  <2>3. s \in arrived' \ arrived /\ arrived \subseteq arrived'
    BY <1>2 DEF QueueSample
  <2> QED
    BY <1>1, <2>2, <2>3
<1>3. ASSUME NEW p \in Processes, Flush(p) PROVE Apart'
  <2>1. pending[p] \in Seq(Samples) /\ Begin(p, pending[p]) /\ arrived' = arrived
    BY <1>3 DEF Flush, TypeOK
  <2>2. Own(p)' \subseteq Own(p)
    BY <2>1, BeginKeeps DEF Own
  <2> QED
    BY <1>1, <2>1, <2>2, BeginKeeps
<1>4. ASSUME UNCHANGED <<pending, batch, arrived>> PROVE Apart'
  BY <1>4 DEF Apart, Own, Batch
<1>5. ASSUME NEW p \in Processes,
             StoreRaw(p) \/ ApplyChunk(p) \/ EndAggregates(p) \/ FindRecord(p) \/ WriteRecord(p)
      PROVE  Apart'
  BY <1>4, <1>5 DEF StoreRaw, ApplyChunk, EndAggregates, FindRecord, WriteRecord
<1>6. ASSUME NEW p \in Processes, End(p), arrived' = arrived,
             Range(pending'[p]) \subseteq Own(p),
             \A q \in Processes \ {p} : pending'[q] = pending[q]
      PROVE  Apart'
  <2>1. Own(p)' \subseteq Own(p)
    BY <1>6, EndKeeps DEF Own
  <2> QED
    BY <1>1, <1>6, <2>1, EndKeeps
<1>7. ASSUME NEW p \in Processes, EndFlush(p) PROVE Apart'
  BY <1>6, <1>7 DEF EndFlush, Own
<1>8. ASSUME NEW p \in Processes, FailFlush(p) PROVE Apart'
  <2>1. /\ End(p) /\ arrived' = arrived /\ pending'[p] = Requeued(p)
        /\ \A q \in Processes \ {p} : pending'[q] = pending[q]
    BY <1>8 DEF FailFlush, Requeue, TypeOK
  <2> QED
    BY <1>6, <2>1, RequeueKeeps DEF Own
<1>9. ASSUME NEW p \in Processes, Crash(p) PROVE Apart'
  <2>1. /\ End(p) /\ arrived' = arrived /\ pending'[p] = <<>>
        /\ \A q \in Processes \ {p} : pending'[q] = pending[q]
    BY <1>9 DEF Crash, TypeOK
  <2>2. Range(<<>>) = {}
    BY DEF Range
  <2> QED
    BY <1>6, <2>1, <2>2
<1>10. CASE UNCHANGED vars
  BY <1>4, <1>10 DEF vars
<1> QED
  BY <1>2, <1>3, <1>5, <1>7, <1>8, <1>9, <1>10 DEF Next, FlushStep

\* Where a process has nothing left to count and the tables are unchanged, all the
\* others are as far as they were.
LEMMA Settled ==
  ASSUME TypeOK, Ordered, NEW p \in Processes, UNCHANGED <<raw, total, measured>>,
         at'[p] = {}, found'[p] = {}, step'[p] \notin {"aggregate", "measure"},
         \A q \in Processes \ {p} : /\ step'[q] = step[q] /\ batch'[q] = batch[q]
                                    /\ todo'[q] = todo[q] /\ at'[q] = at[q]
                                    /\ found'[q] = found[q] /\ read'[q] = read[q]
  PROVE  Ordered'
<1>1. \A q \in Processes \ {p} : Batch(q)' = Batch(q)
  BY DEF Batch
<1>2. Reading'
  BY DEF Ordered, Reading
<1>3. ASSUME NEW d \in Records, NEW r \in Rows, NEW s \in Samples PROVE InOrder(d, r, s)'
  <2>1. InOrder(d, r, s)
    BY DEF Ordered
  <2>2. \A q \in Processes : ~Behind(p, r, s)' /\ ~Ahead(p, r, s)'
    BY DEF Behind, Ahead
  <2>3. \A q \in Processes \ {p} : /\ Behind(q, r, s)' => Behind(q, r, s)
                                   /\ Ahead(q, r, s)' => Ahead(q, r, s)
    BY <1>1 DEF Behind, Ahead
  <2>4. \A q \in Processes : ReadAhead(q, d, r, s) => ReadAhead(q, d, r, s)'
    BY DEF ReadAhead
  <2> QED
    BY <2>1, <2>2, <2>3, <2>4 DEF InOrder
<1> QED
  BY <1>2, <1>3 DEF Ordered

LEMMA QuietOrdered ==
  ASSUME TypeOK, Ordered, ProgressMade, NEW p \in Processes,
         \/ Flush(p) \/ EndFlush(p) \/ FailFlush(p) \/ Crash(p)
         \/ \E s \in Samples : QueueSample(p, s)
  PROVE  Ordered'
<1>1. ASSUME NEW q \in Seq(Samples), Begin(p, q), step[p] = "idle",
             UNCHANGED <<todo, at, found, read, raw, total, measured>>
      PROVE  Ordered'
  <2>1. at'[p] = {} /\ found'[p] = {} /\ step'[p] = "raw"
    BY <1>1 DEF Begin, Ordered, Reading, TypeOK
  <2> QED
    BY <1>1, <2>1, BeginKeeps, Settled
<1>2. ASSUME End(p), UNCHANGED <<raw, total, measured>> PROVE Ordered'
  <2>1. at'[p] = {} /\ found'[p] = {} /\ step'[p] = "idle"
        /\ \A q \in Processes \ {p} : /\ at'[q] = at[q] /\ found'[q] = found[q]
                                      /\ read'[q] = read[q]
    BY <1>2 DEF End, TypeOK
  <2> QED
    BY <1>2, <2>1, EndKeeps, Settled
<1>3. CASE Flush(p)
  <2>1. pending[p] \in Seq(Samples) /\ Begin(p, pending[p])
    BY <1>3 DEF Flush, TypeOK
  <2> QED
    BY <1>1, <1>3, <2>1 DEF Flush, MayFlush
<1>4. CASE EndFlush(p) \/ FailFlush(p) \/ Crash(p)
  BY <1>2, <1>4 DEF EndFlush, FailFlush, Requeue, Crash
<1>5. ASSUME NEW s \in Samples, QueueSample(p, s) PROVE Ordered'
  <2>1. Append(pending[p], s) \in Seq(Samples)
    BY RangeAppend DEF TypeOK
  <2>2. CASE step[p] = "idle" /\ Begin(p, Append(pending[p], s))
    BY <1>1, <1>5, <2>1, <2>2 DEF QueueSample
  <2>3. CASE UNCHANGED <<batch, step>>
    BY <1>5, <2>3 DEF QueueSample, Ordered, Reading, InOrder, Behind, Ahead, ReadAhead, Batch
  <2> QED
    BY <1>5, <2>2, <2>3 DEF QueueSample
<1> QED
  BY <1>3, <1>4, <1>5

LEMMA StoreRawOrdered ==
  ASSUME TypeOK, Ordered, NEW p \in Processes, StoreRaw(p) PROVE Ordered'
<1>1. /\ UNCHANGED <<batch, total, measured, at, found, read>>
      /\ step[p] = "raw" /\ step'[p] = "aggregate" /\ todo'[p] = RowsFor(Batch(p))
      /\ \A q \in Processes \ {p} : step'[q] = step[q] /\ todo'[q] = todo[q]
      /\ raw' = Counted(raw, Batch(p))
  BY DEF StoreRaw, TypeOK
<1>2. Batch(p) \subseteq Samples /\ \A q \in Processes : Batch(q)' = Batch(q)
  BY <1>1, BatchType DEF Batch
<1>3. Reading'
  BY <1>1 DEF Ordered, Reading
<1>4. ASSUME NEW d \in Records, NEW r \in Rows, NEW s \in Samples PROVE InOrder(d, r, s)'
  <2>1. InOrder(d, r, s)
    BY DEF Ordered
  <2>2. raw'[s] >= raw[s] /\ (s \in Batch(p) => raw'[s] > raw[s])
        /\ raw[s] \in Nat /\ raw'[s] \in Nat /\ total[r][s] \in Nat
    BY <1>1 DEF Counted, TypeOK
  <2>3. ~Ahead(p, r, s)' /\ (Behind(p, r, s)' => s \in Batch(p))
    BY <1>1, <1>2 DEF Ahead, Behind, RowsFor
  <2>4. \A q \in Processes \ {p} : /\ Behind(q, r, s)' => Behind(q, r, s)
                                   /\ Ahead(q, r, s)' => Ahead(q, r, s)
    BY <1>1, <1>2 DEF Behind, Ahead
  <2>5. \A q \in Processes : ReadAhead(q, d, r, s) => ReadAhead(q, d, r, s)'
    BY <1>1 DEF ReadAhead
  <2>6. total'[r][s] <= raw'[s] /\ measured'[d][r][s] <= total'[r][s]
    BY <1>1, <2>1, <2>2 DEF InOrder
  <2>7. \A q \in Processes : Behind(q, r, s)' => total'[r][s] < raw'[s]
    BY <1>1, <2>1, <2>2, <2>3, <2>4 DEF InOrder
  <2> QED
    BY <1>1, <2>1, <2>3, <2>4, <2>5, <2>6, <2>7 DEF InOrder
<1> QED
  BY <1>3, <1>4 DEF Ordered

LEMMA ApplyChunkOrdered ==
  ASSUME TypeOK, Apart, Ordered, NEW p \in Processes, ApplyChunk(p) PROVE Ordered'
<1>1. PICK rows \in SUBSET todo[p] :
        /\ total' = [r \in Rows |-> IF r \in rows
                                    THEN Counted(total[r], SamplesOf(r, Batch(p)))
                                    ELSE total[r]]
        /\ todo' = [todo EXCEPT ![p] = @ \ rows]
  BY DEF ApplyChunk
<1>2. /\ UNCHANGED <<batch, step, raw, measured, at, found, read>> /\ step[p] = "aggregate"
      /\ todo'[p] = todo[p] \ rows /\ \A q \in Processes \ {p} : todo'[q] = todo[q]
  BY <1>1 DEF ApplyChunk, TypeOK
<1>3. \A q \in Processes : Batch(q)' = Batch(q)
  BY <1>2 DEF Batch
<1>4. Reading'
  BY <1>2 DEF Ordered, Reading
<1>5. ASSUME NEW d \in Records, NEW r \in Rows, NEW s \in Samples PROVE InOrder(d, r, s)'
  <2> DEFINE counted == r \in rows /\ s \in SamplesOf(r, Batch(p))
  <2>1. InOrder(d, r, s)
    BY DEF Ordered
  <2>2. /\ total'[r][s] = IF counted THEN total[r][s] + 1 ELSE total[r][s]
        /\ raw[s] \in Nat /\ total[r][s] \in Nat /\ measured[d][r][s] \in Nat
        /\ \A q \in Processes : read[q][r][s] \in Nat
    BY <1>1 DEF Counted, TypeOK
  <2>3. CASE counted
    <3>1. total'[r][s] = total[r][s] + 1
      BY <2>2, <2>3
    <3>2. Behind(p, r, s) /\ ~Behind(p, r, s)'
      BY <1>2, <2>3 DEF Behind, SamplesOf
    <3>3. \A q \in Processes \ {p} : s \notin Batch(q)
      BY <3>2 DEF Behind, Apart, Own
    <3>4. \A q \in Processes : ~Behind(q, r, s)'
      BY <1>3, <3>2, <3>3 DEF Behind
    <3>5. \A q \in Processes : (d \in found[q] => read[q][r][s] <= total[r][s])
      BY <2>1 DEF InOrder
    <3>6. measured[d][r][s] < total'[r][s] /\ total'[r][s] <= raw[s]
      BY <2>1, <2>2, <3>1, <3>2 DEF InOrder
    <3>7. \A q \in Processes : d \in found[q] => read[q][r][s] < total'[r][s]
      BY <2>2, <3>1, <3>5
    <3>8. \A q \in Processes : d \in found[q] => read[q][r][s] <= total'[r][s]
      BY <2>2, <3>1, <3>5
    <3>9. measured[d][r][s] <= total'[r][s]
      BY <2>2, <3>1, <3>6
    <3> QED
      BY <1>2, <3>4, <3>6, <3>7, <3>8, <3>9 DEF InOrder, ReadAhead
  <2>4. CASE ~counted
    <3>1. total'[r][s] = total[r][s]
      BY <2>2, <2>4
    <3>2. \A q \in Processes : Behind(q, r, s)' => Behind(q, r, s)
      BY <1>2, <1>3 DEF Behind
    <3>3. \A q \in Processes \ {p} : Ahead(q, r, s)' => Ahead(q, r, s)
      BY <1>2, <1>3 DEF Ahead
    <3>4. Ahead(p, r, s)' => Ahead(p, r, s)
      BY <1>2, <1>3, <2>4 DEF Ahead, SamplesOf
    <3>5. \A q \in Processes : ReadAhead(q, d, r, s) => ReadAhead(q, d, r, s)'
      BY <1>2, <3>1 DEF ReadAhead
    <3> QED
      BY <1>2, <2>1, <3>1, <3>2, <3>3, <3>4, <3>5 DEF InOrder
  <2> QED
    BY <2>3, <2>4
<1> QED
  BY <1>4, <1>5 DEF Ordered

LEMMA EndAggregatesOrdered ==
  ASSUME TypeOK, Ordered, NEW p \in Processes, EndAggregates(p) PROVE Ordered'
<1>1. /\ UNCHANGED <<batch, raw, total, measured, at, found, read>>
      /\ step[p] = "aggregate" /\ step'[p] = "measure" /\ todo[p] = {}
      /\ \A q \in Processes \ {p} : step'[q] = step[q] /\ todo'[q] = todo[q]
  BY DEF EndAggregates, TypeOK
<1>2. \A q \in Processes : Batch(q)' = Batch(q)
  BY <1>1 DEF Batch
<1>3. Reading'
  BY <1>1 DEF Ordered, Reading
<1>4. ASSUME NEW d \in Records, NEW r \in Rows, NEW s \in Samples PROVE InOrder(d, r, s)'
  <2>1. InOrder(d, r, s)
    BY DEF Ordered
  <2>2. ~Behind(p, r, s)' /\ (Ahead(p, r, s)' => Ahead(p, r, s))
    BY <1>1, <1>2 DEF Behind, Ahead
  <2>3. \A q \in Processes \ {p} : /\ Behind(q, r, s)' => Behind(q, r, s)
                                   /\ Ahead(q, r, s)' => Ahead(q, r, s)
    BY <1>1, <1>2 DEF Behind, Ahead
  <2>4. \A q \in Processes : ReadAhead(q, d, r, s) => ReadAhead(q, d, r, s)'
    BY <1>1 DEF ReadAhead
  <2> QED
    BY <1>1, <2>1, <2>2, <2>3, <2>4 DEF InOrder
<1> QED
  BY <1>3, <1>4 DEF Ordered

LEMMA FindRecordOrdered ==
  ASSUME TypeOK, Ordered, NEW p \in Processes, FindRecord(p) PROVE Ordered'
<1>1. PICK t \in todo[p], x \in Batch(p) :
        /\ at' = [at EXCEPT ![p] = {t}]
        /\ found' = [found EXCEPT ![p] = {RecordOf[t][x]}]
        /\ read' = [read EXCEPT ![p] = measured[RecordOf[t][x]]]
  BY DEF FindRecord
<1>2. /\ UNCHANGED <<batch, step, todo, raw, total, measured>> /\ step[p] = "measure"
      /\ at'[p] = {t} /\ found'[p] = {RecordOf[t][x]} /\ read'[p] = measured[RecordOf[t][x]]
      /\ \A q \in Processes \ {p} : /\ at'[q] = at[q] /\ found'[q] = found[q]
                                    /\ read'[q] = read[q]
  BY <1>1 DEF FindRecord, TypeOK
<1>3. \A q \in Processes : Batch(q)' = Batch(q)
  BY <1>2 DEF Batch
<1>4. Reading'
  BY <1>2 DEF Ordered, Reading
<1>5. ASSUME NEW d \in Records, NEW r \in Rows, NEW s \in Samples PROVE InOrder(d, r, s)'
  <2>1. InOrder(d, r, s)
    BY DEF Ordered
  <2>2. \A q \in Processes : (Behind(q, r, s)' <=> Behind(q, r, s)) /\ (Ahead(q, r, s)' <=> Ahead(q, r, s))
    BY <1>2, <1>3 DEF Behind, Ahead
  <2>3. \A q \in Processes : d \in found'[q] => read'[q][r][s] <= total[r][s]
    BY <1>2, <2>1 DEF InOrder
  <2>4. \A q \in Processes :
          ReadAhead(q, d, r, s) /\ measured[d][r][s] < total[r][s] => ReadAhead(q, d, r, s)'
    BY <1>2 DEF ReadAhead
  <2> QED
    BY <1>2, <2>1, <2>2, <2>3, <2>4 DEF InOrder
<1> QED
  BY <1>4, <1>5 DEF Ordered

LEMMA WriteRecordOrdered ==
  ASSUME TypeOK, Apart, Ordered, NEW p \in Processes, WriteRecord(p) PROVE Ordered'
<1>1. PICK t \in at[p], c \in found[p] :
        measured' = [measured EXCEPT ![c] = Merged(read[p], t, SamplesOf(t, Batch(p)))]
  BY DEF WriteRecord
<1>2. /\ UNCHANGED <<batch, step, raw, total>> /\ step[p] = "measure"
      /\ at'[p] = {} /\ found'[p] = {} /\ todo'[p] = todo[p] \ at[p] /\ at[p] \subseteq todo[p]
      /\ \A q \in Processes \ {p} : /\ todo'[q] = todo[q] /\ at'[q] = at[q]
                                    /\ found'[q] = found[q] /\ read'[q] = read[q]
  BY DEF WriteRecord, TypeOK, Ordered, Reading
<1>3. \A q \in Processes : Batch(q)' = Batch(q)
  BY <1>2 DEF Batch
<1>4. Reading'
  BY <1>2 DEF Ordered, Reading
<1>5. ASSUME NEW d \in Records, NEW r \in Rows, NEW s \in Samples PROVE InOrder(d, r, s)'
  <2>1. InOrder(d, r, s)
    BY DEF Ordered
  <2>2. \A q \in Processes : /\ Behind(q, r, s)' => Behind(q, r, s)
                             /\ Ahead(q, r, s)' => Ahead(q, r, s)
    BY <1>2, <1>3 DEF Behind, Ahead
  <2>3. \A q \in Processes : /\ ReadAhead(q, d, r, s) => ReadAhead(q, d, r, s)'
                             /\ d \in found'[q] => read'[q][r][s] <= total[r][s]
    BY <1>2, <2>1 DEF ReadAhead, InOrder
  <2>4. CASE d # c
    <3>1. measured'[d] = measured[d]
      BY <1>1, <2>4 DEF TypeOK
    <3> QED
      BY <1>2, <2>1, <2>2, <2>3, <3>1 DEF InOrder
  <2>5. CASE d = c
    <3> DEFINE counted == r = t /\ s \in SamplesOf(t, Batch(p))
    <3>0. t \in Rows /\ measured'[d] = Merged(read[p], t, SamplesOf(t, Batch(p)))
      BY <1>1, <2>5 DEF TypeOK
    <3>1. /\ measured'[d][r][s] = IF counted THEN read[p][r][s] + 1 ELSE read[p][r][s]
          /\ read[p][r][s] \in Nat /\ total[r][s] \in Nat
      BY <3>0 DEF Merged, Counted, TypeOK
    <3>2. read[p][r][s] <= total[r][s]
      BY <2>1, <2>5 DEF InOrder
    <3>3. CASE counted
      <4>1. Ahead(p, r, s) /\ ~Ahead(p, r, s)'
        BY <1>2, <2>5, <3>3 DEF Ahead, SamplesOf
      <4>2. \A q \in Processes \ {p} : s \notin Batch(q)
        BY <4>1 DEF Ahead, Apart, Own
      <4>3. \A q \in Processes : ~Ahead(q, r, s)'
        BY <1>3, <4>1, <4>2 DEF Ahead
      <4>4. measured'[d][r][s] <= total[r][s]
        BY <2>1, <2>5, <3>1, <3>3, <4>1 DEF InOrder, ReadAhead
      <4> QED
        BY <1>2, <2>1, <2>2, <2>3, <4>3, <4>4 DEF InOrder
    <3>4. CASE ~counted
      <4>1. measured'[d][r][s] = read[p][r][s]
        BY <3>1, <3>4
      <4>2. \A q \in Processes : Ahead(q, r, s) => read[p][r][s] < total[r][s]
        BY <2>1, <2>5 DEF InOrder, ReadAhead
      <4> QED
        BY <1>2, <2>1, <2>2, <2>3, <3>2, <4>1, <4>2 DEF InOrder
    <3> QED
      BY <3>3, <3>4
  <2> QED
    BY <2>4, <2>5
<1> QED
  BY <1>4, <1>5 DEF Ordered

\* No table counts a sample more often than the one it derives from, at any point of
\* any number of concurrent flushes, retries and crashes (buffer.ts, flush).
THEOREM NeverAhead == Spec => []DerivedNeverAhead
<1> DEFINE Inv == Conserved /\ Apart /\ Ordered
<1>1. Init => Inv
  <2> SUFFICES ASSUME Init PROVE Inv
    OBVIOUS
  <2>1. Conserved
    BY ConservedInit
  <2>2. Apart
    BY DEF Init, Apart, Own, Batch, Range
  <2>3. Ordered
    BY DEF Init, Ordered, Reading, InOrder, Behind, Ahead, ReadAhead, Nothing, Missing
  <2> QED
    BY <2>1, <2>2, <2>3
<1>2. TypeOK /\ TypeOK' /\ Inv /\ [Next]_vars => Inv'
  <2> SUFFICES ASSUME TypeOK, TypeOK', Inv, [Next]_vars PROVE Ordered'
    BY ApartStep, ConservedStep DEF Conserved
  <2>0. ProgressMade /\ Apart /\ Ordered
    BY DEF Conserved
  <2>1. CASE UNCHANGED vars
    BY <2>0, <2>1 DEF vars, Ordered, Reading, InOrder, Behind, Ahead, ReadAhead, Batch
  <2>2. CASE Next
    BY <2>0, <2>2, QuietOrdered, StoreRawOrdered, ApplyChunkOrdered, EndAggregatesOrdered,
       FindRecordOrdered, WriteRecordOrdered DEF Next, FlushStep
  <2> QED
    BY <2>1, <2>2
<1>3. Inv => DerivedNeverAhead
  BY RowsAssumption DEF Ordered, InOrder, DerivedNeverAhead
<1> QED
  BY <1>1, <1>2, <1>3, TypeCorrect, PTL DEF Spec

-----------------------------------------------------------------------------
(* Only a retry counts twice: a sample that no failure has touched and that is stored *)
(* is neither queued any more nor about to be stored.                                 *)

Fresh(s) ==
  \A p \in Processes : s \notin Range(pending[p]) /\ (s \in Batch(p) => step[p] # "raw")

StoredOnce(s) ==
  /\ raw[s] <= 1
  /\ raw[s] > 0 => s \in arrived /\ Fresh(s)
  /\ \A p \in Processes : s \in Batch(p) => s \notin Range(pending[p])

Once == \A s \in Samples \ retried : StoredOnce(s)

LEMMA OnceStep == TypeOK /\ Apart /\ ProgressMade /\ Once /\ [Next]_vars => Once'
<1> SUFFICES ASSUME TypeOK, Apart, ProgressMade, Once, [Next]_vars,
                    NEW s \in Samples \ retried'
             PROVE  StoredOnce(s)'
  BY DEF Once
<1>0. retried \subseteq retried' /\ StoredOnce(s)
  <2>1. retried \subseteq retried'
    BY DEF Next, FlushStep, QueueSample, Flush, StoreRaw, ApplyChunk, EndAggregates,
       FindRecord, WriteRecord, EndFlush, FailFlush, Requeue, Crash, vars
  <2> QED
    BY <2>1 DEF Once
<1>1. ASSUME NEW p \in Processes, raw' = raw, arrived' = arrived,
             \A q \in Processes \ {p} : /\ pending'[q] = pending[q] /\ batch'[q] = batch[q]
                                        /\ step'[q] = step[q],
             s \in Range(pending'[p]) => s \in Range(pending[p]),
             s \notin Batch(p)' \/ (s \in Range(pending[p]) /\ s \notin Range(pending'[p]))
      PROVE  StoredOnce(s)'
  <2>1. \A q \in Processes \ {p} : Batch(q)' = Batch(q)
    BY <1>1 DEF Batch
  <2> QED
    BY <1>0, <1>1, <2>1 DEF StoredOnce, Fresh
<1>2. ASSUME NEW p \in Processes, NEW x \in Samples, QueueSample(p, x) PROVE StoredOnce(s)'
  <2>0. /\ Append(pending[p], x) \in Seq(Samples)
        /\ Range(Append(pending[p], x)) = Range(pending[p]) \cup {x}
    BY RangeAppend DEF TypeOK
  <2>1. /\ raw' = raw /\ arrived' = arrived \cup {x} /\ x \notin arrived
        /\ Own(p)' = Own(p) \cup {x}
        /\ \A q \in Processes \ {p} : /\ pending'[q] = pending[q] /\ Batch(q)' = Batch(q)
                                      /\ step'[q] = step[q]
        /\ \/ pending'[p] = <<>>
           \/ /\ pending'[p] = Append(pending[p], x)
              /\ Batch(p)' = Batch(p) /\ step' = step
    <3>1. CASE step[p] = "idle" /\ Begin(p, Append(pending[p], x))
      <4>1. Batch(p) = {} /\ pending'[p] = <<>>
        BY <3>1 DEF ProgressMade, Progress, Batch, Range, Begin, TypeOK
      <4> QED
        BY <1>2, <2>0, <3>1, <4>1, BeginKeeps DEF QueueSample, Own, Batch
    <3>2. CASE /\ pending' = [pending EXCEPT ![p] = Append(pending[p], x)]
               /\ UNCHANGED <<batch, step>>
      <4>1. pending'[p] = Append(pending[p], x)
        BY <3>2 DEF TypeOK
      <4> QED
        BY <1>2, <2>0, <3>2, <4>1 DEF QueueSample, Own, Batch, TypeOK
    <3> QED
      BY <1>2, <3>1, <3>2 DEF QueueSample
  <2>2. Range(<<>>) = {}
    BY DEF Range
  <2>3. CASE s = x
    <3>1. raw[s] = 0
      BY <1>0, <2>1, <2>3 DEF StoredOnce, TypeOK
    <3>2. \A q \in Processes : s \notin Own(q)
      BY <2>1, <2>3 DEF Apart
    <3>3. \A q \in Processes : s \in Batch(q)' => s \notin Range(pending'[q])
      BY <2>1, <2>2, <3>2 DEF Own
    <3> QED
      BY <2>1, <3>1, <3>3 DEF StoredOnce
  <2>4. CASE s # x
    <3>1. s \in Own(p)' => s \in Own(p)
      BY <2>1, <2>4
    <3>2. raw[s] > 0 => s \in arrived' /\ Fresh(s)'
      <4> SUFFICES ASSUME raw[s] > 0 PROVE s \in arrived' /\ Fresh(s)'
        OBVIOUS
      <4>1. s \in arrived /\ Fresh(s)
        BY <1>0 DEF StoredOnce
      <4>2. CASE step[p] = "idle" /\ Begin(p, Append(pending[p], x))
        <5>1. s \notin Range(pending[p]) /\ Batch(p) = {}
          BY <4>1, <4>2 DEF Fresh, ProgressMade, Progress, Batch, Range
        <5>2. s \notin Own(p)'
          BY <2>1, <2>4, <5>1 DEF Own
        <5> QED
          BY <2>1, <4>1, <5>2 DEF Fresh, Own
      <4>3. CASE /\ pending' = [pending EXCEPT ![p] = Append(pending[p], x)]
                 /\ UNCHANGED <<batch, step>>
        <5>1. Range(pending'[p]) = Range(pending[p]) \cup {x}
          BY <2>0, <4>3 DEF TypeOK
        <5> QED
          BY <2>1, <2>4, <4>1, <4>3, <5>1 DEF Fresh, Batch
      <4> QED
        BY <1>2, <4>2, <4>3 DEF QueueSample
    <3>3. \A q \in Processes : s \in Batch(q)' => s \notin Range(pending'[q])
      <4>1. s \in Batch(p)' => s \notin Range(pending'[p])
        BY <1>0, <2>0, <2>1, <2>2, <2>4 DEF StoredOnce
      <4> QED
        BY <1>0, <2>1, <4>1 DEF StoredOnce
    <3> QED
      BY <1>0, <2>1, <3>2, <3>3 DEF StoredOnce
  <2> QED
    BY <2>3, <2>4
<1>3. ASSUME NEW p \in Processes, Flush(p) PROVE StoredOnce(s)'
  <2>1. pending[p] \in Seq(Samples) /\ Begin(p, pending[p]) /\ step[p] = "idle"
        /\ raw' = raw /\ arrived' = arrived
    BY <1>3 DEF Flush, MayFlush, TypeOK
  <2>2. pending'[p] = <<>> /\ Range(<<>>) = {} /\ Batch(p)' = Range(pending[p])
    BY <2>1 DEF Begin, Batch, Range, TypeOK
  <2> QED
    BY <1>1, <2>1, <2>2, BeginKeeps
<1>4. ASSUME NEW p \in Processes, StoreRaw(p) PROVE StoredOnce(s)'
  <2>1. /\ raw' = Counted(raw, Batch(p)) /\ UNCHANGED <<pending, batch, arrived>>
        /\ step[p] = "raw" /\ step'[p] = "aggregate"
        /\ \A q \in Processes \ {p} : step'[q] = step[q]
    BY <1>4 DEF StoreRaw, TypeOK
  <2>2. \A q \in Processes : Batch(q)' = Batch(q)
    BY <2>1 DEF Batch
  <2>3. raw[s] \in Nat /\ raw'[s] = raw[s] + (IF s \in Batch(p) THEN 1 ELSE 0)
    BY <2>1 DEF Counted, TypeOK
  <2>4. CASE s \in Batch(p)
    <3>1. raw[s] = 0
      BY <1>0, <2>1, <2>3, <2>4 DEF StoredOnce, Fresh
    <3>2. s \in arrived /\ \A q \in Processes \ {p} : s \notin Own(q)
      BY <2>4 DEF Apart, Own
    <3>3. \A q \in Processes : s \notin Range(pending[q])
      BY <1>0, <2>4, <3>2 DEF StoredOnce, Own
    <3> QED
      BY <2>1, <2>2, <2>3, <2>4, <3>1, <3>2, <3>3 DEF StoredOnce, Fresh, Own
  <2>5. CASE s \notin Batch(p)
    <3>1. raw'[s] = raw[s]
      BY <2>3, <2>5
    <3> QED
      BY <1>0, <2>1, <2>2, <2>5, <3>1 DEF StoredOnce, Fresh
  <2> QED
    BY <2>4, <2>5
<1>5. ASSUME NEW p \in Processes,
             ApplyChunk(p) \/ EndAggregates(p) \/ FindRecord(p) \/ WriteRecord(p)
      PROVE  StoredOnce(s)'
  <2>1. /\ UNCHANGED <<raw, arrived, pending, batch>>
        /\ \A q \in Processes : step'[q] = "raw" => step[q] = "raw"
    BY <1>5 DEF ApplyChunk, EndAggregates, FindRecord, WriteRecord, TypeOK
  <2> QED
    BY <1>0, <2>1 DEF StoredOnce, Fresh, Batch
<1>6. ASSUME NEW p \in Processes, EndFlush(p) \/ FailFlush(p) \/ Crash(p) PROVE StoredOnce(s)'
  <2>1. End(p) /\ raw' = raw /\ arrived' = arrived
        /\ \A q \in Processes \ {p} : pending'[q] = pending[q]
    BY <1>6 DEF EndFlush, FailFlush, Requeue, Crash, TypeOK
  <2>2. s \in Range(pending'[p]) => s \in Range(pending[p])
    <3>1. CASE EndFlush(p)
      BY <3>1 DEF EndFlush
    <3>2. CASE FailFlush(p)
      <4>1. pending'[p] = Requeued(p) /\ s \notin Batch(p)
        BY <3>2 DEF FailFlush, Requeue, TypeOK
      <4> QED
        BY <4>1, RequeueKeeps
    <3>3. CASE Crash(p)
      BY <3>3 DEF Crash, Range, TypeOK
    <3> QED
      BY <1>6, <3>1, <3>2, <3>3
  <2> QED
    BY <1>1, <2>1, <2>2, EndKeeps
<1>7. CASE UNCHANGED vars
  BY <1>0, <1>7 DEF vars, StoredOnce, Fresh, Batch
<1> QED
  BY <1>2, <1>3, <1>4, <1>5, <1>6, <1>7 DEF Next, FlushStep

\* Only a retry stores a sample twice: one that was in no failed batch is in the raw
\* table at most once; and with NeverAhead, in every table (buffer.ts, flush).
THEOREM OnlyRetriesRepeat == Spec => []CountedOnce
<1> DEFINE Inv == Conserved /\ Apart /\ Once
<1>1. Init => Inv
  <2> SUFFICES ASSUME Init PROVE Inv
    OBVIOUS
  <2>1. Apart /\ Once
    BY DEF Init, Apart, Own, Once, StoredOnce, Batch, Range, Nothing
  <2> QED
    BY <2>1, ConservedInit
<1>2. TypeOK /\ TypeOK' /\ Inv /\ [Next]_vars => Inv'
  BY ApartStep, OnceStep, ConservedStep DEF Conserved
<1>3. Inv => CountedOnce
  BY DEF Once, StoredOnce, CountedOnce
<1> QED
  BY <1>1, <1>2, <1>3, TypeCorrect, PTL DEF Spec

-----------------------------------------------------------------------------
(* Alerts: what an event becomes. *)

IsTimeline(work) == work.kind = "timeline"

\* The works that are not timeline rows.
IsOther(work) == work.kind \in {"notice", "webhook"}

\* An event becomes at most one row of the timeline, under its own key, and notices.
LEMMA ReactionsOf ==
  ASSUME NEW e, NEW work \in Reactions(e)
  PROVE  /\ IsTimeline(work) \/ (IsOther(work) /\ work.kind = "notice")
         /\ IsTimeline(work) =>
              /\ "key" \in DOMAIN work
              /\ work.key[1] = "ANOMALY_DETECTED" => e.name = "traffic.anomaly"
              /\ e.name = "traffic.anomaly" => work.key = <<"ANOMALY_DETECTED", e.subject>>
<1>1. CASE work \in QuotaEntries(e)
  BY <1>1 DEF QuotaEntries, Only, Entry, IsTimeline
<1>2. CASE work \in NodeEntries(e)
  BY <1>2 DEF NodeEntries, Only, Entry, IsTimeline
<1>3. CASE work \in PolicyEntries(e)
  BY <1>3 DEF PolicyEntries, Only, Entry, IsTimeline
<1>4. CASE work \in LedgerEntries(e)
  BY <1>4 DEF LedgerEntries, Only, Entry, IsTimeline
<1>5. CASE work \in AutomationEntries(e)
  BY <1>5 DEF AutomationEntries, Only, Entry, IsTimeline
<1>6. CASE work \in OptimizationEntries(e)
  BY <1>6 DEF OptimizationEntries, Only, Entry, IsTimeline
<1>7. CASE work \in AnomalyEntries(e)
  BY <1>7 DEF AnomalyEntries, Only, Entry, IsTimeline
<1>8. CASE work \in QuotaNotices(e) \cup NodeNotices(e) \cup BudgetNotices(e) \cup PolicyNotices(e)
  BY <1>8 DEF QuotaNotices, NodeNotices, BudgetNotices, PolicyNotices, Only, Notice, IsTimeline, IsOther
<1> QED
  BY <1>1, <1>2, <1>3, <1>4, <1>5, <1>6, <1>7, <1>8 DEF Reactions

LEMMA OneRowPerEvent ==
  ASSUME NEW e, NEW v \in Reactions(e), NEW w \in Reactions(e), IsTimeline(v), IsTimeline(w)
  PROVE  v = w
<1> DEFINE EventRows == QuotaEntries(e) \cup NodeEntries(e) \cup PolicyEntries(e) \cup LedgerEntries(e)
                    \cup AutomationEntries(e) \cup OptimizationEntries(e) \cup AnomalyEntries(e)
<1>1. v \in EventRows /\ w \in EventRows
  <2>1. \A x \in QuotaNotices(e) \cup NodeNotices(e) \cup BudgetNotices(e) \cup PolicyNotices(e) : ~IsTimeline(x)
    BY DEF QuotaNotices, NodeNotices, BudgetNotices, PolicyNotices, Only, Notice, IsTimeline
  <2> QED
    BY <2>1 DEF Reactions
<1> USE DEF QuotaEntries, NodeEntries, PolicyEntries, LedgerEntries, AutomationEntries, OptimizationEntries,
            AnomalyEntries, Only
<1>2. CASE e.name \in {"quota.warning", "quota.exceeded"}
  BY <1>1, <1>2
<1>3. CASE e.name \in {"node.degraded", "node.draining"}
  BY <1>1, <1>3
<1>4. CASE e.name \in {"policy.triggered", "automation.run"}
  BY <1>1, <1>4
<1>5. CASE e.name \in {"receipt.created", "budget.threshold"}
  BY <1>1, <1>5
<1>6. CASE e.name \in {"optimization.completed", "traffic.anomaly"}
  BY <1>1, <1>6
<1>7. CASE e.name \notin Names
  BY <1>1, <1>7 DEF Names
<1> QED
  BY <1>2, <1>3, <1>4, <1>5, <1>6, <1>7 DEF Names

LEMMA EngineNotifies ==
  ASSUME NEW e PROVE \A work \in EngineNotices(e) : work.kind = "notice"
BY DEF EngineNotices, Only, Notice

-----------------------------------------------------------------------------
(* Alerts: a repetition is counted. *)

\* Timeline writes under way, and the occurrence that each stands for.
Underway == {t \in task : IsTimeline(t.work)}
Mark(t) == [id |-> t.id[1], key |-> t.work.key]

\* Occurrences of a key that are in the timeline: their write is neither under way nor lost.
Written(key) == {w \in told \ missed : w.key = key /\ \A t \in Underway : Mark(t) # w}

IsTask(t) ==
  /\ DOMAIN t = {"id", "work"}
  /\ IsTimeline(t.work) \/ IsOther(t.work)
  /\ t.work.kind = "webhook" => DOMAIN t.work = {"kind", "type", "todo"}

ToldTyped ==
  /\ drawn \in Nat /\ IsFiniteSet(told) /\ missed \subseteq told
  /\ \A w \in told : w.id \in 1 .. drawn
TasksMarked ==
  /\ \A t \in task : IsTask(t)
  /\ \A t \in Underway : Mark(t) \in told \ missed
  /\ \A t, u \in Underway : Mark(t) = Mark(u) => t = u
RowsCount ==
  /\ \A key \in DOMAIN timeline : DOMAIN timeline[key] = {"severity", "count"} /\ timeline[key].count \in Nat
  /\ \A key \in DOMAIN timeline \cup {w.key : w \in told} :
       Cardinality(Written(key)) = IF key \in DOMAIN timeline THEN timeline[key].count ELSE 0

OccurrencesInv == ToldTyped /\ TasksMarked /\ RowsCount

\* A key that nothing was told under has nothing written, and no row to count it.
LEMMA EveryKeyCounts ==
  ASSUME OccurrencesInv, NEW key
  PROVE  /\ IsFiniteSet(Written(key))
         /\ Cardinality(Written(key)) = IF key \in DOMAIN timeline THEN timeline[key].count ELSE 0
<1>1. IsFiniteSet(Written(key))
  <2>1. Written(key) \in SUBSET told /\ IsFiniteSet(told)
    BY DEF Written, OccurrencesInv, ToldTyped
  <2> QED
    BY <2>1, FS_Subset
<1>2. CASE key \in DOMAIN timeline \cup {w.key : w \in told}
  BY <1>1, <1>2 DEF OccurrencesInv, RowsCount
<1>3. CASE key \notin DOMAIN timeline \cup {w.key : w \in told}
  <2>1. Written(key) = {}
    BY <1>3 DEF Written
  <2> QED
    BY <1>1, <1>3, <2>1, FS_EmptySet
<1> QED
  BY <1>2, <1>3

\* The writes that are under way stand for occurrences of their own.
LEMMA CountedFollows ==
  ASSUME OccurrencesInv PROVE RepetitionIsCounted
<1> SUFFICES ASSUME NEW key \in DOMAIN timeline \cup {w.key : w \in told}
             PROVE  Cardinality(Asked(key)) = Cardinality(Begun(key)) + IF key \in DOMAIN timeline THEN timeline[key].count ELSE 0
  BY DEF RepetitionIsCounted
<1> DEFINE Marks == {Mark(t) : t \in Begun(key)}
           asWrite == [w \in Marks |-> CHOOSE t \in Begun(key) : Mark(t) = w]
<1>1. Marks \subseteq Asked(key) /\ IsFiniteSet(Asked(key))
  <2>1. Asked(key) \in SUBSET told /\ IsFiniteSet(told)
    BY DEF Asked, OccurrencesInv, ToldTyped
  <2>2. \A t \in Begun(key) : t \in Underway /\ Mark(t).key = key
    BY DEF Begun, Underway, IsTimeline, Mark
  <2> QED
    BY <2>1, <2>2, FS_Subset DEF Asked, OccurrencesInv, TasksMarked
<1>2. Asked(key) \ Marks = Written(key)
  <2>1. ASSUME NEW w \in Asked(key), NEW t \in Underway, Mark(t) = w
        PROVE  t \in Begun(key)
    BY <2>1 DEF Asked, Begun, Underway, IsTimeline, Mark
  <2>2. \A t \in Begun(key) : t \in Underway
    BY DEF Begun, Underway, IsTimeline
  <2> QED
    BY <2>1, <2>2 DEF Asked, Written
<1>3. IsFiniteSet(Marks) /\ Asked(key) \cap Marks = Marks
  BY <1>1, FS_Subset
<1>4. Cardinality(Written(key)) = Cardinality(Asked(key)) - Cardinality(Marks)
  BY <1>1, <1>2, <1>3, FS_Difference
<1>5. Cardinality(Begun(key)) = Cardinality(Marks)
  <2>1. \A t, u \in Begun(key) : Mark(t) = Mark(u) => t = u
    BY DEF OccurrencesInv, TasksMarked, Begun, Underway, IsTimeline
  <2>2. \A w \in Marks : asWrite[w] \in Begun(key) /\ Mark(asWrite[w]) = w
    OBVIOUS
  <2>3. asWrite \in Bijection(Marks, Begun(key))
    <3>1. asWrite \in [Marks -> Begun(key)]
      BY <2>2
    <3>2. \A v, w \in Marks : asWrite[v] = asWrite[w] => v = w
      BY <2>2
    <3>3. \A t \in Begun(key) : Mark(t) \in Marks /\ asWrite[Mark(t)] = t
      BY <2>1, <2>2
    <3> HIDE DEF asWrite, Marks
    <3> QED
      BY <3>1, <3>2, <3>3, Fun_IsBij
  <2> HIDE DEF asWrite, Marks
  <2> QED
    BY <1>3, <2>3, FS_Bijection DEF ExistsBijection
<1>6. Cardinality(Asked(key)) \in Nat /\ Cardinality(Marks) \in Nat
  BY <1>1, <1>3, FS_CardinalityType
<1> QED
  BY <1>4, <1>5, <1>6, EveryKeyCounts

LEMMA OccurrencesInit ==
  ASSUME AlertsInit PROVE OccurrencesInv
<1>1. task = {} /\ told = {} /\ missed = {} /\ drawn = 0 /\ DOMAIN timeline = {}
  BY DEF AlertsInit
<1>2. IsFiniteSet(told)
  BY <1>1, FS_EmptySet
<1> QED
  BY <1>1, <1>2 DEF OccurrencesInv, ToldTyped, TasksMarked, RowsCount, Underway

\* A step that begins, ends and loses no timeline write.
LEMMA TimelineUntouched ==
  ASSUME OccurrencesInv, UNCHANGED <<told, missed, timeline>>, drawn' \in {drawn, drawn + 1},
         Underway \subseteq task',
         \A t \in task' \ task : IsTask(t) /\ IsOther(t.work)
  PROVE  OccurrencesInv'
<1>1. Underway' = Underway
  BY DEF Underway, IsTimeline, IsOther
<1>2. \A key : Written(key)' = Written(key)
  BY <1>1 DEF Written
<1>3. ToldTyped'
  BY DEF OccurrencesInv, ToldTyped
<1>4. TasksMarked'
  BY <1>1 DEF OccurrencesInv, TasksMarked
<1>5. RowsCount'
  BY <1>2 DEF OccurrencesInv, RowsCount
<1> QED
  BY <1>3, <1>4, <1>5 DEF OccurrencesInv

\* An event's writes stand for an occurrence that nothing stood for before.
LEMMA PublishKeepsOccurrences ==
  ASSUME OccurrencesInv, NEW e, NEW own, \A work \in own : work.kind = "notice",
         Publish(e, own), UNCHANGED <<missed, timeline>>
  PROVE  OccurrencesInv'
<1> DEFINE id == drawn + 1
           begun == {[id |-> <<id, "subscriber">>, work |-> work] : work \in Reactions(e)}
           alone == {[id |-> <<id, "publisher">>, work |-> work] : work \in own}
           fresh == {t \in begun : t.work.kind = "timeline"}
           asked == {[id |-> id, key |-> t.work.key] : t \in fresh}
<1>1. \A t \in alone : IsTask(t) /\ IsOther(t.work)
  BY DEF IsTask, IsOther
<1>2. \A t \in begun : IsTask(t) /\ t.id = <<id, "subscriber">> /\ t.work \in Reactions(e)
  BY ReactionsOf DEF IsTask, IsOther, IsTimeline
<1>3. drawn' = id /\ drawn \in Nat
  BY DEF Publish, OccurrencesInv, ToldTyped
<1>4. CASE task' = task \cup alone /\ told' = told
  BY <1>1, <1>3, <1>4, TimelineUntouched DEF Underway
<1>5. CASE task' = task \cup begun \cup alone /\ told' = told \cup asked
  <2>1. Underway' = Underway \cup fresh
    BY <1>1, <1>5 DEF Underway, IsTimeline, IsOther
  <2>2. \A t \in fresh : t \in begun /\ IsTimeline(t.work) /\ Mark(t) \in asked /\ Mark(t).id = id
    BY <1>2 DEF Mark, IsTimeline
  <2>3. \A t, u \in fresh : t = u
    <3>1. \A t, u \in fresh : t.work = u.work
      BY <1>2, <2>2, OneRowPerEvent
    <3> QED
      BY <3>1
  <2>4. \A w \in told : w.id # id
    BY <1>3 DEF OccurrencesInv, ToldTyped
  <2>5. \A w \in asked : w.id = id /\ w \notin told /\ \E t \in fresh : w = Mark(t)
    BY <1>2, <2>4 DEF Mark
  <2>6. ToldTyped'
    <3>1. IsFiniteSet(asked)
      <4>1. CASE asked = {}
        BY <4>1, FS_EmptySet
      <4>2. CASE asked # {}
        <5>1. PICK w \in asked : TRUE
          BY <4>2
        <5>2. asked = {w}
          BY <2>3
        <5> QED
          BY <5>2, FS_Singleton
      <4> QED
        BY <4>1, <4>2
    <3>2. IsFiniteSet(told \cup asked)
      BY <3>1, FS_Union DEF OccurrencesInv, ToldTyped
    <3>3. \A w \in asked : w.id = drawn'
      BY <1>3, <2>5
    <3> HIDE DEF asked
    <3> QED
      BY <1>3, <1>5, <3>2, <3>3 DEF OccurrencesInv, ToldTyped
  <2>7. TasksMarked'
    <3>1. \A t \in task' : IsTask(t)
      BY <1>1, <1>2, <1>5 DEF OccurrencesInv, TasksMarked
    <3>2. \A t \in Underway' : Mark(t) \in told' \ missed'
      BY <1>5, <2>1, <2>2, <2>5 DEF OccurrencesInv, TasksMarked, ToldTyped
    <3>3. \A t, u \in Underway' : Mark(t) = Mark(u) => t = u
      <4>1. \A t \in Underway : Mark(t).id # id
        BY <2>4 DEF OccurrencesInv, TasksMarked
      <4> QED
        BY <2>1, <2>2, <2>3, <4>1 DEF OccurrencesInv, TasksMarked
    <3> QED
      BY <3>1, <3>2, <3>3 DEF TasksMarked
  <2>8. \A key : Written(key)' = Written(key)
    <3> SUFFICES ASSUME NEW key PROVE Written(key)' = Written(key)
      OBVIOUS
    <3>1. \A w \in told : \A t \in fresh : Mark(t) # w
      BY <2>2, <2>4
    <3>2. told' \ missed' = (told \ missed) \cup asked
      BY <1>5, <2>5 DEF OccurrencesInv, ToldTyped
    <3> HIDE DEF asked, fresh
    <3> QED
      BY <2>1, <2>5, <3>1, <3>2 DEF Written
  <2>9. RowsCount'
    <3>1. \A key : Cardinality(Written(key)) = IF key \in DOMAIN timeline THEN timeline[key].count ELSE 0
      BY EveryKeyCounts
    <3> QED
      BY <2>8, <3>1 DEF OccurrencesInv, RowsCount
  <2> QED
    BY <2>6, <2>7, <2>9 DEF OccurrencesInv
<1> QED
  BY <1>4, <1>5 DEF Publish

\* A write is in the timeline, or it is lost.
LEMMA RecordKeepsOccurrences ==
  ASSUME OccurrencesInv, NEW t \in task, RecordTimelineEvent(t)
  PROVE  OccurrencesInv'
<1> DEFINE mark == Mark(t)
           key == t.work.key
<1>1. t \in Underway /\ task' = task \ {t} /\ UNCHANGED <<told, drawn>>
  BY DEF RecordTimelineEvent, Underway, IsTimeline, Done
<1>2. Underway' = Underway \ {t}
  BY <1>1 DEF Underway
<1>3. mark \in told \ missed /\ mark.key = key /\ mark.id = t.id[1]
  BY <1>1 DEF OccurrencesInv, TasksMarked, Mark
<1>4. \A u \in Underway' : Mark(u) # mark /\ u \in Underway
  BY <1>1, <1>2 DEF OccurrencesInv, TasksMarked
<1>5. missed' \in {missed, missed \cup {mark}}
  BY DEF RecordTimelineEvent, Mark
<1> HIDE DEF mark, key
<1>6. ToldTyped'
  BY <1>1, <1>3, <1>5 DEF OccurrencesInv, ToldTyped
<1>7. TasksMarked'
  BY <1>1, <1>2, <1>4, <1>5 DEF OccurrencesInv, TasksMarked
<1>8. CASE timeline' = Upserted(t.work) /\ missed' = missed
  <2>1. Written(key)' = Written(key) \cup {mark} /\ mark \notin Written(key)
    BY <1>1, <1>2, <1>3, <1>4, <1>8 DEF Written, mark
  <2>2. ASSUME NEW k, k # key PROVE Written(k)' = Written(k)
    BY <1>1, <1>2, <1>3, <1>8, <2>2 DEF Written, mark
  <2>3. Cardinality(Written(key)') = Cardinality(Written(key)) + 1
    BY <2>1, EveryKeyCounts, FS_AddElement
  <2>4. DOMAIN timeline' = DOMAIN timeline \cup {key}
    BY <1>8 DEF Upserted, key
  <2>5. /\ DOMAIN timeline'[key] = {"severity", "count"}
        /\ timeline'[key].count = (IF key \in DOMAIN timeline THEN timeline[key].count ELSE 0) + 1
    BY <1>8 DEF Upserted, key, OccurrencesInv, RowsCount
  <2>6. \A k \in DOMAIN timeline : k # key => timeline'[k] = timeline[k]
    BY <1>8 DEF Upserted, key
  <2>7. \A k : Cardinality(Written(k)) = IF k \in DOMAIN timeline THEN timeline[k].count ELSE 0
    BY EveryKeyCounts
  <2>8. \A k \in DOMAIN timeline' : DOMAIN timeline'[k] = {"severity", "count"} /\ timeline'[k].count \in Nat
    BY <2>4, <2>5, <2>6 DEF OccurrencesInv, RowsCount
  <2>9. \A k : Cardinality(Written(k)') = IF k \in DOMAIN timeline' THEN timeline'[k].count ELSE 0
    BY <2>2, <2>3, <2>4, <2>5, <2>6, <2>7
  <2> QED
    BY <1>6, <1>7, <2>8, <2>9 DEF OccurrencesInv, RowsCount
<1>9. CASE timeline' = timeline /\ missed' = missed \cup {mark}
  <2>1. \A k : Written(k)' = Written(k)
    BY <1>1, <1>2, <1>3, <1>4, <1>9 DEF Written, mark
  <2> QED
    BY <1>1, <1>6, <1>7, <1>9, <2>1 DEF OccurrencesInv, RowsCount
<1> QED
  BY <1>8, <1>9 DEF RecordTimelineEvent, Mark, mark

LEMMA DyingKeepsOccurrences ==
  ASSUME OccurrencesInv, ServerDies PROVE OccurrencesInv'
<1>1. /\ task' = {} /\ UNCHANGED <<told, drawn, timeline>>
      /\ missed' = missed \cup {Mark(t) : t \in Underway}
  BY DEF ServerDies, Mark, Underway, IsTimeline, stored
<1>2. Underway' = {}
  BY <1>1 DEF Underway
<1>3. \A key : Written(key)' = Written(key)
  BY <1>1, <1>2 DEF Written
<1>4. ToldTyped'
  BY <1>1 DEF OccurrencesInv, ToldTyped, TasksMarked
<1>5. TasksMarked'
  BY <1>1, <1>2 DEF TasksMarked
<1>6. RowsCount'
  BY <1>1, <1>3 DEF OccurrencesInv, RowsCount
<1> QED
  BY <1>4, <1>5, <1>6 DEF OccurrencesInv

\* What the other writes leave in the list of tasks.
LEMMA OtherWork ==
  ASSUME OccurrencesInv, NEW t \in task, Notify(t) \/ DispatchWebhooks(t) \/ DeliverOne(t) \/ FinishDelivery(t)
  PROVE  OccurrencesInv'
<1>1. IsTask(t) /\ t \notin Underway
  BY DEF OccurrencesInv, TasksMarked, Notify, DispatchWebhooks, DeliverOne, FinishDelivery, Underway, IsTimeline
<1>2. UNCHANGED <<told, missed, timeline, drawn>>
  BY DEF Notify, DispatchWebhooks, DeliverOne, FinishDelivery, stored
<1>3. task \ {t} \subseteq task'
  BY DEF Notify, DispatchWebhooks, DeliverOne, FinishDelivery, Done
<1>4. \A u \in task' \ task : IsTask(u) /\ IsOther(u.work)
  <2>1. CASE Notify(t)
    BY <2>1 DEF Notify, Done, FanOut, IsTask, IsOther
  <2>2. ASSUME t.work.kind = "webhook", NEW todos, NEW u, u = [t EXCEPT !.work.todo = todos]
        PROVE  IsTask(u) /\ IsOther(u.work)
    <3>1. DOMAIN t = {"id", "work"} /\ DOMAIN t.work = {"kind", "type", "todo"}
      BY <1>1, <2>2 DEF IsTask
    <3>2. PICK work : work = [t.work EXCEPT !.todo = todos]
      OBVIOUS
    <3>3. DOMAIN work = {"kind", "type", "todo"} /\ work.kind = "webhook"
      BY <2>2, <3>1, <3>2
    <3>4. u.work = work /\ DOMAIN u = {"id", "work"}
      BY <2>2, <3>1, <3>2
    <3> QED
      BY <3>3, <3>4 DEF IsTask, IsOther
  <2>3. CASE DispatchWebhooks(t)
    BY <2>2, <2>3 DEF DispatchWebhooks
  <2>4. CASE DeliverOne(t)
    BY <2>2, <2>4 DEF DeliverOne
  <2>5. CASE FinishDelivery(t)
    BY <2>5 DEF FinishDelivery, Done
  <2> QED
    BY <2>1, <2>3, <2>4, <2>5
<1> QED
  BY <1>1, <1>2, <1>3, <1>4, TimelineUntouched DEF Underway

LEMMA OccurrencesNext ==
  ASSUME OccurrencesInv, [AlertsNext]_alertVars PROVE OccurrencesInv'
<1>1. ASSUME NEW e \in Facts, Happen(e) PROVE OccurrencesInv'
  BY <1>1, EngineNotifies, PublishKeepsOccurrences DEF Happen, stored
<1>2. CASE Work
  BY <1>2, RecordKeepsOccurrences, OtherWork DEF Work
<1>3. CASE Operator \/ Measure \/ Tick \/ UNCHANGED alertVars
  <2>1. UNCHANGED <<task, told, missed, timeline, drawn>>
    BY <1>3 DEF Operator, Measure, Tick, stored, alertVars
  <2> QED
    BY <2>1, TimelineUntouched DEF Underway
<1>4. CASE ServerDies
  BY <1>4, DyingKeepsOccurrences
<1>5. ASSUME NEW r \in Runs, StartDetection(r) \/ LookForAnomaly(r) \/ CreateAnomaly(r) PROVE OccurrencesInv'
  <2>1. UNCHANGED <<task, told, missed, timeline>> /\ drawn' \in {drawn, drawn + 1}
    BY <1>5 DEF StartDetection, LookForAnomaly, CreateAnomaly, stored
  <2> QED
    BY <2>1, TimelineUntouched DEF Underway
<1>6. ASSUME NEW r \in Runs, PublishAnomaly(r) PROVE OccurrencesInv'
  <2>1. PICK e : Publish(e, {}) /\ UNCHANGED <<missed, timeline>>
    BY <1>6 DEF PublishAnomaly, stored
  <2> QED
    BY <2>1, PublishKeepsOccurrences
<1>7. ASSUME NEW r \in Runs, NotifyAnomaly(r) PROVE OccurrencesInv'
  <2>1. UNCHANGED <<told, missed, timeline, drawn>> /\ task \subseteq task'
    BY <1>7 DEF NotifyAnomaly
  <2>2. \A t \in task' \ task : IsTask(t) /\ IsOther(t.work)
    BY <1>7 DEF NotifyAnomaly, FanOut, IsTask, IsOther
  <2> QED
    BY <2>1, <2>2, TimelineUntouched DEF Underway
<1> QED
  BY <1>1, <1>2, <1>3, <1>4, <1>5, <1>6, <1>7 DEF AlertsNext

\* Whatever overtakes what, a row of the timeline counts every occurrence of its key that
\* subscribers were asked to write, but for the writes under way and the lost ones
\* (recordTimelineEvent and the subscribers that do not wait for it).
THEOREM OccurrencesCounted == AlertsSpec => []RepetitionIsCounted
<1>1. AlertsInit => OccurrencesInv
  BY OccurrencesInit
<1>2. OccurrencesInv /\ [AlertsNext]_alertVars => OccurrencesInv'
  BY OccurrencesNext
<1>3. OccurrencesInv => RepetitionIsCounted
  BY CountedFollows
<1> QED
  BY <1>1, <1>2, <1>3, PTL DEF AlertsSpec

-----------------------------------------------------------------------------
(* Alerts: an anomaly is announced once. *)

AnomalyKey(key) == <<"ANOMALY_DETECTED", AnomalyId(key)>>
Announcing(r) == run[r].step = "publish"
Wanted(r) == Head(run[r].todo).key

RunsShaped ==
  /\ DOMAIN run = Runs
  /\ \A r \in Runs : run[r].step # "idle" => DOMAIN run[r] = {"step", "todo"}
\* Whoever is about to announce an anomaly made its row, and nobody else did.
OneAnnouncer ==
  /\ \A r \in Runs : Announcing(r) => Wanted(r) \in DOMAIN anomaly /\ \A w \in told : w.key # AnomalyKey(Wanted(r))
  /\ \A r, s \in Runs : Announcing(r) /\ Announcing(s) /\ Wanted(r) = Wanted(s) => r = s
Announced ==
  \A w \in told : \A key : w.key = AnomalyKey(key) =>
    key \in DOMAIN anomaly /\ \A v \in told : v.key = w.key => v = w

AnnouncedInv == RunsShaped /\ OneAnnouncer /\ Announced

LEMMA AnnouncedFollows ==
  ASSUME AnnouncedInv PROVE AnomalyAnnouncedOnce
<1> SUFFICES ASSUME NEW key \in DOMAIN anomaly
             PROVE  Cardinality({w \in told : w.key = AnomalyKey(key)}) <= 1
  BY DEF AnomalyAnnouncedOnce, AnomalyKey
<1> DEFINE Tellings == {w \in told : w.key = AnomalyKey(key)}
<1>1. ASSUME Tellings = {} PROVE Cardinality(Tellings) <= 1
  BY <1>1, FS_EmptySet
<1>2. ASSUME Tellings # {} PROVE Cardinality(Tellings) <= 1
  <2>1. PICK w \in Tellings : TRUE
    BY <1>2
  <2>2. Tellings = {w}
    BY <2>1 DEF AnnouncedInv, Announced
  <2> HIDE DEF Tellings
  <2>3. Cardinality({w}) = 1
    BY FS_Singleton
  <2> QED
    BY <2>2, <2>3
<1> QED
  BY <1>1, <1>2

\* A step that tells nothing and begins no announcement.
LEMMA NothingAnnounced ==
  ASSUME AnnouncedInv, RunsShaped', UNCHANGED told, DOMAIN anomaly \subseteq DOMAIN anomaly',
         \A r \in Runs : run'[r].step = "publish" => run'[r] = run[r]
  PROVE  AnnouncedInv'
<1>1. OneAnnouncer'
  BY DEF AnnouncedInv, OneAnnouncer, Announcing, Wanted
<1>2. Announced'
  BY DEF AnnouncedInv, Announced
<1> QED
  BY <1>1, <1>2 DEF AnnouncedInv

LEMMA TurnShaped ==
  ASSUME RunsShaped, NEW r \in Runs, NEW state, Turn(r, state),
         state.step # "idle" => DOMAIN state = {"step", "todo"}
  PROVE  RunsShaped' /\ run'[r] = state /\ \A s \in Runs \ {r} : run'[s] = run[s]
BY DEF RunsShaped, Turn

\* What an event adds to what was told: one occurrence at most, and one of an anomaly only
\* where the event announces it.
LEMMA PublishTells ==
  ASSUME NEW e, NEW own, Publish(e, own)
  PROVE  /\ told \subseteq told'
         /\ \A v, w \in told' \ told : v = w
         /\ \A w \in told' \ told : \A key :
              w.key = AnomalyKey(key) => e.name = "traffic.anomaly" /\ e.subject = AnomalyId(key)
<1> DEFINE id == drawn + 1
           begun == {[id |-> <<id, "subscriber">>, work |-> work] : work \in Reactions(e)}
           fresh == {t \in begun : t.work.kind = "timeline"}
           asked == {[id |-> id, key |-> t.work.key] : t \in fresh}
<1>1. \A t \in fresh : t.work \in Reactions(e) /\ IsTimeline(t.work)
  BY DEF IsTimeline
<1>2. \A t, u \in fresh : t.work = u.work
  BY <1>1, OneRowPerEvent
<1>3. \A v, w \in asked : v = w
  BY <1>2
<1>4. ASSUME NEW w \in asked, NEW key, w.key = AnomalyKey(key)
      PROVE  e.name = "traffic.anomaly" /\ e.subject = AnomalyId(key)
  <2>1. PICK t \in fresh : w = [id |-> id, key |-> t.work.key]
    OBVIOUS
  <2>2. t.work.key = <<"ANOMALY_DETECTED", AnomalyId(key)>>
    BY <1>4, <2>1 DEF AnomalyKey
  <2>3. t.work.key[1] = "ANOMALY_DETECTED"
    BY <2>2
  <2>4. e.name = "traffic.anomaly"
    BY <1>1, <2>3, ReactionsOf
  <2>5. t.work.key = <<"ANOMALY_DETECTED", e.subject>>
    BY <1>1, <2>4, ReactionsOf
  <2> QED
    BY <2>2, <2>4, <2>5
<1>5. told' = told \cup asked \/ told' = told
  BY DEF Publish
<1> HIDE DEF asked
<1>6. told \subseteq told' /\ told' \ told \subseteq asked
  BY <1>5
<1> QED
  BY <1>3, <1>4, <1>6

LEMMA HappenKeepsAnnounced ==
  ASSUME AnnouncedInv, NEW e \in Facts, Happen(e) PROVE AnnouncedInv'
<1>1. UNCHANGED <<run, anomaly>>
  BY DEF Happen, stored
<1>2. PICK new :
        /\ told' = told \cup new
        /\ \A w \in new : \A key : w.key = AnomalyKey(key) => e.name = "traffic.anomaly" /\ e.subject = AnomalyId(key)
  <2>1. told' = told \cup (told' \ told)
    BY PublishTells DEF Happen
  <2> QED
    BY <2>1, PublishTells DEF Happen
<1>3. \A w \in new : \A key : w.key # AnomalyKey(key)
  BY <1>2, ForeignAssumption DEF AnomalyId
<1>4. OneAnnouncer'
  BY <1>1, <1>2, <1>3 DEF AnnouncedInv, OneAnnouncer, Announcing, Wanted
<1>5. Announced'
  BY <1>1, <1>2, <1>3 DEF AnnouncedInv, Announced
<1>6. RunsShaped'
  BY <1>1 DEF AnnouncedInv, RunsShaped
<1> QED
  BY <1>4, <1>5, <1>6 DEF AnnouncedInv

\* Whoever makes the row of an anomaly announces it: nobody told of it, and nobody will.
LEMMA CreateKeepsAnnounced ==
  ASSUME AnnouncedInv, NEW r \in Runs, CreateAnomaly(r) PROVE AnnouncedInv'
<1> DEFINE key == Wanted(r)
           next == [run[r] EXCEPT !.step = "publish"]
<1>1. DOMAIN run[r] = {"step", "todo"} /\ told' = told
  BY DEF CreateAnomaly, AnnouncedInv, RunsShaped
<1>2. CASE Turn(r, NextCandidate(r)) /\ UNCHANGED anomaly
  <2>1. /\ NextCandidate(r).step # "publish"
        /\ NextCandidate(r).step # "idle" => DOMAIN NextCandidate(r) = {"step", "todo"}
    BY DEF NextCandidate, Idle
  <2>2. RunsShaped' /\ run'[r] = NextCandidate(r) /\ \A s \in Runs \ {r} : run'[s] = run[s]
    BY <1>2, <2>1, TurnShaped DEF AnnouncedInv
  <2> QED
    BY <1>1, <1>2, <2>1, <2>2, NothingAnnounced
<1>3. CASE ~Taken(key) /\ Turn(r, next) /\ DOMAIN anomaly' = DOMAIN anomaly \cup {key}
  <2>1. next.step = "publish" /\ next.todo = run[r].todo /\ DOMAIN next = {"step", "todo"}
    BY <1>1
  <2> HIDE DEF next
  <2>2. RunsShaped' /\ run'[r] = next /\ \A s \in Runs \ {r} : run'[s] = run[s]
    BY <1>3, <2>1, TurnShaped DEF AnnouncedInv
  <2>3. Wanted(r)' = key /\ \A s \in Runs \ {r} : Announcing(s)' = Announcing(s) /\ Wanted(s)' = Wanted(s)
    BY <2>1, <2>2 DEF Wanted, Announcing
  <2>4. key \notin DOMAIN anomaly
    BY <1>3 DEF Taken
  <2>5. \A w \in told : w.key # AnomalyKey(key)
    BY <2>4 DEF AnnouncedInv, Announced
  <2> HIDE DEF key
  <2>6. OneAnnouncer'
    BY <1>1, <1>3, <2>3, <2>4, <2>5 DEF AnnouncedInv, OneAnnouncer
  <2>7. Announced'
    BY <1>1, <1>3 DEF AnnouncedInv, Announced
  <2> QED
    BY <2>2, <2>6, <2>7 DEF AnnouncedInv
<1> QED
  BY <1>2, <1>3 DEF CreateAnomaly, Wanted

LEMMA PublishKeepsAnnounced ==
  ASSUME AnnouncedInv, NEW r \in Runs, PublishAnomaly(r) PROVE AnnouncedInv'
<1> DEFINE key == Wanted(r)
           next == [run[r] EXCEPT !.step = "notify"]
<1>1. DOMAIN run[r] = {"step", "todo"} /\ Announcing(r) /\ Turn(r, next) /\ anomaly' = anomaly
  BY DEF PublishAnomaly, AnnouncedInv, RunsShaped, Announcing, stored
<1>2. next.step = "notify" /\ DOMAIN next = {"step", "todo"}
  BY <1>1
<1> HIDE DEF next
<1>3. RunsShaped' /\ run'[r] = next /\ \A s \in Runs \ {r} : run'[s] = run[s]
  BY <1>1, <1>2, TurnShaped DEF AnnouncedInv
<1>4. ~Announcing(r)' /\ \A s \in Runs \ {r} : Announcing(s)' = Announcing(s) /\ Wanted(s)' = Wanted(s)
  BY <1>2, <1>3 DEF Announcing, Wanted
<1>5. PICK new :
        /\ told' = told \cup new
        /\ \A v, w \in new : v = w
        /\ \A w \in new : \A k : w.key = AnomalyKey(k) => AnomalyId(key) = AnomalyId(k)
  <2>1. PICK e : e.subject = AnomalyId(key) /\ Publish(e, {})
    BY DEF PublishAnomaly, Wanted
  <2>2. told' = told \cup (told' \ told)
    BY <2>1, PublishTells
  <2> QED
    BY <2>1, <2>2, PublishTells
<1>6. \A w \in new : \A k : w.key = AnomalyKey(k) => k = key
  <2>1. \A k : AnomalyId(key) = AnomalyId(k) => k = key
    BY DEF AnomalyId
  <2> QED
    BY <1>5, <2>1
<1>7. key \in DOMAIN anomaly /\ \A w \in told : w.key # AnomalyKey(key)
  BY <1>1 DEF AnnouncedInv, OneAnnouncer
<1>8. \A s \in Runs : Announcing(s)' => Wanted(s)' # key
  BY <1>1, <1>4 DEF AnnouncedInv, OneAnnouncer
<1>9. \A k, l : AnomalyKey(k) = AnomalyKey(l) => k = l
  BY DEF AnomalyKey, AnomalyId
<1> HIDE DEF key
<1>10. OneAnnouncer'
  BY <1>1, <1>4, <1>5, <1>6, <1>8 DEF AnnouncedInv, OneAnnouncer
<1>11. Announced'
  BY <1>1, <1>5, <1>6, <1>7, <1>9 DEF AnnouncedInv, Announced
<1> QED
  BY <1>3, <1>10, <1>11 DEF AnnouncedInv

LEMMA AnnouncedNext ==
  ASSUME AnnouncedInv, [AlertsNext]_alertVars PROVE AnnouncedInv'
<1>1. ASSUME NEW e \in Facts, Happen(e) PROVE AnnouncedInv'
  BY <1>1, HappenKeepsAnnounced
<1>2. CASE Work \/ Operator \/ Measure \/ Tick \/ UNCHANGED alertVars
  <2>1. UNCHANGED <<run, told>>
    BY <1>2 DEF Work, RecordTimelineEvent, Notify, DispatchWebhooks, DeliverOne, FinishDelivery, Operator, Measure, Tick,
              alertVars
  <2>2. DOMAIN anomaly' = DOMAIN anomaly
    <3>1. CASE Operator
      BY <3>1 DEF Operator, CreateWebhook, UpdateWebhook, DeleteWebhook, SendTestDelivery, UpdateSettings, MarkAllRead,
                ReviewAnomaly
    <3>2. CASE Work \/ Measure \/ Tick \/ UNCHANGED alertVars
      BY <3>2 DEF Work, RecordTimelineEvent, Notify, DispatchWebhooks, DeliverOne, FinishDelivery, Measure, Tick, alertVars,
                stored
    <3> QED
      BY <1>2, <3>1, <3>2
  <2>3. RunsShaped'
    BY <2>1 DEF AnnouncedInv, RunsShaped
  <2> QED
    BY <2>1, <2>2, <2>3, NothingAnnounced
<1>3. CASE ServerDies
  <2>1. run' = [r \in Runs |-> Idle] /\ UNCHANGED <<told, anomaly>>
    BY <1>3 DEF ServerDies, stored
  <2> QED
    BY <2>1, NothingAnnounced DEF RunsShaped, Idle
<1>4. ASSUME NEW r \in Runs, NEW state, Turn(r, state), UNCHANGED <<told, anomaly>>,
             state.step # "publish", state.step # "idle" => DOMAIN state = {"step", "todo"}
      PROVE  AnnouncedInv'
  <2>1. RunsShaped' /\ run'[r] = state /\ \A s \in Runs \ {r} : run'[s] = run[s]
    BY <1>4, TurnShaped DEF AnnouncedInv
  <2> QED
    BY <1>4, <2>1, NothingAnnounced
<1>5. \A r \in Runs : /\ NextCandidate(r).step # "publish"
                      /\ NextCandidate(r).step # "idle" => DOMAIN NextCandidate(r) = {"step", "todo"}
  BY DEF NextCandidate, Idle
<1>6. ASSUME NEW r \in Runs, StartDetection(r) PROVE AnnouncedInv'
  <2>1. PICK state : Turn(r, state) /\ state.step = "look" /\ DOMAIN state = {"step", "todo"}
    BY <1>6 DEF StartDetection
  <2> QED
    BY <1>4, <1>6, <2>1 DEF StartDetection, stored
<1>7. ASSUME NEW r \in Runs, LookForAnomaly(r) PROVE AnnouncedInv'
  <2>1. CASE Turn(r, NextCandidate(r))
    BY <1>4, <1>5, <1>7, <2>1 DEF LookForAnomaly, stored
  <2>2. CASE Turn(r, [run[r] EXCEPT !.step = "create"])
    <3>1. DOMAIN run[r] = {"step", "todo"}
      BY <1>7 DEF LookForAnomaly, AnnouncedInv, RunsShaped
    <3>2. PICK state : state = [run[r] EXCEPT !.step = "create"]
      OBVIOUS
    <3>3. state.step = "create" /\ DOMAIN state = {"step", "todo"}
      BY <3>1, <3>2
    <3> QED
      BY <1>4, <1>7, <2>2, <3>2, <3>3 DEF LookForAnomaly, stored
  <2> QED
    BY <1>7, <2>1, <2>2 DEF LookForAnomaly
<1>8. ASSUME NEW r \in Runs, NotifyAnomaly(r) PROVE AnnouncedInv'
  BY <1>4, <1>5, <1>8 DEF NotifyAnomaly
<1> QED
  BY <1>1, <1>2, <1>3, <1>6, <1>7, <1>8, CreateKeepsAnnounced, PublishKeepsAnnounced DEF AlertsNext

LEMMA AnnouncedInit ==
  ASSUME AlertsInit PROVE AnnouncedInv
BY DEF AlertsInit, AnnouncedInv, RunsShaped, OneAnnouncer, Announced, Announcing, Idle

\* Two detection runs at once, or one after the other, with reviews and crashes in between,
\* announce an anomaly once: the unique index on its key decides (runAnomalyDetection).
THEOREM AnomaliesAnnounced == AlertsSpec => []AnomalyAnnouncedOnce
<1>1. AlertsInit => AnnouncedInv
  BY AnnouncedInit
<1>2. AnnouncedInv /\ [AlertsNext]_alertVars => AnnouncedInv'
  BY AnnouncedNext
<1>3. AnnouncedInv => AnomalyAnnouncedOnce
  BY AnnouncedFollows
<1> QED
  BY <1>1, <1>2, <1>3, PTL DEF AlertsSpec

-----------------------------------------------------------------------------
(* Alerts: types. *)

\* A step whose new tasks write to the timeline or to endpoints, or are proper notices.
ProperTask(t) ==
  \/ t.work.kind \in {"timeline", "webhook"}
  \/ t.work \in [kind : {"notice"}, type : Types, severity : Severities]

ProperRow(row) ==
  /\ DOMAIN row = {"id", "type", "severity", "read", "sent"}
  /\ row.type \in Types /\ row.severity \in Severities /\ {row.read, row.sent} \subseteq BOOLEAN

Hooks(n) == {None} \cup [enabled : BOOLEAN, events : SUBSET (Types \cup {"*"}), failures : 0 .. n]

LEMMA NoticesProper ==
  ASSUME NEW e, NEW work \in Reactions(e) \cup EngineNotices(e)
  PROVE  work.kind = "timeline" \/ work \in [kind : {"notice"}, type : Types, severity : Severities]
<1>1. CASE work \in QuotaNotices(e) \cup NodeNotices(e) \cup BudgetNotices(e) \cup PolicyNotices(e) \cup EngineNotices(e)
  BY <1>1 DEF QuotaNotices, NodeNotices, BudgetNotices, PolicyNotices, EngineNotices, Only, Notice, Types, Severities
<1>2. CASE work \in UNION {QuotaEntries(e), NodeEntries(e), PolicyEntries(e), LedgerEntries(e), AutomationEntries(e),
                           OptimizationEntries(e), AnomalyEntries(e)}
  BY <1>2 DEF QuotaEntries, NodeEntries, PolicyEntries, LedgerEntries, AutomationEntries, OptimizationEntries, AnomalyEntries,
             Only, Entry
<1> QED
  BY <1>1, <1>2 DEF Reactions

\* An endpoint that answers or fails, or is written to by an operator.
LEMMA DeliveredType ==
  ASSUME NEW n \in Nat, endpoint \in [Endpoints -> Hooks(n)], NEW h \in Endpoints, NEW ok \in BOOLEAN
  PROVE  /\ Delivered(h, ok) \in [Endpoints -> Hooks(n + 1)]
         /\ ok => Delivered(h, ok) \in [Endpoints -> Hooks(n)]
<1>1. 0 .. n \subseteq 0 .. n + 1 /\ 0 \in 0 .. n
  OBVIOUS
<1>2. Hooks(n) \subseteq Hooks(n + 1)
  BY <1>1 DEF Hooks
<1>3. CASE endpoint[h] = None
  BY <1>2, <1>3 DEF Delivered
<1>4. CASE endpoint[h] # None
  <2>1. endpoint[h] \in [enabled : BOOLEAN, events : SUBSET (Types \cup {"*"}), failures : 0 .. n]
    BY <1>4 DEF Hooks
  <2>2. endpoint[h].failures + 1 \in 0 .. n + 1
    BY <2>1
  <2>3. [endpoint[h] EXCEPT !.failures = 0] \in Hooks(n)
    BY <1>1, <2>1 DEF Hooks
  <2>4. [endpoint[h] EXCEPT !.failures = endpoint[h].failures + 1] \in Hooks(n + 1)
    BY <2>1, <2>2 DEF Hooks
  <2>5. Delivered(h, ok) = [endpoint EXCEPT ![h] = IF ok THEN [endpoint[h] EXCEPT !.failures = 0]
                                                    ELSE [endpoint[h] EXCEPT !.failures = endpoint[h].failures + 1]]
    BY <1>4 DEF Delivered
  <2> HIDE DEF Hooks
  <2> QED
    BY <1>2, <2>3, <2>4, <2>5
<1> QED
  BY <1>3, <1>4

\* Which steps there are.
LEMMA AlertsSteps ==
  ASSUME [AlertsNext]_alertVars
  PROVE  \/ \E e \in Facts : Happen(e)
         \/ \E t \in task : RecordTimelineEvent(t) \/ Notify(t) \/ DispatchWebhooks(t) \/ DeliverOne(t) \/ FinishDelivery(t)
         \/ Operator \/ Measure \/ Tick \/ ServerDies
         \/ \E r \in Runs : StartDetection(r) \/ LookForAnomaly(r) \/ CreateAnomaly(r) \/ PublishAnomaly(r) \/ NotifyAnomaly(r)
         \/ UNCHANGED alertVars
BY DEF AlertsNext, Work

\* What operators do, and what goes wrong, is counted, and so are the hours.
LEMMA ActsType ==
  ASSUME AlertsTypeOK, [AlertsNext]_alertVars
  PROVE  acts' \in {acts, acts + 1} /\ acts' \in 0 .. MaxActs /\ hour' \in 0 .. acts'
<1>1. (UNCHANGED <<acts, hour>>) \/ (Act /\ hour' = hour) \/ (Act /\ hour' = hour + 1)
  <2> USE DEF Fault
  <2>1. ASSUME NEW e \in Facts, Happen(e) PROVE (UNCHANGED <<acts, hour>>) \/ (Act /\ hour' = hour)
    BY <2>1 DEF Happen, Publish
  <2>2. ASSUME NEW t \in task, RecordTimelineEvent(t) \/ Notify(t) \/ DispatchWebhooks(t) \/ DeliverOne(t) \/ FinishDelivery(t)
        PROVE  (UNCHANGED <<acts, hour>>) \/ (Act /\ hour' = hour)
    BY <2>2 DEF RecordTimelineEvent, Notify, DispatchWebhooks, DeliverOne, FinishDelivery
  <2>3. CASE Operator
    BY <2>3 DEF Operator, CreateWebhook, UpdateWebhook, DeleteWebhook, SendTestDelivery, UpdateSettings, MarkAllRead,
              ReviewAnomaly
  <2>4. CASE Measure \/ Tick \/ ServerDies \/ UNCHANGED alertVars
    BY <2>4 DEF Measure, Tick, ServerDies, alertVars
  <2>5. ASSUME NEW r \in Runs,
               StartDetection(r) \/ LookForAnomaly(r) \/ CreateAnomaly(r) \/ PublishAnomaly(r) \/ NotifyAnomaly(r)
        PROVE  (UNCHANGED <<acts, hour>>) \/ (Act /\ hour' = hour)
    BY <2>5 DEF StartDetection, LookForAnomaly, CreateAnomaly, PublishAnomaly, NotifyAnomaly, Publish
  <2> QED
    BY <2>1, <2>2, <2>3, <2>4, <2>5, AlertsSteps
<1>2. acts \in 0 .. MaxActs /\ hour \in 0 .. acts /\ MaxActs \in Nat
  BY AlertBounds DEF AlertsTypeOK
<1> QED
  BY <1>1, <1>2 DEF Act

\* What operators have set.
LEMMA SwitchesType ==
  ASSUME AlertsTypeOK, [AlertsNext]_alertVars
  PROVE  {wired, webhooks, detecting}' \subseteq BOOLEAN /\ muted' \subseteq Types
<1>1. {wired, webhooks, detecting} \subseteq BOOLEAN /\ muted \subseteq Types
  BY DEF AlertsTypeOK
<1>2. CASE UNCHANGED <<muted, webhooks, detecting>> /\ wired' \in {wired, TRUE, FALSE}
  BY <1>1, <1>2
<1>3. CASE Operator
  <2>1. CASE UpdateSettings
    BY <1>1, <1>3, <2>1, SwitchesAssumption DEF UpdateSettings, Operator
  <2>2. CASE ~UpdateSettings
    BY <1>1, <1>3, <2>2 DEF Operator, CreateWebhook, UpdateWebhook, DeleteWebhook, SendTestDelivery, MarkAllRead, ReviewAnomaly,
              settings
  <2> QED
    BY <2>1, <2>2
<1>4. CASE ~Operator
  BY ZenonT(60), <1>2, <1>4, AlertsSteps
     DEF Happen, Publish, RecordTimelineEvent, Notify, DispatchWebhooks, DeliverOne, FinishDelivery, Measure, Tick, ServerDies,
         StartDetection, LookForAnomaly, CreateAnomaly, PublishAnomaly, NotifyAnomaly, alertVars, settings
<1> QED
  BY <1>3, <1>4

LEMMA EndpointsType ==
  ASSUME AlertsTypeOK, [AlertsNext]_alertVars
  PROVE  endpoint' \in [Endpoints -> Hooks(acts')]
<1>1. endpoint \in [Endpoints -> Hooks(acts)] /\ acts \in Nat /\ acts' \in {acts, acts + 1}
  BY ActsType DEF AlertsTypeOK, Hooks
<1>2. Hooks(acts) \subseteq Hooks(acts') /\ acts' \in Nat
  BY <1>1 DEF Hooks
<1>3. CASE endpoint' = endpoint
  BY <1>1, <1>2, <1>3
<1>4. ASSUME NEW t \in task, DeliverOne(t) PROVE endpoint' \in [Endpoints -> Hooks(acts')]
  <2>1. PICK h, ok : endpoint' = Delivered(h, ok) /\ ok \in BOOLEAN /\ (ok \/ acts' = acts + 1)
    BY <1>4 DEF DeliverOne, Fault, Act
  <2>2. CASE h \in Endpoints
    BY <1>1, <1>2, <2>1, <2>2, DeliveredType
  <2>3. CASE h \notin Endpoints
    <3>1. endpoint' = endpoint \/ endpoint' = [endpoint EXCEPT ![h].failures = IF ok THEN 0 ELSE @ + 1]
      BY <2>1 DEF Delivered
    <3>2. endpoint' = endpoint
      BY <1>1, <2>3, <3>1
    <3> QED
      BY <1>1, <1>2, <3>2
  <2> QED
    BY <2>2, <2>3
<1>5. CASE Operator
  <2>1. CASE UpdateSettings \/ MarkAllRead \/ \E key \in DOMAIN anomaly : ReviewAnomaly(key)
    BY <1>1, <1>2, <2>1 DEF UpdateSettings, MarkAllRead, ReviewAnomaly, settings
  <2>2. ASSUME NEW h \in Endpoints, NEW events \in {{}, {"anomaly.detected"}}, CreateWebhook(h, events)
        PROVE  endpoint' \in [Endpoints -> Hooks(acts')]
    <3>1. [enabled |-> TRUE, events |-> IF events = {} THEN {"*"} ELSE events, failures |-> 0] \in Hooks(acts')
      BY <1>2 DEF Hooks, Types
    <3> HIDE DEF Hooks
    <3> QED
      BY <1>1, <1>2, <2>2, <3>1 DEF CreateWebhook
  <2>3. ASSUME NEW h \in Endpoints, NEW events \in {{}, {"anomaly.detected"}}, UpdateWebhook(h, events)
        PROVE  endpoint' \in [Endpoints -> Hooks(acts')]
    <3>1. endpoint[h] \in [enabled : BOOLEAN, events : SUBSET (Types \cup {"*"}), failures : 0 .. acts]
      BY <1>1, <2>3 DEF UpdateWebhook, Hooks
    <3>2. [endpoint[h] EXCEPT !.enabled = ~endpoint[h].enabled] \in Hooks(acts)
      BY <3>1 DEF Hooks
    <3>3. [endpoint[h] EXCEPT !.events = events] \in Hooks(acts)
      BY <3>1 DEF Hooks, Types
    <3>4. \E row \in Hooks(acts) : endpoint' = [endpoint EXCEPT ![h] = row]
      BY <2>3, <3>2, <3>3 DEF UpdateWebhook
    <3> QED
      BY <1>1, <1>2, <3>4
  <2>4. ASSUME NEW h \in Endpoints, DeleteWebhook(h) PROVE endpoint' \in [Endpoints -> Hooks(acts')]
    <3>1. None \in Hooks(acts')
      BY DEF Hooks
    <3> QED
      BY <1>1, <1>2, <2>4, <3>1 DEF DeleteWebhook
  <2>5. ASSUME NEW h \in Endpoints, SendTestDelivery(h) PROVE endpoint' \in [Endpoints -> Hooks(acts')]
    BY <1>1, <2>5, DeliveredType DEF SendTestDelivery, Act
  <2> QED
    BY <1>5, <2>1, <2>2, <2>3, <2>4, <2>5 DEF Operator
<1>6. CASE ~Operator /\ ~\E t \in task : DeliverOne(t)
  BY <1>3, <1>6, AlertsSteps
     DEF Happen, RecordTimelineEvent, Notify, DispatchWebhooks, FinishDelivery, Measure, Tick, ServerDies,
         StartDetection, LookForAnomaly, CreateAnomaly, PublishAnomaly, NotifyAnomaly, alertVars, settings
<1> QED
  BY <1>4, <1>5, <1>6

LEMMA TasksType ==
  ASSUME AlertsTypeOK, OccurrencesInv, [AlertsNext]_alertVars
  PROVE  \A t \in task' : ProperTask(t)
<1>1. \A t \in task : ProperTask(t) /\ IsTask(t)
  BY DEF AlertsTypeOK, ProperTask, OccurrencesInv, TasksMarked
<1>2. CASE task' \subseteq task
  BY <1>1, <1>2
<1>3. ASSUME NEW e, NEW own, \A work \in own : work \in [kind : {"notice"}, type : Types, severity : Severities],
             Publish(e, own)
      PROVE  \A t \in task' : ProperTask(t)
  <2>1. \A work \in Reactions(e) \cup own :
          work.kind = "timeline" \/ work \in [kind : {"notice"}, type : Types, severity : Severities]
    BY <1>3, NoticesProper
  <2>2. \A t \in task' \ task : t.work \in Reactions(e) \cup own
    BY <1>3 DEF Publish
  <2> QED
    BY <1>1, <2>1, <2>2 DEF ProperTask
<1>4. ASSUME NEW e \in Facts, Happen(e) PROVE \A t \in task' : ProperTask(t)
  <2>1. \A work \in EngineNotices(e) : work \in [kind : {"notice"}, type : Types, severity : Severities]
    BY DEF EngineNotices, Only, Notice, Types, Severities
  <2> QED
    BY <1>3, <1>4, <2>1 DEF Happen
<1>5. ASSUME NEW t \in task, Notify(t) PROVE \A u \in task' : ProperTask(u)
  BY <1>1, <1>5 DEF Notify, Done, FanOut, ProperTask
<1>6. ASSUME NEW t \in task, DispatchWebhooks(t) \/ DeliverOne(t) PROVE \A u \in task' : ProperTask(u)
  <2>1. DOMAIN t = {"id", "work"} /\ t.work.kind = "webhook" /\ DOMAIN t.work = {"kind", "type", "todo"}
    BY <1>1, <1>6 DEF IsTask, DispatchWebhooks, DeliverOne
  <2>2. ASSUME NEW todos PROVE ProperTask([t EXCEPT !.work.todo = todos])
    BY <2>1 DEF ProperTask
  <2> QED
    BY <1>1, <1>6, <2>2 DEF DispatchWebhooks, DeliverOne
<1>7. ASSUME NEW r \in Runs, PublishAnomaly(r) PROVE \A t \in task' : ProperTask(t)
  BY <1>3, <1>7 DEF PublishAnomaly
<1>8. ASSUME NEW r \in Runs, NotifyAnomaly(r) PROVE \A t \in task' : ProperTask(t)
  <2>1. \A t \in task' \ task : t.work.kind = "webhook"
    BY <1>8 DEF NotifyAnomaly, FanOut
  <2> QED
    BY <1>1, <2>1 DEF ProperTask
<1>9. CASE /\ ~\E e \in Facts : Happen(e)
           /\ ~\E t \in task : Notify(t) \/ DispatchWebhooks(t) \/ DeliverOne(t)
           /\ ~\E r \in Runs : PublishAnomaly(r) \/ NotifyAnomaly(r)
  BY <1>2, <1>9, AlertsSteps
     DEF RecordTimelineEvent, FinishDelivery, Done, Operator, Measure, Tick, ServerDies, StartDetection, LookForAnomaly,
         CreateAnomaly, alertVars
<1> QED
  BY <1>4, <1>5, <1>6, <1>7, <1>8, <1>9

LEMMA NoticesType ==
  ASSUME AlertsTypeOK, [AlertsNext]_alertVars
  PROVE  \A row \in notice' : ProperRow(row)
<1>1. (\A row \in notice : ProperRow(row)) /\ \A t \in task : ProperTask(t)
  BY DEF AlertsTypeOK, ProperTask, ProperRow
<1>2. ASSUME NEW id, NEW work \in [kind : {"notice"}, type : Types, severity : Severities], Notified(id, work)
      PROVE  \A row \in notice' : ProperRow(row)
  <2>1. PICK made :
          made = [id |-> id, type |-> work.type, severity |-> work.severity, read |-> FALSE, sent |-> FALSE]
    OBVIOUS
  <2>2. ProperRow(made)
    BY <2>1 DEF ProperRow
  <2>3. notice' = notice \cup {made}
    BY <1>2, <2>1 DEF Notified
  <2> QED
    BY <1>1, <2>2, <2>3
<1>3. ASSUME NEW t \in task, Notify(t) PROVE \A row \in notice' : ProperRow(row)
  <2>1. t.work \in [kind : {"notice"}, type : Types, severity : Severities]
    BY <1>1, <1>3 DEF Notify, ProperTask
  <2> QED
    BY <1>1, <1>2, <1>3, <2>1 DEF Notify
<1>4. ASSUME NEW t \in task, FinishDelivery(t) PROVE \A row \in notice' : ProperRow(row)
  <2>1. ASSUME NEW row \in notice PROVE ProperRow([row EXCEPT !.sent = TRUE])
    BY <1>1 DEF ProperRow
  <2> QED
    BY <1>1, <1>4, <2>1 DEF FinishDelivery
<1>5. ASSUME NEW r \in Runs, NotifyAnomaly(r) PROVE \A row \in notice' : ProperRow(row)
  <2>1. \A severity \in {"CRITICAL", "WARNING"} :
          Notice("anomaly.detected", severity) \in [kind : {"notice"}, type : Types, severity : Severities]
    BY DEF Notice, Types, Severities
  <2> QED
    BY <1>1, <1>2, <1>5, <2>1 DEF NotifyAnomaly
<1>6. CASE MarkAllRead
  BY ZenonT(60), <1>1, <1>6 DEF MarkAllRead, ProperRow
<1>7. CASE notice' = notice
  BY <1>1, <1>7
<1>8. CASE /\ ~\E t \in task : Notify(t) \/ FinishDelivery(t)
           /\ ~\E r \in Runs : NotifyAnomaly(r)
           /\ ~MarkAllRead
  BY <1>7, <1>8, AlertsSteps
     DEF Happen, RecordTimelineEvent, DispatchWebhooks, DeliverOne, Operator, CreateWebhook, UpdateWebhook, DeleteWebhook,
         SendTestDelivery, UpdateSettings, ReviewAnomaly, Measure, Tick, ServerDies, StartDetection, LookForAnomaly,
         CreateAnomaly, PublishAnomaly, alertVars, stored
<1> QED
  BY <1>3, <1>4, <1>5, <1>6, <1>8

LEMMA CountsType ==
  ASSUME AlertsTypeOK, OccurrencesInv, [AlertsNext]_alertVars
  PROVE  \A key \in DOMAIN timeline' : timeline'[key].count \in Nat \ {0}
<1>1. \A key \in DOMAIN timeline : DOMAIN timeline[key] = {"severity", "count"} /\ timeline[key].count \in Nat \ {0}
  BY DEF AlertsTypeOK, OccurrencesInv, RowsCount
<1>2. CASE timeline' = timeline
  BY <1>1, <1>2
<1>3. ASSUME NEW entry, timeline' = Upserted(entry)
      PROVE  \A key \in DOMAIN timeline' : timeline'[key].count \in Nat \ {0}
  <2>1. CASE entry.key \in DOMAIN timeline
    BY <1>1, <1>3, <2>1 DEF Upserted
  <2>2. CASE entry.key \notin DOMAIN timeline
    BY <1>1, <1>3, <2>2 DEF Upserted
  <2> QED
    BY <2>1, <2>2
<1>4. ASSUME NEW t \in task, RecordTimelineEvent(t)
      PROVE  \A key \in DOMAIN timeline' : timeline'[key].count \in Nat \ {0}
  BY <1>2, <1>3, <1>4 DEF RecordTimelineEvent
<1>5. CASE ~\E t \in task : RecordTimelineEvent(t)
  BY <1>2, <1>5, AlertsSteps
     DEF Happen, Notify, DispatchWebhooks, DeliverOne, FinishDelivery, Operator, Measure, Tick, ServerDies, StartDetection,
         LookForAnomaly, CreateAnomaly, PublishAnomaly, NotifyAnomaly, alertVars, stored
<1> QED
  BY <1>4, <1>5

LEMMA RunsType ==
  ASSUME AlertsTypeOK, AnnouncedInv, [AlertsNext]_alertVars
  PROVE  \A r \in Runs : run'[r].step \in {"idle", "look", "create", "publish", "notify"}
<1> DEFINE RunSteps == {"idle", "look", "create", "publish", "notify"}
<1>1. DOMAIN run = Runs /\ \A r \in Runs : run[r].step \in RunSteps
  BY DEF AlertsTypeOK, AnnouncedInv, RunsShaped
<1>2. CASE run' = run
  BY <1>1, <1>2
<1>3. ASSUME NEW r \in Runs, NEW state, Turn(r, state), state.step \in RunSteps
      PROVE  \A s \in Runs : run'[s].step \in RunSteps
  BY <1>1, <1>3 DEF Turn
<1>4. ASSUME NEW r \in Runs PROVE NextCandidate(r).step \in RunSteps
  BY DEF NextCandidate, Idle
<1>5. ASSUME NEW r \in Runs, run[r].step # "idle", NEW name \in RunSteps
      PROVE  [run[r] EXCEPT !.step = name].step \in RunSteps
  BY <1>5 DEF AnnouncedInv, RunsShaped
<1>6. ASSUME NEW r \in Runs, StartDetection(r) PROVE \A s \in Runs : run'[s].step \in RunSteps
  BY <1>3, <1>6 DEF StartDetection
<1>7. ASSUME NEW r \in Runs, LookForAnomaly(r) \/ CreateAnomaly(r) \/ PublishAnomaly(r) \/ NotifyAnomaly(r)
      PROVE  \A s \in Runs : run'[s].step \in RunSteps
  <2>1. run[r].step # "idle"
    BY <1>7 DEF LookForAnomaly, CreateAnomaly, PublishAnomaly, NotifyAnomaly
  <2>2. \/ Turn(r, NextCandidate(r))
        \/ \E name \in RunSteps : Turn(r, [run[r] EXCEPT !.step = name])
    BY <1>7 DEF LookForAnomaly, CreateAnomaly, PublishAnomaly, NotifyAnomaly
  <2> QED
    BY <1>3, <1>4, <1>5, <2>1, <2>2
<1>8. CASE ServerDies
  BY <1>8 DEF ServerDies, Idle
<1>9. CASE ~ServerDies /\ ~\E r \in Runs : StartDetection(r) \/ LookForAnomaly(r) \/ CreateAnomaly(r) \/ PublishAnomaly(r)
                                            \/ NotifyAnomaly(r)
  BY <1>2, <1>9, AlertsSteps
     DEF Happen, RecordTimelineEvent, Notify, DispatchWebhooks, DeliverOne, FinishDelivery, Operator, Measure, Tick, alertVars
<1> QED
  BY <1>6, <1>7, <1>8, <1>9

\* Every reachable state of Alerts is well typed, for all constants.
THEOREM AlertsTypeCorrect == AlertsSpec => []AlertsTypeOK
<1>1. AlertsInit => AlertsTypeOK
  <2> SUFFICES ASSUME AlertsInit PROVE AlertsTypeOK
    OBVIOUS
  <2>1. [enabled |-> TRUE, events |-> {"*"}, failures |-> 0] \in
           [enabled : BOOLEAN, events : SUBSET (Types \cup {"*"}), failures : 0 .. 0]
    OBVIOUS
  <2>2. endpoint \in [Endpoints -> {None} \cup [enabled : BOOLEAN, events : SUBSET (Types \cup {"*"}), failures : 0 .. acts]]
    BY <2>1 DEF AlertsInit
  <2>3. DOMAIN timeline = {} /\ task = {} /\ notice = {} /\ \A r \in Runs : run[r].step = "idle"
    BY DEF AlertsInit, Idle
  <2>4. hour \in 0 .. acts /\ acts \in 0 .. MaxActs
    BY AlertBounds DEF AlertsInit
  <2> QED
    BY <2>2, <2>3, <2>4 DEF AlertsInit, AlertsTypeOK
<1>2. AlertsTypeOK /\ OccurrencesInv /\ AnnouncedInv /\ [AlertsNext]_alertVars => AlertsTypeOK'
  BY ActsType, SwitchesType, EndpointsType, TasksType, NoticesType, CountsType, RunsType
     DEF AlertsTypeOK, ProperTask, ProperRow, Hooks
<1>3. AlertsInit => OccurrencesInv /\ AnnouncedInv
  BY OccurrencesInit, AnnouncedInit
<1>4. OccurrencesInv /\ AnnouncedInv /\ [AlertsNext]_alertVars => (OccurrencesInv /\ AnnouncedInv)'
  BY OccurrencesNext, AnnouncedNext
<1> QED
  BY <1>1, <1>2, <1>3, <1>4, PTL DEF AlertsSpec
=============================================================================
