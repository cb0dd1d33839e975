-------------------------- MODULE BulkWriterProofs --------------------------
(***************************************************************************)
(* Proofs about BulkWriter, and that its log as WriterTelemetry writes it  *)
(* tells what its calls did, for every set of batches, payload limit and   *)
(* counter width, and any number of calls.  A step emits up to four        *)
(* events; the lemmas append one event to an arbitrary log, and each       *)
(* action is put together from them.                                       *)
(***************************************************************************)
EXTENDS WriterTelemetry, SequenceTheorems, FiniteSetTheorems, WellFoundedInduction, TLAPS

\* A batch is being sent only if all its values convert: the value pass came
\* first.  Without this a send could end in a rejection with rows on the wire.
SentBatchConverts == status = "writing" => call.batch.bad = {}

IInv ==
    /\ TypeOK
    /\ SentBatchConverts
    /\ WireIsAttemptsInOrder
    /\ RejectedBatchLeavesNoRows
    /\ AcceptedBatchIsComplete

-----------------------------------------------------------------------------
(* Rows added to the wire, attempts added to the history *)

LEMMA NextRowsAre ==
    ASSUME TypeOK, NEW k \in Nat, Sent \in Nat
    PROVE  /\ NextRows(k) \in Seq(WireRow) /\ Len(NextRows(k)) = k
           /\ \A r \in 1..k : NextRows(k)[r] = [attempt |-> Current, row |-> Sent + r]
<1>1. Current \in Nat
  BY DEF TypeOK, Current
<1>2. \A r \in 1..k : [attempt |-> Current, row |-> Sent + r] \in WireRow
  BY <1>1 DEF WireRow
<1>3. NextRows(k) \in [1..k -> WireRow]
  BY <1>2 DEF NextRows
<1>4. NextRows(k) \in Seq(WireRow) /\ Len(NextRows(k)) = k
  BY <1>3
<1> QED
  BY <1>4 DEF NextRows

LEMMA SinkGrows ==
    ASSUME TypeOK, NEW k \in Nat, Sent \in Nat, sink' = sink \o NextRows(k)
    PROVE  /\ sink' \in Seq(WireRow) /\ Len(sink') = Len(sink) + k /\ Len(sink) \in Nat
           /\ \A i \in 1..Len(sink) : sink'[i] = sink[i]
           /\ \A r \in 1..k : sink'[Len(sink) + r] = [attempt |-> Current, row |-> Sent + r]
<1>1. sink \in Seq(WireRow)
  BY DEF TypeOK
<1>2. /\ NextRows(k) \in Seq(WireRow) /\ Len(NextRows(k)) = k
      /\ \A r \in 1..k : NextRows(k)[r] = [attempt |-> Current, row |-> Sent + r]
  BY NextRowsAre
<1>3. /\ sink' \in Seq(WireRow) /\ Len(sink') = Len(sink) + k
      /\ \A i \in 1..(Len(sink) + k) :
            sink'[i] = IF i <= Len(sink) THEN sink[i] ELSE NextRows(k)[i - Len(sink)]
  <2> DEFINE rows == NextRows(k)
             joined == sink \o rows
  <2>1. rows \in Seq(WireRow) /\ Len(rows) = k /\ sink' = joined
    BY <1>2
  <2> HIDE DEF rows
  <2>2. /\ joined \in Seq(WireRow) /\ Len(joined) = Len(sink) + Len(rows)
        /\ \A i \in 1..(Len(sink) + Len(rows)) :
              joined[i] = IF i <= Len(sink) THEN sink[i] ELSE rows[i - Len(sink)]
    <3>1. rows \in Seq(WireRow)
      BY <2>1
    <3> QED
      BY ONLY <1>1, <3>1, ConcatProperties DEF joined
  <2> HIDE DEF joined
  <2>3. /\ sink' \in Seq(WireRow) /\ Len(sink') = Len(sink) + k
        /\ \A i \in 1..(Len(sink) + k) :
              sink'[i] = IF i <= Len(sink) THEN sink[i] ELSE rows[i - Len(sink)]
    BY <2>1, <2>2, Zenon
  <2> QED
    BY <2>3 DEF rows
<1>4. Len(sink) \in Nat
  BY <1>1, LenProperties
<1>5. \A i \in 1..Len(sink) : sink'[i] = sink[i]
  BY <1>3, <1>4
<1>6. \A r \in 1..k : sink'[Len(sink) + r] = NextRows(k)[r]
  BY <1>3, <1>4
<1> QED
  BY <1>2, <1>3, <1>4, <1>5, <1>6

LEMMA HistoryGrows ==
    ASSUME TypeOK, NEW a \in Attempt, attempts' = Append(attempts, a)
    PROVE  /\ attempts' \in Seq(Attempt) /\ Len(attempts') = Current /\ Len(attempts) \in Nat
           /\ attempts'[Current] = a
           /\ \A i \in 1..Len(attempts) : attempts'[i] = attempts[i] /\ attempts[i] \in Attempt
<1>1. attempts \in Seq(Attempt)
  BY DEF TypeOK
<1> HIDE DEF Attempt
<1> QED
  BY <1>1 DEF Current

\* The wire stays in order when the running attempt sends k more rows.
LEMMA WireOfRunningAttempt ==
    ASSUME IInv, status = "writing", NEW k \in Nat, sink' = sink \o NextRows(k),
           status' = "writing", UNCHANGED <<attempts, call>>
    PROVE  WireIsAttemptsInOrder'
<1>1. Sent \in Nat /\ call.at \in Nat /\ Len(sink) = call.at + Sent
  BY DEF IInv, TypeOK, CallOK, Sent
<1>2. /\ sink' \in Seq(WireRow) /\ Len(sink') = Len(sink) + k /\ Len(sink) \in Nat
      /\ \A i \in 1..Len(sink) : sink'[i] = sink[i]
      /\ \A r \in 1..k : sink'[Len(sink) + r] = [attempt |-> Current, row |-> Sent + r]
  BY <1>1, SinkGrows DEF IInv
<1>3. \A i \in 1..Len(attempts) : attempts[i] \in Attempt
  BY DEF IInv, TypeOK
<1>4. \A i \in 1..Len(attempts) :
         /\ attempts[i].at + attempts[i].taken <= Len(sink')
         /\ \A r \in 1..attempts[i].taken :
               sink'[attempts[i].at + r] = [attempt |-> i, row |-> r]
  <2> TAKE i \in 1..Len(attempts)
  <2>1. attempts[i].at \in Nat /\ attempts[i].taken \in Nat
    BY <1>3 DEF Attempt
  <2>2. /\ attempts[i].at + attempts[i].taken <= Len(sink)
        /\ \A r \in 1..attempts[i].taken :
              sink[attempts[i].at + r] = [attempt |-> i, row |-> r]
    BY DEF IInv, WireIsAttemptsInOrder
  <2>3. Len(sink) \in Nat /\ Len(sink') = Len(sink) + k
    BY <1>2
  <2>4. attempts[i].at + attempts[i].taken <= Len(sink)
    BY <2>2
  <2>5. /\ \A r \in 1..attempts[i].taken : attempts[i].at + r \in 1..Len(sink)
        /\ attempts[i].at + attempts[i].taken <= Len(sink')
    BY ONLY k \in Nat, <2>1, <2>3, <2>4
  <2>6. \A r \in 1..attempts[i].taken :
           sink'[attempts[i].at + r] = [attempt |-> i, row |-> r]
    BY <1>2, <2>2, <2>5
  <2> QED
    BY <2>5, <2>6
<1>5. Sent' = Sent + k /\ Current' = Current /\ call'.at = call.at
  BY <1>1, <1>2 DEF Sent, Current
<1>6. \A r \in 1..(Sent + k) : sink'[call.at + r] = [attempt |-> Current, row |-> r]
  <2> SUFFICES ASSUME NEW r \in 1..(Sent + k)
               PROVE  sink'[call.at + r] = [attempt |-> Current, row |-> r]
    OBVIOUS
  <2>1. CASE r <= Sent
    <3>1. sink[call.at + r] = [attempt |-> Current, row |-> r]
      BY <1>1, <2>1 DEF IInv, WireIsAttemptsInOrder
    <3>2. call.at + r \in 1..Len(sink)
      BY <1>1, <2>1
    <3> QED
      BY <1>2, <3>1, <3>2
  <2>2. CASE r > Sent
    <3>1. r - Sent \in 1..k /\ Len(sink) + (r - Sent) = call.at + r /\ Sent + (r - Sent) = r
      BY <1>1, <2>2
    <3> QED
      BY <1>2, <3>1
  <2>3. r <= Sent \/ r > Sent
    BY <1>1
  <2> QED
    BY <2>1, <2>2, <2>3
<1>7. EndOfAttempts' = EndOfAttempts /\ call.at = EndOfAttempts
  BY DEF EndOfAttempts, IInv, WireIsAttemptsInOrder
<1>8. Sent' = Sent + k /\ (\A r \in 1..Sent' : sink'[call'.at + r] = [attempt |-> Current', row |-> r])
  BY <1>5, <1>6
<1>9. \A i \in 1..Len(attempts) :
         attempts[i].at = IF i = 1 THEN 0 ELSE attempts[i - 1].at + attempts[i - 1].taken
  BY DEF IInv, WireIsAttemptsInOrder
<1> QED
  BY <1>4, <1>5, <1>7, <1>8, <1>9 DEF WireIsAttemptsInOrder

\* The wire stays in order when an attempt ends that put its rows behind the
\* attempts before it.
LEMMA WireWithAttempt ==
    ASSUME TypeOK, WireIsAttemptsInOrder,
           NEW a \in Attempt, attempts' = Append(attempts, a), status' = "open",
           Len(sink) <= Len(sink'), \A i \in 1..Len(sink) : sink'[i] = sink[i],
           a.at = EndOfAttempts, Len(sink') = a.at + a.taken,
           \A r \in 1..a.taken : sink'[a.at + r] = [attempt |-> Current, row |-> r]
    PROVE  WireIsAttemptsInOrder'
<1>1. /\ attempts' \in Seq(Attempt) /\ Len(attempts') = Current /\ Len(attempts) \in Nat
      /\ attempts'[Current] = a
      /\ \A i \in 1..Len(attempts) : attempts'[i] = attempts[i] /\ attempts[i] \in Attempt
  BY HistoryGrows
<1>2. Current = Len(attempts) + 1 /\ Len(sink) \in Nat /\ a.at \in Nat /\ a.taken \in Nat
  BY DEF Current, TypeOK, Attempt
<1>3. \A i \in 1..Len(attempts) :
         /\ attempts'[i].at = IF i = 1 THEN 0 ELSE attempts'[i - 1].at + attempts'[i - 1].taken
         /\ attempts'[i].at + attempts'[i].taken <= Len(sink')
         /\ \A r \in 1..attempts'[i].taken :
               sink'[attempts'[i].at + r] = [attempt |-> i, row |-> r]
  <2> TAKE i \in 1..Len(attempts)
  <2>1. attempts[i].at \in Nat /\ attempts[i].taken \in Nat /\ attempts'[i] = attempts[i]
    BY <1>1 DEF Attempt
  <2>2. /\ attempts[i].at = IF i = 1 THEN 0 ELSE attempts[i - 1].at + attempts[i - 1].taken
        /\ attempts[i].at + attempts[i].taken <= Len(sink)
        /\ \A r \in 1..attempts[i].taken :
              sink[attempts[i].at + r] = [attempt |-> i, row |-> r]
    BY DEF WireIsAttemptsInOrder
  <2>3. i # 1 => i - 1 \in 1..Len(attempts)
    BY <1>1
  <2>4. \A r \in 1..attempts[i].taken : attempts[i].at + r \in 1..Len(sink)
    <3>1. attempts[i].at + attempts[i].taken <= Len(sink) /\ Len(sink) \in Nat
      BY <1>2, <2>2
    <3> QED
      BY ONLY <2>1, <3>1
  <2>5. attempts[i].at + attempts[i].taken <= Len(sink')
    BY <1>2, <2>1, <2>2
  <2>6. attempts'[i].at = IF i = 1 THEN 0 ELSE attempts'[i - 1].at + attempts'[i - 1].taken
    BY <1>1, <2>2, <2>3
  <2>7. \A r \in 1..attempts'[i].taken :
           sink'[attempts'[i].at + r] = [attempt |-> i, row |-> r]
    BY <2>1, <2>2, <2>4
  <2> QED
    BY <2>1, <2>5, <2>6, <2>7
<1>4. a.at = IF Current = 1 THEN 0
             ELSE attempts'[Current - 1].at + attempts'[Current - 1].taken
  <2>1. CASE attempts = <<>>
    BY <1>2, <2>1 DEF EndOfAttempts
  <2>2. CASE attempts # <<>>
    <3>1. Len(attempts) \in 1..Len(attempts)
      BY <1>1, <2>2 DEF TypeOK
    <3> QED
      BY <1>1, <1>2, <2>2, <3>1 DEF EndOfAttempts
  <2> QED
    BY <2>1, <2>2
<1>5. EndOfAttempts' = a.at + a.taken
  <2>1. attempts' # <<>>
    BY <1>1, <1>2
  <2> QED
    BY <1>1, <2>1 DEF EndOfAttempts
<1>6. \A i \in 1..Current : i \in 1..Len(attempts) \/ i = Current
  BY <1>1, <1>2
<1>7. \A i \in 1..Len(attempts') :
         /\ attempts'[i].at = IF i = 1 THEN 0 ELSE attempts'[i - 1].at + attempts'[i - 1].taken
         /\ attempts'[i].at + attempts'[i].taken <= Len(sink')
         /\ \A r \in 1..attempts'[i].taken :
               sink'[attempts'[i].at + r] = [attempt |-> i, row |-> r]
  <2> SUFFICES ASSUME NEW i \in 1..Current
               PROVE
         /\ attempts'[i].at = IF i = 1 THEN 0 ELSE attempts'[i - 1].at + attempts'[i - 1].taken
         /\ attempts'[i].at + attempts'[i].taken <= Len(sink')
         /\ \A r \in 1..attempts'[i].taken :
               sink'[attempts'[i].at + r] = [attempt |-> i, row |-> r]
    BY <1>1
  <2>1. CASE i \in 1..Len(attempts)
    BY <1>3, <2>1
  <2>2. CASE i = Current
    <3>1. a.at + a.taken <= Len(sink') /\ attempts'[i] = a
      BY <1>1, <1>2, <2>2
    <3>2. a.at = IF i = 1 THEN 0 ELSE attempts'[i - 1].at + attempts'[i - 1].taken
      BY <1>4, <2>2
    <3>3. \A r \in 1..a.taken : sink'[a.at + r] = [attempt |-> i, row |-> r]
      BY <2>2
    <3> QED
      BY <3>1, <3>2, <3>3
  <2> QED
    BY <1>6, <2>1, <2>2
<1> QED
  BY <1>5, <1>7 DEF WireIsAttemptsInOrder

\* The attempts that ended keep their promises when one more does.
LEMMA HistoryKept ==
    ASSUME IInv, NEW a \in Attempt, attempts' = Append(attempts, a), a.taken <= a.rows,
           a.outcome \in Rejections => a.taken = 0,
           a.outcome = "accepted" => a.taken = a.rows
    PROVE  RejectedBatchLeavesNoRows' /\ AcceptedBatchIsComplete'
<1>1. /\ Len(attempts') = Current /\ Len(attempts) \in Nat /\ attempts'[Current] = a
      /\ \A i \in 1..Len(attempts) : attempts'[i] = attempts[i]
  BY HistoryGrows DEF IInv
<1>2. \A i \in 1..Len(attempts') : i \in 1..Len(attempts) \/ i = Current
  BY <1>1 DEF Current
<1>3. RejectedBatchLeavesNoRows'
  BY <1>1, <1>2 DEF IInv, RejectedBatchLeavesNoRows
<1>4. AcceptedBatchIsComplete'
  BY <1>1, <1>2 DEF IInv, AcceptedBatchIsComplete
<1> QED
  BY <1>3, <1>4

\* The call on a batch ends before anything was sent.
LEMMA RefusedCall ==
    ASSUME IInv, status = "open", NEW b \in Batches, NEW outcome \in Outcomes,
           outcome = "accepted" => b.n = 0,
           Return(b, Len(sink), 0, outcome), stats' \in Stats,
           UNCHANGED <<inputs, backend, sink, table, reported>>
    PROVE  IInv'
<1> DEFINE a == [rows |-> b.n, at |-> Len(sink), taken |-> 0, outcome |-> outcome]
<1>1. /\ attempts' = Append(attempts, a) /\ status' = "open" /\ call' = NoCall
      /\ Len(sink) \in Nat /\ b.n \in Nat
  BY BulkWriterAssumption DEF Return, IInv, TypeOK
<1>2. a \in Attempt /\ a.at = Len(sink) /\ a.taken = 0 /\ a.rows = b.n /\ a.outcome = outcome
  BY <1>1 DEF Attempt
<1> HIDE DEF a
<1>3. TypeOK'
  <2>1. attempts' \in Seq(Attempt)
    BY <1>1, <1>2, HistoryGrows DEF IInv
  <2> QED
    BY <1>1, <2>1 DEF IInv, TypeOK, inputs
<1>4. WireIsAttemptsInOrder'
  <2>1. Len(sink) = EndOfAttempts
    BY DEF IInv, WireIsAttemptsInOrder
  <2> QED
    BY <1>1, <1>2, <2>1, WireWithAttempt DEF IInv
<1>5. RejectedBatchLeavesNoRows' /\ AcceptedBatchIsComplete'
  BY <1>1, <1>2, HistoryKept
<1>6. SentBatchConverts'
  BY <1>1 DEF SentBatchConverts
<1> QED
  BY <1>3, <1>4, <1>5, <1>6 DEF IInv

\* The call that is sending ends after k more rows.
LEMMA EndedCall ==
    ASSUME IInv, status = "writing", NEW k \in Nat, Sent + k <= call.batch.n,
           sink' = sink \o NextRows(k),
           NEW outcome \in Outcomes \ Rejections,
           outcome = "accepted" => Sent + k = call.batch.n,
           Return(call.batch, call.at, Sent + k, outcome), stats' \in Stats,
           UNCHANGED <<inputs, backend, table, reported>>
    PROVE  IInv'
<1> DEFINE a == [rows |-> call.batch.n, at |-> call.at, taken |-> Sent + k,
                 outcome |-> outcome]
<1>1. /\ Sent \in Nat /\ call.at \in Nat /\ Len(sink) = call.at + Sent
      /\ call.batch \in Batches /\ call.batch.n \in Nat
  <2>1. CallOK /\ sink \in Seq(WireRow)
    BY DEF IInv, TypeOK
  <2>2. call.batch \in Batches /\ call.batch.n \in Nat /\ call.at \in Nat
    BY <2>1, BulkWriterAssumption DEF CallOK
  <2>3. Sent \in Nat
    BY <2>1, <2>2 DEF CallOK
  <2>4. Len(sink) \in Nat
    BY <2>1
  <2>5. Len(sink) = call.at + Sent
    BY <2>2, <2>3, <2>4 DEF Sent
  <2> QED
    BY <2>2, <2>3, <2>5
<1>2. attempts' = Append(attempts, a) /\ status' = "open" /\ call' = NoCall
  BY DEF Return
<1>3. /\ a \in Attempt /\ a.at = call.at /\ a.taken = Sent + k
      /\ a.rows = call.batch.n /\ a.outcome = outcome
  BY <1>1 DEF Attempt
<1> HIDE DEF a
<1>4. /\ sink' \in Seq(WireRow) /\ Len(sink') = Len(sink) + k /\ Len(sink) \in Nat
      /\ \A i \in 1..Len(sink) : sink'[i] = sink[i]
      /\ \A r \in 1..k : sink'[Len(sink) + r] = [attempt |-> Current, row |-> Sent + r]
  BY <1>1, SinkGrows DEF IInv
<1>5. TypeOK'
  <2>1. attempts' \in Seq(Attempt)
    BY <1>2, <1>3, HistoryGrows DEF IInv
  <2> QED
    BY <1>2, <1>4, <2>1 DEF IInv, TypeOK, inputs
<1>6. WireIsAttemptsInOrder'
  <2>1. /\ call.at = EndOfAttempts
        /\ \A r \in 1..Sent : sink[call.at + r] = [attempt |-> Current, row |-> r]
    BY DEF IInv, WireIsAttemptsInOrder
  <2>2. \A r \in 1..(Sent + k) : sink'[call.at + r] = [attempt |-> Current, row |-> r]
    <3> SUFFICES ASSUME NEW r \in 1..(Sent + k)
                 PROVE  sink'[call.at + r] = [attempt |-> Current, row |-> r]
      OBVIOUS
    <3>1. CASE r <= Sent
      BY <1>1, <1>4, <2>1, <3>1
    <3>2. CASE r > Sent
      <4>1. r - Sent \in 1..k /\ Len(sink) + (r - Sent) = call.at + r /\ Sent + (r - Sent) = r
        BY <1>1, <3>2
      <4> QED
        BY <1>4, <4>1
    <3>3. r <= Sent \/ r > Sent
      BY <1>1
    <3> QED
      BY <3>1, <3>2, <3>3
  <2>3. Len(sink') = a.at + a.taken /\ Len(sink) <= Len(sink')
    BY <1>1, <1>3, <1>4
  <2> QED
    BY <1>2, <1>3, <1>4, <2>1, <2>2, <2>3, WireWithAttempt DEF IInv
<1>7. RejectedBatchLeavesNoRows' /\ AcceptedBatchIsComplete'
  BY <1>2, <1>3, HistoryKept
<1>8. SentBatchConverts'
  BY <1>2 DEF SentBatchConverts
<1> QED
  BY <1>5, <1>6, <1>7, <1>8 DEF IInv

\* Nothing is written outside a call.
LEMMA BetweenCalls ==
    ASSUME IInv, status # "writing", status' # "writing",
           UNCHANGED <<inputs, stats, call, attempts, sink>>,
           status' \in {"metadata", "starting", "open", "finishing", "finished", "closed"},
           backend' \in DirectBackends \cup {"BaselineTokenRow", "none"},
           table' \in Seq(WireRow), reported' \in Stats
    PROVE  IInv'
<1>1. TypeOK'
  BY DEF IInv, TypeOK, inputs
<1>2. EndOfAttempts' = EndOfAttempts
  BY DEF EndOfAttempts
<1>3. WireIsAttemptsInOrder'
  BY <1>2 DEF IInv, WireIsAttemptsInOrder
<1>4. RejectedBatchLeavesNoRows' /\ AcceptedBatchIsComplete' /\ SentBatchConverts'
  BY DEF IInv, RejectedBatchLeavesNoRows, AcceptedBatchIsComplete, SentBatchConverts
<1> QED
  BY <1>1, <1>3, <1>4 DEF IInv

-----------------------------------------------------------------------------
(* The actions *)

LEMMA InitIInv == Init => IInv
<1> SUFFICES ASSUME Init PROVE IInv
  OBVIOUS
<1>1. TypeOK
  BY BulkWriterAssumption DEF Init, TypeOK, ZeroStats, Stats
<1>2. WireIsAttemptsInOrder
  BY DEF Init, WireIsAttemptsInOrder, EndOfAttempts
<1> QED
  BY <1>1, <1>2 DEF Init, IInv, SentBatchConverts, RejectedBatchLeavesNoRows,
                    AcceptedBatchIsComplete

LEMMA RecordType ==
    ASSUME TypeOK, NEW n \in Nat
    PROVE  RecordAcceptedBatch(n) \in Stats
  BY BulkWriterAssumption DEF TypeOK, RecordAcceptedBatch, SaturatingAdd, Stats

LEMMA BeginSendingIInv ==
    ASSUME IInv, NEW b \in Batches, NEW ends \in Units(b), BeginSending(b, ends)
    PROVE  IInv'
<1>1. b.n \in Nat \ {0} /\ b.bad = {} /\ ends \subseteq 1..b.n /\ b.n \in ends
  BY BulkWriterAssumption DEF BeginSending, ConversionFails, Units, IsRangePlan
<1>2. /\ call' = [batch |-> b, ends |-> ends, at |-> Len(sink)] /\ status' = "writing"
      /\ UNCHANGED <<inputs, backend, stats, attempts, sink, table, reported>>
      /\ Len(sink) \in Nat /\ status = "open"
  BY DEF BeginSending, MayWrite, IInv, TypeOK
<1>3. Sent' = 0 /\ Current' = Current
  BY <1>2 DEF Sent, Current
<1>4. TypeOK'
  <2>1. CallOK'
    BY <1>1, <1>2, <1>3 DEF CallOK
  <2> QED
    BY <1>2, <2>1 DEF IInv, TypeOK, inputs
<1>5. WireIsAttemptsInOrder'
  <2>1. EndOfAttempts' = EndOfAttempts /\ Len(sink) = EndOfAttempts
    BY <1>2 DEF EndOfAttempts, IInv, WireIsAttemptsInOrder
  <2> QED
    BY <1>2, <1>3, <2>1 DEF IInv, WireIsAttemptsInOrder
<1>6. RejectedBatchLeavesNoRows' /\ AcceptedBatchIsComplete' /\ SentBatchConverts'
  BY <1>1, <1>2 DEF IInv, RejectedBatchLeavesNoRows, AcceptedBatchIsComplete, SentBatchConverts
<1> QED
  BY <1>4, <1>5, <1>6 DEF IInv

\* Where the next unit ends, while a batch is being sent.
LEMMA NextUnit ==
    ASSUME IInv, status = "writing", NEW e, Adjacent(call.ends, Sent, e)
    PROVE  /\ Sent \in Nat /\ call.batch.n \in Nat /\ call.at \in Nat /\ e - Sent \in Nat
           /\ e \in 1..call.batch.n /\ Sent < e /\ Sent + (e - Sent) = e
           /\ call.batch.bad = {} /\ call.batch \in Batches
  BY BulkWriterAssumption DEF IInv, TypeOK, CallOK, SentBatchConverts, Adjacent

LEMMA SendUnitIInv == ASSUME IInv, NEW e \in call.ends, SendUnit(e) PROVE IInv'
<1>1. status = "writing" /\ Adjacent(call.ends, Sent, e)
  BY DEF SendUnit
<1>2. /\ Sent \in Nat /\ call.batch.n \in Nat /\ call.at \in Nat /\ e - Sent \in Nat
      /\ e \in 1..call.batch.n /\ Sent < e /\ Sent + (e - Sent) = e
      /\ call.batch.bad = {} /\ call.batch \in Batches
  BY <1>1, NextUnit
<1>3. sink' = sink \o NextRows(e - Sent) /\ UNCHANGED <<inputs, backend, table, reported>>
  BY <1>2 DEF SendUnit
<1>4. CASE LastUnit(e)
  <2>1. /\ stats' = RecordAcceptedBatch(call.batch.n)
        /\ Return(call.batch, call.at, Sent + (e - Sent), "accepted")
        /\ e = call.batch.n
    BY <1>2, <1>4 DEF SendUnit, LastUnit
  <2>2. stats' \in Stats
    BY <1>2, <2>1, RecordType DEF IInv
  <2>3. "accepted" \in Outcomes \ Rejections
    BY DEF Outcomes, Rejections
  <2>4. e - Sent \in Nat /\ Sent + (e - Sent) <= call.batch.n /\ Sent + (e - Sent) = call.batch.n
    BY <1>2, <2>1
  <2> QED
    BY <1>1, <1>3, <2>1, <2>2, <2>3, <2>4, EndedCall
<1>5. CASE ~LastUnit(e)
  <2>1. UNCHANGED <<stats, attempts, status, call>> /\ e # call.batch.n
    BY <1>2, <1>5 DEF SendUnit, LastUnit
  <2>2. /\ sink' \in Seq(WireRow) /\ Len(sink') = Len(sink) + (e - Sent) /\ Len(sink) \in Nat
    BY <1>2, <1>3, SinkGrows DEF IInv
  <2>3. Sent' = e
    BY <1>2, <2>1, <2>2 DEF Sent
  <2>4. TypeOK'
    <3>1. CallOK'
      BY <1>1, <1>2, <2>1, <2>3 DEF IInv, TypeOK, CallOK
    <3> QED
      BY <1>1, <1>3, <2>1, <2>2, <3>1 DEF IInv, TypeOK, inputs
  <2>5. WireIsAttemptsInOrder'
    BY <1>1, <1>2, <1>3, <2>1, WireOfRunningAttempt
  <2>6. RejectedBatchLeavesNoRows' /\ AcceptedBatchIsComplete' /\ SentBatchConverts'
    BY <2>1 DEF IInv, RejectedBatchLeavesNoRows, AcceptedBatchIsComplete, SentBatchConverts
  <2> QED
    BY <2>4, <2>5, <2>6 DEF IInv
<1> QED
  BY <1>4, <1>5

LEMMA SendFailsIInv ==
    ASSUME IInv, NEW e \in call.ends, NEW k \in 0..(e - Sent), SendFails(e, k)
    PROVE  IInv'
<1>1. status = "writing" /\ Adjacent(call.ends, Sent, e)
  BY DEF SendFails
<1>2. /\ Sent \in Nat /\ e - Sent \in Nat /\ e \in 1..call.batch.n /\ Sent + (e - Sent) = e
      /\ call.batch.n \in Nat
  BY <1>1, NextUnit
<1>3. k \in Nat /\ Sent + k <= call.batch.n
  BY <1>2
<1>4. "PacketWrite" \in Outcomes \ Rejections
  BY DEF Outcomes, Rejections
<1>5. stats' \in Stats
  BY DEF SendFails, IInv, TypeOK
<1> QED
  BY <1>1, <1>3, <1>4, <1>5, EndedCall DEF SendFails

LEMMA CancelWriteIInv == ASSUME IInv, NEW k \in Pending, CancelWrite(k) PROVE IInv'
<1>1. status = "writing"
  BY DEF CancelWrite
<1>2. Sent \in Nat /\ call.batch.n \in Nat /\ Sent <= call.batch.n
  BY <1>1, BulkWriterAssumption DEF IInv, TypeOK, CallOK
<1>3. k \in Nat /\ Sent + k <= call.batch.n
  <2>1. CASE k = 0
    BY <1>2, <2>1
  <2>2. CASE k # 0
    <3>1. PICK e \in call.ends : Adjacent(call.ends, Sent, e) /\ k \in 0..(e - Sent)
      BY <2>2 DEF Pending
    <3> QED
      BY <1>1, <3>1, NextUnit
  <2> QED
    BY <2>1, <2>2
<1>4. "cancelled" \in Outcomes \ Rejections
  BY DEF Outcomes, Rejections
<1>5. stats' \in Stats
  BY DEF CancelWrite, IInv, TypeOK
<1> QED
  BY <1>1, <1>3, <1>4, <1>5, EndedCall DEF CancelWrite

LEMMA NextIInv == IInv /\ [Next]_vars => IInv'
<1> SUFFICES ASSUME IInv, [Next]_vars PROVE IInv'
  OBVIOUS
<1>1. CASE New
  <2>1. backend' \in DirectBackends \cup {"BaselineTokenRow", "none"}
    BY <1>1 DEF New, ResolveBackend, IInv, TypeOK, Requests, DirectBackends
  <2> QED
    BY <1>1, <2>1, BetweenCalls DEF New, IInv, TypeOK
<1>2. CASE CancelNew
  BY <1>2, BetweenCalls DEF CancelNew, IInv, TypeOK
<1>3. ASSUME NEW ok \in BOOLEAN, ColumnsReply(ok) \/ InsertBulkReply(ok) PROVE IInv'
  BY <1>3, BetweenCalls DEF ColumnsReply, InsertBulkReply, IInv, TypeOK
<1>4. CASE Finish \/ DropWriter
  BY <1>4, BetweenCalls DEF Finish, DropWriter, IInv, TypeOK
<1>5. CASE Finalized
  BY <1>5, BetweenCalls DEF Finalized, IInv, TypeOK
<1>6. ASSUME NEW published \in BOOLEAN, FinishInterrupted(published) PROVE IInv'
  BY <1>6, BetweenCalls DEF FinishInterrupted, IInv, TypeOK
<1>7. CASE vars' = vars
  <2>1. EndOfAttempts' = EndOfAttempts /\ Sent' = Sent /\ Current' = Current
    BY <1>7 DEF vars, EndOfAttempts, Sent, Current
  <2>2. CallOK' = CallOK
    BY <1>7, <2>1 DEF vars, CallOK
  <2> QED
    BY <1>7, <2>1, <2>2 DEF vars, inputs, IInv, TypeOK, SentBatchConverts,
         WireIsAttemptsInOrder, RejectedBatchLeavesNoRows, AcceptedBatchIsComplete
<1>8. ASSUME NEW b \in Batches, RejectSchema(b) PROVE IInv'
  BY <1>8, RefusedCall DEF RejectSchema, MayWrite, IInv, TypeOK, Outcomes, Rejections
<1>9. ASSUME NEW b \in Batches, RejectValue(b) PROVE IInv'
  BY <1>9, RefusedCall DEF RejectValue, MayWrite, IInv, TypeOK, Outcomes, Rejections
<1>10. ASSUME NEW b \in Batches, AcceptEmpty(b) PROVE IInv'
  <2>1. stats' \in Stats
    BY <1>10, RecordType DEF AcceptEmpty, IInv
  <2>2. "accepted" \in Outcomes
    BY DEF Outcomes
  <2> QED
    BY <1>10, <2>1, <2>2, RefusedCall DEF AcceptEmpty, MayWrite
<1>11. ASSUME NEW b \in Batches, NEW ends \in Units(b), BeginSending(b, ends) PROVE IInv'
  BY <1>11, BeginSendingIInv
<1>12. ASSUME NEW e \in call.ends, SendUnit(e) PROVE IInv'
  BY <1>12, SendUnitIInv
<1>13. ASSUME NEW e \in call.ends, NEW k \in 0..(e - Sent), SendFails(e, k) PROVE IInv'
  BY <1>13, SendFailsIInv
<1>14. ASSUME NEW k \in Pending, CancelWrite(k) PROVE IInv'
  BY <1>14, CancelWriteIInv
<1>15. CASE Gone
  BY <1>7, <1>15 DEF Gone
<1> QED
  BY <1>1, <1>2, <1>3, <1>4, <1>5, <1>6, <1>7, <1>8, <1>9, <1>10, <1>11, <1>12, <1>13,
     <1>14, <1>15 DEF Next, Step

LEMMA Invariance == Spec => []IInv
  BY InitIInv, NextIInv, PTL DEF Spec

-----------------------------------------------------------------------------
(* Results: the wire *)

\* Type correctness of the writer: in particular a running call has sent fewer
\* rows than its batch has, so write_batch never sends past the end.
THEOREM TypeCorrect == Spec => []TypeOK
<1>1. IInv => TypeOK
  BY DEF IInv
<1> QED
  BY <1>1, Invariance, PTL

\* The wire is the attempts in order, across failed, dropped and repeated
\* calls of write_batch.
THEOREM WireInOrder == Spec => []WireIsAttemptsInOrder
<1>1. IInv => WireIsAttemptsInOrder
  BY DEF IInv
<1> QED
  BY <1>1, Invariance, PTL

\* A batch that write_batch rejects for its schema or a value, on any backend
\* and at any point of the load, has no row on the wire.
THEOREM RejectionLeavesNoRows == Spec => []RejectedBatchLeavesNoRows
<1>1. IInv => RejectedBatchLeavesNoRows
  BY DEF IInv
<1> QED
  BY <1>1, Invariance, PTL

\* A batch for which write_batch returned Ok is on the wire with all its rows.
THEOREM AcceptanceIsComplete == Spec => []AcceptedBatchIsComplete
<1>1. IInv => AcceptedBatchIsComplete
  BY DEF IInv
<1> QED
  BY <1>1, Invariance, PTL

-----------------------------------------------------------------------------
(* The statistics: they count the rows of accepted batches on the wire, and *)
(* finish reports what it published.                                        *)

\* Each row on the wire is of the running attempt, behind all the others, or of
\* an attempt that ended and is known to have sent something.
RowsHaveAttempts ==
    \A p \in 1..Len(sink) :
       \/ sink[p].attempt \in 1..Len(attempts) /\ attempts[sink[p].attempt].taken > 0
       \/ status = "writing" /\ sink[p].attempt = Current /\ call.at < p

\* A finished writer has published its wire and reported its statistics.
FinishedIsPublished == status = "finished" => table = sink /\ reported = stats

SInv ==
    /\ RowsHaveAttempts
    /\ StatsCountAcceptedRows
    /\ FinishedIsPublished

-----------------------------------------------------------------------------
(* Counting *)

LEMMA CountTo ==
    ASSUME NEW n \in Nat
    PROVE  IsFiniteSet(1..n) /\ Cardinality(1..n) = n
<1>1. 1 \in Int /\ n \in Int
  OBVIOUS
<1>2. IsFiniteSet(1..n) /\ Cardinality(1..n) = IF 1 > n THEN 0 ELSE n - 1 + 1
  BY <1>1, FS_Interval
<1> QED
  BY <1>2

LEMMA AcceptedCounts ==
    ASSUME TypeOK
    PROVE  /\ IsFiniteSet(AcceptedAttempts) /\ Cardinality(AcceptedAttempts) \in Nat
           /\ IsFiniteSet(AcceptedOnWire) /\ Cardinality(AcceptedOnWire) \in Nat
           /\ Cardinality(AcceptedOnWire) <= Len(sink)
<1>1. Len(attempts) \in Nat /\ Len(sink) \in Nat
  BY DEF TypeOK
<1>2. /\ IsFiniteSet(1..Len(attempts)) /\ IsFiniteSet(1..Len(sink))
      /\ Cardinality(1..Len(sink)) = Len(sink)
  BY <1>1, CountTo
<1>3. AcceptedAttempts \in SUBSET (1..Len(attempts)) /\ AcceptedOnWire \in SUBSET (1..Len(sink))
  BY DEF AcceptedAttempts, AcceptedOnWire
<1> QED
  BY <1>2, <1>3, FS_Subset, FS_CardinalityType

LEMMA SaturatedSum ==
    ASSUME NEW c \in Nat, NEW n \in Nat
    PROVE  SaturatingAdd(Saturate(c), n) = Saturate(c + n)
  BY BulkWriterAssumption DEF SaturatingAdd, Saturate

\* The statistics after a batch of n rows whose rows and attempt are new.
LEMMA CountedBatch ==
    ASSUME TypeOK, StatsCountAcceptedRows, NEW n \in Nat, NEW first \in Nat,
           stats' = RecordAcceptedBatch(n),
           Current \notin AcceptedAttempts,
           AcceptedAttempts' = AcceptedAttempts \cup {Current},
           AcceptedOnWire \cap ((first + 1)..(first + n)) = {},
           AcceptedOnWire' = AcceptedOnWire \cup ((first + 1)..(first + n))
    PROVE  StatsCountAcceptedRows'
<1> DEFINE rows == (first + 1)..(first + n)
<1>1. /\ IsFiniteSet(AcceptedAttempts) /\ Cardinality(AcceptedAttempts) \in Nat
      /\ IsFiniteSet(AcceptedOnWire) /\ Cardinality(AcceptedOnWire) \in Nat
  BY AcceptedCounts
<1>2. Cardinality(AcceptedAttempts') = Cardinality(AcceptedAttempts) + 1
  BY <1>1, FS_AddElement
<1>3. IsFiniteSet(rows) /\ Cardinality(rows) = n
  <2>1. first + 1 \in Int /\ first + n \in Int
    OBVIOUS
  <2>2. IsFiniteSet(rows)
        /\ Cardinality(rows) = IF first + 1 > first + n THEN 0 ELSE (first + n) - (first + 1) + 1
    BY <2>1, FS_Interval
  <2> QED
    BY <2>2
<1>4. Cardinality(AcceptedOnWire') = Cardinality(AcceptedOnWire) + n
  <2> HIDE DEF rows
  <2>1. /\ AcceptedOnWire' = AcceptedOnWire \cup rows
        /\ AcceptedOnWire \cap rows = {}
    BY DEF rows
  <2>2. Cardinality(AcceptedOnWire \cup rows)
          = Cardinality(AcceptedOnWire) + Cardinality(rows) - Cardinality({})
    BY <1>1, <1>3, <2>1, FS_Union
  <2>3. Cardinality(AcceptedOnWire') = Cardinality(AcceptedOnWire) + n - 0
    BY <1>3, <2>1, <2>2, FS_EmptySet
  <2> QED
    BY <1>1, <2>3
<1>5. /\ stats'.rows = SaturatingAdd(Saturate(Cardinality(AcceptedOnWire)), n)
      /\ stats'.batches = SaturatingAdd(Saturate(Cardinality(AcceptedAttempts)), 1)
  BY DEF RecordAcceptedBatch, StatsCountAcceptedRows
<1>6. /\ stats'.rows = Saturate(Cardinality(AcceptedOnWire) + n)
      /\ stats'.batches = Saturate(Cardinality(AcceptedAttempts) + 1)
  BY <1>1, <1>5, SaturatedSum
<1>7. /\ stats'.rows = Saturate(Cardinality(AcceptedOnWire'))
      /\ stats'.batches = Saturate(Cardinality(AcceptedAttempts'))
  BY <1>2, <1>4, <1>6
<1> QED
  BY <1>7 DEF StatsCountAcceptedRows, Saturate

\* The statistics after a step that accepts nothing.
LEMMA NothingCounted ==
    ASSUME StatsCountAcceptedRows, stats' = stats,
           AcceptedAttempts' = AcceptedAttempts, AcceptedOnWire' = AcceptedOnWire
    PROVE  StatsCountAcceptedRows'
  BY DEF StatsCountAcceptedRows, Saturate

\* The attempt that ends joins the accepted ones if it was accepted.
LEMMA AcceptedWith ==
    ASSUME TypeOK, NEW a \in Attempt, attempts' = Append(attempts, a)
    PROVE  /\ Current \notin AcceptedAttempts
           /\ a.outcome = "accepted" => AcceptedAttempts' = AcceptedAttempts \cup {Current}
           /\ a.outcome # "accepted" => AcceptedAttempts' = AcceptedAttempts
<1>1. /\ Len(attempts') = Current /\ Len(attempts) \in Nat /\ attempts'[Current] = a
      /\ \A i \in 1..Len(attempts) : attempts'[i] = attempts[i]
  BY HistoryGrows
<1>2. /\ 1..Current = (1..Len(attempts)) \cup {Current}
      /\ Current \notin 1..Len(attempts)
  BY <1>1 DEF Current
<1>3. AcceptedAttempts' = {i \in (1..Len(attempts)) \cup {Current} :
                              attempts'[i].outcome = "accepted"}
  BY <1>1, <1>2 DEF AcceptedAttempts
<1> QED
  BY <1>1, <1>2, <1>3 DEF AcceptedAttempts

-----------------------------------------------------------------------------
(* The four classes of steps, as in BulkWriterProofs *)

\* Nothing is written, and no call ends.
LEMMA QuietStep ==
    ASSUME SInv, status # "writing", UNCHANGED <<stats, attempts, sink>>
    PROVE  RowsHaveAttempts' /\ StatsCountAcceptedRows'
<1>1. RowsHaveAttempts'
  BY DEF SInv, RowsHaveAttempts
<1>2. AcceptedAttempts' = AcceptedAttempts
  BY DEF AcceptedAttempts
<1>3. AcceptedOnWire' = AcceptedOnWire
  BY <1>2 DEF AcceptedOnWire
<1> QED
  BY <1>1, <1>2, <1>3, NothingCounted DEF SInv

\* A call ends before it sent anything.
LEMMA RefusedStep ==
    ASSUME IInv, SInv, status = "open", NEW b \in Batches, NEW outcome \in Outcomes,
           Return(b, Len(sink), 0, outcome), sink' = sink,
           IF outcome = "accepted" THEN stats' = RecordAcceptedBatch(0) ELSE stats' = stats
    PROVE  SInv'
<1> DEFINE a == [rows |-> b.n, at |-> Len(sink), taken |-> 0, outcome |-> outcome]
<1>1. attempts' = Append(attempts, a) /\ status' = "open" /\ Len(sink) \in Nat /\ b.n \in Nat
  BY BulkWriterAssumption DEF Return, IInv, TypeOK
<1>2. a \in Attempt /\ a.outcome = outcome
  BY <1>1 DEF Attempt
<1> HIDE DEF a
<1>3. /\ Len(attempts') = Current /\ Len(attempts) \in Nat
      /\ \A i \in 1..Len(attempts) : attempts'[i] = attempts[i]
  BY <1>1, <1>2, HistoryGrows DEF IInv
<1>4. \A p \in 1..Len(sink) : sink[p].attempt \in 1..Len(attempts)
  BY DEF SInv, RowsHaveAttempts
<1>5. RowsHaveAttempts'
  BY <1>3 DEF SInv, RowsHaveAttempts, Current
<1>6. /\ Current \notin AcceptedAttempts
      /\ outcome = "accepted" => AcceptedAttempts' = AcceptedAttempts \cup {Current}
      /\ outcome # "accepted" => AcceptedAttempts' = AcceptedAttempts
  BY <1>1, <1>2, AcceptedWith DEF IInv
<1>7. AcceptedOnWire' = AcceptedOnWire
  <2>1. Current \notin 1..Len(attempts)
    BY <1>3 DEF Current
  <2> QED
    BY <1>4, <1>6, <2>1 DEF AcceptedOnWire
<1>8. StatsCountAcceptedRows'
  <2>1. CASE outcome = "accepted"
    <3>1. AcceptedOnWire' = AcceptedOnWire \cup ((0 + 1)..(0 + 0))
          /\ AcceptedOnWire \cap ((0 + 1)..(0 + 0)) = {}
      BY <1>7
    <3> QED
      BY <1>6, <2>1, <3>1, CountedBatch DEF IInv, SInv
  <2>2. CASE outcome # "accepted"
    BY <1>6, <1>7, <2>2, NothingCounted DEF SInv
  <2> QED
    BY <2>1, <2>2
<1> QED
  BY <1>1, <1>5, <1>8 DEF SInv, FinishedIsPublished

\* What is known of the wire while a call sends k more rows.
LEMMA WireSends ==
    ASSUME IInv, SInv, status = "writing", NEW k \in Nat, sink' = sink \o NextRows(k)
    PROVE  /\ Sent \in Nat /\ call.at \in Nat /\ Len(sink) = call.at + Sent
           /\ Len(sink') = Len(sink) + k
           /\ \A p \in 1..call.at : /\ sink'[p] = sink[p]
                                    /\ sink[p].attempt \in 1..Len(attempts)
                                    /\ attempts[sink[p].attempt].taken > 0
           /\ \A p \in (call.at + 1)..(call.at + Sent) : sink[p].attempt = Current
           /\ \A p \in (call.at + 1)..(call.at + Sent + k) : sink'[p].attempt = Current
<1>1. Sent \in Nat /\ call.at \in Nat /\ Len(sink) \in Nat /\ Len(sink) = call.at + Sent
  BY DEF IInv, TypeOK, CallOK, Sent
<1>2. /\ Len(sink') = Len(sink) + k
      /\ \A p \in 1..Len(sink) : sink'[p] = sink[p]
      /\ \A r \in 1..k : sink'[Len(sink) + r] = [attempt |-> Current, row |-> Sent + r]
  BY <1>1, SinkGrows DEF IInv
<1>3. \A r \in 1..Sent : sink[call.at + r] = [attempt |-> Current, row |-> r]
  BY DEF IInv, WireIsAttemptsInOrder
<1>4. ASSUME NEW p \in 1..call.at
      PROVE  /\ sink'[p] = sink[p] /\ sink[p].attempt \in 1..Len(attempts)
             /\ attempts[sink[p].attempt].taken > 0
  <2>1. p \in 1..Len(sink) /\ ~(call.at < p)
    BY <1>1
  <2> QED
    BY <1>2, <2>1 DEF SInv, RowsHaveAttempts
<1>5. ASSUME NEW p \in (call.at + 1)..(call.at + Sent) PROVE sink[p].attempt = Current
  <2>1. p - call.at \in 1..Sent /\ call.at + (p - call.at) = p
    BY <1>1
  <2>2. sink[call.at + (p - call.at)] = [attempt |-> Current, row |-> p - call.at]
    BY <1>3, <2>1
  <2> QED
    BY <2>1, <2>2
<1>6. ASSUME NEW p \in (call.at + 1)..(call.at + Sent + k) PROVE sink'[p].attempt = Current
  <2>1. \/ p \in 1..Len(sink) /\ p \in (call.at + 1)..(call.at + Sent)
        \/ \E r \in 1..k : p = Len(sink) + r
    <3>1. CASE p > Len(sink)
      <4>1. p - Len(sink) \in 1..k
        BY <1>1, <3>1
      <4>2. p = Len(sink) + (p - Len(sink))
        BY <1>1
      <4> QED
        BY <4>1, <4>2, Zenon
    <3>2. CASE ~(p > Len(sink))
      BY <1>1, <3>2
    <3> QED
      BY <3>1, <3>2
  <2>2. CASE p \in 1..Len(sink) /\ p \in (call.at + 1)..(call.at + Sent)
    BY <1>2, <1>5, <2>2
  <2>3. CASE \E r \in 1..k : p = Len(sink) + r
    <3>1. PICK r \in 1..k : p = Len(sink) + r
      BY <2>3
    <3>2. sink'[Len(sink) + r] = [attempt |-> Current, row |-> Sent + r]
      BY <1>2
    <3> QED
      BY <3>1, <3>2
  <2> QED
    BY <2>1, <2>2, <2>3
<1> QED
  BY <1>1, <1>2, <1>4, <1>5, <1>6

\* A call sends on.
LEMMA SendingStep ==
    ASSUME IInv, SInv, status = "writing", NEW k \in Nat, sink' = sink \o NextRows(k),
           UNCHANGED <<stats, attempts, call, status>>
    PROVE  SInv'
<1>1. /\ Sent \in Nat /\ call.at \in Nat /\ Len(sink) = call.at + Sent
      /\ Len(sink') = Len(sink) + k
      /\ \A p \in 1..call.at : /\ sink'[p] = sink[p]
                               /\ sink[p].attempt \in 1..Len(attempts)
                               /\ attempts[sink[p].attempt].taken > 0
      /\ \A p \in (call.at + 1)..(call.at + Sent) : sink[p].attempt = Current
      /\ \A p \in (call.at + 1)..(call.at + Sent + k) : sink'[p].attempt = Current
  BY WireSends
<1>2. Current' = Current /\ Current \notin 1..Len(attempts)
  BY DEF Current, IInv, TypeOK
<1>3. RowsHaveAttempts'
  <2> SUFFICES ASSUME NEW p \in 1..Len(sink')
               PROVE  \/ /\ sink'[p].attempt \in 1..Len(attempts)
                         /\ attempts[sink'[p].attempt].taken > 0
                      \/ sink'[p].attempt = Current /\ call.at < p
    BY <1>2 DEF RowsHaveAttempts
  <2>1. \/ p \in 1..call.at
        \/ p \in (call.at + 1)..(call.at + Sent + k) /\ call.at < p
    BY ONLY <1>1, k \in Nat, p \in 1..Len(sink')
  <2> QED
    BY <1>1, <2>1
<1>4. AcceptedAttempts' = AcceptedAttempts /\ Current \notin AcceptedAttempts
  BY <1>2 DEF AcceptedAttempts
<1>5. AcceptedOnWire' = AcceptedOnWire
  <2>1. AcceptedOnWire = {p \in 1..call.at : sink[p].attempt \in AcceptedAttempts}
    <3>1. \A p \in 1..Len(sink) : p \in 1..call.at \/ sink[p].attempt = Current
      BY ONLY <1>1
    <3>2. 1..call.at \subseteq 1..Len(sink)
      BY ONLY <1>1
    <3> QED
      BY ONLY <3>1, <3>2, <1>4, Zenon DEF AcceptedOnWire
  <2>2. AcceptedOnWire' = {p \in 1..(call.at + Sent + k) : sink'[p].attempt \in AcceptedAttempts}
    BY <1>1, <1>4 DEF AcceptedOnWire
  <2>3. \A p \in 1..(call.at + Sent + k) :
           \/ p \in 1..call.at /\ sink'[p] = sink[p]
           \/ p \notin 1..call.at /\ sink'[p].attempt = Current
    BY <1>1
  <2>4. 1..call.at \subseteq 1..(call.at + Sent + k)
    BY <1>1
  <2> QED
    BY <1>4, <2>1, <2>2, <2>3, <2>4
<1> QED
  BY <1>3, <1>4, <1>5, NothingCounted DEF SInv, FinishedIsPublished

\* A call that was sending ends after k more rows.
LEMMA EndedStep ==
    ASSUME IInv, SInv, status = "writing", NEW k \in Nat, sink' = sink \o NextRows(k),
           NEW outcome \in Outcomes,
           Return(call.batch, call.at, Sent + k, outcome),
           IF outcome = "accepted" THEN stats' = RecordAcceptedBatch(Sent + k)
                                   ELSE stats' = stats
    PROVE  SInv'
<1> DEFINE a == [rows |-> call.batch.n, at |-> call.at, taken |-> Sent + k,
                 outcome |-> outcome]
<1>1. /\ Sent \in Nat /\ call.at \in Nat /\ Len(sink) = call.at + Sent
      /\ Len(sink') = Len(sink) + k
      /\ \A p \in 1..call.at : /\ sink'[p] = sink[p]
                               /\ sink[p].attempt \in 1..Len(attempts)
                               /\ attempts[sink[p].attempt].taken > 0
      /\ \A p \in (call.at + 1)..(call.at + Sent) : sink[p].attempt = Current
      /\ \A p \in (call.at + 1)..(call.at + Sent + k) : sink'[p].attempt = Current
  BY WireSends
<1>2. attempts' = Append(attempts, a) /\ status' = "open"
  BY DEF Return
<1>3. a \in Attempt /\ a.taken = Sent + k /\ a.outcome = outcome
  <2>1. call.batch.n \in Nat
    BY BulkWriterAssumption DEF IInv, TypeOK, CallOK
  <2> QED
    BY <1>1, <2>1 DEF Attempt
<1> HIDE DEF a
<1>4. /\ Len(attempts') = Current /\ Len(attempts) \in Nat /\ attempts'[Current] = a
      /\ \A i \in 1..Len(attempts) : attempts'[i] = attempts[i]
  BY <1>2, <1>3, HistoryGrows DEF IInv
<1>5. /\ Current \in 1..Current /\ Current \notin 1..Len(attempts)
      /\ \A i \in 1..Len(attempts) : i \in 1..Current
  BY <1>4 DEF Current
<1>6. RowsHaveAttempts'
  <2> SUFFICES ASSUME NEW p \in 1..Len(sink')
               PROVE  /\ sink'[p].attempt \in 1..Len(attempts')
                      /\ attempts'[sink'[p].attempt].taken > 0
    BY DEF RowsHaveAttempts
  <2>1. CASE p \in 1..call.at
    <3>1. /\ sink'[p] = sink[p] /\ sink[p].attempt \in 1..Len(attempts)
          /\ attempts[sink[p].attempt].taken > 0
      BY <1>1, <2>1
    <3> QED
      BY <1>4, <1>5, <3>1
  <2>2. CASE p \in (call.at + 1)..(call.at + Sent + k)
    <3>1. Sent + k > 0 /\ sink'[p].attempt = Current
      BY <1>1, <2>2
    <3> QED
      BY <1>3, <1>4, <1>5, <3>1
  <2>3. p \in 1..(call.at + Sent + k)
    BY <1>1
  <2> QED
    BY <1>1, <2>1, <2>2, <2>3
<1>7. /\ Current \notin AcceptedAttempts
      /\ outcome = "accepted" => AcceptedAttempts' = AcceptedAttempts \cup {Current}
      /\ outcome # "accepted" => AcceptedAttempts' = AcceptedAttempts
  BY <1>2, <1>3, AcceptedWith DEF IInv
<1>8. AcceptedOnWire = {p \in 1..call.at : sink[p].attempt \in AcceptedAttempts}
  BY <1>1, <1>7 DEF AcceptedOnWire
<1>9. StatsCountAcceptedRows'
  <2>1. CASE outcome = "accepted"
    <3>1. AcceptedOnWire \cap ((call.at + 1)..(call.at + (Sent + k))) = {}
      BY <1>1, <1>8
    <3>2. AcceptedOnWire' = AcceptedOnWire \cup ((call.at + 1)..(call.at + (Sent + k)))
      <4>1. AcceptedAttempts' = AcceptedAttempts \cup {Current}
        BY <1>7, <2>1
      <4>2. \A p \in 1..call.at : sink'[p].attempt \in AcceptedAttempts'
                                    <=> sink[p].attempt \in AcceptedAttempts
        BY <1>1, <1>5, <4>1
      <4>3. \A p \in (call.at + 1)..(call.at + (Sent + k)) :
               sink'[p].attempt \in AcceptedAttempts'
        BY <1>1, <4>1
      <4>4. 1..Len(sink') = (1..call.at) \cup ((call.at + 1)..(call.at + (Sent + k)))
        BY <1>1
      <4>5. AcceptedOnWire' = {p \in 1..Len(sink') : sink'[p].attempt \in AcceptedAttempts'}
        BY DEF AcceptedOnWire
      <4> QED
        BY <1>8, <4>2, <4>3, <4>4, <4>5
    <3>3. Sent + k \in Nat /\ stats' = RecordAcceptedBatch(Sent + k)
      BY <1>1, <2>1
    <3> QED
      BY <1>1, <1>7, <2>1, <3>1, <3>2, <3>3, CountedBatch DEF IInv, SInv
  <2>2. CASE outcome # "accepted"
    <3>1. AcceptedAttempts' = AcceptedAttempts
      BY <1>7, <2>2
    <3>2. AcceptedOnWire' = {p \in 1..(call.at + Sent + k) :
                                sink'[p].attempt \in AcceptedAttempts}
      BY <1>1, <3>1 DEF AcceptedOnWire
    <3>3. \A p \in 1..(call.at + Sent + k) :
             \/ p \in 1..call.at /\ sink'[p] = sink[p]
             \/ p \notin 1..call.at /\ sink'[p].attempt = Current
      BY <1>1
    <3>4. 1..call.at \subseteq 1..(call.at + Sent + k)
      BY <1>1
    <3>5. AcceptedOnWire' = AcceptedOnWire
      BY <1>7, <1>8, <3>2, <3>3, <3>4
    <3> QED
      BY <2>2, <3>1, <3>5, NothingCounted DEF SInv
  <2> QED
    BY <2>1, <2>2
<1> QED
  BY <1>2, <1>6, <1>9 DEF SInv, FinishedIsPublished

-----------------------------------------------------------------------------
(* The actions *)

LEMMA InitSInv == Init => SInv
<1> SUFFICES ASSUME Init PROVE SInv
  OBVIOUS
<1>1. AcceptedAttempts = {} /\ AcceptedOnWire = {}
  BY DEF Init, AcceptedAttempts, AcceptedOnWire
<1>2. Saturate(0) = 0
  BY BulkWriterAssumption DEF Saturate
<1>3. StatsCountAcceptedRows
  BY <1>1, <1>2, FS_EmptySet DEF Init, ZeroStats, StatsCountAcceptedRows
<1> QED
  BY <1>3 DEF Init, SInv, RowsHaveAttempts, FinishedIsPublished

LEMMA SendUnitSInv == ASSUME IInv, SInv, NEW e \in call.ends, SendUnit(e) PROVE SInv'
<1>1. status = "writing" /\ Adjacent(call.ends, Sent, e)
  BY DEF SendUnit
<1>2. e - Sent \in Nat /\ e \in 1..call.batch.n /\ Sent + (e - Sent) = e /\ call.batch.bad = {}
  BY <1>1, NextUnit
<1>3. sink' = sink \o NextRows(e - Sent)
  BY <1>2 DEF SendUnit
<1>4. CASE LastUnit(e)
  <2>1. /\ stats' = RecordAcceptedBatch(Sent + (e - Sent))
        /\ Return(call.batch, call.at, Sent + (e - Sent), "accepted")
    BY <1>2, <1>4 DEF SendUnit, LastUnit
  <2>2. "accepted" \in Outcomes
    BY DEF Outcomes
  <2> QED
    BY <1>1, <1>2, <1>3, <2>1, <2>2, EndedStep
<1>5. CASE ~LastUnit(e)
  <2>1. UNCHANGED <<stats, attempts, status, call>>
    BY <1>2, <1>5 DEF SendUnit
  <2> QED
    BY <1>1, <1>2, <1>3, <2>1, SendingStep
<1> QED
  BY <1>4, <1>5

LEMMA SendFailsSInv ==
    ASSUME IInv, SInv, NEW e \in call.ends, NEW k \in 0..(e - Sent), SendFails(e, k)
    PROVE  SInv'
<1>1. status = "writing" /\ Adjacent(call.ends, Sent, e)
  BY DEF SendFails
<1>2. k \in Nat
  BY <1>1, NextUnit
<1>3. "PacketWrite" \in Outcomes /\ "PacketWrite" # "accepted"
  BY DEF Outcomes
<1> QED
  BY <1>1, <1>2, <1>3, EndedStep DEF SendFails

LEMMA CancelWriteSInv ==
    ASSUME IInv, SInv, NEW k \in Pending, CancelWrite(k) PROVE SInv'
<1>1. status = "writing"
  BY DEF CancelWrite
<1>2. k \in Nat
  <2>1. CASE k # 0
    <3>1. PICK e \in call.ends : Adjacent(call.ends, Sent, e) /\ k \in 0..(e - Sent)
      BY <2>1 DEF Pending
    <3> QED
      BY <1>1, <3>1, NextUnit
  <2> QED
    BY <2>1
<1>3. "cancelled" \in Outcomes /\ "cancelled" # "accepted"
  BY DEF Outcomes
<1> QED
  BY <1>1, <1>2, <1>3, EndedStep DEF CancelWrite

LEMMA NextSInv == IInv /\ SInv /\ [Next]_vars => SInv'
<1> SUFFICES ASSUME IInv, SInv, [Next]_vars PROVE SInv'
  OBVIOUS
<1>1. CASE New \/ CancelNew \/ Finish \/ DropWriter
  <2>1. /\ status # "writing" /\ status' # "finished"
        /\ UNCHANGED <<stats, attempts, sink>>
    BY <1>1 DEF New, CancelNew, Finish, DropWriter
  <2> QED
    BY <2>1, QuietStep DEF SInv, FinishedIsPublished
<1>2. ASSUME NEW ok \in BOOLEAN, ColumnsReply(ok) \/ InsertBulkReply(ok) PROVE SInv'
  <2>1. /\ status # "writing" /\ status' # "finished"
        /\ UNCHANGED <<stats, attempts, sink>>
    BY <1>2 DEF ColumnsReply, InsertBulkReply
  <2> QED
    BY <2>1, QuietStep DEF SInv, FinishedIsPublished
<1>3. CASE Finalized
  <2>1. status # "writing" /\ table' = sink' /\ reported' = stats'
        /\ UNCHANGED <<stats, attempts, sink>>
    BY <1>3 DEF Finalized
  <2> QED
    BY <2>1, QuietStep DEF SInv, FinishedIsPublished
<1>4. ASSUME NEW published \in BOOLEAN, FinishInterrupted(published) PROVE SInv'
  <2>1. /\ status # "writing" /\ status' # "finished"
        /\ UNCHANGED <<stats, attempts, sink>>
    BY <1>4 DEF FinishInterrupted
  <2> QED
    BY <2>1, QuietStep DEF SInv, FinishedIsPublished
<1>5. CASE vars' = vars
  <2>1. AcceptedAttempts' = AcceptedAttempts
    BY <1>5 DEF vars, AcceptedAttempts
  <2>2. AcceptedOnWire' = AcceptedOnWire /\ Current' = Current
    BY <1>5, <2>1 DEF vars, AcceptedOnWire, Current
  <2>3. StatsCountAcceptedRows'
    BY <1>5, <2>1, <2>2, NothingCounted DEF vars, SInv
  <2> QED
    BY <1>5, <2>2, <2>3 DEF vars, SInv, RowsHaveAttempts, FinishedIsPublished
<1>6. ASSUME NEW b \in Batches, RejectSchema(b) PROVE SInv'
  BY <1>6, RefusedStep DEF RejectSchema, MayWrite, Outcomes, Rejections
<1>7. ASSUME NEW b \in Batches, RejectValue(b) PROVE SInv'
  BY <1>7, RefusedStep DEF RejectValue, MayWrite, Outcomes, Rejections
<1>8. ASSUME NEW b \in Batches, AcceptEmpty(b) PROVE SInv'
  BY <1>8, RefusedStep DEF AcceptEmpty, MayWrite, Outcomes
<1>9. ASSUME NEW b \in Batches, NEW ends \in Units(b), BeginSending(b, ends) PROVE SInv'
  <2>1. /\ status # "writing" /\ status' # "finished"
        /\ UNCHANGED <<stats, attempts, sink>>
    BY <1>9 DEF BeginSending, MayWrite
  <2> QED
    BY <2>1, QuietStep DEF SInv, FinishedIsPublished
<1>10. ASSUME NEW e \in call.ends, SendUnit(e) PROVE SInv'
  BY <1>10, SendUnitSInv
<1>11. ASSUME NEW e \in call.ends, NEW k \in 0..(e - Sent), SendFails(e, k) PROVE SInv'
  BY <1>11, SendFailsSInv
<1>12. ASSUME NEW k \in Pending, CancelWrite(k) PROVE SInv'
  BY <1>12, CancelWriteSInv
<1>13. CASE Gone
  BY <1>5, <1>13 DEF Gone
<1> QED
  BY <1>1, <1>2, <1>3, <1>4, <1>5, <1>6, <1>7, <1>8, <1>9, <1>10, <1>11, <1>12, <1>13
     DEF Next, Step

LEMMA StatsInvariance == Spec => [](IInv /\ SInv)
<1>1. Init => IInv /\ SInv
  BY InitIInv, InitSInv
<1>2. IInv /\ SInv /\ [Next]_vars => (IInv /\ SInv)'
  BY NextIInv, NextSInv
<1> QED
  BY <1>1, <1>2, PTL DEF Spec

-----------------------------------------------------------------------------
(* Results: the statistics *)

\* After any calls, failed, dropped or repeated, the statistics count the rows
\* on the wire that belong to accepted batches, and those batches.
THEOREM AcceptedRowsAreCounted == Spec => []StatsCountAcceptedRows
<1>1. SInv => StatsCountAcceptedRows
  BY DEF SInv
<1> QED
  BY <1>1, StatsInvariance, PTL

\* finish never reports more rows than it published, and reports all of them
\* unless an attempt was broken off.
THEOREM FinishedReportIsPublished == Spec => []FinishReportsPublishedRows
<1>1. ASSUME IInv, SInv, status = "finished" PROVE FinishReportsPublishedRows
  <2>1. table = sink /\ reported.rows = Saturate(Cardinality(AcceptedOnWire))
    BY <1>1 DEF SInv, FinishedIsPublished, StatsCountAcceptedRows
  <2>2. /\ Cardinality(AcceptedOnWire) \in Nat /\ Cardinality(AcceptedOnWire) <= Len(sink)
        /\ Len(sink) \in Nat
    BY <1>1, AcceptedCounts DEF IInv, TypeOK
  <2>3. reported.rows <= Len(table)
    BY <2>1, <2>2, BulkWriterAssumption DEF Saturate
  <2>4. ASSUME \A i \in 1..Len(attempts) : attempts[i].outcome \in Rejections \cup {"accepted"}
        PROVE  reported.rows = Saturate(Len(table))
    <3>1. \A p \in 1..Len(sink) : sink[p].attempt \in AcceptedAttempts
      <4> TAKE p \in 1..Len(sink)
      <4>1. sink[p].attempt \in 1..Len(attempts) /\ attempts[sink[p].attempt].taken > 0
        BY <1>1 DEF SInv, RowsHaveAttempts
      <4>2. attempts[sink[p].attempt].outcome \notin Rejections
        BY <1>1, <4>1 DEF IInv, RejectedBatchLeavesNoRows
      <4> QED
        BY <2>4, <4>1, <4>2 DEF AcceptedAttempts
    <3>2. AcceptedOnWire = 1..Len(sink)
      BY <3>1 DEF AcceptedOnWire
    <3>3. Cardinality(1..Len(sink)) = Len(sink)
      BY <2>2, CountTo
    <3> QED
      BY <2>1, <3>2, <3>3
  <2> QED
    BY <2>3, <2>4 DEF FinishReportsPublishedRows
<1>2. IInv /\ SInv => FinishReportsPublishedRows
  BY <1>1 DEF FinishReportsPublishedRows
<1> QED
  BY <1>2, StatsInvariance, PTL

-----------------------------------------------------------------------------
(* BulkWriter implements BulkLoad, for every set of batches: a write_batch *)
(* takes effect at its return, as a whole or as a failure that counts      *)
(* nothing, however many awaits it had before.                             *)

\* The refinement mapping of BulkWriter!Load.
Phase == CASE status \in {"unopened", "metadata", "starting"} -> "new"
           [] status \in {"open", "writing", "finishing"} -> "loading"
           [] OTHER -> "closed"
Loaded == IF status = "writing" THEN SubSeq(sink, 1, call.at) ELSE sink

LEMMA PhaseIs ==
    /\ status \in {"unopened", "metadata", "starting"} => Phase = "new"
    /\ status \in {"open", "writing", "finishing"} => Phase = "loading"
    /\ status \in {"finished", "closed"} => Phase = "closed"
  BY DEF Phase

LEMMA PhaseIsPrimed ==
    /\ status' \in {"unopened", "metadata", "starting"} => Phase' = "new"
    /\ status' \in {"open", "writing", "finishing"} => Phase' = "loading"
    /\ status' \in {"finished", "closed"} => Phase' = "closed"
  BY DEF Phase

LEMMA RowsAre ==
    ASSUME NEW a \in Nat, NEW k \in Nat
    PROVE  /\ Load!Rows(a, k) \in Seq(WireRow) /\ Len(Load!Rows(a, k)) = k
           /\ \A r \in 1..k : Load!Rows(a, k)[r] = [attempt |-> a, row |-> r]
<1>1. \A r \in 1..k : [attempt |-> a, row |-> r] \in WireRow
  BY DEF WireRow
<1>2. Load!Rows(a, k) \in [1..k -> WireRow]
  BY <1>1 DEF Load!Rows
<1>3. Load!Rows(a, k) \in Seq(WireRow) /\ Len(Load!Rows(a, k)) = k
  BY <1>2
<1> QED
  BY <1>3 DEF Load!Rows

LEMMA NoRows ==
    ASSUME NEW a \in Nat, NEW s \in Seq(WireRow)
    PROVE  s \o Load!Rows(a, 0) = s
<1>1. Load!Rows(a, 0) = <<>>
  BY RowsAre, EmptySeq
<1> QED
  BY <1>1, ConcatEmptySeq

\* rows is what follows the first `at` elements of old once more is appended,
\* of which `sent` elements were there before.
Follows(rows, old, at, sent, more) ==
    /\ Len(old) = at + sent /\ Len(rows) = sent + Len(more)
    /\ \A r \in 1..sent : rows[r] = old[at + r]
    /\ \A r \in 1..Len(more) : rows[sent + r] = more[r]

CutAt(at, old, more, rows) ==
    /\ old \o more = SubSeq(old, 1, at) \o rows
    /\ SubSeq(old \o more, 1, at) = SubSeq(old, 1, at)

\* A sequence that was extended, cut at an earlier length.
LEMMA CutConcat ==
    ASSUME NEW S, NEW old \in Seq(S), NEW more \in Seq(S), NEW rows \in Seq(S),
           NEW at \in Nat, NEW sent \in Nat, Follows(rows, old, at, sent, more)
    PROVE  CutAt(at, old, more, rows)
<1> DEFINE new == old \o more
           before == SubSeq(old, 1, at)
           cut == before \o rows
<1>0. /\ Len(old) = at + sent /\ Len(rows) = sent + Len(more)
      /\ \A r \in 1..sent : rows[r] = old[at + r]
      /\ \A r \in 1..Len(more) : rows[sent + r] = more[r]
  BY DEF Follows
<1>1. Len(more) \in Nat
  OBVIOUS
<1>2. /\ new \in Seq(S) /\ Len(new) = at + sent + Len(more)
      /\ \A i \in 1..(at + sent + Len(more)) :
            new[i] = IF i <= at + sent THEN old[i] ELSE more[i - (at + sent)]
  <2>1. /\ new \in Seq(S) /\ Len(new) = Len(old) + Len(more)
        /\ \A i \in 1..(Len(old) + Len(more)) :
              new[i] = IF i <= Len(old) THEN old[i] ELSE more[i - Len(old)]
    BY ConcatProperties
  <2> HIDE DEF new
  <2> QED
    BY <1>0, <2>1
<1>3. before \in Seq(S) /\ Len(before) = at /\ \A i \in 1..at : before[i] = old[i]
  BY <1>0
<1> HIDE DEF new, before
<1>4. /\ cut \in Seq(S) /\ Len(cut) = at + (sent + Len(more))
      /\ \A i \in 1..(at + (sent + Len(more))) :
            cut[i] = IF i <= at THEN before[i] ELSE rows[i - at]
  <2>1. /\ cut \in Seq(S) /\ Len(cut) = Len(before) + Len(rows)
        /\ \A i \in 1..(Len(before) + Len(rows)) :
              cut[i] = IF i <= Len(before) THEN before[i] ELSE rows[i - Len(before)]
    <3>1. before \in Seq(S)
      BY <1>3
    <3> QED
      BY ONLY <3>1, rows \in Seq(S), ConcatProperties DEF cut
  <2> HIDE DEF cut
  <2> QED
    BY <1>0, <1>3, <2>1
<1> HIDE DEF cut
<1>5. \A i \in 1..(at + sent + Len(more)) : new[i] = cut[i]
  <2> SUFFICES ASSUME NEW i \in 1..(at + sent + Len(more)) PROVE new[i] = cut[i]
    OBVIOUS
  <2>1. CASE i <= at
    BY <1>1, <1>2, <1>3, <1>4, <2>1
  <2>2. CASE at < i /\ i <= at + sent
    <3>1. i - at \in 1..sent /\ at + (i - at) = i
      BY <2>2
    <3>2. new[i] = old[i] /\ cut[i] = rows[i - at]
      BY <1>1, <1>2, <1>4, <2>2
    <3> QED
      BY <1>0, <3>1, <3>2
  <2>3. CASE at + sent < i
    <3>1. i - (at + sent) \in 1..Len(more) /\ sent + (i - (at + sent)) = i - at
      BY <1>1, <2>3
    <3>2. new[i] = more[i - (at + sent)] /\ cut[i] = rows[i - at]
      BY <1>1, <1>2, <1>4, <2>3
    <3> QED
      BY <1>0, <3>1, <3>2
  <2> QED
    BY <2>1, <2>2, <2>3
<1>6. Len(new) = Len(cut)
  BY <1>1, <1>2, <1>4
<1>7. new = cut
  BY <1>2, <1>4, <1>5, <1>6, SeqEqual
<1>8. SubSeq(new, 1, at) = before
  <2>1. /\ SubSeq(new, 1, at) \in Seq(S) /\ Len(SubSeq(new, 1, at)) = at
        /\ \A i \in 1..at : SubSeq(new, 1, at)[i] = new[i]
    BY <1>1, <1>2
  <2>2. \A i \in 1..at : new[i] = before[i]
    BY <1>1, <1>2, <1>3
  <2> QED
    BY <1>3, <2>1, <2>2, SeqEqual
<1> QED
  BY <1>7, <1>8 DEF CutAt, new, before, cut

\* What was loaded before the running attempt, and the rows it has sent.
LEMMA SplitSink ==
    ASSUME IInv, status = "writing", NEW k \in Nat, sink' = sink \o NextRows(k)
    PROVE  /\ sink' = SubSeq(sink, 1, call.at) \o Load!Rows(Current, Sent + k)
           /\ SubSeq(sink', 1, call.at) = SubSeq(sink, 1, call.at)
<1>1. /\ sink \in Seq(WireRow) /\ Sent \in Nat /\ call.at \in Nat
      /\ Len(sink) = call.at + Sent
  BY DEF IInv, TypeOK, CallOK, Sent
<1>2. /\ NextRows(k) \in Seq(WireRow) /\ Len(NextRows(k)) = k
      /\ \A r \in 1..k : NextRows(k)[r] = [attempt |-> Current, row |-> Sent + r]
  BY <1>1, NextRowsAre DEF IInv
<1>3. Current \in Nat /\ Sent + k \in Nat
  BY <1>1 DEF IInv, TypeOK, Current
<1>4. /\ Load!Rows(Current, Sent + k) \in Seq(WireRow)
      /\ Len(Load!Rows(Current, Sent + k)) = Sent + k
      /\ \A r \in 1..(Sent + k) :
            Load!Rows(Current, Sent + k)[r] = [attempt |-> Current, row |-> r]
  BY <1>3, RowsAre
<1>5. \A r \in 1..Sent : Load!Rows(Current, Sent + k)[r] = sink[call.at + r]
  <2>1. \A r \in 1..Sent : sink[call.at + r] = [attempt |-> Current, row |-> r]
    BY DEF IInv, WireIsAttemptsInOrder
  <2>2. \A r \in 1..Sent : r \in 1..(Sent + k)
    BY <1>1
  <2> QED
    BY <1>4, <2>1, <2>2
<1>6. \A r \in 1..k : Load!Rows(Current, Sent + k)[Sent + r] = NextRows(k)[r]
  <2>1. \A r \in 1..k : Sent + r \in 1..(Sent + k)
    BY <1>1
  <2> QED
    BY <1>2, <1>4, <2>1
<1> DEFINE more == NextRows(k)
           rows == Load!Rows(Current, Sent + k)
<1>7. more \in Seq(WireRow) /\ rows \in Seq(WireRow) /\ Follows(rows, sink, call.at, Sent, more)
  BY <1>1, <1>2, <1>4, <1>5, <1>6 DEF Follows
<1> HIDE DEF more, rows
<1>8. CutAt(call.at, sink, more, rows)
  BY <1>1, <1>7, CutConcat
<1> QED
  BY <1>8 DEF CutAt, more, rows

-----------------------------------------------------------------------------
(* Steps of the load, in terms of the writer's variables *)

LEMMA LoadStutters ==
    ASSUME Phase' = Phase, Loaded' = Loaded, UNCHANGED <<stats, table>>,
           Len(attempts') = Len(attempts)
    PROVE  UNCHANGED Load!vars
  BY DEF Load!vars, Phase, Loaded

\* Open, Refuse, Publish and Abandon change the phase only, or the table.
LEMMA LoadMoves ==
    ASSUME Loaded' = Loaded, UNCHANGED <<stats, attempts>>,
           \/ Phase = "new" /\ Phase' \in {"loading", "closed"} /\ table' = table
           \/ Phase = "loading" /\ Phase' = "closed" /\ table' \in {table, Loaded}
    PROVE  Load!Next
<1>1. CASE Phase = "new" /\ Phase' = "loading" /\ table' = table
  <2>1. Load!Open
    BY <1>1 DEF Load!Open, Phase, Loaded
  <2> QED
    BY <2>1 DEF Load!Next
<1>2. CASE Phase = "new" /\ Phase' = "closed" /\ table' = table
  <2>1. Load!Refuse
    BY <1>2 DEF Load!Refuse, Phase, Loaded
  <2> QED
    BY <2>1 DEF Load!Next
<1>3. CASE Phase = "loading" /\ Phase' = "closed" /\ table' = Loaded
  <2>1. Load!Publish
    BY <1>3 DEF Load!Publish, Phase, Loaded
  <2> QED
    BY <2>1 DEF Load!Next
<1>4. CASE Phase = "loading" /\ Phase' = "closed" /\ table' = table
  <2>1. Load!Abandon
    BY <1>4 DEF Load!Abandon, Phase, Loaded
  <2> QED
    BY <2>1 DEF Load!Next
<1> QED
  BY <1>1, <1>2, <1>3, <1>4

LEMMA LoadAccepts ==
    ASSUME NEW b \in Batches, Phase = "loading", Phase' = "loading",
           Loaded' = Loaded \o Load!Rows(Current, b.n),
           stats' = RecordAcceptedBatch(b.n), Len(attempts') = Current, table' = table
    PROVE  Load!Next
<1>1. Load!Accept(b.n)
  BY DEF Load!Accept, Phase, Loaded, Current, RecordAcceptedBatch, SaturatingAdd,
         Load!SaturatingAdd
<1> QED
  BY <1>1 DEF Load!Next

LEMMA LoadFails ==
    ASSUME NEW b \in Batches, NEW k \in 0..b.n, Phase = "loading", Phase' = "loading",
           Loaded' = Loaded \o Load!Rows(Current, k),
           stats' = stats, Len(attempts') = Current, table' = table
    PROVE  Load!Next
<1>1. b.n \in Nat /\ k <= b.n /\ Phase' = Phase
  BY BulkWriterAssumption
<1>2. Load!Fail(b.n, k)
  <2>1. Phase = "loading" /\ k <= b.n
    BY <1>1
  <2>2. Loaded' = Loaded \o Load!Rows(Len(attempts) + 1, k)
    BY DEF Current
  <2>3. Len(attempts') = Len(attempts) + 1
    BY DEF Current
  <2>4. UNCHANGED <<Phase, stats, table>>
    BY <1>1
  <2> QED
    BY <2>1, <2>2, <2>3, <2>4, Zenon DEF Load!Fail, Phase, Loaded
<1> QED
  BY <1>2 DEF Load!Next

-----------------------------------------------------------------------------
(* Steps of the writer *)

\* A call that ends before anything was sent loads nothing.
LEMMA RefusedCallLoads ==
    ASSUME IInv, status = "open", NEW b \in Batches, NEW outcome,
           Return(b, Len(sink), 0, outcome), UNCHANGED sink
    PROVE  /\ Phase = "loading" /\ Phase' = "loading" /\ Len(attempts') = Current
           /\ Loaded' = Loaded \o Load!Rows(Current, 0)
<1>1. sink \in Seq(WireRow) /\ Current \in Nat /\ Len(attempts') = Current
  BY DEF IInv, TypeOK, Current, Return
<1>2. Loaded = sink /\ Loaded' = sink
  BY DEF Loaded, Return
<1>3. Phase = "loading" /\ Phase' = "loading"
  BY PhaseIs, PhaseIsPrimed DEF Return
<1> QED
  BY <1>1, <1>2, <1>3, NoRows

\* A call that ends while it is sending loads what it has sent.
LEMMA EndedCallLoads ==
    ASSUME IInv, status = "writing", NEW k \in Nat, sink' = sink \o NextRows(k),
           NEW outcome, Return(call.batch, call.at, Sent + k, outcome)
    PROVE  /\ Phase = "loading" /\ Phase' = "loading" /\ Len(attempts') = Current
           /\ Loaded' = Loaded \o Load!Rows(Current, Sent + k)
<1>1. Len(attempts') = Current
  BY DEF IInv, TypeOK, Current, Return
<1>2. Loaded = SubSeq(sink, 1, call.at) /\ Loaded' = sink'
  BY DEF Loaded, Return
<1>3. Phase = "loading" /\ Phase' = "loading"
  BY PhaseIs, PhaseIsPrimed DEF Return
<1> QED
  BY <1>1, <1>2, <1>3, SplitSink

LEMMA SendUnitLoads ==
    ASSUME IInv, NEW e \in call.ends, SendUnit(e)
    PROVE  [Load!Next]_(Load!vars)
<1>1. status = "writing" /\ Adjacent(call.ends, Sent, e)
  BY DEF SendUnit
<1>2. /\ Sent \in Nat /\ e - Sent \in Nat /\ e \in 1..call.batch.n /\ Sent + (e - Sent) = e
      /\ call.batch.bad = {} /\ call.batch \in Batches
  BY <1>1, NextUnit
<1>3. sink' = sink \o NextRows(e - Sent) /\ table' = table
  BY <1>2 DEF SendUnit
<1>4. CASE LastUnit(e)
  <2>1. /\ stats' = RecordAcceptedBatch(call.batch.n)
        /\ Return(call.batch, call.at, Sent + (e - Sent), "accepted")
        /\ e = call.batch.n
    BY <1>2, <1>4 DEF SendUnit, LastUnit
  <2>2. /\ Phase = "loading" /\ Phase' = "loading" /\ Len(attempts') = Current
        /\ Loaded' = Loaded \o Load!Rows(Current, Sent + (e - Sent))
    BY <1>1, <1>2, <1>3, <2>1, EndedCallLoads
  <2>3. Sent + (e - Sent) = call.batch.n
    BY <1>2, <2>1
  <2> QED
    BY <1>2, <1>3, <2>1, <2>2, <2>3, LoadAccepts
<1>5. CASE ~LastUnit(e)
  <2>1. UNCHANGED <<stats, attempts, status, call>>
    BY <1>2, <1>5 DEF SendUnit
  <2>2. Loaded' = Loaded
    BY <1>1, <1>2, <1>3, <2>1, SplitSink DEF Loaded
  <2>3. Phase' = Phase
    BY <2>1 DEF Phase
  <2> QED
    BY <1>3, <2>1, <2>2, <2>3, LoadStutters
<1> QED
  BY <1>4, <1>5

\* A send that fails, or whose future is dropped, after k rows.
LEMMA BrokenCallLoads ==
    ASSUME IInv, status = "writing", NEW k \in Nat, Sent + k <= call.batch.n,
           sink' = sink \o NextRows(k), NEW outcome,
           Return(call.batch, call.at, Sent + k, outcome), UNCHANGED <<stats, table>>
    PROVE  Load!Next
<1>1. call.batch \in Batches /\ Sent \in Nat /\ call.batch.n \in Nat
  BY BulkWriterAssumption DEF IInv, TypeOK, CallOK
<1>2. Sent + k \in 0..call.batch.n
  BY <1>1
<1> QED
  BY <1>1, <1>2, EndedCallLoads, LoadFails

LEMMA SendFailsLoads ==
    ASSUME IInv, NEW e \in call.ends, NEW k \in 0..(e - Sent), SendFails(e, k)
    PROVE  Load!Next
<1>1. status = "writing" /\ Adjacent(call.ends, Sent, e)
  BY DEF SendFails
<1>2. /\ Sent \in Nat /\ e - Sent \in Nat /\ e \in 1..call.batch.n /\ Sent + (e - Sent) = e
      /\ call.batch.n \in Nat
  BY <1>1, NextUnit
<1>3. k \in Nat /\ Sent + k <= call.batch.n
  BY <1>2
<1> QED
  BY <1>1, <1>3, BrokenCallLoads DEF SendFails

LEMMA CancelWriteLoads ==
    ASSUME IInv, NEW k \in Pending, CancelWrite(k)
    PROVE  Load!Next
<1>1. status = "writing"
  BY DEF CancelWrite
<1>2. Sent \in Nat /\ call.batch.n \in Nat /\ Sent <= call.batch.n
  BY <1>1, BulkWriterAssumption DEF IInv, TypeOK, CallOK
<1>3. k \in Nat /\ Sent + k <= call.batch.n
  <2>1. CASE k = 0
    BY <1>2, <2>1
  <2>2. CASE k # 0
    <3>1. PICK e \in call.ends : Adjacent(call.ends, Sent, e) /\ k \in 0..(e - Sent)
      BY <2>2 DEF Pending
    <3> QED
      BY <1>1, <3>1, NextUnit
  <2> QED
    BY <2>1, <2>2
<1> QED
  BY <1>1, <1>3, BrokenCallLoads DEF CancelWrite

LEMMA BeginSendingLoads ==
    ASSUME IInv, NEW b \in Batches, NEW ends \in Units(b), BeginSending(b, ends)
    PROVE  UNCHANGED Load!vars
<1>1. sink \in Seq(WireRow)
  BY DEF IInv, TypeOK
<1>2. /\ status = "open" /\ status' = "writing" /\ call'.at = Len(sink)
      /\ UNCHANGED <<stats, attempts, sink, table>>
  BY DEF BeginSending, MayWrite
<1>3. SubSeq(sink, 1, Len(sink)) = sink
  BY <1>1, SubSeqFull
<1>4. Loaded = sink /\ Loaded' = sink
  BY <1>2, <1>3 DEF Loaded
<1>5. Phase' = Phase
  BY <1>2, PhaseIs, PhaseIsPrimed
<1> QED
  BY <1>2, <1>4, <1>5, LoadStutters

LEMMA InitLoads == Init => Load!Init
<1> SUFFICES ASSUME Init PROVE Load!Init
  OBVIOUS
<1>1. Phase = "new" /\ Loaded = <<>> /\ Len(attempts) = 0
  BY PhaseIs DEF Init, Loaded
<1> QED
  BY <1>1 DEF Init, Load!Init, Phase, Loaded, ZeroStats

LEMMA NextLoads == IInv /\ [Next]_vars => [Load!Next]_(Load!vars)
<1> SUFFICES ASSUME IInv, [Next]_vars PROVE [Load!Next]_(Load!vars)
  OBVIOUS
<1>1. CASE New
  <2>1. /\ Phase = "new" /\ Phase' \in {"new", "closed"} /\ Loaded' = Loaded
        /\ UNCHANGED <<stats, attempts, table>>
    BY <1>1, PhaseIs, PhaseIsPrimed DEF New, Loaded
  <2> QED
    BY <2>1, LoadStutters, LoadMoves
<1>2. CASE CancelNew
  <2>1. /\ Phase = "new" /\ Phase' = "closed" /\ Loaded' = Loaded
        /\ UNCHANGED <<stats, attempts, table>>
    BY <1>2, PhaseIs, PhaseIsPrimed DEF CancelNew, Loaded
  <2> QED
    BY <2>1, LoadMoves
<1>3. ASSUME NEW ok \in BOOLEAN, ColumnsReply(ok) \/ InsertBulkReply(ok)
      PROVE  [Load!Next]_(Load!vars)
  <2>1. /\ Phase = "new" /\ Phase' \in {"new", "loading", "closed"} /\ Loaded' = Loaded
        /\ UNCHANGED <<stats, attempts, table>>
    BY <1>3, PhaseIs, PhaseIsPrimed DEF ColumnsReply, InsertBulkReply, Loaded
  <2> QED
    BY <2>1, LoadStutters, LoadMoves
<1>4. CASE Finish
  <2>1. Phase' = Phase /\ Loaded' = Loaded /\ UNCHANGED <<stats, attempts, table>>
    BY <1>4, PhaseIs, PhaseIsPrimed DEF Finish, Loaded
  <2> QED
    BY <2>1, LoadStutters
<1>5. ASSUME \/ DropWriter \/ Finalized
             \/ \E published \in BOOLEAN : FinishInterrupted(published)
      PROVE  Load!Next
  <2>1. /\ status \in {"open", "finishing"} /\ status' \in {"finished", "closed"}
        /\ table' \in {table, sink} /\ UNCHANGED <<stats, attempts, sink>>
    BY <1>5 DEF DropWriter, Finalized, FinishInterrupted
  <2>2. Phase = "loading" /\ Phase' = "closed" /\ Loaded = sink /\ Loaded' = sink
    BY <2>1, PhaseIs, PhaseIsPrimed DEF Loaded
  <2> QED
    BY <2>1, <2>2, LoadMoves
<1>6. ASSUME NEW b \in Batches, RejectSchema(b) \/ RejectValue(b) PROVE Load!Next
  <2>1. 0 \in 0..b.n
    BY BulkWriterAssumption
  <2>2. status = "open" /\ UNCHANGED <<stats, sink, table>>
    BY <1>6 DEF RejectSchema, RejectValue, MayWrite
  <2>3. PICK outcome \in Rejections : Return(b, Len(sink), 0, outcome)
    BY <1>6 DEF RejectSchema, RejectValue, Rejections
  <2> QED
    BY <2>1, <2>2, <2>3, RefusedCallLoads, LoadFails
<1>7. ASSUME NEW b \in Batches, AcceptEmpty(b) PROVE Load!Next
  <2>1. /\ status = "open" /\ UNCHANGED <<sink, table>> /\ b.n = 0
        /\ stats' = RecordAcceptedBatch(b.n) /\ Return(b, Len(sink), 0, "accepted")
    BY <1>7 DEF AcceptEmpty, MayWrite
  <2> QED
    BY <2>1, RefusedCallLoads, LoadAccepts
<1>8. ASSUME NEW b \in Batches, NEW ends \in Units(b), BeginSending(b, ends)
      PROVE  UNCHANGED Load!vars
  BY <1>8, BeginSendingLoads
<1>9. ASSUME NEW e \in call.ends, SendUnit(e) PROVE [Load!Next]_(Load!vars)
  BY <1>9, SendUnitLoads
<1>10. ASSUME NEW e \in call.ends, NEW k \in 0..(e - Sent), SendFails(e, k)
       PROVE  Load!Next
  BY <1>10, SendFailsLoads
<1>11. ASSUME NEW k \in Pending, CancelWrite(k) PROVE Load!Next
  BY <1>11, CancelWriteLoads
<1>12. CASE vars' = vars
  <2>1. Phase' = Phase /\ Loaded' = Loaded /\ UNCHANGED <<stats, attempts, table>>
    BY <1>12 DEF vars, Phase, Loaded
  <2> QED
    BY <2>1, LoadStutters
<1>13. CASE Gone
  BY <1>12, <1>13 DEF Gone
<1> QED
  BY <1>1, <1>2, <1>3, <1>4, <1>5, <1>6, <1>7, <1>8, <1>9, <1>10, <1>11, <1>12, <1>13
     DEF Next, Step

\* BulkWriter implements the abstract load, for every set of batches, payload
\* limit and counter width: each write_batch loads and counts its whole batch,
\* or counts nothing and leaves a prefix of it, in one step at its return.
THEOREM Refinement == Spec => ImplementsBulkLoad
  BY Invariance, InitLoads, NextLoads, PTL DEF Spec, ImplementsBulkLoad, Load!Spec

-----------------------------------------------------------------------------
(* A log with one more event *)

LEMMA Appended ==
    ASSUME NEW E, NEW L \in Seq(E), NEW e \in E
    PROVE  /\ Append(L, e) \in Seq(E) /\ Len(L) \in Nat /\ Len(Append(L, e)) = Len(L) + 1
           /\ DOMAIN L = 1..Len(L) /\ DOMAIN Append(L, e) = 1..(Len(L) + 1)
           /\ \A i \in 1..Len(L) : Append(L, e)[i] = L[i]
           /\ Append(L, e)[Len(L) + 1] = e
<1>1. /\ Append(L, e) \in Seq(E) /\ Len(Append(L, e)) = Len(L) + 1 /\ Len(L) \in Nat
      /\ \A i \in 1..Len(L) : Append(L, e)[i] = L[i]
      /\ Append(L, e)[Len(L) + 1] = e
  BY AppendProperties
<1> QED
  BY <1>1, LenProperties

LEMMA WhereAppended ==
    ASSUME NEW E, NEW L \in Seq(E), NEW e \in E, NEW names
    PROVE  /\ Where(L, names) \subseteq 1..Len(L)
           /\ e.name \in names => Where(Append(L, e), names) = Where(L, names) \cup {Len(L) + 1}
           /\ e.name \notin names => Where(Append(L, e), names) = Where(L, names)
<1>1. /\ Len(L) \in Nat
      /\ DOMAIN L = 1..Len(L) /\ DOMAIN Append(L, e) = 1..(Len(L) + 1)
      /\ \A i \in 1..Len(L) : Append(L, e)[i] = L[i]
      /\ Append(L, e)[Len(L) + 1] = e
  BY Appended
<1>2. 1..(Len(L) + 1) = (1..Len(L)) \cup {Len(L) + 1}
  BY <1>1
<1>3. Len(L) + 1 \notin 1..Len(L)
  BY <1>1
<1> QED
  BY <1>1, <1>2, <1>3 DEF Where

LEMMA FiniteUpTo ==
    ASSUME NEW n \in Nat, NEW S \in SUBSET (1..n)
    PROVE  IsFiniteSet(S) /\ Cardinality(S) \in Nat
<1>1. IsFiniteSet(1..n)
  BY CountTo
<1> QED
  BY <1>1, FS_Subset, FS_CardinalityType

\* One more position behind all others.
LEMMA UpToExtended ==
    ASSUME NEW n \in Nat, NEW S \in SUBSET (1..n)
    PROVE  /\ \A i \in 0..n : UpTo(S \cup {n + 1}, i) = UpTo(S, i)
           /\ UpTo(S, n) = S /\ UpTo(S, n + 1) = S
           /\ UpTo(S \cup {n + 1}, n + 1) = S \cup {n + 1}
           /\ Cardinality(S) \in Nat /\ Cardinality(S \cup {n + 1}) = Cardinality(S) + 1
           /\ \A i \in Nat : Cardinality(UpTo(S, i)) \in Nat
           /\ \A i \in Nat : Cardinality(UpTo(S, i)) <= Cardinality(S)
<1>1. IsFiniteSet(S) /\ Cardinality(S) \in Nat
  BY FiniteUpTo
<1>2. n + 1 \notin S
  OBVIOUS
<1>3. Cardinality(S \cup {n + 1}) = Cardinality(S) + 1
  BY <1>1, <1>2, FS_AddElement
<1>4. ASSUME NEW i \in Nat
      PROVE  Cardinality(UpTo(S, i)) \in Nat /\ Cardinality(UpTo(S, i)) <= Cardinality(S)
  <2>1. UpTo(S, i) \in SUBSET S
    BY DEF UpTo
  <2> QED
    BY <1>1, <2>1, FS_Subset, FS_CardinalityType
<1>5. \A i \in 0..n : UpTo(S \cup {n + 1}, i) = UpTo(S, i)
  BY DEF UpTo
<1>6. UpTo(S, n) = S /\ UpTo(S, n + 1) = S
  <2>1. \A j \in S : j <= n /\ j <= n + 1
    OBVIOUS
  <2> QED
    BY <2>1 DEF UpTo
<1>7. UpTo(S \cup {n + 1}, n + 1) = S \cup {n + 1}
  <2>1. \A j \in S \cup {n + 1} : j <= n + 1
    OBVIOUS
  <2> QED
    BY <2>1 DEF UpTo
<1> QED
  BY <1>1, <1>3, <1>4, <1>5, <1>6, <1>7

\* The new event belongs to the call that started last.
LEMMA SegmentAppended ==
    ASSUME NEW E, NEW L \in Seq(E), NEW e \in E, NEW k \in Nat
    PROVE  /\ Segment(L, k) \subseteq 1..Len(L) /\ Len(L) \in Nat
           /\ k > Cardinality(Starts(L)) => Segment(L, k) = {}
           /\ Cardinality(Starts(L)) \in Nat
           /\ e.name = "batch.started" =>
                /\ Cardinality(Starts(Append(L, e))) = Cardinality(Starts(L)) + 1
                /\ Segment(Append(L, e), k) = IF k = Cardinality(Starts(L)) + 1
                                                THEN {Len(L) + 1} ELSE Segment(L, k)
           /\ e.name # "batch.started" =>
                /\ Starts(Append(L, e)) = Starts(L)
                /\ Segment(Append(L, e), k) = IF k = Cardinality(Starts(L))
                                                THEN Segment(L, k) \cup {Len(L) + 1}
                                                ELSE Segment(L, k)
<1> DEFINE S == Starts(L)
           n == Len(L)
           T == Starts(Append(L, e))
<1>1. /\ n \in Nat /\ DOMAIN L = 1..n /\ DOMAIN Append(L, e) = (1..n) \cup {n + 1}
  BY Appended
<1>2. /\ S \in SUBSET (1..n)
      /\ e.name = "batch.started" => T = S \cup {n + 1}
      /\ e.name # "batch.started" => T = S
  BY WhereAppended DEF Starts
<1>3. /\ Segment(L, k) = {i \in 1..n : Cardinality(UpTo(S, i)) = k}
      /\ Segment(Append(L, e), k) = {i \in (1..n) \cup {n + 1} : Cardinality(UpTo(T, i)) = k}
  BY <1>1 DEF Segment
<1> HIDE DEF S, n, T
<1>4. /\ \A i \in 0..n : UpTo(S \cup {n + 1}, i) = UpTo(S, i)
      /\ UpTo(S, n + 1) = S
      /\ UpTo(S \cup {n + 1}, n + 1) = S \cup {n + 1}
      /\ Cardinality(S) \in Nat /\ Cardinality(S \cup {n + 1}) = Cardinality(S) + 1
      /\ \A i \in Nat : Cardinality(UpTo(S, i)) \in Nat
      /\ \A i \in Nat : Cardinality(UpTo(S, i)) <= Cardinality(S)
  BY <1>1, <1>2, UpToExtended
<1>5. k > Cardinality(S) => Segment(L, k) = {}
  BY <1>1, <1>3, <1>4
<1>6. ASSUME e.name = "batch.started"
      PROVE  /\ Cardinality(T) = Cardinality(S) + 1
             /\ Segment(Append(L, e), k) = IF k = Cardinality(S) + 1
                                             THEN {n + 1} ELSE Segment(L, k)
  <2>1. T = S \cup {n + 1}
    BY <1>2, <1>6
  <2>2. Segment(Append(L, e), k) = Segment(L, k) \cup (IF k = Cardinality(S) + 1
                                                         THEN {n + 1} ELSE {})
    <3>1. ASSUME NEW i \in 1..n PROVE UpTo(T, i) = UpTo(S, i)
      <4>1. i \in 0..n
        BY <1>1
      <4> QED
        BY <1>4, <2>1, <4>1
    <3>2. Cardinality(UpTo(T, n + 1)) = Cardinality(S) + 1
      BY <1>4, <2>1
    <3> QED
      BY <1>3, <3>1, <3>2
  <2>3. k = Cardinality(S) + 1 => Segment(L, k) = {}
    <3>1. k = Cardinality(S) + 1 => k > Cardinality(S)
      BY <1>4
    <3> QED
      BY <1>5, <3>1
  <2> QED
    BY <2>1, <2>2, <2>3, <1>4
<1>7. ASSUME e.name # "batch.started"
      PROVE  /\ T = S
             /\ Segment(Append(L, e), k) = IF k = Cardinality(S)
                                             THEN Segment(L, k) \cup {n + 1}
                                             ELSE Segment(L, k)
  <2>1. T = S
    BY <1>2, <1>7
  <2>2. Cardinality(UpTo(T, n + 1)) = Cardinality(S)
    BY <1>4, <2>1
  <2>3. Segment(Append(L, e), k) = Segment(L, k) \cup (IF k = Cardinality(S)
                                                         THEN {n + 1} ELSE {})
    BY <1>1, <1>3, <2>1, <2>2
  <2> QED
    BY <2>1, <2>3
<1> QED
  BY <1>1, <1>3, <1>4, <1>5, <1>6, <1>7 DEF S, n, T

\* The last of some positions before position i.
LEMMA LastBeforeIs ==
    ASSUME NEW n \in Nat, NEW S \in SUBSET (1..n), NEW i \in Nat, UpTo(S, i - 1) # {}
    PROVE  /\ LastBefore(S, i) \in S /\ LastBefore(S, i) < i
           /\ \A x \in UpTo(S, i - 1) : x <= LastBefore(S, i)
<1> DEFINE U == UpTo(S, i - 1)
           B == {b \in Nat : \A x \in U : x <= b}
           R == OpToRel(<, Nat)
<1>1. U \subseteq S /\ U \subseteq 1..n /\ \A x \in U : x < i
  <2>1. \A x \in 1..n : x <= i - 1 => x < i
    OBVIOUS
  <2> QED
    BY <2>1 DEF UpTo
<1>2. n \in B /\ B \subseteq Nat
  BY <1>1
<1>3. \E m \in B : \A b \in B : m <= b
  <2>1. IsWellFoundedOn(R, Nat)
    BY NatLessThanWellFounded
  <2>2. \A b, m \in Nat : <<b, m>> \in R <=> b < m
    BY DEF OpToRel
  <2> HIDE DEF B, R
  <2>3. PICK m \in B : \A b \in B : ~ (<<b, m>> \in R)
    BY <1>2, <2>1, WFMin
  <2>4. ASSUME NEW b \in B PROVE m <= b
    <3>1. b \in Nat /\ m \in Nat /\ ~(b < m)
      BY <1>2, <2>2, <2>3
    <3> QED
      BY <3>1
  <2> QED
    BY <2>3, <2>4
<1>4. PICK m \in B : \A b \in B : m <= b
  BY <1>3
<1>5. m \in U
  <2>1. SUFFICES ASSUME m \notin U PROVE FALSE
    OBVIOUS
  <2>2. \A x \in U : x \in Nat /\ 1 <= x /\ x <= m /\ x # m
    BY <1>1, <1>4, <2>1
  <2>3. m \in Nat /\ m >= 1
    BY <1>4, <2>2
  <2>4. m - 1 \in B
    BY <2>2, <2>3
  <2>5. m <= m - 1
    BY <1>4, <2>4
  <2> QED
    BY <2>3, <2>5
<1>6. \E j \in U : \A x \in U : x <= j
  BY <1>4, <1>5
<1>7. LastBefore(S, i) = CHOOSE j \in U : \A x \in U : x <= j
  BY DEF LastBefore
<1> HIDE DEF U, B
<1>8. LastBefore(S, i) \in U /\ \A x \in U : x <= LastBefore(S, i)
  BY <1>6, <1>7, Zenon
<1> QED
  BY <1>1, <1>8 DEF U

\* Only the positions before i count.
LEMMA LastBeforeExtended ==
    ASSUME NEW n \in Nat, NEW S \in SUBSET (1..n)
    PROVE  /\ \A i \in 1..(n + 1) : /\ UpTo(S \cup {n + 1}, i - 1) = UpTo(S, i - 1)
                                    /\ LastBefore(S \cup {n + 1}, i) = LastBefore(S, i)
           /\ UpTo(S \cup {n + 1}, n + 1) # {} /\ LastBefore(S \cup {n + 1}, n + 2) = n + 1
           /\ UpTo(S, n + 1) = UpTo(S, n) /\ LastBefore(S, n + 2) = LastBefore(S, n + 1)
<1>1. ASSUME NEW i \in 1..(n + 1)
      PROVE  /\ UpTo(S \cup {n + 1}, i - 1) = UpTo(S, i - 1)
             /\ LastBefore(S \cup {n + 1}, i) = LastBefore(S, i)
  <2>1. UpTo(S \cup {n + 1}, i - 1) = UpTo(S, i - 1)
    BY DEF UpTo
  <2> QED
    BY <2>1 DEF LastBefore
<1>2. UpTo(S \cup {n + 1}, n + 1) # {} /\ n + 1 \in UpTo(S \cup {n + 1}, n + 1)
  BY DEF UpTo
<1>3. LastBefore(S \cup {n + 1}, n + 2) = n + 1
  <2>1. n + 1 \in Nat /\ n + 2 \in Nat /\ S \cup {n + 1} \in SUBSET (1..(n + 1))
        /\ n + 2 - 1 = n + 1
    OBVIOUS
  <2>2. /\ LastBefore(S \cup {n + 1}, n + 2) \in S \cup {n + 1}
        /\ \A x \in UpTo(S \cup {n + 1}, n + 1) : x <= LastBefore(S \cup {n + 1}, n + 2)
    <3> DEFINE T == S \cup {n + 1}
               m == n + 1
               p == n + 2
    <3>1. m \in Nat /\ p \in Nat /\ T \in SUBSET (1..m) /\ p - 1 = m /\ UpTo(T, m) # {}
      BY <1>2, <2>1
    <3> HIDE DEF T, m, p
    <3>2. UpTo(T, p - 1) # {}
      BY <3>1
    <3>3. LastBefore(T, p) \in T /\ \A x \in UpTo(T, p - 1) : x <= LastBefore(T, p)
      BY <3>1, <3>2, LastBeforeIs
    <3>4. \A x \in UpTo(T, m) : x <= LastBefore(T, p)
      BY <3>1, <3>3
    <3> QED
      BY <3>3, <3>4 DEF T, m, p
  <2>3. n + 1 <= LastBefore(S \cup {n + 1}, n + 2)
    BY <1>2, <2>2
  <2>4. \A x \in S \cup {n + 1} : n + 1 <= x => x = n + 1
    OBVIOUS
  <2> QED
    BY <2>2, <2>3, <2>4
<1>4. UpTo(S, n + 1) = UpTo(S, n)
  <2>1. UpTo(S, n) = S /\ UpTo(S, n + 1) = S
    BY UpToExtended
  <2> QED
    BY <2>1
<1>5. n + 2 - 1 = n + 1 /\ n + 1 - 1 = n
  OBVIOUS
<1>6. LastBefore(S, n + 2) = LastBefore(S, n + 1)
  BY <1>4, <1>5 DEF LastBefore
<1> QED
  BY <1>1, <1>2, <1>3, <1>4, <1>6

-----------------------------------------------------------------------------
(* What the log tells of the calls *)

\* The log with the calls that ended, whether one is running, and the counters.
\* Nothing has ended yet in the segment of a running call, and the number of
\* completed batches is the counter of batches.
Told(L, calls, running, s) ==
    /\ TellsOutcomes(L, calls, running)
    /\ running => SegmentEnds(L, Len(calls) + 1) = {}
    /\ ReplaysStats(L, s)
    /\ NumbersAccepted(L)
    /\ s.batches = Saturate(Cardinality(Completed(L)))

BatchEvents == {"batch.started", "batch.completed", "batch.failed"}

LEMMA EndsAppended ==
    ASSUME NEW E, NEW L \in Seq(E), NEW e \in E
    PROVE  /\ Completed(L) \in SUBSET (1..Len(L)) /\ BatchFailures(L) \in SUBSET (1..Len(L))
           /\ Ends(L) \in SUBSET (1..Len(L)) /\ Starts(L) \in SUBSET (1..Len(L))
           /\ e.name = "batch.completed" =>
                Completed(Append(L, e)) = Completed(L) \cup {Len(L) + 1}
           /\ e.name # "batch.completed" => Completed(Append(L, e)) = Completed(L)
           /\ e.name \in {"batch.completed", "batch.failed"} =>
                Ends(Append(L, e)) = Ends(L) \cup {Len(L) + 1}
           /\ e.name \notin {"batch.completed", "batch.failed"} => Ends(Append(L, e)) = Ends(L)
           /\ e.name = "batch.started" => Starts(Append(L, e)) = Starts(L) \cup {Len(L) + 1}
           /\ e.name # "batch.started" => Starts(Append(L, e)) = Starts(L)
<1>1. /\ Where(L, {"batch.completed"}) \subseteq 1..Len(L)
      /\ e.name \in {"batch.completed"} =>
           Where(Append(L, e), {"batch.completed"}) = Where(L, {"batch.completed"}) \cup {Len(L) + 1}
      /\ e.name \notin {"batch.completed"} =>
           Where(Append(L, e), {"batch.completed"}) = Where(L, {"batch.completed"})
  BY WhereAppended
<1>2. /\ Where(L, {"batch.failed"}) \subseteq 1..Len(L)
      /\ e.name \in {"batch.failed"} =>
           Where(Append(L, e), {"batch.failed"}) = Where(L, {"batch.failed"}) \cup {Len(L) + 1}
      /\ e.name \notin {"batch.failed"} =>
           Where(Append(L, e), {"batch.failed"}) = Where(L, {"batch.failed"})
  BY WhereAppended
<1>3. /\ Where(L, {"batch.started"}) \subseteq 1..Len(L)
      /\ e.name \in {"batch.started"} =>
           Where(Append(L, e), {"batch.started"}) = Where(L, {"batch.started"}) \cup {Len(L) + 1}
      /\ e.name \notin {"batch.started"} =>
           Where(Append(L, e), {"batch.started"}) = Where(L, {"batch.started"})
  BY WhereAppended
<1> QED
  BY <1>1, <1>2, <1>3 DEF Completed, BatchFailures, Ends, Starts

\* Only an end of a batch changes the ends of a segment: the last one's.
LEMMA SegmentEndsAppended ==
    ASSUME NEW E, NEW L \in Seq(E), NEW e \in E, NEW k \in Nat
    PROVE  /\ SegmentEnds(L, k) \subseteq 1..Len(L)
           /\ k > Cardinality(Starts(L)) => SegmentEnds(L, k) = {}
           /\ SegmentEnds(Append(L, e), k) =
                IF e.name \in {"batch.completed", "batch.failed"} /\ k = Cardinality(Starts(L))
                  THEN SegmentEnds(L, k) \cup {Len(L) + 1} ELSE SegmentEnds(L, k)
<1>1. /\ Segment(L, k) \subseteq 1..Len(L) /\ Len(L) \in Nat
      /\ k > Cardinality(Starts(L)) => Segment(L, k) = {}
      /\ Cardinality(Starts(L)) \in Nat
      /\ e.name = "batch.started" =>
           Segment(Append(L, e), k) = IF k = Cardinality(Starts(L)) + 1
                                        THEN {Len(L) + 1} ELSE Segment(L, k)
      /\ e.name # "batch.started" =>
           Segment(Append(L, e), k) = IF k = Cardinality(Starts(L))
                                        THEN Segment(L, k) \cup {Len(L) + 1}
                                        ELSE Segment(L, k)
  BY SegmentAppended
<1>2. /\ Ends(L) \in SUBSET (1..Len(L))
      /\ e.name \in {"batch.completed", "batch.failed"} =>
           Ends(Append(L, e)) = Ends(L) \cup {Len(L) + 1}
      /\ e.name \notin {"batch.completed", "batch.failed"} => Ends(Append(L, e)) = Ends(L)
  BY EndsAppended
<1>3. Len(L) + 1 \notin 1..Len(L)
  BY <1>1
<1>4. CASE e.name = "batch.started"
  <2>1. Ends(Append(L, e)) = Ends(L)
    BY <1>2, <1>4
  <2>2. CASE k = Cardinality(Starts(L)) + 1
    <3>1. Segment(L, k) = {} /\ Segment(Append(L, e), k) = {Len(L) + 1}
      BY <1>1, <1>4, <2>2
    <3> QED
      BY <1>1, <1>2, <1>3, <1>4, <2>1, <3>1 DEF SegmentEnds
  <2>3. CASE k # Cardinality(Starts(L)) + 1
    BY <1>1, <1>4, <2>1, <2>3 DEF SegmentEnds
  <2> QED
    BY <2>2, <2>3
<1>5. CASE e.name # "batch.started" /\ e.name \in {"batch.completed", "batch.failed"}
  BY <1>1, <1>2, <1>3, <1>5 DEF SegmentEnds
<1>6. CASE e.name # "batch.started" /\ e.name \notin {"batch.completed", "batch.failed"}
  BY <1>1, <1>2, <1>3, <1>6 DEF SegmentEnds
<1> QED
  BY <1>4, <1>5, <1>6

LEMMA OutcomeKept ==
    ASSUME NEW E, NEW L \in Seq(E), NEW e \in E, NEW k \in Nat,
           SegmentEnds(Append(L, e), k) = SegmentEnds(L, k)
    PROVE  OutcomeInLog(Append(L, e), k) = OutcomeInLog(L, k)
<1>1. SegmentEnds(L, k) \subseteq 1..Len(L)
  BY SegmentEndsAppended
<1>2. \A i \in 1..Len(L) : Append(L, e)[i] = L[i]
  BY Appended
<1> DEFINE S == SegmentEnds(L, k)
           c == CHOOSE i \in S : TRUE
<1>3. S # {} => c \in S
  OBVIOUS
<1> QED
  BY <1>1, <1>2, <1>3 DEF OutcomeInLog

LEMMA CountersAppended ==
    ASSUME NEW E, NEW L \in Seq(E), NEW e \in E
    PROVE  /\ \A i \in 1..(Len(L) + 1) : CountersBefore(Append(L, e), i) = CountersBefore(L, i)
           /\ CountersBefore(Append(L, e), Len(L) + 2) =
                IF e.name = "batch.completed" THEN e.after ELSE CountersBefore(L, Len(L) + 1)
<1> DEFINE n == Len(L)
           S == Completed(L)
           T == Completed(Append(L, e))
<1>1. /\ n \in Nat /\ S \in SUBSET (1..n)
      /\ e.name = "batch.completed" => T = S \cup {n + 1}
      /\ e.name # "batch.completed" => T = S
      /\ \A i \in 1..n : Append(L, e)[i] = L[i]
      /\ Append(L, e)[n + 1] = e
  BY Appended, EndsAppended
<1>2. /\ \A i \in Nat : CountersBefore(L, i) =
            IF UpTo(S, i - 1) = {} THEN ZeroStats ELSE L[LastBefore(S, i)].after
      /\ \A i \in Nat : CountersBefore(Append(L, e), i) =
            IF UpTo(T, i - 1) = {} THEN ZeroStats ELSE Append(L, e)[LastBefore(T, i)].after
  BY DEF CountersBefore
<1> HIDE DEF n, S, T
<1>3. /\ \A i \in 1..(n + 1) : /\ UpTo(S \cup {n + 1}, i - 1) = UpTo(S, i - 1)
                               /\ LastBefore(S \cup {n + 1}, i) = LastBefore(S, i)
      /\ UpTo(S \cup {n + 1}, n + 1) # {} /\ LastBefore(S \cup {n + 1}, n + 2) = n + 1
      /\ UpTo(S, n + 1) = UpTo(S, n) /\ LastBefore(S, n + 2) = LastBefore(S, n + 1)
  BY <1>1, LastBeforeExtended
<1>4. ASSUME NEW i \in 1..(n + 1), UpTo(S, i - 1) # {} PROVE LastBefore(S, i) \in 1..n
  <2>1. i \in Nat
    BY <1>1
  <2>2. LastBefore(S, i) \in S
    BY <1>1, <1>4, <2>1, LastBeforeIs
  <2> QED
    BY <1>1, <2>2
<1>5. ASSUME NEW i \in 1..(n + 1)
      PROVE  CountersBefore(Append(L, e), i) = CountersBefore(L, i)
  <2>1. UpTo(T, i - 1) = UpTo(S, i - 1) /\ LastBefore(T, i) = LastBefore(S, i)
    BY <1>1, <1>3
  <2>2. UpTo(S, i - 1) # {} => Append(L, e)[LastBefore(S, i)] = L[LastBefore(S, i)]
    BY <1>1, <1>4
  <2>3. i \in Nat
    BY <1>1
  <2> QED
    BY <1>2, <2>1, <2>2, <2>3
<1>6. PICK last \in Nat, end \in Nat : /\ last = n + 1 /\ end = n + 2 /\ end - 1 = n + 1
                                      /\ last - 1 = n /\ last \in 1..(n + 1)
  BY <1>1
<1>7. CASE e.name = "batch.completed"
  <2>1. UpTo(T, end - 1) # {} /\ LastBefore(T, end) = last
    BY <1>1, <1>3, <1>6, <1>7
  <2>2. CountersBefore(Append(L, e), end) = e.after
    <3>1. CountersBefore(Append(L, e), end) = Append(L, e)[last].after
      BY <1>2, <2>1
    <3>2. Append(L, e)[last] = e
      BY <1>1, <1>6
    <3> QED
      BY <3>1, <3>2
  <2> QED
    BY <1>5, <1>6, <1>7, <2>2 DEF n
<1>8. CASE e.name # "batch.completed"
  <2>1. UpTo(T, end - 1) = UpTo(S, last - 1) /\ LastBefore(T, end) = LastBefore(S, last)
    BY <1>1, <1>3, <1>6, <1>8
  <2>2. UpTo(S, last - 1) # {} => Append(L, e)[LastBefore(S, last)] = L[LastBefore(S, last)]
    BY <1>1, <1>4, <1>6
  <2>3. CountersBefore(Append(L, e), end) = CountersBefore(L, last)
    BY <1>2, <1>6, <2>1, <2>2
  <2> QED
    BY <1>5, <1>6, <1>8, <2>3 DEF n
<1> QED
  BY <1>7, <1>8

LEMMA ReplaysAppended ==
    ASSUME NEW E, NEW L \in Seq(E), NEW e \in E, NEW s, ReplaysStats(L, s),
           e.name \in BatchEvents => e.before = s
    PROVE  ReplaysStats(Append(L, e), IF e.name = "batch.completed" THEN e.after ELSE s)
<1> DEFINE n == Len(L)
           M == Append(L, e)
           B == Starts(L) \cup Ends(L)
           C == Starts(M) \cup Ends(M)
<1>1. n \in Nat /\ Len(M) + 1 = n + 2 /\ (\A i \in 1..n : M[i] = L[i]) /\ M[n + 1] = e
  BY Appended
<1>2. /\ \A i \in 1..(n + 1) : CountersBefore(M, i) = CountersBefore(L, i)
      /\ CountersBefore(M, n + 2) =
           IF e.name = "batch.completed" THEN e.after ELSE CountersBefore(L, n + 1)
  BY CountersAppended
<1>3. /\ B \in SUBSET (1..n)
      /\ e.name \in BatchEvents => C = B \cup {n + 1}
      /\ e.name \notin BatchEvents => C = B
  BY EndsAppended DEF BatchEvents
<1>4. (\A i \in B : L[i].before = CountersBefore(L, i)) /\ s = CountersBefore(L, n + 1)
  BY DEF ReplaysStats
<1> HIDE DEF n, M, B, C
<1>5. ASSUME NEW i \in B PROVE M[i].before = CountersBefore(M, i)
  <2>1. n \in Nat /\ i \in 1..n
    BY <1>1, <1>3
  <2>2. i \in 1..(n + 1)
    BY <2>1
  <2> QED
    BY <1>1, <1>2, <1>4, <2>1, <2>2
<1>6. e.name \in BatchEvents => M[n + 1].before = CountersBefore(M, n + 1)
  BY <1>1, <1>2, <1>4
<1>7. \A i \in C : M[i].before = CountersBefore(M, i)
  BY <1>3, <1>5, <1>6
<1>8. CountersBefore(M, Len(M) + 1) = IF e.name = "batch.completed" THEN e.after ELSE s
  BY <1>1, <1>2, <1>4
<1> QED
  BY <1>7, <1>8 DEF ReplaysStats, M, C

LEMMA NumbersAppended ==
    ASSUME NEW E, NEW L \in Seq(E), NEW e \in E, NumbersAccepted(L),
           e.name = "batch.completed" => e.ordinal = Saturate(Cardinality(Completed(L)) + 1)
    PROVE  /\ NumbersAccepted(Append(L, e)) /\ Cardinality(Completed(L)) \in Nat
           /\ e.name = "batch.completed" =>
                Cardinality(Completed(Append(L, e))) = Cardinality(Completed(L)) + 1
<1> DEFINE n == Len(L)
           M == Append(L, e)
           S == Completed(L)
           T == Completed(M)
<1>1. /\ n \in Nat /\ S \in SUBSET (1..n)
      /\ e.name = "batch.completed" => T = S \cup {n + 1}
      /\ e.name # "batch.completed" => T = S
      /\ \A i \in 1..n : M[i] = L[i]
      /\ M[n + 1] = e
  BY Appended, EndsAppended
<1>2. \A i \in S : L[i].ordinal = Saturate(Cardinality(UpTo(S, i)))
  BY DEF NumbersAccepted
<1> HIDE DEF n, M, S, T
<1>3. /\ \A i \in 0..n : UpTo(S \cup {n + 1}, i) = UpTo(S, i)
      /\ UpTo(S \cup {n + 1}, n + 1) = S \cup {n + 1}
      /\ Cardinality(S) \in Nat /\ Cardinality(S \cup {n + 1}) = Cardinality(S) + 1
  BY <1>1, UpToExtended
<1>4. ASSUME NEW i \in S PROVE M[i].ordinal = Saturate(Cardinality(UpTo(T, i)))
  <2>1. i \in 1..n /\ i \in 0..n
    BY <1>1
  <2>2. UpTo(T, i) = UpTo(S, i)
    BY <1>1, <1>3, <2>1
  <2> QED
    BY <1>1, <1>2, <2>1, <2>2
<1>5. ASSUME e.name = "batch.completed"
      PROVE  M[n + 1].ordinal = Saturate(Cardinality(UpTo(T, n + 1)))
  <2>1. UpTo(T, n + 1) = S \cup {n + 1}
    BY <1>1, <1>3, <1>5
  <2>2. e.ordinal = Saturate(Cardinality(S) + 1)
    BY <1>5 DEF S
  <2> QED
    BY <1>1, <1>3, <2>1, <2>2
<1>6. \A i \in T : M[i].ordinal = Saturate(Cardinality(UpTo(T, i)))
  BY <1>1, <1>4, <1>5
<1>7. e.name = "batch.completed" => Cardinality(T) = Cardinality(S) + 1
  BY <1>1, <1>3
<1> QED
  BY <1>3, <1>6, <1>7 DEF NumbersAccepted, T, S, M

\* An event that is no start and no end of a batch.
LEMMA QuietEvent ==
    ASSUME NEW E, NEW L \in Seq(E), NEW e \in E, NEW A, NEW calls \in Seq(A),
           NEW running \in BOOLEAN, NEW s, Told(L, calls, running, s), e.name \notin BatchEvents
    PROVE  Told(Append(L, e), calls, running, s)
<1>1. Starts(Append(L, e)) = Starts(L) /\ Completed(Append(L, e)) = Completed(L)
  BY EndsAppended DEF BatchEvents
<1>2. \A k \in Nat : SegmentEnds(Append(L, e), k) = SegmentEnds(L, k)
  BY SegmentEndsAppended DEF BatchEvents
<1>3. \A k \in Nat : OutcomeInLog(Append(L, e), k) = OutcomeInLog(L, k)
  BY <1>2, OutcomeKept
<1>4. DOMAIN calls \subseteq Nat /\ Len(calls) + 1 \in Nat
  BY LenProperties
<1>5. ReplaysStats(Append(L, e), s)
  <2>1. ReplaysStats(Append(L, e), IF e.name = "batch.completed" THEN e.after ELSE s)
    BY ReplaysAppended DEF Told
  <2> QED
    BY <2>1 DEF BatchEvents
<1>6. NumbersAccepted(Append(L, e))
  BY NumbersAppended DEF Told, BatchEvents
<1>7. TellsOutcomes(Append(L, e), calls, running)
  BY <1>1, <1>2, <1>3, <1>4 DEF Told, TellsOutcomes
<1> QED
  BY <1>1, <1>2, <1>4, <1>5, <1>6, <1>7 DEF Told

\* write_batch begins.
LEMMA StartEvent ==
    ASSUME NEW E, NEW L \in Seq(E), NEW e \in E, NEW A, NEW calls \in Seq(A), NEW s,
           Told(L, calls, FALSE, s), e.name = "batch.started", e.before = s
    PROVE  Told(Append(L, e), calls, TRUE, s)
<1>1. Completed(Append(L, e)) = Completed(L)
  BY EndsAppended
<1>2. Cardinality(Starts(Append(L, e))) = Cardinality(Starts(L)) + 1
  BY SegmentAppended
<1>3. \A k \in Nat : SegmentEnds(Append(L, e), k) = SegmentEnds(L, k)
  BY SegmentEndsAppended
<1>4. \A k \in Nat : OutcomeInLog(Append(L, e), k) = OutcomeInLog(L, k)
  BY <1>3, OutcomeKept
<1>5. DOMAIN calls \subseteq Nat /\ Len(calls) \in Nat /\ Len(calls) + 1 \in Nat
  BY LenProperties
<1>6. Cardinality(Starts(L)) = Len(calls)
  BY <1>5 DEF Told, TellsOutcomes
<1>7. SegmentEnds(Append(L, e), Len(calls) + 1) = {}
  <2>1. \A k \in Nat : k > Cardinality(Starts(L)) => SegmentEnds(L, k) = {}
    BY SegmentEndsAppended
  <2> QED
    BY <1>3, <1>5, <1>6, <2>1
<1>8. ReplaysStats(Append(L, e), s)
  <2>1. ReplaysStats(Append(L, e), IF e.name = "batch.completed" THEN e.after ELSE s)
    BY ReplaysAppended DEF Told
  <2> QED
    BY <2>1
<1>9. NumbersAccepted(Append(L, e))
  BY NumbersAppended DEF Told
<1>10. TellsOutcomes(Append(L, e), calls, TRUE)
  <2>1. Cardinality(Starts(Append(L, e))) = Len(calls) + 1
    BY <1>2, <1>6
  <2> QED
    BY <1>3, <1>4, <1>5, <2>1 DEF Told, TellsOutcomes
<1> QED
  BY <1>1, <1>7, <1>8, <1>9, <1>10 DEF Told

LEMMA OutcomesWithCall ==
    ASSUME NEW A, NEW calls \in Seq(A), NEW c \in A, NEW M, NEW L,
           TellsOutcomes(L, calls, TRUE),
           Cardinality(Starts(M)) = Cardinality(Starts(L)),
           \A k \in 1..Len(calls) : /\ SegmentEnds(M, k) = SegmentEnds(L, k)
                                    /\ OutcomeInLog(M, k) = OutcomeInLog(L, k),
           OutcomeInLog(M, Len(calls) + 1) = c.outcome,
           Cardinality(SegmentEnds(M, Len(calls) + 1)) <= 1
    PROVE  TellsOutcomes(M, Append(calls, c), FALSE)
<1>1. /\ Len(calls) \in Nat /\ Len(Append(calls, c)) = Len(calls) + 1
      /\ DOMAIN calls = 1..Len(calls) /\ DOMAIN Append(calls, c) = 1..(Len(calls) + 1)
      /\ \A k \in 1..Len(calls) : Append(calls, c)[k] = calls[k]
      /\ Append(calls, c)[Len(calls) + 1] = c
  BY Appended
<1>2. Cardinality(Starts(M)) = Len(Append(calls, c)) + 0
  BY <1>1 DEF TellsOutcomes
<1>3. ASSUME NEW k \in 1..(Len(calls) + 1)
      PROVE  /\ OutcomeInLog(M, k) = Append(calls, c)[k].outcome
             /\ Cardinality(SegmentEnds(M, k)) <= 1
  <2>1. CASE k \in 1..Len(calls)
    BY <1>1, <2>1 DEF TellsOutcomes
  <2>2. CASE k = Len(calls) + 1
    BY <1>1, <2>2
  <2> QED
    BY <1>1, <2>1, <2>2
<1> QED
  BY <1>1, <1>2, <1>3 DEF TellsOutcomes

\* write_batch returns: its end is the only one in its segment.
LEMMA EndEvent ==
    ASSUME NEW E, NEW L \in Seq(E), NEW e \in E, NEW A, NEW calls \in Seq(A), NEW c \in A,
           NEW s, Told(L, calls, TRUE, s), e.before = s,
           \/ e.name = "batch.failed" /\ e.phase = c.outcome
           \/ /\ e.name = "batch.completed" /\ c.outcome = "accepted"
              /\ e.ordinal = Saturate(Cardinality(Completed(L)) + 1)
              /\ e.after.batches = Saturate(Cardinality(Completed(L)) + 1)
    PROVE  Told(Append(L, e), Append(calls, c), FALSE,
                IF e.name = "batch.completed" THEN e.after ELSE s)
<1> DEFINE n == Len(calls) + 1
           M == Append(L, e)
<1>1. e.name \in {"batch.completed", "batch.failed"} /\ e.name # "batch.started"
  OBVIOUS
<1>2. /\ Len(calls) \in Nat /\ n \in Nat /\ 1..Len(calls) \subseteq Nat /\ n \notin 1..Len(calls)
      /\ M[Len(L) + 1] = e
  <2>1. Len(calls) \in Nat
    BY LenProperties
  <2>2. M[Len(L) + 1] = e
    BY Appended
  <2> QED
    BY <2>1, <2>2
<1>3. Starts(M) = Starts(L) /\ Cardinality(Starts(L)) = n
  <2>1. Starts(M) = Starts(L)
    BY <1>1, EndsAppended
  <2>2. Cardinality(Starts(L)) = n
    BY DEF Told, TellsOutcomes
  <2> QED
    BY <2>1, <2>2
<1>4. \A k \in Nat : k # n => SegmentEnds(M, k) = SegmentEnds(L, k)
  <2>1. ASSUME NEW k \in Nat, k # n PROVE SegmentEnds(M, k) = SegmentEnds(L, k)
    BY <1>3, <2>1, SegmentEndsAppended
  <2> QED
    BY <2>1
<1>5. \A k \in Nat : k # n => OutcomeInLog(M, k) = OutcomeInLog(L, k)
  BY <1>4, OutcomeKept
<1>6. SegmentEnds(M, n) = {Len(L) + 1}
  <2>1. SegmentEnds(M, n) = SegmentEnds(L, n) \cup {Len(L) + 1}
    BY <1>1, <1>2, <1>3, SegmentEndsAppended
  <2>2. SegmentEnds(L, n) = {}
    BY DEF Told
  <2> QED
    BY <2>1, <2>2
<1>7. Cardinality(SegmentEnds(M, n)) <= 1
  <2>1. Cardinality({Len(L) + 1}) = 1
    BY FS_Singleton
  <2>2. Cardinality(SegmentEnds(M, n)) = 1
    BY <1>6, <2>1, Zenon
  <2> QED
    BY <2>2
<1>8. OutcomeInLog(M, n) = c.outcome
  <2>1. (CHOOSE i \in SegmentEnds(M, n) : TRUE) = Len(L) + 1
    BY <1>6
  <2> HIDE DEF M
  <2>2. OutcomeInLog(M, n) = IF e.name = "batch.completed" THEN "accepted" ELSE e.phase
    BY <1>2, <1>6, <2>1 DEF OutcomeInLog
  <2> QED
    BY <1>1, <2>2
<1>9. TellsOutcomes(M, Append(calls, c), FALSE)
  <2>1. TellsOutcomes(L, calls, TRUE)
    BY DEF Told
  <2>2. \A k \in 1..Len(calls) : /\ SegmentEnds(M, k) = SegmentEnds(L, k)
                                 /\ OutcomeInLog(M, k) = OutcomeInLog(L, k)
    BY <1>2, <1>4, <1>5
  <2> HIDE DEF M
  <2> QED
    BY <1>3, <1>7, <1>8, <2>1, <2>2, OutcomesWithCall
<1>10. ReplaysStats(M, IF e.name = "batch.completed" THEN e.after ELSE s)
  BY ReplaysAppended DEF Told
<1>11. /\ NumbersAccepted(M)
       /\ e.name = "batch.completed" => Cardinality(Completed(M)) = Cardinality(Completed(L)) + 1
  BY NumbersAppended DEF Told
<1>12. e.name = "batch.failed" => Completed(M) = Completed(L)
  BY EndsAppended
<1>13. (IF e.name = "batch.completed" THEN e.after ELSE s).batches = Saturate(Cardinality(Completed(M)))
  BY <1>11, <1>12 DEF Told
<1> QED
  BY <1>9, <1>10, <1>11, <1>13 DEF Told

\* The future of write_batch is dropped: no event, and no end in the segment.
LEMMA NoEndEvent ==
    ASSUME NEW E, NEW L \in Seq(E), NEW A, NEW calls \in Seq(A), NEW c \in A,
           NEW s, Told(L, calls, TRUE, s), c.outcome = "cancelled"
    PROVE  Told(L, Append(calls, c), FALSE, s)
<1>1. TellsOutcomes(L, calls, TRUE) /\ SegmentEnds(L, Len(calls) + 1) = {}
  BY DEF Told
<1>2. OutcomeInLog(L, Len(calls) + 1) = c.outcome
  BY <1>1 DEF OutcomeInLog
<1>3. Cardinality(SegmentEnds(L, Len(calls) + 1)) <= 1
  <2>1. Cardinality({}) = 0
    BY FS_EmptySet
  <2>2. Cardinality(SegmentEnds(L, Len(calls) + 1)) = 0
    BY <1>1, <2>1, Zenon
  <2> QED
    BY <2>2
<1>4. TellsOutcomes(L, Append(calls, c), FALSE)
  BY <1>1, <1>2, <1>3, OutcomesWithCall
<1> QED
  BY <1>4 DEF Told

-----------------------------------------------------------------------------
(* What the log tells of the ranges *)

\* The packets of a running call are consecutive and end behind row `sent`.
Detailed(L, calls, running, sent) ==
    /\ PacketsFollow(L, calls)
    /\ running => /\ PacketsConsecutive(L, Len(calls) + 1)
                  /\ RowsBefore(L, Len(calls) + 1, Len(L) + 1) = sent

LEMMA PacketsAppended ==
    ASSUME NEW E, NEW L \in Seq(E), NEW e \in E, NEW k \in Nat
    PROVE  /\ PacketsIn(L, k) \in SUBSET (1..Len(L))
           /\ k > Cardinality(Starts(L)) => PacketsIn(L, k) = {}
           /\ PacketsIn(Append(L, e), k) =
                IF e.name = "raw.packet" /\ k = Cardinality(Starts(L))
                  THEN PacketsIn(L, k) \cup {Len(L) + 1} ELSE PacketsIn(L, k)
<1> DEFINE P == Where(L, {"raw.packet"})
           Q == Where(Append(L, e), {"raw.packet"})
<1>1. /\ Segment(L, k) \subseteq 1..Len(L) /\ Len(L) \in Nat
      /\ k > Cardinality(Starts(L)) => Segment(L, k) = {}
      /\ Cardinality(Starts(L)) \in Nat
      /\ e.name = "batch.started" =>
           Segment(Append(L, e), k) = IF k = Cardinality(Starts(L)) + 1
                                        THEN {Len(L) + 1} ELSE Segment(L, k)
      /\ e.name # "batch.started" =>
           Segment(Append(L, e), k) = IF k = Cardinality(Starts(L))
                                        THEN Segment(L, k) \cup {Len(L) + 1}
                                        ELSE Segment(L, k)
  BY SegmentAppended
<1>2. /\ P \subseteq 1..Len(L)
      /\ e.name = "raw.packet" => Q = P \cup {Len(L) + 1}
      /\ e.name # "raw.packet" => Q = P
  <2>1. /\ P \subseteq 1..Len(L)
        /\ e.name \in {"raw.packet"} => Q = P \cup {Len(L) + 1}
        /\ e.name \notin {"raw.packet"} => Q = P
    BY WhereAppended
  <2> QED
    BY <2>1
<1>3. Len(L) + 1 \notin 1..Len(L)
  BY <1>1
<1>4. PacketsIn(L, k) = Segment(L, k) \cap P /\ PacketsIn(Append(L, e), k) = Segment(Append(L, e), k) \cap Q
  BY DEF PacketsIn
<1> HIDE DEF P, Q
<1>5. CASE e.name = "batch.started"
  <2>1. Q = P
    BY <1>2, <1>5
  <2>2. CASE k = Cardinality(Starts(L)) + 1
    <3>1. Segment(L, k) = {} /\ Segment(Append(L, e), k) = {Len(L) + 1}
      BY <1>1, <1>5, <2>2
    <3> QED
      BY <1>1, <1>2, <1>3, <1>4, <1>5, <2>1, <3>1
  <2>3. CASE k # Cardinality(Starts(L)) + 1
    BY <1>1, <1>4, <1>5, <2>1, <2>3
  <2> QED
    BY <2>2, <2>3
<1>6. CASE e.name = "raw.packet"
  BY <1>1, <1>2, <1>3, <1>4, <1>6
<1>7. CASE e.name # "batch.started" /\ e.name # "raw.packet"
  BY <1>1, <1>2, <1>3, <1>4, <1>7
<1>8. PacketsIn(L, k) \in SUBSET (1..Len(L))
  BY <1>1, <1>4
<1>9. k > Cardinality(Starts(L)) => PacketsIn(L, k) = {}
  BY <1>1, <1>4
<1> QED
  BY <1>5, <1>6, <1>7, <1>8, <1>9

LEMMA RowsAppended ==
    ASSUME NEW E, NEW L \in Seq(E), NEW e \in E, NEW k \in Nat
    PROVE  /\ \A i \in 1..(Len(L) + 1) : RowsBefore(Append(L, e), k, i) = RowsBefore(L, k, i)
           /\ RowsBefore(Append(L, e), k, Len(L) + 2) =
                IF e.name = "raw.packet" /\ k = Cardinality(Starts(L))
                  THEN e.start + e.rows ELSE RowsBefore(L, k, Len(L) + 1)
<1> DEFINE n == Len(L)
           S == PacketsIn(L, k)
           T == PacketsIn(Append(L, e), k)
           Here == e.name = "raw.packet" /\ k = Cardinality(Starts(L))
<1>1. /\ n \in Nat /\ S \in SUBSET (1..n)
      /\ Here => T = S \cup {n + 1}
      /\ ~Here => T = S
      /\ \A i \in 1..n : Append(L, e)[i] = L[i]
      /\ Append(L, e)[n + 1] = e
  <2>1. n \in Nat /\ (\A i \in 1..n : Append(L, e)[i] = L[i]) /\ Append(L, e)[n + 1] = e
    BY Appended
  <2>2. S \in SUBSET (1..n) /\ T = IF Here THEN S \cup {n + 1} ELSE S
    BY PacketsAppended
  <2> QED
    BY <2>1, <2>2
<1>2. /\ \A i \in Nat : RowsBefore(L, k, i) =
            IF UpTo(S, i - 1) = {} THEN 0
            ELSE L[LastBefore(S, i)].start + L[LastBefore(S, i)].rows
      /\ \A i \in Nat : RowsBefore(Append(L, e), k, i) =
            IF UpTo(T, i - 1) = {} THEN 0
            ELSE Append(L, e)[LastBefore(T, i)].start + Append(L, e)[LastBefore(T, i)].rows
  BY DEF RowsBefore
<1> HIDE DEF n, S, T, Here
<1>3. /\ \A i \in 1..(n + 1) : /\ UpTo(S \cup {n + 1}, i - 1) = UpTo(S, i - 1)
                               /\ LastBefore(S \cup {n + 1}, i) = LastBefore(S, i)
      /\ UpTo(S \cup {n + 1}, n + 1) # {} /\ LastBefore(S \cup {n + 1}, n + 2) = n + 1
      /\ UpTo(S, n + 1) = UpTo(S, n) /\ LastBefore(S, n + 2) = LastBefore(S, n + 1)
  BY <1>1, LastBeforeExtended
<1>4. ASSUME NEW i \in 1..(n + 1), UpTo(S, i - 1) # {} PROVE LastBefore(S, i) \in 1..n
  <2>1. i \in Nat
    BY <1>1
  <2>2. LastBefore(S, i) \in S
    BY <1>1, <1>4, <2>1, LastBeforeIs
  <2> QED
    BY <1>1, <2>2
<1>5. ASSUME NEW i \in 1..(n + 1)
      PROVE  RowsBefore(Append(L, e), k, i) = RowsBefore(L, k, i)
  <2>1. UpTo(T, i - 1) = UpTo(S, i - 1) /\ LastBefore(T, i) = LastBefore(S, i)
    BY <1>1, <1>3
  <2>2. UpTo(S, i - 1) # {} => Append(L, e)[LastBefore(S, i)] = L[LastBefore(S, i)]
    BY <1>1, <1>4
  <2>3. i \in Nat
    BY <1>1
  <2> QED
    BY <1>2, <2>1, <2>2, <2>3
<1>6. PICK last \in Nat, end \in Nat : /\ last = n + 1 /\ end = n + 2 /\ end - 1 = n + 1
                                      /\ last - 1 = n /\ last \in 1..(n + 1)
  BY <1>1
<1>7. CASE Here
  <2>1. UpTo(T, end - 1) # {} /\ LastBefore(T, end) = last
    BY <1>1, <1>3, <1>6, <1>7
  <2>2. RowsBefore(Append(L, e), k, end) = e.start + e.rows
    <3>1. RowsBefore(Append(L, e), k, end) = Append(L, e)[last].start + Append(L, e)[last].rows
      BY <1>2, <2>1
    <3>2. Append(L, e)[last] = e
      BY <1>1, <1>6
    <3> QED
      BY <3>1, <3>2
  <2> QED
    BY <1>5, <1>6, <1>7, <2>2 DEF n, Here
<1>8. CASE ~Here
  <2>1. UpTo(T, end - 1) = UpTo(S, last - 1) /\ LastBefore(T, end) = LastBefore(S, last)
    BY <1>1, <1>3, <1>6, <1>8
  <2>2. UpTo(S, last - 1) # {} => Append(L, e)[LastBefore(S, last)] = L[LastBefore(S, last)]
    BY <1>1, <1>4, <1>6
  <2>3. RowsBefore(Append(L, e), k, end) = RowsBefore(L, k, last)
    BY <1>2, <1>6, <2>1, <2>2
  <2> QED
    BY <1>5, <1>6, <1>8, <2>3 DEF n, Here
<1> QED
  BY <1>7, <1>8

LEMMA ConsecutiveAppended ==
    ASSUME NEW E, NEW L \in Seq(E), NEW e \in E, NEW k \in Nat, PacketsConsecutive(L, k),
           e.name = "raw.packet" /\ k = Cardinality(Starts(L)) =>
             e.start = RowsBefore(L, k, Len(L) + 1)
    PROVE  PacketsConsecutive(Append(L, e), k)
<1> DEFINE n == Len(L)
           M == Append(L, e)
           S == PacketsIn(L, k)
           T == PacketsIn(M, k)
           Here == e.name = "raw.packet" /\ k = Cardinality(Starts(L))
<1>1. n \in Nat /\ (\A i \in 1..n : M[i] = L[i]) /\ M[n + 1] = e
  BY Appended
<1>2. S \in SUBSET (1..n) /\ T = IF Here THEN S \cup {n + 1} ELSE S
  BY PacketsAppended
<1>3. \A i \in 1..(n + 1) : RowsBefore(M, k, i) = RowsBefore(L, k, i)
  BY RowsAppended
<1>4. \A i \in S : L[i].start = RowsBefore(L, k, i)
  BY DEF PacketsConsecutive
<1>5. Here => e.start = RowsBefore(L, k, n + 1)
  OBVIOUS
<1> HIDE DEF n, M, S, T, Here
<1>6. ASSUME NEW i \in S PROVE M[i].start = RowsBefore(M, k, i)
  <2>1. i \in 1..n /\ i \in 1..(n + 1)
    BY <1>1, <1>2
  <2> QED
    BY <1>1, <1>3, <1>4, <2>1
<1>7. Here => M[n + 1].start = RowsBefore(M, k, n + 1)
  <2>1. n + 1 \in 1..(n + 1)
    BY <1>1
  <2> QED
    BY <1>1, <1>3, <1>5, <2>1
<1>8. \A i \in T : M[i].start = RowsBefore(M, k, i)
  BY <1>2, <1>6, <1>7
<1> QED
  BY <1>8 DEF PacketsConsecutive, T, M

\* An event that is no packet and starts no batch.
LEMMA NoPacketEvent ==
    ASSUME NEW E, NEW L \in Seq(E), NEW e \in E, NEW A, NEW calls \in Seq(A),
           NEW running \in BOOLEAN, NEW sent, Detailed(L, calls, running, sent),
           e.name # "raw.packet"
    PROVE  Detailed(Append(L, e), calls, running, sent)
<1>1. DOMAIN calls \subseteq Nat /\ Len(calls) + 1 \in Nat
  BY LenProperties
<1>2. Len(Append(L, e)) + 1 = Len(L) + 2
  BY Appended
<1>3. \A k \in Nat : RowsBefore(Append(L, e), k, Len(L) + 2) = RowsBefore(L, k, Len(L) + 1)
  BY RowsAppended
<1>4. \A k \in Nat : PacketsConsecutive(L, k) => PacketsConsecutive(Append(L, e), k)
  BY ConsecutiveAppended
<1>5. \A k \in Nat : RowsBefore(Append(L, e), k, Len(Append(L, e)) + 1) = RowsBefore(L, k, Len(L) + 1)
  BY <1>2, <1>3
<1> QED
  BY <1>1, <1>4, <1>5 DEF Detailed, PacketsFollow

\* The segment of a call that begins has no packet.
LEMMA StartsWithoutPackets ==
    ASSUME NEW E, NEW L \in Seq(E), NEW e \in E, NEW A, NEW calls \in Seq(A), NEW s,
           Told(L, calls, FALSE, s), NEW sent, Detailed(L, calls, FALSE, sent),
           e.name = "batch.started"
    PROVE  Detailed(Append(L, e), calls, TRUE, 0)
<1> DEFINE n == Len(calls) + 1
           M == Append(L, e)
<1>1. Detailed(M, calls, FALSE, sent)
  BY NoPacketEvent
<1>2. n \in Nat /\ n > Len(calls) /\ Len(calls) \in Nat
  <2>1. Len(calls) \in Nat
    BY LenProperties
  <2> QED
    BY <2>1
<1>3. Cardinality(Starts(L)) = Len(calls)
  BY <1>2 DEF Told, TellsOutcomes
<1>4. PacketsIn(M, n) = {}
  <2>1. PacketsIn(M, n) = PacketsIn(L, n)
    BY <1>2, PacketsAppended
  <2>2. PacketsIn(L, n) = {}
    BY <1>2, <1>3, PacketsAppended
  <2> QED
    BY <2>1, <2>2
<1> HIDE DEF M, n
<1>5. PacketsConsecutive(M, n)
  BY <1>4 DEF PacketsConsecutive
<1>6. RowsBefore(M, n, Len(M) + 1) = 0
  BY <1>4 DEF RowsBefore, UpTo
<1> QED
  BY <1>1, <1>5, <1>6 DEF Detailed, M, n

\* The request took the next range of the running call.
LEMMA PacketEvent ==
    ASSUME NEW E, NEW L \in Seq(E), NEW e \in E, NEW A, NEW calls \in Seq(A), NEW s,
           Told(L, calls, TRUE, s), NEW sent, Detailed(L, calls, TRUE, sent),
           e.name = "raw.packet", e.start = sent
    PROVE  Detailed(Append(L, e), calls, TRUE, sent + e.rows)
<1> DEFINE n == Len(calls) + 1
           M == Append(L, e)
<1>1. Len(calls) \in Nat /\ DOMAIN calls = 1..Len(calls)
  BY LenProperties
<1>2. n \in Nat /\ \A k \in DOMAIN calls : k \in Nat /\ k # n
  BY <1>1
<1>3. Cardinality(Starts(L)) = n
  BY DEF Told, TellsOutcomes
<1>4. Len(M) + 1 = Len(L) + 2
  BY Appended
<1>5. \A k \in DOMAIN calls : RowsBefore(M, k, Len(L) + 2) = RowsBefore(L, k, Len(L) + 1)
  BY <1>2, <1>3, RowsAppended
<1>6. RowsBefore(M, n, Len(L) + 2) = sent + e.rows
  BY <1>2, <1>3, RowsAppended
<1>7. \A k \in DOMAIN calls : PacketsConsecutive(L, k) => PacketsConsecutive(M, k)
  BY <1>2, <1>3, ConsecutiveAppended
<1>8. PacketsConsecutive(M, n)
  <2>1. PacketsConsecutive(L, n) /\ e.start = RowsBefore(L, n, Len(L) + 1)
    BY DEF Detailed
  <2> QED
    BY <1>2, <2>1, ConsecutiveAppended
<1>9. /\ \A k \in DOMAIN calls : RowsBefore(M, k, Len(M) + 1) = RowsBefore(L, k, Len(L) + 1)
      /\ RowsBefore(M, n, Len(M) + 1) = sent + e.rows
  BY <1>4, <1>5, <1>6
<1>10. PacketsFollow(M, calls)
  BY <1>7, <1>9 DEF Detailed, PacketsFollow
<1> QED
  BY <1>8, <1>9, <1>10 DEF Detailed

\* write_batch returns or is dropped.
LEMMA CallEndsBehindPackets ==
    ASSUME NEW E, NEW L \in Seq(E), NEW A, NEW calls \in Seq(A), NEW c \in A,
           NEW sent, Detailed(L, calls, TRUE, sent),
           sent <= c.taken, c.outcome = "accepted" => sent = c.rows, NEW x
    PROVE  Detailed(L, Append(calls, c), FALSE, x)
<1>1. /\ Len(calls) \in Nat
      /\ DOMAIN calls = 1..Len(calls) /\ DOMAIN Append(calls, c) = 1..(Len(calls) + 1)
      /\ \A k \in 1..Len(calls) : Append(calls, c)[k] = calls[k]
      /\ Append(calls, c)[Len(calls) + 1] = c
  BY Appended
<1>2. \A k \in 1..(Len(calls) + 1) : k \in 1..Len(calls) \/ k = Len(calls) + 1
  BY <1>1
<1> QED
  BY <1>1, <1>2 DEF Detailed, PacketsFollow

-----------------------------------------------------------------------------
(* Failures come in pairs *)

RawEvents == {"raw.failed", "raw.measured", "raw.ranges_planned", "raw.packet"}

LEMMA FailuresAppended ==
    ASSUME NEW E, NEW L \in Seq(E), NEW e \in E
    PROVE  /\ RawFailures(L) \in SUBSET (1..Len(L)) /\ BatchFailures(L) \in SUBSET (1..Len(L))
           /\ RawFailures(Append(L, e)) = IF e.name = "raw.failed"
                                            THEN RawFailures(L) \cup {Len(L) + 1}
                                            ELSE RawFailures(L)
           /\ BatchFailures(Append(L, e)) = IF e.name = "batch.failed"
                                              THEN BatchFailures(L) \cup {Len(L) + 1}
                                              ELSE BatchFailures(L)
<1>1. /\ Where(L, {"raw.failed"}) \subseteq 1..Len(L)
      /\ e.name \in {"raw.failed"} =>
           Where(Append(L, e), {"raw.failed"}) = Where(L, {"raw.failed"}) \cup {Len(L) + 1}
      /\ e.name \notin {"raw.failed"} =>
           Where(Append(L, e), {"raw.failed"}) = Where(L, {"raw.failed"})
  BY WhereAppended
<1>2. /\ Where(L, {"batch.failed"}) \subseteq 1..Len(L)
      /\ e.name \in {"batch.failed"} =>
           Where(Append(L, e), {"batch.failed"}) = Where(L, {"batch.failed"}) \cup {Len(L) + 1}
      /\ e.name \notin {"batch.failed"} =>
           Where(Append(L, e), {"batch.failed"}) = Where(L, {"batch.failed"})
  BY WhereAppended
<1> QED
  BY <1>1, <1>2 DEF RawFailures, BatchFailures

LEMMA NoFailureEvent ==
    ASSUME NEW E, NEW L \in Seq(E), NEW e \in E, FailuresInPairs(L),
           e.name \notin {"raw.failed", "batch.failed"}
    PROVE  FailuresInPairs(Append(L, e))
<1>1. Len(L) \in Nat /\ Len(Append(L, e)) = Len(L) + 1 /\ \A i \in 1..Len(L) : Append(L, e)[i] = L[i]
  BY Appended
<1>2. /\ RawFailures(L) \in SUBSET (1..Len(L))
      /\ RawFailures(Append(L, e)) = RawFailures(L)
      /\ BatchFailures(Append(L, e)) = BatchFailures(L)
  BY FailuresAppended
<1>3. ASSUME NEW i \in RawFailures(L)
      PROVE  /\ i < Len(Append(L, e))
             /\ Append(L, e)[i + 1].name = "batch.failed"
             /\ Append(L, e)[i + 1].phase = Append(L, e)[i].phase
  <2>1. i < Len(L) /\ L[i + 1].name = "batch.failed" /\ L[i + 1].phase = L[i].phase
    BY DEF FailuresInPairs
  <2>2. i \in 1..Len(L) /\ i + 1 \in 1..Len(L)
    BY <1>1, <1>2, <2>1
  <2> QED
    BY <1>1, <2>1, <2>2
<1> QED
  BY <1>2, <1>3 DEF FailuresInPairs

\* The detail and the batch report one failure, in one phase.
LEMMA FailurePair ==
    ASSUME NEW E, NEW L \in Seq(E), NEW d \in E, NEW e \in E, FailuresInPairs(L),
           d.name = "raw.failed", e.name = "batch.failed", e.phase = d.phase
    PROVE  FailuresInPairs(Append(Append(L, d), e))
<1> DEFINE n == Len(L)
           K == Append(L, d)
           M == Append(K, e)
<1>1. /\ n \in Nat /\ K \in Seq(E) /\ Len(K) = n + 1
      /\ (\A i \in 1..n : K[i] = L[i]) /\ K[n + 1] = d
  BY Appended
<1>2. /\ Len(M) = n + 2 /\ \A i \in 1..n : M[i] = L[i]
      /\ M[n + 1] = d /\ M[n + 2] = e
  <2>1. K \in Seq(E)
    BY <1>1
  <2> HIDE DEF K
  <2>2. /\ Len(M) = Len(K) + 1 /\ M[Len(K) + 1] = e
        /\ \A i \in 1..Len(K) : M[i] = K[i]
    BY <2>1, Appended
  <2> QED
    BY <1>1, <2>2
<1>3. /\ RawFailures(L) \in SUBSET (1..n) /\ BatchFailures(L) \in SUBSET (1..n)
      /\ RawFailures(M) = RawFailures(L) \cup {n + 1}
      /\ BatchFailures(M) = BatchFailures(L) \cup {n + 2}
  <2>1. /\ RawFailures(L) \in SUBSET (1..n) /\ BatchFailures(L) \in SUBSET (1..n)
        /\ RawFailures(K) = RawFailures(L) \cup {n + 1}
        /\ BatchFailures(K) = BatchFailures(L)
    BY FailuresAppended
  <2>2. K \in Seq(E) /\ Len(K) + 1 = n + 2
    BY <1>1
  <2> HIDE DEF K
  <2>3. /\ RawFailures(M) = RawFailures(K)
        /\ BatchFailures(M) = BatchFailures(K) \cup {Len(K) + 1}
    BY <2>2, FailuresAppended
  <2> QED
    BY <2>1, <2>2, <2>3
<1> HIDE DEF n, K, M
<1>4. Cardinality(RawFailures(M)) = Cardinality(BatchFailures(M))
  <2>1. IsFiniteSet(RawFailures(L)) /\ IsFiniteSet(BatchFailures(L))
    BY <1>1, <1>3, FiniteUpTo
  <2>2. n + 1 \notin RawFailures(L) /\ n + 2 \notin BatchFailures(L)
    BY <1>1, <1>3
  <2>3. Cardinality(RawFailures(L) \cup {n + 1}) = Cardinality(RawFailures(L)) + 1
    BY <2>1, <2>2, FS_AddElement
  <2>4. Cardinality(BatchFailures(L) \cup {n + 2}) = Cardinality(BatchFailures(L)) + 1
    BY <2>1, <2>2, FS_AddElement
  <2>5. Cardinality(RawFailures(L)) = Cardinality(BatchFailures(L))
    BY DEF FailuresInPairs
  <2> QED
    BY <1>3, <2>3, <2>4, <2>5
<1>5. ASSUME NEW i \in RawFailures(M)
      PROVE  i < Len(M) /\ M[i + 1].name = "batch.failed" /\ M[i + 1].phase = M[i].phase
  <2>1. CASE i \in RawFailures(L)
    <3>1. i < n /\ L[i + 1].name = "batch.failed" /\ L[i + 1].phase = L[i].phase
      BY <2>1 DEF FailuresInPairs, n
    <3>2. i \in 1..n /\ i + 1 \in 1..n
      BY <1>1, <1>3, <2>1, <3>1
    <3> QED
      BY <1>1, <1>2, <3>1, <3>2
  <2>2. CASE i = n + 1
    <3>1. i + 1 = n + 2 /\ i < n + 2
      BY <1>1, <2>2
    <3> QED
      BY <1>2, <2>2, <3>1
  <2> QED
    BY <1>3, <2>1, <2>2
<1>6. FailuresInPairs(M)
  BY <1>4, <1>5 DEF FailuresInPairs
<1> QED
  BY <1>6 DEF M, K

LEMMA NoDetailEvent ==
    ASSUME NEW E, NEW L \in Seq(E), NEW e \in E, NoDetail(L), e.name \notin RawEvents
    PROVE  NoDetail(Append(L, e))
  BY WhereAppended DEF NoDetail, RawEvents

-----------------------------------------------------------------------------
(* All of it, one emission at a time *)

Phases == {"writer_initialization", "target_metadata_validation", "batch_write",
           "direct_encoding", "packet_write", "finish",
           "BatchSchemaValidation", "ValueConversion", "PacketWrite"}
EventNames == BatchEvents \cup RawEvents
                \cup {"init.started", "init.completed", "init.failed",
                      "validation.started", "validation.completed", "validation.failed",
                      "finish.started", "finish.completed", "finish.failed"}
LogEvent == [name : EventNames, phase : Phases, ordinal : Nat,
             start : Nat, rows : Nat, before : Stats, after : Stats]

\* What the log tells of the construction.
BuiltInLog(L, built) ==
    LET opened == Where(L, {"init.completed"})
        failed == Where(L, InitFailures)
    IN CASE built = "none"   -> opened = {} /\ failed = {}
         [] built = "opened" -> (\E i : opened = {i}) /\ failed = {}
         [] built = "failed" -> opened = {} /\ \E i : failed = {i}
BuildEvents == InitFailures \cup {"init.completed"}

\* The log agrees with the calls, the counters and, if there is raw detail,
\* with the rows sent.
Agrees(raw, built, L, calls, running, s, sent) ==
    /\ L \in Seq(LogEvent)
    /\ BuiltInLog(L, built)
    /\ Told(L, calls, running, s)
    /\ IF raw THEN Detailed(L, calls, running, sent) /\ FailuresInPairs(L) ELSE NoDetail(L)

LEMMA Joined ==
    ASSUME NEW E, NEW L \in Seq(E), NEW e \in E
    PROVE  /\ L \o <<e>> = Append(L, e) /\ L \o <<e>> \in Seq(E) /\ <<e>> \in Seq(E)
           /\ L \o <<>> = L /\ <<>> \o L = L /\ <<>> \in Seq(E)
           /\ Len(L \o <<e>>) > Len(L) /\ L \o <<e>> # L
<1>1. L \o <<e>> = Append(L, e)
  BY AppendIsConcat
<1>2. Append(L, e) \in Seq(E) /\ Len(Append(L, e)) = Len(L) + 1 /\ Len(L) \in Nat
  BY Appended
<1>3. L \o <<>> = L /\ <<>> \o L = L
  BY ConcatEmptySeq
<1>4. <<e>> \in Seq(E) /\ <<>> \in Seq(E)
  OBVIOUS
<1>5. Len(Append(L, e)) > Len(L)
  BY <1>2
<1>6. Append(L, e) # L
  BY <1>2
<1> QED
  BY <1>1, <1>2, <1>3, <1>4, <1>5, <1>6

\* Concatenation, known by its laws alone while it is hidden.
Join(s, t) == s \o t

LEMMA JoinIsSequence == \A S : \A s, t \in Seq(S) : Join(s, t) \in Seq(S)
  BY ConcatProperties, Zenon DEF Join

LEMMA JoinAssociates ==
    \A S : \A s, t, u \in Seq(S) : Join(Join(s, t), u) = Join(s, Join(t, u))
  BY ConcatAssociative, Zenon DEF Join

LEMMA Regrouped ==
    ASSUME NEW S, NEW s \in Seq(S), NEW t \in Seq(S), NEW u \in Seq(S)
    PROVE  (s \o t) \o u = s \o (t \o u)
  BY ConcatAssociative

LEMMA BuiltKept ==
    ASSUME NEW E, NEW L \in Seq(E), NEW e \in E, NEW built, BuiltInLog(L, built),
           e.name \notin BuildEvents
    PROVE  BuiltInLog(Append(L, e), built)
<1>1. /\ Where(Append(L, e), {"init.completed"}) = Where(L, {"init.completed"})
      /\ Where(Append(L, e), InitFailures) = Where(L, InitFailures)
  BY WhereAppended DEF BuildEvents
<1> QED
  BY <1>1 DEF BuiltInLog

\* An event about nothing the log is read for.
LEMMA EmitQuiet ==
    ASSUME NEW raw \in BOOLEAN, NEW built, NEW L, NEW calls \in Seq(Attempt),
           NEW running \in BOOLEAN, NEW s, NEW sent, NEW e \in LogEvent,
           Agrees(raw, built, L, calls, running, s, sent),
           e.name \notin BatchEvents \cup BuildEvents \cup {"raw.failed", "raw.packet"},
           e.name \in RawEvents => raw
    PROVE  Agrees(raw, built, L \o <<e>>, calls, running, s, sent)
<1>1. L \in Seq(LogEvent)
  BY DEF Agrees
<1>2. L \o <<e>> = Append(L, e) /\ L \o <<e>> \in Seq(LogEvent)
  BY <1>1, Joined
<1>3. Told(Append(L, e), calls, running, s)
  BY <1>1, QuietEvent DEF Agrees
<1>4. raw => Detailed(Append(L, e), calls, running, sent)
  BY <1>1, NoPacketEvent DEF Agrees
<1>5. raw => FailuresInPairs(Append(L, e))
  BY <1>1, NoFailureEvent DEF Agrees, BatchEvents
<1>6. ~raw => NoDetail(Append(L, e))
  BY <1>1, NoDetailEvent DEF Agrees
<1>7. BuiltInLog(Append(L, e), built)
  BY <1>1, BuiltKept DEF Agrees
<1> QED
  BY <1>2, <1>3, <1>4, <1>5, <1>6, <1>7 DEF Agrees

LEMMA EmitStart ==
    ASSUME NEW raw \in BOOLEAN, NEW built, NEW L, NEW calls \in Seq(Attempt),
           NEW s, NEW sent, NEW e \in LogEvent,
           Agrees(raw, built, L, calls, FALSE, s, sent),
           e.name = "batch.started", e.before = s
    PROVE  Agrees(raw, built, L \o <<e>>, calls, TRUE, s, 0)
<1>1. L \in Seq(LogEvent)
  BY DEF Agrees
<1>2. L \o <<e>> = Append(L, e) /\ L \o <<e>> \in Seq(LogEvent)
  BY <1>1, Joined
<1>3. Told(Append(L, e), calls, TRUE, s)
  BY <1>1, StartEvent DEF Agrees
<1>4. raw => Detailed(Append(L, e), calls, TRUE, 0)
  BY <1>1, StartsWithoutPackets DEF Agrees
<1>5. raw => FailuresInPairs(Append(L, e))
  BY <1>1, NoFailureEvent DEF Agrees
<1>6. ~raw => NoDetail(Append(L, e))
  BY <1>1, NoDetailEvent DEF Agrees, RawEvents
<1>7. BuiltInLog(Append(L, e), built)
  BY <1>1, BuiltKept DEF Agrees, BuildEvents, InitFailures
<1> QED
  BY <1>2, <1>3, <1>4, <1>5, <1>6, <1>7 DEF Agrees

LEMMA EmitPacket ==
    ASSUME NEW built, NEW L, NEW calls \in Seq(Attempt), NEW s, NEW sent,
           NEW e \in LogEvent, Agrees(TRUE, built, L, calls, TRUE, s, sent),
           e.name = "raw.packet", e.start = sent
    PROVE  Agrees(TRUE, built, L \o <<e>>, calls, TRUE, s, sent + e.rows)
<1>1. L \in Seq(LogEvent)
  BY DEF Agrees
<1>2. L \o <<e>> = Append(L, e) /\ L \o <<e>> \in Seq(LogEvent)
  BY <1>1, Joined
<1>3. Told(Append(L, e), calls, TRUE, s)
  BY <1>1, QuietEvent DEF Agrees, BatchEvents
<1>4. Detailed(Append(L, e), calls, TRUE, sent + e.rows)
  BY <1>1, PacketEvent DEF Agrees
<1>5. FailuresInPairs(Append(L, e))
  BY <1>1, NoFailureEvent DEF Agrees
<1>6. BuiltInLog(Append(L, e), built)
  BY <1>1, BuiltKept DEF Agrees, BuildEvents, InitFailures
<1> QED
  BY <1>2, <1>3, <1>4, <1>5, <1>6 DEF Agrees

LEMMA EmitCompleted ==
    ASSUME NEW raw \in BOOLEAN, NEW built, NEW L, NEW calls \in Seq(Attempt),
           NEW c \in Attempt, NEW s \in Stats, NEW sent \in Nat, NEW e \in LogEvent,
           Agrees(raw, built, L, calls, TRUE, s, sent), NEW x,
           e.name = "batch.completed", e.before = s,
           e.ordinal = SaturatingAdd(s.batches, 1),
           e.after.batches = SaturatingAdd(s.batches, 1),
           c.outcome = "accepted", c.taken = sent, c.rows = sent
    PROVE  Agrees(raw, built, L \o <<e>>, Append(calls, c), FALSE, e.after, x)
<1>1. L \in Seq(LogEvent)
  BY DEF Agrees
<1>2. L \o <<e>> = Append(L, e) /\ L \o <<e>> \in Seq(LogEvent)
  BY <1>1, Joined
<1>3. SaturatingAdd(s.batches, 1) = Saturate(Cardinality(Completed(L)) + 1)
  <2>1. Cardinality(Completed(L)) \in Nat
    <3>1. Completed(L) \in SUBSET (1..Len(L)) /\ Len(L) \in Nat
      BY <1>1, EndsAppended, LenProperties
    <3> QED
      BY <3>1, FiniteUpTo
  <2>2. s.batches = Saturate(Cardinality(Completed(L)))
    BY DEF Agrees, Told
  <2> QED
    BY <2>1, <2>2, BulkWriterAssumption DEF SaturatingAdd, Saturate
<1>4. Told(Append(L, e), Append(calls, c), FALSE, e.after)
  <2>1. Told(L, calls, TRUE, s)
    BY DEF Agrees
  <2>2. Told(Append(L, e), Append(calls, c), FALSE,
             IF e.name = "batch.completed" THEN e.after ELSE s)
    BY <1>1, <1>3, <2>1, EndEvent
  <2> QED
    BY <2>2
<1>5. raw => Detailed(Append(L, e), Append(calls, c), FALSE, x)
  <2>1. Append(L, e) \in Seq(LogEvent)
    BY <1>2
  <2>2. raw => Detailed(Append(L, e), calls, TRUE, sent)
    BY <1>1, NoPacketEvent DEF Agrees
  <2>3. sent <= c.taken
    OBVIOUS
  <2>4. Detailed(Append(L, e), calls, TRUE, sent)
          => Detailed(Append(L, e), Append(calls, c), FALSE, x)
    BY <2>1, <2>3, CallEndsBehindPackets
  <2> QED
    BY <2>2, <2>4
<1>6. raw => FailuresInPairs(Append(L, e))
  BY <1>1, NoFailureEvent DEF Agrees
<1>7. ~raw => NoDetail(Append(L, e))
  BY <1>1, NoDetailEvent DEF Agrees, RawEvents
<1>8. BuiltInLog(Append(L, e), built)
  BY <1>1, BuiltKept DEF Agrees, BuildEvents, InitFailures
<1> QED
  BY <1>2, <1>4, <1>5, <1>6, <1>7, <1>8 DEF Agrees

LEMMA EmitFailed ==
    ASSUME NEW raw \in BOOLEAN, NEW built, NEW L, NEW calls \in Seq(Attempt),
           NEW c \in Attempt, NEW s, NEW sent \in Nat, NEW d \in LogEvent, NEW e \in LogEvent,
           Agrees(raw, built, L, calls, TRUE, s, sent), NEW x,
           d.name = "raw.failed", e.name = "batch.failed", e.before = s,
           d.phase = c.outcome, e.phase = c.outcome, c.outcome # "accepted", sent <= c.taken
    PROVE  Agrees(raw, built, L \o ((IF raw THEN <<d>> ELSE <<>>) \o <<e>>),
                  Append(calls, c), FALSE, s, x)
<1>1. L \in Seq(LogEvent) /\ BuiltInLog(L, built) /\ Told(L, calls, TRUE, s)
  BY DEF Agrees
<1>2. CASE raw
  <2> DEFINE K == L \o <<d>>
             M == K \o <<e>>
  <2>1. Detailed(L, calls, TRUE, sent) /\ FailuresInPairs(L)
    BY <1>2 DEF Agrees
  <2>2. K = Append(L, d) /\ K \in Seq(LogEvent)
    BY <1>1, Joined
  <2>3. M = Append(K, e) /\ M \in Seq(LogEvent)
    <3>1. K \in Seq(LogEvent)
      BY <2>2
    <3> HIDE DEF K
    <3> QED
      BY <3>1, Joined
  <2>4. L \o (<<d>> \o <<e>>) = M
    <3>1. <<d>> \in Seq(LogEvent) /\ <<e>> \in Seq(LogEvent)
      OBVIOUS
    <3> QED
      BY <1>1, <3>1, ConcatAssociative
  <2>5. Told(K, calls, TRUE, s)
    BY <1>1, <2>2, QuietEvent DEF BatchEvents
  <2>6. Detailed(K, calls, TRUE, sent)
    BY <1>1, <2>1, <2>2, NoPacketEvent
  <2>7. FailuresInPairs(M)
    BY <1>1, <2>1, <2>2, <2>3, FailurePair
  <2>8. BuiltInLog(K, built)
    BY <1>1, <2>2, BuiltKept DEF BuildEvents, InitFailures
  <2> HIDE DEF K
  <2>9. Told(M, Append(calls, c), FALSE, s)
    <3>1. Told(Append(K, e), Append(calls, c), FALSE,
               IF e.name = "batch.completed" THEN e.after ELSE s)
      BY <2>2, <2>5, EndEvent
    <3> QED
      BY <2>3, <3>1
  <2>10. Detailed(M, Append(calls, c), FALSE, x)
    <3>1. Detailed(M, calls, TRUE, sent)
      BY <2>2, <2>3, <2>6, NoPacketEvent
    <3> QED
      BY <2>3, <3>1, CallEndsBehindPackets
  <2>11. BuiltInLog(M, built)
    BY <2>2, <2>3, <2>8, BuiltKept DEF BuildEvents, InitFailures
  <2>12. Agrees(raw, built, M, Append(calls, c), FALSE, s, x)
    BY <1>2, <2>3, <2>7, <2>9, <2>10, <2>11 DEF Agrees
  <2> QED
    BY <1>2, <2>4, <2>12
<1>3. CASE ~raw
  <2> DEFINE M == L \o <<e>>
  <2>1. M = Append(L, e) /\ M \in Seq(LogEvent)
    BY <1>1, Joined
  <2>2. L \o (<<>> \o <<e>>) = M
    <3>1. <<>> \o <<e>> = <<e>>
      OBVIOUS
    <3> QED
      BY <3>1
  <2>3. Told(M, Append(calls, c), FALSE, s)
    <3>1. Told(Append(L, e), Append(calls, c), FALSE,
               IF e.name = "batch.completed" THEN e.after ELSE s)
      BY <1>1, EndEvent
    <3> QED
      BY <2>1, <3>1
  <2>4. NoDetail(M)
    BY <1>1, <1>3, <2>1, NoDetailEvent DEF Agrees, RawEvents
  <2>5. BuiltInLog(M, built)
    BY <1>1, <2>1, BuiltKept DEF BuildEvents, InitFailures
  <2>6. Agrees(raw, built, M, Append(calls, c), FALSE, s, x)
    BY <1>3, <2>1, <2>3, <2>4, <2>5 DEF Agrees
  <2> QED
    BY <1>3, <2>2, <2>6
<1> QED
  BY <1>2, <1>3

LEMMA EmitNothing ==
    ASSUME NEW raw \in BOOLEAN, NEW built, NEW L, NEW calls \in Seq(Attempt),
           NEW c \in Attempt, NEW s, NEW sent \in Nat,
           Agrees(raw, built, L, calls, TRUE, s, sent), NEW x,
           c.outcome = "cancelled", sent <= c.taken
    PROVE  Agrees(raw, built, L, Append(calls, c), FALSE, s, x)
<1>1. L \in Seq(LogEvent)
  BY DEF Agrees
<1>2. Told(L, Append(calls, c), FALSE, s)
  BY <1>1, NoEndEvent DEF Agrees
<1>3. raw => Detailed(L, Append(calls, c), FALSE, x)
  BY <1>1, CallEndsBehindPackets DEF Agrees
<1> QED
  BY <1>2, <1>3 DEF Agrees

LEMMA EmitBuilt ==
    ASSUME NEW raw \in BOOLEAN, NEW L, NEW calls \in Seq(Attempt), NEW running \in BOOLEAN,
           NEW s, NEW sent, NEW e \in LogEvent,
           Agrees(raw, "none", L, calls, running, s, sent), e.name \in BuildEvents
    PROVE  Agrees(raw, IF e.name = "init.completed" THEN "opened" ELSE "failed",
                  L \o <<e>>, calls, running, s, sent)
<1>1. L \in Seq(LogEvent)
  BY DEF Agrees
<1>2. L \o <<e>> = Append(L, e) /\ L \o <<e>> \in Seq(LogEvent)
  BY <1>1, Joined
<1>3. Told(Append(L, e), calls, running, s)
  BY <1>1, QuietEvent DEF Agrees, BuildEvents, InitFailures, BatchEvents
<1>4. raw => Detailed(Append(L, e), calls, running, sent)
  BY <1>1, NoPacketEvent DEF Agrees, BuildEvents, InitFailures
<1>5. raw => FailuresInPairs(Append(L, e))
  BY <1>1, NoFailureEvent DEF Agrees, BuildEvents, InitFailures
<1>6. ~raw => NoDetail(Append(L, e))
  BY <1>1, NoDetailEvent DEF Agrees, BuildEvents, InitFailures, RawEvents
<1>7. BuiltInLog(Append(L, e), IF e.name = "init.completed" THEN "opened" ELSE "failed")
  <2>1. Where(L, {"init.completed"}) = {} /\ Where(L, InitFailures) = {}
    BY DEF Agrees, BuiltInLog
  <2>2. /\ e.name \in {"init.completed"} =>
             Where(Append(L, e), {"init.completed"}) = Where(L, {"init.completed"}) \cup {Len(L) + 1}
        /\ e.name \notin {"init.completed"} =>
             Where(Append(L, e), {"init.completed"}) = Where(L, {"init.completed"})
    BY <1>1, WhereAppended
  <2>3. /\ e.name \in InitFailures =>
             Where(Append(L, e), InitFailures) = Where(L, InitFailures) \cup {Len(L) + 1}
        /\ e.name \notin InitFailures =>
             Where(Append(L, e), InitFailures) = Where(L, InitFailures)
    BY <1>1, WhereAppended
  <2> QED
    BY <2>1, <2>2, <2>3 DEF BuiltInLog, BuildEvents, InitFailures
<1> QED
  BY <1>2, <1>3, <1>4, <1>5, <1>6, <1>7 DEF Agrees

LEMMA EmptyLog ==
    ASSUME NEW raw \in BOOLEAN, NEW x
    PROVE  Agrees(raw, "none", <<>>, <<>>, FALSE, ZeroStats, x)
<1>1. \A names : Where(<<>>, names) = {}
  BY DEF Where
<1>2. Starts(<<>>) = {} /\ Completed(<<>>) = {} /\ BatchFailures(<<>>) = {} /\ RawFailures(<<>>) = {}
  BY <1>1 DEF Starts, Completed, BatchFailures, RawFailures
<1>3. Cardinality({}) = 0
  BY FS_EmptySet
<1>4. Cardinality(Starts(<<>>)) = 0 /\ Cardinality(Completed(<<>>)) = 0
  BY <1>2, <1>3, Zenon
<1>5. TellsOutcomes(<<>>, <<>>, FALSE)
  <2>1. Cardinality(Starts(<<>>)) = Len(<<>>) + 0
    BY <1>4
  <2> QED
    BY <2>1 DEF TellsOutcomes
<1>6. ReplaysStats(<<>>, ZeroStats)
  <2>1. UpTo(Completed(<<>>), Len(<<>>) + 1 - 1) = {}
    BY <1>2 DEF UpTo
  <2> QED
    BY <1>2, <2>1 DEF ReplaysStats, CountersBefore, Ends
<1>7. NumbersAccepted(<<>>)
  BY <1>2 DEF NumbersAccepted
<1>8. ZeroStats.batches = Saturate(Cardinality(Completed(<<>>)))
  BY <1>4, BulkWriterAssumption DEF Saturate, ZeroStats
<1>9. Told(<<>>, <<>>, FALSE, ZeroStats)
  BY <1>5, <1>6, <1>7, <1>8 DEF Told
<1>10. Detailed(<<>>, <<>>, FALSE, x)
  BY DEF Detailed, PacketsFollow
<1>11. FailuresInPairs(<<>>)
  BY <1>2 DEF FailuresInPairs
<1>12. NoDetail(<<>>) /\ BuiltInLog(<<>>, "none")
  BY <1>1 DEF NoDetail, BuiltInLog
<1>13. <<>> \in Seq(LogEvent)
  OBVIOUS
<1> QED
  BY <1>9, <1>10, <1>11, <1>12, <1>13 DEF Agrees

-----------------------------------------------------------------------------
(* The invariant *)

Constructing == {"unopened", "metadata", "starting"}
Constructed == {"open", "writing", "finishing", "finished"}

\* What became of the construction, with the log that tells it.
BuiltAs(built) ==
    /\ Agrees(IsRaw, built, log, attempts, status = "writing", stats, Sent)
    /\ status \in Constructing => built = "none" /\ attempts = <<>>
    /\ status \in Constructed => built = "opened"
    /\ built = "failed" => status = "closed" /\ attempts = <<>>
    /\ status = "unopened" => log = <<>> /\ stats = ZeroStats

TInv == \E built \in {"none", "opened", "failed"} : BuiltAs(built)

LEMMA InitTInv == TelemetryInit => TInv
<1> SUFFICES ASSUME TelemetryInit PROVE BuiltAs("none")
  BY DEF TInv
<1>1. /\ status = "unopened" /\ backend = "none" /\ attempts = <<>> /\ stats = ZeroStats
      /\ log = <<>>
  BY DEF TelemetryInit, Init
<1>2. IsRaw = FALSE
  BY <1>1 DEF IsRaw
<1>3. (status = "writing") = FALSE
  BY <1>1
<1>4. Agrees(FALSE, "none", <<>>, <<>>, FALSE, ZeroStats, Sent)
  BY EmptyLog
<1>5. Agrees(IsRaw, "none", log, attempts, status = "writing", stats, Sent)
  BY <1>1, <1>2, <1>3, <1>4
<1> QED
  BY <1>1, <1>5 DEF BuiltAs, Constructed

\* Between calls, and without raw detail, the rows sent are not looked at.
LEMMA AnySent ==
    ASSUME NEW raw, NEW built, NEW L, NEW calls, NEW running \in BOOLEAN, NEW s, NEW x, NEW y,
           Agrees(raw, built, L, calls, running, s, x), ~running \/ ~raw
    PROVE  Agrees(raw, built, L, calls, running, s, y)
  BY DEF Agrees, Detailed

-----------------------------------------------------------------------------
(* The events are events *)

LEMMA EventIs ==
    ASSUME NEW name \in EventNames, NEW phase \in Phases
    PROVE  /\ Event(name, phase) \in LogEvent
           /\ Event(name, phase).name = name /\ Event(name, phase).phase = phase
<1>1. ZeroStats \in Stats
  BY BulkWriterAssumption DEF ZeroStats, Stats
<1> QED
  BY <1>1 DEF Event, LogEvent

LEMMA BatchEventIs ==
    ASSUME NEW name \in BatchEvents, NEW phase \in Phases, NEW b \in Batches, NEW s \in Stats
    PROVE  /\ BatchEvent(name, phase, b, s) \in LogEvent
           /\ BatchEvent(name, phase, b, s).name = name
           /\ BatchEvent(name, phase, b, s).phase = phase
           /\ BatchEvent(name, phase, b, s).before = s
           /\ BatchEvent(name, phase, b, s).ordinal = SaturatingAdd(s.batches, 1)
<1> DEFINE o == SaturatingAdd(s.batches, 1)
<1>1. o \in Nat /\ b.n \in Nat
  BY BulkWriterAssumption DEF SaturatingAdd, Stats
<1>2. name \in EventNames
  BY DEF EventNames
<1>3. /\ Event(name, phase) \in LogEvent
      /\ Event(name, phase).name = name /\ Event(name, phase).phase = phase
  BY <1>2, EventIs
<1>4. BatchEvent(name, phase, b, s) =
        [Event(name, phase) EXCEPT !.ordinal = o, !.rows = b.n, !.before = s]
  BY DEF BatchEvent, Attempted
<1> HIDE DEF o
<1> QED
  BY <1>1, <1>3, <1>4 DEF LogEvent, o

LEMMA LogStarted ==
    ASSUME IInv, NEW b \in Batches, status = "open", BuiltAs("opened")
    PROVE  /\ Agrees(IsRaw, "opened", log \o BatchStarted(b), attempts, TRUE, stats, 0)
           /\ attempts \in Seq(Attempt) /\ stats \in Stats /\ IsRaw \in BOOLEAN
<1>1. attempts \in Seq(Attempt) /\ stats \in Stats /\ IsRaw \in BOOLEAN
  BY DEF IInv, TypeOK, IsRaw
<1>2. (status = "writing") = FALSE
  OBVIOUS
<1>3. Agrees(IsRaw, "opened", log, attempts, FALSE, stats, Sent)
  BY <1>2 DEF BuiltAs
<1> DEFINE e == BatchEvent("batch.started", "batch_write", b, stats)
<1>4. e \in LogEvent /\ e.name = "batch.started" /\ e.before = stats
  BY <1>1, BatchEventIs DEF BatchEvents, Phases
<1>5. BatchStarted(b) = <<e>>
  BY DEF BatchStarted
<1> HIDE DEF e
<1> QED
  BY <1>1, <1>3, <1>4, <1>5, EmitStart

LEMMA LogFailed ==
    ASSUME NEW L, NEW sent \in Nat, NEW c \in Attempt, NEW b \in Batches, NEW x,
           attempts \in Seq(Attempt), stats \in Stats,
           NEW phase \in {"BatchSchemaValidation", "ValueConversion", "PacketWrite"},
           Agrees(IsRaw, "opened", L, attempts, TRUE, stats, sent),
           c.outcome = phase, sent <= c.taken
    PROVE  Agrees(IsRaw, "opened", L \o BatchFailed(b, phase), Append(attempts, c), FALSE, stats, x)
<1> DEFINE d == Event("raw.failed", phase)
           e == BatchEvent("batch.failed", phase, b, stats)
<1>1. d \in LogEvent /\ d.name = "raw.failed" /\ d.phase = phase
  BY EventIs DEF EventNames, RawEvents, Phases
<1>2. e \in LogEvent /\ e.name = "batch.failed" /\ e.phase = phase /\ e.before = stats
  BY BatchEventIs DEF BatchEvents, Phases
<1>3. BatchFailed(b, phase) = (IF IsRaw THEN <<d>> ELSE <<>>) \o <<e>>
  BY DEF BatchFailed, Detail
<1>4. IsRaw \in BOOLEAN /\ phase # "accepted"
  BY DEF IsRaw
<1> HIDE DEF d, e
<1> QED
  BY <1>1, <1>2, <1>3, <1>4, EmitFailed

LEMMA CallReturned ==
    ASSUME NEW c \in Attempt, status' = "open", attempts' = Append(attempts, c),
           attempts \in Seq(Attempt), backend' = backend,
           Agrees(IsRaw, "opened", log', Append(attempts, c), FALSE, stats', Sent')
    PROVE  TInv'
<1>1. IsRaw' = IsRaw
  BY DEF IsRaw
<1>2. (status' = "writing") = FALSE
  OBVIOUS
<1>3. Agrees(IsRaw, "opened", log', attempts', status' = "writing", stats', Sent')
  BY <1>2
<1>4. BuiltAs("opened")'
  BY <1>1, <1>3 DEF BuiltAs, Constructing
<1> QED
  BY <1>4 DEF TInv

-----------------------------------------------------------------------------
(* BulkWriter::new *)

LEMMA Constructs ==
    ASSUME NEW built \in {"none", "opened", "failed"},
           status' \in {"metadata", "starting", "open", "closed"},
           status' \in {"metadata", "starting"} => built = "none",
           status' = "open" => built = "opened",
           built = "failed" => status' = "closed",
           attempts = <<>>, attempts' = attempts,
           Agrees(IsRaw', built, log', <<>>, FALSE, stats', Sent')
    PROVE  TInv'
<1>1. (status' = "writing") = FALSE
  OBVIOUS
<1>2. Agrees(IsRaw', built, log', attempts', status' = "writing", stats', Sent')
  BY <1>1
<1>3. BuiltAs(built)'
  BY <1>2 DEF BuiltAs, Constructing, Constructed
<1> QED
  BY <1>3 DEF TInv

LEMMA NewTInv == ASSUME IInv, TInv, TracedNew PROVE TInv'
<1> DEFINE a == InitEvent("init.started")
           z == InitEvent("init.failed")
<1>1. PICK built \in {"none", "opened", "failed"} : BuiltAs(built)
  BY DEF TInv
<1>2. /\ status = "unopened" /\ status' \in {"closed", "metadata"}
      /\ UNCHANGED <<stats, attempts, sink, call>>
      /\ log' = log \o (<<a>> \o IF status' = "closed" THEN <<z>> ELSE <<>>)
  BY DEF TracedNew, New, Emit
<1>3. attempts = <<>> /\ log = <<>> /\ stats = ZeroStats
  BY <1>1, <1>2 DEF BuiltAs, Constructing
<1>4. /\ a \in LogEvent /\ a.name = "init.started"
      /\ z \in LogEvent /\ z.name = "init.failed"
  BY EventIs DEF InitEvent, EventNames, Phases
<1>5. IsRaw' \in BOOLEAN /\ <<>> \in Seq(Attempt)
  BY DEF IsRaw
<1> HIDE DEF a, z
<1>6. Agrees(IsRaw', "none", <<>>, <<>>, FALSE, ZeroStats, Sent')
  BY <1>5, EmptyLog
<1>7. Agrees(IsRaw', "none", <<>> \o <<a>>, <<>>, FALSE, ZeroStats, Sent')
  <2>1. a.name \notin BatchEvents \cup BuildEvents \cup {"raw.failed", "raw.packet"}
        /\ a.name \notin RawEvents
    BY <1>4 DEF BatchEvents, BuildEvents, InitFailures, RawEvents
  <2> QED
    BY <1>4, <1>5, <1>6, <2>1, EmitQuiet
<1>8. <<>> \o <<a>> = <<a>>
  OBVIOUS
<1>9. CASE status' = "closed"
  <2>1. Agrees(IsRaw', "failed", <<a>> \o <<z>>, <<>>, FALSE, ZeroStats, Sent')
    <3>1. z.name \in BuildEvents /\ z.name # "init.completed"
      BY <1>4 DEF BuildEvents, InitFailures
    <3>2. Agrees(IsRaw', IF z.name = "init.completed" THEN "opened" ELSE "failed",
                 <<a>> \o <<z>>, <<>>, FALSE, ZeroStats, Sent')
      BY <1>4, <1>5, <1>7, <1>8, <3>1, EmitBuilt
    <3> QED
      BY <3>1, <3>2
  <2>2. log' = <<a>> \o <<z>>
    BY <1>2, <1>3, <1>9
  <2>3. Agrees(IsRaw', "failed", log', <<>>, FALSE, stats', Sent')
    BY <1>2, <1>3, <2>1, <2>2
  <2> QED
    BY <1>2, <1>3, <1>9, <2>3, Constructs
<1>10. CASE status' = "metadata"
  <2>1. log' = <<a>>
    BY <1>2, <1>3, <1>10
  <2>2. Agrees(IsRaw', "none", log', <<>>, FALSE, stats', Sent')
    BY <1>2, <1>3, <1>7, <1>8, <2>1
  <2> QED
    BY <1>2, <1>3, <1>10, <2>2, Constructs
<1> QED
  BY <1>2, <1>9, <1>10

LEMMA LogOfConstruction ==
    ASSUME IInv, TInv, status \in {"metadata", "starting"},
           UNCHANGED <<backend, stats, call, attempts, sink>>
    PROVE  /\ Agrees(IsRaw', "none", log, <<>>, FALSE, stats', Sent')
           /\ IsRaw' \in BOOLEAN /\ <<>> \in Seq(Attempt) /\ attempts = <<>>
           /\ log \in Seq(LogEvent)
<1>1. PICK built \in {"none", "opened", "failed"} : BuiltAs(built)
  BY DEF TInv
<1>2. built = "none" /\ attempts = <<>>
  BY <1>1 DEF BuiltAs, Constructing
<1>3. (status = "writing") = FALSE
  OBVIOUS
<1>4. Agrees(IsRaw, "none", log, <<>>, FALSE, stats, Sent)
  BY <1>1, <1>2, <1>3 DEF BuiltAs
<1>5. IsRaw' = IsRaw /\ Sent' = Sent /\ stats' = stats
  BY DEF IsRaw, Sent
<1>6. Agrees(IsRaw', "none", log, <<>>, FALSE, stats', Sent')
  BY <1>4, <1>5
<1>7. <<>> \in Seq(Attempt)
  OBVIOUS
<1> QED
  BY <1>2, <1>4, <1>6, <1>7 DEF Agrees, IsRaw

LEMMA ColumnsReplyTInv ==
    ASSUME IInv, TInv, NEW ok \in BOOLEAN, TracedColumnsReply(ok)
    PROVE  TInv'
<1> DEFINE a == ValidationEvent("validation.started")
           z == ValidationEvent(IF status' = "starting" THEN "validation.completed"
                                                        ELSE "validation.failed")
           first == IF ok THEN <<a>> ELSE <<>>
<1>1. /\ status = "metadata" /\ status' \in {"starting", "closed"}
      /\ UNCHANGED <<backend, stats, call, attempts, sink>>
      /\ log' = log \o (first \o <<z>>)
  BY DEF TracedColumnsReply, ColumnsReply, Emit
<1>2. /\ Agrees(IsRaw', "none", log, <<>>, FALSE, stats', Sent')
      /\ IsRaw' \in BOOLEAN /\ <<>> \in Seq(Attempt) /\ attempts = <<>>
      /\ log \in Seq(LogEvent)
  BY <1>1, LogOfConstruction
<1>3. a \in LogEvent /\ a.name = "validation.started"
  BY EventIs DEF ValidationEvent, EventNames, Phases
<1>4. /\ z \in LogEvent
      /\ z.name = IF status' = "starting" THEN "validation.completed" ELSE "validation.failed"
  <2>1. (IF status' = "starting" THEN "validation.completed" ELSE "validation.failed") \in EventNames
    BY DEF EventNames
  <2> QED
    BY <2>1, EventIs DEF ValidationEvent, Phases
<1>5. first \in Seq(LogEvent) /\ <<z>> \in Seq(LogEvent)
  BY <1>3, <1>4
<1>6. log' = (log \o first) \o <<z>>
  <2> HIDE DEF first, z
  <2> QED
    BY <1>1, <1>2, <1>5, ConcatAssociative
<1> HIDE DEF a, z
<1>7. Agrees(IsRaw', "none", log \o first, <<>>, FALSE, stats', Sent')
  <2>1. CASE ok
    <3>1. a.name \notin BatchEvents \cup BuildEvents \cup {"raw.failed", "raw.packet"}
          /\ a.name \notin RawEvents
      BY <1>3 DEF BatchEvents, BuildEvents, InitFailures, RawEvents
    <3>2. Agrees(IsRaw', "none", log \o <<a>>, <<>>, FALSE, stats', Sent')
      BY <1>2, <1>3, <3>1, EmitQuiet
    <3> QED
      BY <2>1, <3>2
  <2>2. CASE ~ok
    <3>1. log \o <<>> = log
      BY <1>2, ConcatEmptySeq
    <3> QED
      BY <1>2, <2>2, <3>1
  <2> QED
    BY <2>1, <2>2
<1> HIDE DEF first
<1>8. CASE status' = "starting"
  <2>1. z.name \notin BatchEvents \cup BuildEvents \cup {"raw.failed", "raw.packet"}
        /\ z.name \notin RawEvents
    BY <1>4, <1>8 DEF BatchEvents, BuildEvents, InitFailures, RawEvents
  <2>2. Agrees(IsRaw', "none", log', <<>>, FALSE, stats', Sent')
    BY <1>2, <1>4, <1>6, <1>7, <2>1, EmitQuiet
  <2> QED
    BY <1>1, <1>2, <1>8, <2>2, Constructs
<1>9. CASE status' = "closed"
  <2>1. z.name \in BuildEvents /\ z.name # "init.completed"
    BY <1>4, <1>9 DEF BuildEvents, InitFailures
  <2>2. Agrees(IsRaw', IF z.name = "init.completed" THEN "opened" ELSE "failed",
               log', <<>>, FALSE, stats', Sent')
    BY <1>2, <1>4, <1>6, <1>7, <2>1, EmitBuilt
  <2>3. Agrees(IsRaw', "failed", log', <<>>, FALSE, stats', Sent')
    BY <2>1, <2>2
  <2> QED
    BY <1>1, <1>2, <1>9, <2>3, Constructs
<1> QED
  BY <1>1, <1>8, <1>9

LEMMA InsertBulkReplyTInv ==
    ASSUME IInv, TInv, NEW ok \in BOOLEAN, TracedInsertBulkReply(ok)
    PROVE  TInv'
<1> DEFINE z == InitEvent(IF ok THEN "init.completed" ELSE "init.failed")
<1>1. /\ status = "starting" /\ status' = IF ok THEN "open" ELSE "closed"
      /\ UNCHANGED <<backend, stats, call, attempts, sink>>
      /\ log' = log \o <<z>>
  BY DEF TracedInsertBulkReply, InsertBulkReply, Emit
<1>2. /\ Agrees(IsRaw', "none", log, <<>>, FALSE, stats', Sent')
      /\ IsRaw' \in BOOLEAN /\ <<>> \in Seq(Attempt) /\ attempts = <<>>
  BY <1>1, LogOfConstruction
<1>3. z \in LogEvent /\ z.name = IF ok THEN "init.completed" ELSE "init.failed"
  <2>1. (IF ok THEN "init.completed" ELSE "init.failed") \in EventNames
    BY DEF EventNames
  <2> QED
    BY <2>1, EventIs DEF InitEvent, Phases
<1> HIDE DEF z
<1>4. z.name \in BuildEvents
  BY <1>3 DEF BuildEvents, InitFailures
<1>5. Agrees(IsRaw', IF z.name = "init.completed" THEN "opened" ELSE "failed",
             log', <<>>, FALSE, stats', Sent')
  BY <1>1, <1>2, <1>3, <1>4, EmitBuilt
<1>6. Agrees(IsRaw', IF ok THEN "opened" ELSE "failed", log', <<>>, FALSE, stats', Sent')
  BY <1>3, <1>5
<1>7. CASE ok
  BY <1>1, <1>2, <1>6, <1>7, Constructs
<1>8. CASE ~ok
  BY <1>1, <1>2, <1>6, <1>8, Constructs
<1> QED
  BY <1>7, <1>8

LEMMA CancelNewTInv ==
    ASSUME IInv, TInv, CancelNew, log' = log
    PROVE  TInv'
<1>1. /\ status \in {"metadata", "starting"} /\ status' = "closed"
      /\ UNCHANGED <<backend, stats, call, attempts, sink>>
  BY DEF CancelNew
<1>2. Agrees(IsRaw', "none", log', <<>>, FALSE, stats', Sent') /\ attempts = <<>>
  BY <1>1, LogOfConstruction
<1> QED
  BY <1>1, <1>2, Constructs

-----------------------------------------------------------------------------
(* write_batch *)

LEMMA OpenIsBuilt == ASSUME TInv, status \in {"open", "writing"} PROVE BuiltAs("opened")
  BY DEF TInv, BuiltAs, Constructed

LEMMA LogParts ==
    ASSUME NEW b \in Batches, stats \in Stats, NEW L \in Seq(LogEvent),
           NEW phase \in {"BatchSchemaValidation", "ValueConversion", "PacketWrite"}
    PROVE  /\ BatchStarted(b) \in Seq(LogEvent) /\ BatchFailed(b, phase) \in Seq(LogEvent)
           /\ (L \o BatchStarted(b)) \o BatchFailed(b, phase)
                = L \o (BatchStarted(b) \o BatchFailed(b, phase))
<1> DEFINE a == BatchEvent("batch.started", "batch_write", b, stats)
           d == Event("raw.failed", phase)
           e == BatchEvent("batch.failed", phase, b, stats)
           tail == (IF IsRaw THEN <<d>> ELSE <<>>) \o <<e>>
<1>1. a \in LogEvent /\ e \in LogEvent
  BY BatchEventIs DEF BatchEvents, Phases
<1>2. d \in LogEvent
  BY EventIs DEF EventNames, RawEvents, Phases
<1>3. BatchStarted(b) = <<a>> /\ BatchFailed(b, phase) = tail
  BY DEF BatchStarted, BatchFailed, Detail
<1> HIDE DEF a, d, e
<1>4. <<a>> \in Seq(LogEvent) /\ tail \in Seq(LogEvent)
  <2>1. (IF IsRaw THEN <<d>> ELSE <<>>) \in Seq(LogEvent) /\ <<e>> \in Seq(LogEvent)
    BY <1>1, <1>2
  <2>2. <<a>> \in Seq(LogEvent)
    BY <1>1
  <2> QED
    BY <2>1, <2>2, ConcatProperties
<1> HIDE DEF tail
<1>5. (L \o <<a>>) \o tail = L \o (<<a>> \o tail)
  BY <1>4, ConcatAssociative
<1> QED
  BY <1>3, <1>4, <1>5

LEMMA RefusedTInv ==
    ASSUME IInv, TInv, NEW b \in Batches,
           NEW phase \in {"BatchSchemaValidation", "ValueConversion"}, status = "open",
           Return(b, Len(sink), 0, phase), UNCHANGED <<backend, stats, sink>>,
           log' = log \o (BatchStarted(b) \o BatchFailed(b, phase))
    PROVE  TInv'
<1> DEFINE c == [rows |-> b.n, at |-> Len(sink), taken |-> 0, outcome |-> phase]
<1>1. attempts' = Append(attempts, c) /\ status' = "open" /\ stats' = stats
  BY DEF Return
<1>2. c \in Attempt /\ c.outcome = phase /\ c.taken = 0
  BY BulkWriterAssumption DEF Attempt, Outcomes, Rejections, IInv, TypeOK
<1> HIDE DEF c
<1>3. /\ Agrees(IsRaw, "opened", log \o BatchStarted(b), attempts, TRUE, stats, 0)
      /\ attempts \in Seq(Attempt) /\ stats \in Stats
  BY OpenIsBuilt, LogStarted
<1>4. log' = (log \o BatchStarted(b)) \o BatchFailed(b, phase)
  <2>1. log \in Seq(LogEvent)
    BY OpenIsBuilt DEF BuiltAs, Agrees
  <2> QED
    BY <1>3, <2>1, LogParts
<1>5. Agrees(IsRaw, "opened", (log \o BatchStarted(b)) \o BatchFailed(b, phase),
             Append(attempts, c), FALSE, stats, Sent')
  <2>1. 0 <= c.taken /\ 0 \in Nat
    BY <1>2
  <2> QED
    BY <1>2, <1>3, <2>1, LogFailed
<1>6. Agrees(IsRaw, "opened", log', Append(attempts, c), FALSE, stats', Sent')
  BY <1>1, <1>4, <1>5
<1> QED
  BY <1>1, <1>2, <1>3, <1>6, CallReturned

LEMMA LogMeasured ==
    ASSUME NEW b \in Batches, NEW ends \in SUBSET (1..b.n), NEW L, NEW sent,
           attempts \in Seq(Attempt), stats \in Stats,
           Agrees(IsRaw, "opened", L, attempts, TRUE, stats, sent)
    PROVE  LET detail == Detail(Measured(b) \o RangesPlanned(ends))
           IN  /\ detail \in Seq(LogEvent)
               /\ Agrees(IsRaw, "opened", L \o detail, attempts, TRUE, stats, sent)
<1> DEFINE m == [Event("raw.measured", "direct_encoding") EXCEPT !.rows = b.n]
           p == [Event("raw.ranges_planned", "direct_encoding") EXCEPT !.rows = Cardinality(ends)]
           detail == Detail(Measured(b) \o RangesPlanned(ends))
<1>1. b.n \in Nat /\ Cardinality(ends) \in Nat
  <2>1. b.n \in Nat
    BY BulkWriterAssumption
  <2> QED
    BY <2>1, FiniteUpTo
<1>2. m \in LogEvent /\ m.name = "raw.measured"
  <2>1. /\ Event("raw.measured", "direct_encoding") \in LogEvent
        /\ Event("raw.measured", "direct_encoding").name = "raw.measured"
    BY EventIs DEF EventNames, RawEvents, Phases
  <2> QED
    BY <1>1, <2>1 DEF LogEvent
<1>3. p \in LogEvent /\ p.name = "raw.ranges_planned"
  <2>1. /\ Event("raw.ranges_planned", "direct_encoding") \in LogEvent
        /\ Event("raw.ranges_planned", "direct_encoding").name = "raw.ranges_planned"
    BY EventIs DEF EventNames, RawEvents, Phases
  <2> QED
    BY <1>1, <2>1 DEF LogEvent
<1>4. detail = IF IsRaw THEN <<m>> \o <<p>> ELSE <<>>
  BY DEF Detail, Measured, RangesPlanned
<1>5. L \in Seq(LogEvent) /\ IsRaw \in BOOLEAN
  BY DEF Agrees, IsRaw
<1> HIDE DEF m, p, detail
<1>6. CASE IsRaw
  <2>1. /\ m.name \notin BatchEvents \cup BuildEvents \cup {"raw.failed", "raw.packet"}
        /\ p.name \notin BatchEvents \cup BuildEvents \cup {"raw.failed", "raw.packet"}
    BY <1>2, <1>3 DEF BatchEvents, BuildEvents, InitFailures
  <2>2. Agrees(IsRaw, "opened", L \o <<m>>, attempts, TRUE, stats, sent)
    BY <1>2, <1>5, <1>6, <2>1, EmitQuiet
  <2>3. Agrees(IsRaw, "opened", (L \o <<m>>) \o <<p>>, attempts, TRUE, stats, sent)
    BY <1>3, <1>5, <1>6, <2>1, <2>2, EmitQuiet
  <2>4. <<m>> \in Seq(LogEvent) /\ <<p>> \in Seq(LogEvent)
    BY <1>2, <1>3
  <2>5. (L \o <<m>>) \o <<p>> = L \o (<<m>> \o <<p>>)
    BY <1>5, <2>4, ConcatAssociative
  <2>6. <<m>> \o <<p>> \in Seq(LogEvent)
    BY <2>4, ConcatProperties
  <2>7. detail = <<m>> \o <<p>>
    BY <1>4, <1>6
  <2>8. Agrees(IsRaw, "opened", L \o detail, attempts, TRUE, stats, sent)
    BY <2>3, <2>5, <2>7
  <2> QED
    BY <2>6, <2>7, <2>8 DEF detail
<1>7. CASE ~IsRaw
  <2>1. detail = <<>> /\ L \o <<>> = L
    BY <1>4, <1>5, <1>7, ConcatEmptySeq
  <2>2. <<>> \in Seq(LogEvent)
    OBVIOUS
  <2>3. Agrees(IsRaw, "opened", L \o detail, attempts, TRUE, stats, sent)
    BY <2>1
  <2> QED
    BY <2>1, <2>2, <2>3 DEF detail
<1> QED
  BY <1>6, <1>7

LEMMA LogCompleted ==
    ASSUME NEW b \in Batches, NEW L, NEW sent \in Nat, NEW c \in Attempt, NEW x,
           attempts \in Seq(Attempt), stats \in Stats, stats' \in Stats,
           Agrees(IsRaw, "opened", L, attempts, TRUE, stats, sent),
           stats' = RecordAcceptedBatch(b.n),
           c.outcome = "accepted", c.taken = sent, c.rows = sent
    PROVE  /\ BatchCompleted(b) \in Seq(LogEvent)
           /\ Agrees(IsRaw, "opened", L \o BatchCompleted(b), Append(attempts, c), FALSE, stats', x)
<1> DEFINE f == BatchEvent("batch.completed", "batch_write", b, stats)
           e == [f EXCEPT !.after = stats']
<1>1. /\ f \in LogEvent /\ f.name = "batch.completed" /\ f.before = stats
      /\ f.ordinal = SaturatingAdd(stats.batches, 1)
  BY BatchEventIs DEF BatchEvents, Phases
<1>2. BatchCompleted(b) = <<e>>
  BY DEF BatchCompleted
<1> HIDE DEF f
<1>3. /\ e \in LogEvent /\ e.name = "batch.completed" /\ e.before = stats
      /\ e.ordinal = SaturatingAdd(stats.batches, 1) /\ e.after = stats'
  BY <1>1 DEF LogEvent
<1>4. e.after.batches = SaturatingAdd(stats.batches, 1) /\ IsRaw \in BOOLEAN
  BY <1>3 DEF RecordAcceptedBatch, IsRaw
<1> HIDE DEF e
<1>5. Agrees(IsRaw, "opened", L \o <<e>>, Append(attempts, c), FALSE, e.after, x)
  BY <1>3, <1>4, EmitCompleted
<1>6. <<e>> \in Seq(LogEvent)
  BY <1>3
<1> QED
  BY <1>2, <1>3, <1>5, <1>6

LEMMA StartIsEvent ==
    ASSUME NEW b \in Batches, stats \in Stats
    PROVE  BatchStarted(b) \in Seq(LogEvent)
<1>1. BatchEvent("batch.started", "batch_write", b, stats) \in LogEvent
  BY BatchEventIs DEF BatchEvents, Phases
<1> QED
  BY <1>1 DEF BatchStarted

LEMMA AcceptEmptyTInv ==
    ASSUME IInv, TInv, NEW b \in Batches, TracedAcceptEmpty(b)
    PROVE  TInv'
<1> DEFINE c == [rows |-> b.n, at |-> Len(sink), taken |-> 0, outcome |-> "accepted"]
           first == BatchStarted(b)
           detail == Detail(Measured(b) \o RangesPlanned({}))
           last == BatchCompleted(b)
<1>1. /\ status = "open" /\ b.n = 0 /\ stats' = RecordAcceptedBatch(b.n)
      /\ attempts' = Append(attempts, c) /\ status' = "open" /\ backend' = backend
      /\ log' = log \o ((first \o detail) \o last)
  BY DEF TracedAcceptEmpty, AcceptEmpty, MayWrite, Return, Emit
<1>2. c \in Attempt /\ c.outcome = "accepted" /\ c.taken = 0 /\ c.rows = 0
  BY <1>1 DEF Attempt, Outcomes, IInv, TypeOK
<1> HIDE DEF c, first, detail, last
<1>3. /\ Agrees(IsRaw, "opened", log \o first, attempts, TRUE, stats, 0)
      /\ attempts \in Seq(Attempt) /\ stats \in Stats
  BY <1>1, OpenIsBuilt, LogStarted DEF first
<1>4. stats' \in Stats
  BY <1>1, RecordType DEF IInv
<1>5. /\ detail \in Seq(LogEvent)
      /\ Agrees(IsRaw, "opened", (log \o first) \o detail, attempts, TRUE, stats, 0)
  <2>1. {} \in SUBSET (1..b.n)
    OBVIOUS
  <2> QED
    BY <1>3, <2>1, LogMeasured DEF detail
<1>6. /\ last \in Seq(LogEvent)
      /\ Agrees(IsRaw, "opened", ((log \o first) \o detail) \o last,
                Append(attempts, c), FALSE, stats', Sent')
  BY <1>1, <1>2, <1>3, <1>4, <1>5, LogCompleted DEF last
<1>7. log' = ((log \o first) \o detail) \o last
  <2>1. log \in Seq(LogEvent) /\ first \in Seq(LogEvent)
    BY <1>1, <1>3, OpenIsBuilt, StartIsEvent DEF BuiltAs, Agrees, first
  <2>2. detail \in Seq(LogEvent) /\ last \in Seq(LogEvent)
    BY <1>5, <1>6
  <2>3. log' = Join(log, Join(Join(first, detail), last))
    BY <1>1, Zenon DEF Join
  <2>4. log' = Join(Join(Join(log, first), detail), last)
    BY <2>1, <2>2, <2>3, JoinIsSequence, JoinAssociates
  <2> QED
    BY <2>4, Zenon DEF Join
<1>8. Agrees(IsRaw, "opened", log', Append(attempts, c), FALSE, stats', Sent')
  BY <1>6, <1>7
<1> QED
  BY <1>1, <1>2, <1>3, <1>8, CallReturned

LEMMA BeginSendingTInv ==
    ASSUME IInv, TInv, NEW b \in Batches, NEW ends \in Units(b), TracedBeginSending(b, ends)
    PROVE  TInv'
<1> DEFINE first == BatchStarted(b)
           detail == Detail(Measured(b) \o RangesPlanned(ends))
<1>1. /\ status = "open" /\ status' = "writing" /\ UNCHANGED <<backend, stats, attempts, sink>>
      /\ call'.at = Len(sink) /\ log' = log \o (first \o detail)
  BY DEF TracedBeginSending, BeginSending, MayWrite, Emit
<1>2. ends \in SUBSET (1..b.n)
  BY DEF Units
<1> HIDE DEF first, detail
<1>3. /\ Agrees(IsRaw, "opened", log \o first, attempts, TRUE, stats, 0)
      /\ attempts \in Seq(Attempt) /\ stats \in Stats
  BY <1>1, OpenIsBuilt, LogStarted DEF first
<1>4. /\ detail \in Seq(LogEvent)
      /\ Agrees(IsRaw, "opened", (log \o first) \o detail, attempts, TRUE, stats, 0)
  BY <1>2, <1>3, LogMeasured DEF detail
<1>5. log' = (log \o first) \o detail
  <2>1. log \in Seq(LogEvent) /\ first \in Seq(LogEvent)
    BY <1>1, <1>3, OpenIsBuilt, StartIsEvent DEF BuiltAs, Agrees, first
  <2>2. PICK L, S : L = log /\ S = LogEvent
    OBVIOUS
  <2>3. L \in Seq(S) /\ first \in Seq(S) /\ detail \in Seq(S)
    BY <1>4, <2>1, <2>2
  <2>4. (L \o first) \o detail = L \o (first \o detail)
    BY ONLY <2>3, Regrouped
  <2>5. log' = L \o (first \o detail)
    BY <1>1, <2>2
  <2> QED
    BY ONLY <2>2, <2>4, <2>5
<1>6. Sent' = 0
  <2>1. Len(sink) \in Nat
    BY LenProperties DEF IInv, TypeOK
  <2> QED
    BY <1>1, <2>1 DEF Sent
<1>7. IsRaw' = IsRaw
  BY <1>1 DEF IsRaw
<1>8. (status' = "writing") = TRUE
  BY <1>1
<1>9. Agrees(IsRaw', "opened", log', attempts', status' = "writing", stats', Sent')
  BY <1>1, <1>4, <1>5, <1>6, <1>7, <1>8
<1>10. BuiltAs("opened")'
  BY <1>1, <1>9 DEF BuiltAs, Constructing
<1> QED
  BY <1>10 DEF TInv

LEMMA LogOfCall ==
    ASSUME IInv, TInv, status = "writing"
    PROVE  /\ Agrees(IsRaw, "opened", log, attempts, TRUE, stats, Sent)
           /\ attempts \in Seq(Attempt) /\ stats \in Stats /\ IsRaw \in BOOLEAN
           /\ log \in Seq(LogEvent) /\ Sent \in Nat
           /\ call.batch \in Batches /\ call.batch.n \in Nat /\ call.at \in Nat
<1>1. BuiltAs("opened")
  BY OpenIsBuilt
<1>2. (status = "writing") = TRUE
  OBVIOUS
<1>3. Agrees(IsRaw, "opened", log, attempts, TRUE, stats, Sent)
  BY <1>1, <1>2 DEF BuiltAs
<1>4. attempts \in Seq(Attempt) /\ stats \in Stats /\ CallOK
  BY DEF IInv, TypeOK
<1>5. call.batch \in Batches /\ call.batch.n \in Nat /\ call.at \in Nat /\ Sent \in Nat
  BY <1>4, BulkWriterAssumption DEF CallOK
<1> QED
  BY <1>3, <1>4, <1>5 DEF Agrees, IsRaw

LEMMA LogPacket ==
    ASSUME NEW n \in Nat, NEW L, NEW sent \in Nat, attempts \in Seq(Attempt),
           Agrees(IsRaw, "opened", L, attempts, TRUE, stats, sent)
    PROVE  /\ Detail(PacketWritten(sent, n)) \in Seq(LogEvent)
           /\ Agrees(IsRaw, "opened", L \o Detail(PacketWritten(sent, n)), attempts, TRUE,
                     stats, sent + n)
<1> DEFINE e == [Event("raw.packet", "packet_write") EXCEPT !.start = sent, !.rows = n]
<1>1. /\ e \in LogEvent /\ e.name = "raw.packet" /\ e.start = sent /\ e.rows = n
  <2>1. /\ Event("raw.packet", "packet_write") \in LogEvent
        /\ Event("raw.packet", "packet_write").name = "raw.packet"
    BY EventIs DEF EventNames, RawEvents, Phases
  <2> QED
    BY <2>1 DEF LogEvent
<1>2. Detail(PacketWritten(sent, n)) = IF IsRaw THEN <<e>> ELSE <<>>
  BY DEF Detail, PacketWritten
<1>3. L \in Seq(LogEvent) /\ IsRaw \in BOOLEAN
  BY DEF Agrees, IsRaw
<1> HIDE DEF e
<1>4. CASE IsRaw
  <2>1. IsRaw = TRUE
    BY <1>3, <1>4
  <2>2. Agrees(TRUE, "opened", L, attempts, TRUE, stats, sent)
    BY <2>1
  <2>3. Agrees(TRUE, "opened", L \o <<e>>, attempts, TRUE, stats, sent + e.rows)
    BY <1>1, <2>2, EmitPacket
  <2>4. <<e>> \in Seq(LogEvent)
    BY <1>1
  <2> QED
    BY <1>1, <1>2, <2>1, <2>3, <2>4
<1>5. CASE ~IsRaw
  <2>1. Agrees(IsRaw, "opened", L, attempts, TRUE, stats, sent + n)
    BY <1>5, AnySent
  <2>2. L \o <<>> = L
    BY <1>3, ConcatEmptySeq
  <2>3. <<>> \in Seq(LogEvent)
    OBVIOUS
  <2> QED
    BY <1>2, <1>5, <2>1, <2>2, <2>3
<1> QED
  BY <1>4, <1>5

LEMMA SendUnitTInv == ASSUME IInv, TInv, NEW e \in call.ends, TracedSendUnit(e) PROVE TInv'
<1> DEFINE b == call.batch
           packet == Detail(PacketWritten(Sent, e - Sent))
           last == BatchCompleted(b)
           c == [rows |-> b.n, at |-> call.at, taken |-> e, outcome |-> "accepted"]
<1>1. SendUnit(e) /\ status = "writing" /\ Adjacent(call.ends, Sent, e)
  BY DEF TracedSendUnit, SendUnit
<1>2. /\ Sent \in Nat /\ e - Sent \in Nat /\ e \in 1..b.n /\ Sent < e /\ Sent + (e - Sent) = e
      /\ b.bad = {}
  BY <1>1, NextUnit
<1>3. /\ Agrees(IsRaw, "opened", log, attempts, TRUE, stats, Sent)
      /\ attempts \in Seq(Attempt) /\ stats \in Stats /\ IsRaw \in BOOLEAN
      /\ log \in Seq(LogEvent) /\ b \in Batches /\ b.n \in Nat /\ call.at \in Nat
  BY <1>1, LogOfCall
<1>4. sink' = sink \o NextRows(e - Sent) /\ backend' = backend
  BY <1>1, <1>2 DEF SendUnit
<1>5. Len(sink') = Len(sink) + (e - Sent) /\ Len(sink) \in Nat
  BY <1>2, <1>4, SinkGrows DEF IInv
<1>6. sink' # sink
  BY <1>2, <1>5
<1>7. log' = log \o (packet \o IF status' = "open" THEN last ELSE <<>>)
  BY <1>6 DEF TracedSendUnit, Emit
<1>8. /\ packet \in Seq(LogEvent)
      /\ Agrees(IsRaw, "opened", log \o packet, attempts, TRUE, stats, e)
  <2>1. Agrees(IsRaw, "opened", log \o packet, attempts, TRUE, stats, Sent + (e - Sent))
        /\ packet \in Seq(LogEvent)
    BY <1>2, <1>3, LogPacket
  <2> QED
    BY <1>2, <2>1
<1>9. CASE LastUnit(e)
  <2>1. /\ stats' = RecordAcceptedBatch(b.n) /\ e = b.n
        /\ attempts' = Append(attempts, c) /\ status' = "open"
    BY <1>1, <1>2, <1>9 DEF SendUnit, LastUnit, Return
  <2>2. c \in Attempt /\ c.outcome = "accepted" /\ c.taken = e /\ c.rows = e
    BY <1>3, <2>1 DEF Attempt, Outcomes
  <2>3. stats' \in Stats
    BY <1>3, <2>1, RecordType DEF IInv
  <2> HIDE DEF packet, last, c
  <2>4. /\ last \in Seq(LogEvent)
        /\ Agrees(IsRaw, "opened", (log \o packet) \o last, Append(attempts, c), FALSE, stats', Sent')
    <3>1. e \in Nat
      BY <1>3, <2>1
    <3> QED
      BY <1>3, <1>8, <2>1, <2>2, <2>3, <3>1, LogCompleted DEF last
  <2>5. log' = (log \o packet) \o last
    <3>1. PICK L, S : L = log /\ S = LogEvent
      OBVIOUS
    <3>2. L \in Seq(S) /\ packet \in Seq(S) /\ last \in Seq(S)
      BY <1>3, <1>8, <2>4, <3>1
    <3>3. (L \o packet) \o last = L \o (packet \o last)
      BY ONLY <3>2, Regrouped
    <3>4. log' = L \o (packet \o last)
      BY <1>7, <2>1, <3>1
    <3> QED
      BY ONLY <3>1, <3>3, <3>4
  <2>6. Agrees(IsRaw, "opened", log', Append(attempts, c), FALSE, stats', Sent')
    BY <2>4, <2>5
  <2> QED
    BY <1>3, <1>4, <2>1, <2>2, <2>6, CallReturned
<1>10. CASE ~LastUnit(e)
  <2>1. UNCHANGED <<stats, attempts, status, call>>
    BY <1>1, <1>2, <1>10 DEF SendUnit, LastUnit
  <2> HIDE DEF packet, last
  <2>2. log' = log \o packet
    <3>1. log' = log \o (packet \o <<>>)
      BY <1>1, <1>7, <2>1
    <3>2. packet \o <<>> = packet
      BY <1>8, ConcatEmptySeq
    <3> QED
      BY <3>1, <3>2
  <2>3. Sent' = e
    BY <1>2, <1>3, <1>5, <2>1 DEF Sent
  <2>4. IsRaw' = IsRaw
    BY <1>4 DEF IsRaw
  <2>5. (status' = "writing") = TRUE
    BY <1>1, <2>1
  <2>6. Agrees(IsRaw', "opened", log', attempts', status' = "writing", stats', Sent')
    BY <1>8, <2>1, <2>2, <2>3, <2>4, <2>5
  <2>7. BuiltAs("opened")'
    BY <1>1, <2>1, <2>6 DEF BuiltAs, Constructing
  <2> QED
    BY <2>7 DEF TInv
<1> QED
  BY <1>9, <1>10

LEMMA SendFailsTInv ==
    ASSUME IInv, TInv, NEW e \in call.ends, NEW k \in 0..(e - Sent), TracedSendFails(e, k)
    PROVE  TInv'
<1> DEFINE b == call.batch
           c == [rows |-> b.n, at |-> call.at, taken |-> Sent + k, outcome |-> "PacketWrite"]
<1>1. /\ status = "writing" /\ Adjacent(call.ends, Sent, e)
      /\ attempts' = Append(attempts, c) /\ status' = "open" /\ UNCHANGED <<backend, stats>>
      /\ log' = log \o BatchFailed(b, "PacketWrite")
  BY DEF TracedSendFails, SendFails, Return, Emit
<1>2. /\ Agrees(IsRaw, "opened", log, attempts, TRUE, stats, Sent)
      /\ attempts \in Seq(Attempt) /\ stats \in Stats /\ Sent \in Nat
      /\ b \in Batches /\ b.n \in Nat /\ call.at \in Nat
  BY <1>1, LogOfCall
<1>3. e - Sent \in Nat
  BY <1>1, NextUnit
<1>4. c \in Attempt /\ c.outcome = "PacketWrite" /\ Sent <= c.taken
  BY <1>2, <1>3 DEF Attempt, Outcomes
<1> HIDE DEF c
<1>5. Agrees(IsRaw, "opened", log \o BatchFailed(b, "PacketWrite"), Append(attempts, c), FALSE,
             stats, Sent')
  BY <1>2, <1>4, LogFailed
<1>6. Agrees(IsRaw, "opened", log', Append(attempts, c), FALSE, stats', Sent')
  BY <1>1, <1>5
<1> QED
  BY <1>1, <1>2, <1>4, <1>6, CallReturned

LEMMA CancelWriteTInv ==
    ASSUME IInv, TInv, NEW k \in Pending, CancelWrite(k), log' = log
    PROVE  TInv'
<1> DEFINE c == [rows |-> call.batch.n, at |-> call.at, taken |-> Sent + k,
                 outcome |-> "cancelled"]
<1>1. /\ status = "writing" /\ attempts' = Append(attempts, c) /\ status' = "open"
      /\ UNCHANGED <<backend, stats>>
  BY DEF CancelWrite, Return
<1>2. /\ Agrees(IsRaw, "opened", log, attempts, TRUE, stats, Sent)
      /\ attempts \in Seq(Attempt) /\ stats \in Stats /\ IsRaw \in BOOLEAN /\ Sent \in Nat
      /\ call.batch.n \in Nat /\ call.at \in Nat
  BY <1>1, LogOfCall
<1>3. k \in Nat
  <2>1. CASE k = 0
    BY <2>1
  <2>2. CASE k # 0
    <3>1. PICK e \in call.ends : Adjacent(call.ends, Sent, e) /\ k \in 0..(e - Sent)
      BY <2>2 DEF Pending
    <3> QED
      BY <1>1, <3>1, NextUnit
  <2> QED
    BY <2>1, <2>2
<1>4. c \in Attempt /\ c.outcome = "cancelled" /\ Sent <= c.taken
  BY <1>2, <1>3 DEF Attempt, Outcomes
<1> HIDE DEF c
<1>5. Agrees(IsRaw, "opened", log, Append(attempts, c), FALSE, stats, Sent')
  BY <1>2, <1>4, EmitNothing
<1>6. Agrees(IsRaw, "opened", log', Append(attempts, c), FALSE, stats', Sent')
  BY <1>1, <1>5
<1> QED
  BY <1>1, <1>2, <1>4, <1>6, CallReturned

-----------------------------------------------------------------------------
(* finish *)

LEMMA FinishTInv ==
    ASSUME IInv, TInv, status \in {"open", "finishing"},
           status' \in {"finishing", "finished", "closed"},
           UNCHANGED <<backend, stats, call, attempts, sink>>,
           NEW name \in {"finish.started", "finish.completed", "finish.failed"},
           log' = log \o <<FinishEvent(name)>> \/ log' = log
    PROVE  TInv'
<1> DEFINE e == FinishEvent(name)
<1>1. BuiltAs("opened")
  BY DEF TInv, BuiltAs, Constructed
<1>2. (status = "writing") = FALSE /\ (status' = "writing") = FALSE
  OBVIOUS
<1>3. Agrees(IsRaw, "opened", log, attempts, FALSE, stats, Sent)
  BY <1>1, <1>2 DEF BuiltAs
<1>4. attempts \in Seq(Attempt) /\ stats \in Stats /\ IsRaw \in BOOLEAN
  BY DEF IInv, TypeOK, IsRaw
<1>5. e \in LogEvent /\ e.name = name
  <2>1. Event(name, "finish") \in LogEvent /\ Event(name, "finish").name = name
    BY EventIs DEF EventNames, Phases
  <2>2. stats.rows \in Nat
    BY <1>4 DEF Stats
  <2> QED
    BY <1>4, <2>1, <2>2 DEF FinishEvent, LogEvent
<1>6. /\ name \notin BatchEvents \cup BuildEvents \cup {"raw.failed", "raw.packet"}
      /\ name \notin RawEvents
  BY DEF BatchEvents, BuildEvents, InitFailures, RawEvents
<1> HIDE DEF e
<1>7. Agrees(IsRaw, "opened", log \o <<e>>, attempts, FALSE, stats, Sent)
  BY <1>3, <1>4, <1>5, <1>6, EmitQuiet
<1>8. Agrees(IsRaw, "opened", log', attempts, FALSE, stats, Sent)
  <2>1. log' = log \o <<e>> \/ log' = log
    BY DEF e
  <2> QED
    BY <1>3, <1>7, <2>1
<1>9. IsRaw' = IsRaw /\ Sent' = Sent
  BY DEF IsRaw, Sent
<1>10. Agrees(IsRaw', "opened", log', attempts', status' = "writing", stats', Sent')
  BY <1>2, <1>8, <1>9
<1>11. BuiltAs("opened")'
  BY <1>10 DEF BuiltAs, Constructing
<1> QED
  BY <1>11 DEF TInv

LEMMA NothingTInv == ASSUME TInv, UNCHANGED allVars PROVE TInv'
<1>1. PICK built \in {"none", "opened", "failed"} : BuiltAs(built)
  BY DEF TInv
<1>2. IsRaw' = IsRaw /\ Sent' = Sent /\ status' = status /\ UNCHANGED <<log, attempts, stats>>
  BY DEF allVars, vars, IsRaw, Sent
<1>3. BuiltAs(built)'
  BY <1>1, <1>2 DEF BuiltAs
<1> QED
  BY <1>3 DEF TInv

-----------------------------------------------------------------------------
(* Every step *)

LEMMA NothingEmitted == ASSUME TInv, Emit(<<>>) PROVE log' = log
<1>1. log \in Seq(LogEvent)
  BY DEF TInv, BuiltAs, Agrees
<1> QED
  BY <1>1, ConcatEmptySeq DEF Emit

LEMMA SilentTInv == ASSUME IInv, TInv, Silent, log' = log PROVE TInv'
<1>1. CASE CancelNew
  BY <1>1, CancelNewTInv
<1>2. CASE DropWriter
  <2>1. /\ status = "open" /\ status' = "closed"
        /\ UNCHANGED <<backend, stats, call, attempts, sink>>
    BY <1>2 DEF DropWriter
  <2>2. "finish.failed" \in {"finish.started", "finish.completed", "finish.failed"}
    OBVIOUS
  <2> QED
    BY <2>1, <2>2, FinishTInv
<1>3. CASE Gone
  BY <1>3, NothingTInv DEF Gone, allVars
<1>4. ASSUME NEW k \in Pending, CancelWrite(k) PROVE TInv'
  BY <1>4, CancelWriteTInv
<1> QED
  BY <1>1, <1>2, <1>3, <1>4 DEF Silent

LEMMA NextTInv == IInv /\ TInv /\ [TelemetryNext]_allVars => TInv'
<1> SUFFICES ASSUME IInv, TInv, [TelemetryNext]_allVars PROVE TInv'
  OBVIOUS
<1>1. CASE TracedNew
  BY <1>1, NewTInv
<1>2. ASSUME NEW ok \in BOOLEAN, TracedColumnsReply(ok) PROVE TInv'
  BY <1>2, ColumnsReplyTInv
<1>3. ASSUME NEW ok \in BOOLEAN, TracedInsertBulkReply(ok) PROVE TInv'
  BY <1>3, InsertBulkReplyTInv
<1>4. ASSUME NEW b \in Batches, TracedRejectSchema(b) PROVE TInv'
  BY <1>4, RefusedTInv DEF TracedRejectSchema, RejectSchema, MayWrite, Emit
<1>5. ASSUME NEW b \in Batches, TracedRejectValue(b) PROVE TInv'
  BY <1>5, RefusedTInv DEF TracedRejectValue, RejectValue, MayWrite, Emit
<1>6. ASSUME NEW b \in Batches, TracedAcceptEmpty(b) PROVE TInv'
  BY <1>6, AcceptEmptyTInv
<1>7. ASSUME NEW b \in Batches, NEW ends \in Units(b), TracedBeginSending(b, ends) PROVE TInv'
  BY <1>7, BeginSendingTInv
<1>8. ASSUME NEW e \in call.ends, TracedSendUnit(e) PROVE TInv'
  BY <1>8, SendUnitTInv
<1>9. ASSUME NEW e \in call.ends, NEW k \in 0..(e - Sent), TracedSendFails(e, k) PROVE TInv'
  BY <1>9, SendFailsTInv
<1>10. CASE TracedFinish
  <2>1. log' = log \o <<FinishEvent("finish.started")>>
    BY <1>10 DEF TracedFinish, Emit
  <2> QED
    BY <1>10, <2>1, FinishTInv DEF TracedFinish, Finish
<1>11. CASE TracedFinalized
  <2>1. log' = log \o <<FinishEvent("finish.completed")>>
    BY <1>11 DEF TracedFinalized, Emit
  <2> QED
    BY <1>11, <2>1, FinishTInv DEF TracedFinalized, Finalized
<1>12. ASSUME NEW published \in BOOLEAN, TracedFinishInterrupted(published) PROVE TInv'
  <2>1. log' = log \o <<FinishEvent("finish.failed")>> \/ log' = log
    BY <1>12, NothingEmitted DEF TracedFinishInterrupted, Emit
  <2> QED
    BY <1>12, <2>1, FinishTInv DEF TracedFinishInterrupted, FinishInterrupted
<1>13. CASE Silent /\ Emit(<<>>)
  BY <1>13, NothingEmitted, SilentTInv
<1>14. CASE UNCHANGED allVars
  BY <1>14, NothingTInv
<1> QED
  BY <1>1, <1>2, <1>3, <1>4, <1>5, <1>6, <1>7, <1>8, <1>9, <1>10, <1>11, <1>12, <1>13,
     <1>14 DEF TelemetryNext

LEMMA TracedStepIsStep == [TelemetryNext]_allVars => [Next]_vars
<1> SUFFICES ASSUME [TelemetryNext]_allVars PROVE [Next]_vars
  OBVIOUS
<1>1. CASE TracedNew
  BY <1>1 DEF TracedNew, Next
<1>2. ASSUME NEW ok \in BOOLEAN, TracedColumnsReply(ok) \/ TracedInsertBulkReply(ok)
      PROVE  Next
  BY <1>2 DEF TracedColumnsReply, TracedInsertBulkReply, Next, Step
<1>3. ASSUME NEW b \in Batches,
             TracedRejectSchema(b) \/ TracedRejectValue(b) \/ TracedAcceptEmpty(b)
      PROVE  Next
  BY <1>3 DEF TracedRejectSchema, TracedRejectValue, TracedAcceptEmpty, Next
<1>4. ASSUME NEW b \in Batches, NEW ends \in Units(b), TracedBeginSending(b, ends) PROVE Next
  BY <1>4 DEF TracedBeginSending, Next
<1>5. ASSUME NEW e \in call.ends, TracedSendUnit(e) PROVE Next
  BY <1>5 DEF TracedSendUnit, Next, Step
<1>6. ASSUME NEW e \in call.ends, NEW k \in 0..(e - Sent), TracedSendFails(e, k) PROVE Next
  BY <1>6 DEF TracedSendFails, Next, Step
<1>7. CASE TracedFinish \/ TracedFinalized
  BY <1>7 DEF TracedFinish, TracedFinalized, Next, Step
<1>8. ASSUME NEW published \in BOOLEAN, TracedFinishInterrupted(published) PROVE Next
  BY <1>8 DEF TracedFinishInterrupted, Next, Step
<1>9. CASE Silent
  BY <1>9 DEF Silent, Next
<1>10. CASE UNCHANGED allVars
  BY <1>10 DEF allVars
<1> QED
  BY <1>1, <1>2, <1>3, <1>4, <1>5, <1>6, <1>7, <1>8, <1>9, <1>10 DEF TelemetryNext

\* Telemetry is passive: with its events left out, every behaviour of the
\* traced writer is one of the writer, which starts, sends, counts and returns
\* as it would without a subscriber.
THEOREM TelemetryIsPassive == TelemetrySpec => Spec
<1>1. TelemetryInit => Init
  BY DEF TelemetryInit
<1> QED
  BY <1>1, TracedStepIsStep, PTL DEF TelemetrySpec, Spec

LEMMA TelemetryInvariance == TelemetrySpec => [](IInv /\ TInv)
<1>1. TelemetryInit => IInv /\ TInv
  BY InitIInv, InitTInv DEF TelemetryInit
<1>2. (IInv /\ TInv) /\ [TelemetryNext]_allVars => (IInv /\ TInv)'
  BY NextIInv, NextTInv, TracedStepIsStep
<1> QED
  BY <1>1, <1>2, PTL DEF TelemetrySpec

-----------------------------------------------------------------------------
(* Results: what a subscriber knows *)

LEMMA BuiltOnce ==
    ASSUME NEW built \in {"none", "opened", "failed"}, BuiltAs(built)
    PROVE  InitializationIsReportedOnce
<1> DEFINE opened == Where(log, {"init.completed"})
           failed == Where(log, InitFailures)
           all == Where(log, InitFailures \cup {"init.completed"})
<1>1. BuiltInLog(log, built)
  BY DEF BuiltAs, Agrees
<1>2. all = failed \cup opened
  BY DEF Where
<1>3. all = {} \/ \E i : all = {i}
  BY <1>1, <1>2 DEF BuiltInLog
<1> HIDE DEF all
<1>4. Cardinality(all) <= 1
  <2>1. CASE all = {}
    <3>1. Cardinality({}) = 0
      BY FS_EmptySet
    <3>2. Cardinality(all) = 0
      BY <2>1, <3>1, Zenon
    <3> QED
      BY <3>2
  <2>2. CASE all # {}
    <3>1. PICK i : all = {i}
      BY <1>3, <2>2
    <3>2. Cardinality({i}) = 1
      BY FS_Singleton
    <3>3. Cardinality(all) = 1
      BY <3>1, <3>2, Zenon
    <3> QED
      BY <3>3
  <2> QED
    BY <2>1, <2>2
<1>5. status \in {"open", "writing", "finishing", "finished"} => opened # {}
  BY <1>1 DEF BuiltAs, Constructed, BuiltInLog
<1>6. failed # {} => status = "closed" /\ attempts = <<>>
  BY <1>1 DEF BuiltAs, BuiltInLog
<1> QED
  BY <1>4, <1>5, <1>6 DEF InitializationIsReportedOnce, all

\* A subscriber that reads the events alone knows the outcome of every call of
\* write_batch (a dropped one by its missing end), the counters before and
\* after each, the number of every accepted batch, and how the construction
\* ended: for any number of calls, whatever failed or was dropped in between.
THEOREM SubscriberKnowsTheWriter == TelemetrySpec => []LogTellsTheWriter
<1>1. IInv /\ TInv => LogTellsTheWriter
  <2> SUFFICES ASSUME TInv PROVE LogTellsTheWriter
    OBVIOUS
  <2>1. PICK built \in {"none", "opened", "failed"} : BuiltAs(built)
    BY DEF TInv
  <2>2. Told(log, attempts, status = "writing", stats)
    BY <2>1 DEF BuiltAs, Agrees
  <2>3. InitializationIsReportedOnce
    BY <2>1, BuiltOnce
  <2> QED
    BY <2>2, <2>3 DEF Told, LogTellsTheWriter
<1> QED
  BY <1>1, TelemetryInvariance, PTL

\* Under DirectRawBulk the packet events of a call are consecutive ranges that
\* cover an accepted batch and never claim a row the request did not take, and
\* every failure is a detail and a batch event in one phase; under the other
\* backends there is no detail at all.
THEOREM SubscriberSeesTheWire == TelemetrySpec => []RawDetailFollowsTheWire
<1>1. IInv /\ TInv => RawDetailFollowsTheWire
  <2> SUFFICES ASSUME TInv PROVE RawDetailFollowsTheWire
    OBVIOUS
  <2>1. PICK built \in {"none", "opened", "failed"} : BuiltAs(built)
    BY DEF TInv
  <2>2. Agrees(IsRaw, built, log, attempts, status = "writing", stats, Sent)
    BY <2>1 DEF BuiltAs
  <2> QED
    BY <2>2 DEF Agrees, Detailed, RawDetailFollowsTheWire
<1> QED
  BY <1>1, TelemetryInvariance, PTL
=============================================================================
