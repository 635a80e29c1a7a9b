------------------------- MODULE SdkClientProofs -------------------------
(***************************************************************************)
(* Proofs about SdkClient, for every value of its constants.               *)
(***************************************************************************)
EXTENDS SdkClient, TLAPS, FiniteSetTheorems

\* What a state of the client looks like at each point of sendNextBatch(): a batch
\* exists only while it is being sent, and a retry is pending only while attempts
\* are left.
PhaseInv ==
    /\ phase \in {"idle", "settled"} => batch = <<>>
    /\ phase = "waiting" => attempt < MaxAttempts

\* What each point of close() knows.
CloserInv ==
    /\ closed <=> closer # "none"
    /\ closer = "resumed" => LateFlush \/ phase = "idle"
    /\ CloseDrains

\* The inductive invariant: the counters and the bound are preserved only because
\* a batch is empty whenever a new one is started.
IInv == TypeOK /\ PhaseInv /\ CloserInv /\ Ledger /\ HeldBound

-----------------------------------------------------------------------------
(* Lemmas about the operators. *)

\* splice() splits the buffer: nothing is lost, and at most batchSize is taken.
LEMMA SpliceSplits ==
    ASSUME NEW b \in Seq(Event)
    PROVE  /\ Taken(b) \in Seq(Event)
           /\ Left(b) \in Seq(Event)
           /\ Len(Taken(b)) + Len(Left(b)) = Len(b)
           /\ Len(Taken(b)) = Least(BatchSize, Len(b))
<1> DEFINE n == Least(BatchSize, Len(b))
<1>1. n \in Nat /\ n <= Len(b)
  BY SdkAssumption DEF Least
<1>2. /\ SubSeq(b, 1, n) \in Seq(Event)
      /\ Len(SubSeq(b, 1, n)) = n
  BY <1>1
<1>3. /\ SubSeq(b, n + 1, Len(b)) \in Seq(Event)
      /\ Len(SubSeq(b, n + 1, Len(b))) = Len(b) - n
  BY <1>1
<1> QED
  BY <1>1, <1>2, <1>3 DEF Taken, Left

\* The events of a sequence of events are events.
LEMMA ElemsType ==
    ASSUME NEW b \in Seq(Event)
    PROVE  Elems(b) \subseteq Event
BY DEF Elems

\* Validation rejects between none and all of a batch.
LEMMA RejectedBound ==
    ASSUME NEW b \in Seq(Event)
    PROVE  /\ Rejected(b) \in Nat
           /\ Rejected(b) <= Len(b)
<1> DEFINE R == {i \in DOMAIN b : b[i] \in Invalid}
<1>1. DOMAIN b = 1..Len(b) /\ Len(b) \in Nat
  OBVIOUS
<1>2. IsFiniteSet(1..Len(b)) /\ Cardinality(1..Len(b)) = Len(b)
  BY <1>1, FS_Interval
<1>3. R \subseteq 1..Len(b)
  BY <1>1
<1>4. /\ IsFiniteSet(R)
      /\ Cardinality(R) <= Cardinality(1..Len(b))
  BY <1>2, <1>3, FS_Subset
<1>5. Cardinality(R) \in Nat
  BY <1>4, FS_CardinalityType
<1> QED
  BY <1>2, <1>4, <1>5 DEF Rejected

\* The counters and the lengths are natural numbers.
LEMMA Numbers ==
    ASSUME TypeOK
    PROVE  /\ queued \in Nat /\ sent \in Nat /\ dropped \in Nat /\ emits \in Nat
           /\ Len(buffer) \in Nat /\ Len(batch) \in Nat
BY SdkAssumption DEF TypeOK

-----------------------------------------------------------------------------
LEMMA InitIInv == Init => IInv
<1> SUFFICES ASSUME Init PROVE IInv
  OBVIOUS
<1> USE SdkAssumption DEF Init
<1>1. buffer \in Seq(Event) /\ batch \in Seq(Event) /\ Len(buffer) = 0 /\ Len(batch) = 0
  OBVIOUS
<1>2. TypeOK
  <2>1. attempt \in 0..MaxAttempts /\ emits \in 0..MaxEvents
    OBVIOUS
  <2>2. phase \in Phase /\ closer \in Closer /\ closed \in BOOLEAN
    BY DEF Phase, Closer
  <2> QED
    BY <1>1, <2>1, <2>2 DEF TypeOK
<1>3. PhaseInv /\ CloserInv
  BY DEF PhaseInv, CloserInv, CloseDrains
<1>4. Ledger /\ HeldBound
  BY <1>1 DEF Ledger, HeldBound, Least
<1> QED
  BY <1>2, <1>3, <1>4 DEF IInv

\* emit() keeps the invariant.
LEMMA EmitIInv == IInv /\ Emit => IInv'
<1> SUFFICES ASSUME IInv, Emit PROVE IInv'
  OBVIOUS
<1> USE SdkAssumption
<1>1. ASSUME emits < MaxEvents,
             emits' = emits + 1,
             discarded' = discarded \cup {emits + 1},
             RecordDrop(1),
             UNCHANGED <<buffer, phase, batch, attempt, closed, closer, acked, stored, adrift>>
      PROVE  IInv'
  <2>1. /\ emits + 1 \in Event /\ emits' = emits + 1
        /\ dropped' = dropped + 1 /\ UNCHANGED <<queued, sent>>
    BY <1>1 DEF RecordDrop, Event, IInv, TypeOK
  <2>2. TypeOK'
    BY <1>1, <2>1 DEF IInv, TypeOK, Event
  <2>3. PhaseInv' /\ CloserInv' /\ HeldBound'
    BY <1>1 DEF IInv, PhaseInv, CloserInv, CloseDrains, HeldBound
  <2>4. Ledger'
    BY <1>1, <2>1 DEF IInv, TypeOK, Ledger
  <2> QED
    BY <2>2, <2>3, <2>4 DEF IInv
<1>2. CASE EmitRefused \/ EmitDropNewest
  BY <1>1, <1>2 DEF EmitRefused, EmitDropNewest, serverVars
<1>3. CASE EmitPush
  <2> DEFINE room == IF BufferFull THEN Tail(buffer) ELSE buffer
             lost == IF BufferFull THEN Evicted ELSE 0
             pushed == Append(room, emits + 1)
  <2>1. /\ buffer \in Seq(Event)
        /\ ~closed /\ closer = "none"
        /\ emits + 1 \in Event /\ emits' = emits + 1
        /\ queued' = queued + 1 /\ dropped' = dropped + lost /\ sent' = sent
    BY <1>3 DEF EmitPush, Refused, IInv, TypeOK, CloserInv, Event
  <2>2. /\ room \in Seq(Event)
        /\ Len(room) + lost = Len(buffer)
        /\ Len(room) < MaxBufferSize
        /\ lost \in Nat
    BY <2>1 DEF BufferFull, Evicted, IInv, TypeOK, HeldBound
  <2>3. /\ pushed \in Seq(Event)
        /\ Len(pushed) + lost = Len(buffer) + 1
        /\ Len(pushed) <= MaxBufferSize
    BY <2>1, <2>2
  <2>4. /\ buffer' \in Seq(Event)
        /\ batch' \in Seq(Event)
        /\ Len(buffer') + Len(batch') + lost = Len(buffer) + Len(batch) + 1
        /\ Len(buffer') <= MaxBufferSize
        /\ Len(batch') <= Least(BatchSize, MaxBufferSize)
        /\ attempt' \in 0..MaxAttempts
        /\ phase' \in Phase
        /\ PhaseInv'
    <3>1. CASE Len(pushed) >= BatchSize /\ phase = "idle"
      <4>1. batch = <<>> /\ StartBatch(pushed)
        BY <1>3, <3>1 DEF EmitPush, IInv, PhaseInv
      <4> HIDE DEF pushed, lost
      <4>2. /\ Taken(pushed) \in Seq(Event)
            /\ Left(pushed) \in Seq(Event)
            /\ Len(Taken(pushed)) + Len(Left(pushed)) = Len(pushed)
            /\ Len(Taken(pushed)) = Least(BatchSize, Len(pushed))
        BY <2>3, SpliceSplits
      <4>3. /\ Len(batch) = 0 /\ Len(pushed) \in Nat
            /\ Len(Taken(pushed)) \in Nat /\ Len(Left(pushed)) \in Nat
        BY <2>3, <4>1, <4>2
      <4>4. /\ Len(Left(pushed)) <= MaxBufferSize
            /\ Len(Taken(pushed)) <= Least(BatchSize, MaxBufferSize)
        BY <2>3, <4>2, <4>3 DEF Least
      <4>5. /\ buffer' = Left(pushed) /\ batch' = Taken(pushed)
            /\ attempt' = 1 /\ phase' = "requesting"
        BY <4>1 DEF StartBatch
      <4>6. Len(buffer') + Len(batch') + lost = Len(buffer) + Len(batch) + 1
        BY <2>2, <2>3, <4>2, <4>3, <4>5
      <4>7. PhaseInv' /\ phase' \in Phase /\ attempt' \in 0..MaxAttempts
        BY <4>5 DEF Phase, PhaseInv
      <4> QED
        BY <4>2, <4>4, <4>5, <4>6, <4>7
    <3>2. CASE ~(Len(pushed) >= BatchSize /\ phase = "idle")
      <4>1. buffer' = pushed /\ UNCHANGED <<phase, batch, attempt>>
        BY <1>3, <3>2 DEF EmitPush
      <4> HIDE DEF pushed, lost
      <4> QED
        BY <2>1, <2>2, <2>3, <4>1 DEF IInv, TypeOK, HeldBound, PhaseInv
    <3> QED
      BY <3>1, <3>2
  <2>5. discarded' \subseteq Event
    BY <1>3, <2>1 DEF EmitPush, BufferFull, IInv, TypeOK
  <2>6. /\ UNCHANGED <<closed, closer, acked, stored, adrift>>
        /\ closer = "none" /\ ~closed
    BY <1>3, <2>1 DEF EmitPush, serverVars
  <2> HIDE DEF lost, pushed, room
  <2>7. TypeOK'
    BY <2>1, <2>2, <2>4, <2>5, <2>6 DEF IInv, TypeOK, Event
  <2>8. CloserInv'
    BY <2>6 DEF CloserInv, CloseDrains
  <2>9. Ledger'
    <3>1. /\ Len(buffer') \in Nat /\ Len(batch') \in Nat
          /\ Len(buffer') + Len(batch') + lost = Len(buffer) + Len(batch) + 1
      BY <2>4
    <3>2. /\ queued \in Nat /\ sent \in Nat /\ dropped \in Nat /\ emits \in Nat
          /\ Len(buffer) \in Nat /\ Len(batch) \in Nat
      BY Numbers DEF IInv
    <3>3. Ledger
      BY DEF IInv
    <3>4. sent' = sent /\ queued' = queued + 1 /\ dropped' = dropped + lost /\ emits' = emits + 1
      BY <2>1
    <3> QED
      BY <2>2, <3>1, <3>2, <3>4, <3>3 DEF Ledger
  <2>10. HeldBound'
    BY <2>4 DEF HeldBound
  <2> QED
    BY <2>4, <2>7, <2>8, <2>9, <2>10 DEF IInv
<1> QED
  BY <1>2, <1>3 DEF Emit

\* Starting a batch from the whole buffer keeps the parts of the invariant that
\* speak of buffer and batch.
LEMMA StartIInv ==
    ASSUME IInv, MayFlush, StartBatch(buffer),
           UNCHANGED <<metrics, historyVars, serverVars>>,
           closed' \in BOOLEAN, closer' \in Closer
    PROVE  TypeOK' /\ PhaseInv' /\ Ledger' /\ HeldBound'
<1> USE SdkAssumption
<1>1. /\ Taken(buffer) \in Seq(Event)
      /\ Left(buffer) \in Seq(Event)
      /\ Len(Taken(buffer)) + Len(Left(buffer)) = Len(buffer)
      /\ Len(Taken(buffer)) = Least(BatchSize, Len(buffer))
  BY SpliceSplits DEF IInv, TypeOK
<1>2. batch = <<>>
  BY DEF IInv, PhaseInv, MayFlush
<1>3. TypeOK' /\ PhaseInv'
  BY <1>1 DEF IInv, TypeOK, PhaseInv, StartBatch, Phase, metrics, historyVars, serverVars
<1>4. /\ buffer' = Left(buffer) /\ batch' = Taken(buffer)
      /\ UNCHANGED <<queued, sent, dropped, emits>>
  BY DEF StartBatch, metrics, historyVars
<1>5. /\ Len(batch) = 0
      /\ Len(Taken(buffer)) \in Nat /\ Len(Left(buffer)) \in Nat
  BY <1>1, <1>2
<1>6. Ledger'
  BY <1>1, <1>4, <1>5, Numbers DEF IInv, Ledger
<1>7. HeldBound'
  BY <1>1, <1>4, <1>5, Numbers DEF IInv, HeldBound, Least
<1> QED
  BY <1>3, <1>6, <1>7

\* flush(), from the timer or from the host, keeps the invariant.
LEMMA FlushIInv == IInv /\ (TimerFlush \/ HostFlush) => IInv'
<1> SUFFICES ASSUME IInv, TimerFlush \/ HostFlush PROVE IInv'
  OBVIOUS
<1>1. /\ MayFlush /\ StartBatch(buffer)
      /\ UNCHANGED <<closed, closer, metrics, historyVars, serverVars>>
      /\ ~closed \/ LateFlush
  BY DEF TimerFlush, HostFlush, Flush, Ticking
<1>2. TypeOK' /\ PhaseInv' /\ Ledger' /\ HeldBound'
  BY <1>1, StartIInv DEF IInv, TypeOK
<1>3. CloserInv'
  BY <1>1 DEF IInv, CloserInv, CloseDrains, MayFlush
<1> QED
  BY <1>2, <1>3 DEF IInv

\* The end of a request, the backoff timer and the finally() callback keep it.
LEMMA SendIInv == IInv /\ (Outcome \/ Retry \/ Settle) => IInv'
<1> SUFFICES ASSUME IInv, Outcome \/ Retry \/ Settle PROVE IInv'
  OBVIOUS
<1> USE SdkAssumption
<1>1. CASE Reply
  <2>1. Rejected(batch) \in Nat /\ Rejected(batch) <= Len(batch) /\ Elems(batch) \subseteq Event
    BY RejectedBound, ElemsType DEF IInv, TypeOK
  <2>2. TypeOK' /\ PhaseInv'
    BY <1>1, <2>1 DEF Reply, Return, Valid, Accepted, IInv, TypeOK, PhaseInv, Phase
  <2>3. /\ Len(batch') = 0 /\ buffer' = buffer
        /\ sent' = sent + (Len(batch) - Rejected(batch))
        /\ dropped' = dropped + Rejected(batch)
        /\ UNCHANGED <<queued, emits>>
    BY <1>1 DEF Reply, Return, Accepted
  <2>4. Ledger' /\ HeldBound'
    <3>1. Ledger /\ HeldBound
      BY DEF IInv
    <3>2. /\ queued \in Nat /\ sent \in Nat /\ dropped \in Nat /\ emits \in Nat
          /\ Len(buffer) \in Nat /\ Len(batch) \in Nat
      BY Numbers DEF IInv
    <3>3. Len(buffer') = Len(buffer) /\ queued' = queued /\ emits' = emits
      BY <2>3
    <3>4. Ledger'
      <4>1. Rejected(batch) \in Nat /\ Rejected(batch) <= Len(batch)
        BY <2>1
      <4>2. /\ emits = sent + dropped + Len(buffer) + Len(batch)
            /\ sent + Len(buffer) + Len(batch) <= queued /\ queued <= emits
        BY <3>1 DEF Ledger
      <4>3. /\ sent' + dropped' = sent + dropped + Len(batch)
            /\ sent' + Len(buffer) <= sent + Len(buffer) + Len(batch)
            /\ sent' \in Int /\ dropped' \in Int
        BY <2>3, <3>2, <4>1
      <4>4. emits' = sent' + dropped' + Len(buffer') + Len(batch')
        BY <2>3, <3>2, <3>3, <4>2, <4>3
      <4>5. sent' + Len(buffer') + Len(batch') <= queued' /\ queued' <= emits'
        BY <2>3, <3>2, <3>3, <4>2, <4>3
      <4> QED
        BY <4>4, <4>5 DEF Ledger
    <3>5. HeldBound'
      BY <2>3, <3>1 DEF HeldBound, Least
    <3> QED
      BY <3>4, <3>5
  <2>5. CloserInv'
    BY <1>1 DEF Reply, Return, IInv, CloserInv, CloseDrains
  <2> QED
    BY <2>2, <2>5, <2>4 DEF IInv
<1>2. ASSUME phase = "requesting", GiveUp,
             UNCHANGED <<buffer, closed, closer, emits, acked, stored>>,
             adrift' \subseteq Seq(Event)
      PROVE  IInv'
  <2>1. Elems(batch) \subseteq Event
    BY ElemsType DEF IInv, TypeOK
  <2>2. TypeOK' /\ PhaseInv'
    BY <1>2, <2>1 DEF GiveUp, Return, RecordDrop, IInv, TypeOK, PhaseInv, Phase
  <2>3. /\ Len(batch') = 0 /\ buffer' = buffer
        /\ dropped' = dropped + Len(batch)
        /\ UNCHANGED <<queued, sent, emits>>
    BY <1>2 DEF GiveUp, Return, RecordDrop
  <2>4. Ledger' /\ HeldBound'
    BY <2>3, Numbers DEF IInv, Ledger, HeldBound, Least
  <2>5. CloserInv'
    BY <1>2 DEF GiveUp, Return, IInv, CloserInv, CloseDrains
  <2> QED
    BY <2>2, <2>5, <2>4 DEF IInv
<1>3. CASE Refusal
  BY <1>2, <1>3 DEF Refusal, serverVars, IInv, TypeOK
<1>4. CASE Failure
  <2>1. adrift' \subseteq Seq(Event)
    BY <1>4 DEF Failure, IInv, TypeOK
  <2>2. CASE LastAttempt
    BY <1>2, <1>4, <2>1, <2>2 DEF Failure
  <2>3. CASE ~LastAttempt
    BY <1>4, <2>1, <2>3
    DEF Failure, Backoff, LastAttempt, metrics, IInv, TypeOK, PhaseInv, CloserInv, CloseDrains,
        Ledger, HeldBound, Phase
  <2> QED
    BY <2>2, <2>3
<1>5. CASE Retry
  BY <1>5 DEF Retry, NextAttempt, metrics, historyVars, serverVars, IInv, TypeOK, PhaseInv, CloserInv,
              CloseDrains, Ledger, HeldBound, Phase
<1>6. CASE Settle
  BY <1>6 DEF Settle, metrics, historyVars, serverVars, IInv, TypeOK, PhaseInv, CloserInv,
              CloseDrains, Ledger, HeldBound, Phase, Closer
<1> QED
  BY <1>1, <1>3, <1>4, <1>5, <1>6 DEF Outcome

\* close() keeps it.
LEMMA CloseIInv == IInv /\ (Close \/ CloseResumes) => IInv'
<1> SUFFICES ASSUME IInv, Close \/ CloseResumes PROVE IInv'
  OBVIOUS
<1> USE SdkAssumption
<1>1. /\ closed' = TRUE /\ closer' \in Closer \ {"none", "resumed"}
      /\ UNCHANGED <<metrics, historyVars, serverVars>>
  BY DEF Close, CloseResumes, DrainLoop, Closer, IInv, CloserInv
<1>2. CASE UNCHANGED <<buffer, phase, batch, attempt>>
  <2>1. TypeOK' /\ PhaseInv' /\ Ledger' /\ HeldBound'
    BY <1>1, <1>2 DEF IInv, TypeOK, PhaseInv, Ledger, HeldBound, metrics, historyVars, serverVars
  <2>2. closer' = "returned" => buffer = <<>> /\ (LateFlush \/ phase = "idle")
    BY <1>1, <1>2 DEF Close, CloseResumes, DrainLoop, IInv, CloserInv
  <2> QED
    BY <1>1, <1>2, <2>1, <2>2 DEF IInv, CloserInv, CloseDrains
<1>3. CASE MayFlush /\ StartBatch(buffer) /\ closer' = "awaiting"
  <2>1. TypeOK' /\ PhaseInv' /\ Ledger' /\ HeldBound'
    BY <1>1, <1>3, StartIInv
  <2> QED
    BY <1>1, <1>3, <2>1 DEF IInv, CloserInv, CloseDrains
<1> QED
  BY <1>2, <1>3 DEF Close, CloseResumes, DrainLoop

\* A late request at the API touches nothing of the client's.
LEMMA LateStoreIInv == IInv /\ LateStore => IInv'
<1> SUFFICES ASSUME IInv, LateStore PROVE IInv'
  OBVIOUS
<1>1. PICK b \in adrift : stored' = stored \cup Valid(b) /\ adrift' = adrift \ {b}
  BY DEF LateStore
<1>2. Valid(b) \subseteq Event
  BY <1>1, ElemsType DEF Valid, IInv, TypeOK
<1> QED
  BY <1>1, <1>2 DEF LateStore, clientVars, metrics, historyVars, IInv, TypeOK, PhaseInv, CloserInv,
                    CloseDrains, Ledger, HeldBound

LEMMA NextIInv == IInv /\ [Next]_vars => IInv'
<1> SUFFICES ASSUME IInv, [Next]_vars PROVE IInv'
  OBVIOUS
<1>1. CASE UNCHANGED vars
  BY <1>1 DEF vars, clientVars, metrics, historyVars, serverVars, IInv, TypeOK, PhaseInv, CloserInv,
              CloseDrains, Ledger, HeldBound
<1> QED
  BY <1>1, EmitIInv, FlushIInv, SendIInv, CloseIInv, LateStoreIInv DEF Next

LEMMA SafeIInv == SafeSpec => []IInv
BY InitIInv, NextIInv, PTL DEF SafeSpec

-----------------------------------------------------------------------------
\* Every state of the client is well-typed, whatever its configuration.
THEOREM TypeCorrect == SafeSpec => []TypeOK
<1>1. IInv => TypeOK
  BY DEF IInv
<1> QED
  BY <1>1, SafeIInv, PTL

\* The diagnostics account for every emit() call, at every moment.
THEOREM LedgerCorrect == SafeSpec => []Ledger
<1>1. IInv => Ledger
  BY DEF IInv
<1> QED
  BY <1>1, SafeIInv, PTL

\* The buffer never exceeds maxBufferSize, nor the client one batch more.
THEOREM HeldBounded == SafeSpec => []HeldBound
<1>1. IInv => HeldBound
  BY DEF IInv
<1> QED
  BY <1>1, SafeIInv, PTL

\* close() leaves nothing behind when it returns.
THEOREM CloseDrainsAll == SafeSpec => []CloseDrains
<1>1. IInv => CloseDrains
  BY DEF IInv, CloserInv
<1> QED
  BY <1>1, SafeIInv, PTL

=============================================================================
