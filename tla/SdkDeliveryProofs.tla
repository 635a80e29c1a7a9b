-------------------------- MODULE SdkDeliveryProofs --------------------------
(***************************************************************************)
(* Proofs about what becomes of each event: the order of what the client   *)
(* holds, what it reports as sent, and the refinement of EventFate.        *)
(***************************************************************************)
EXTENDS SdkDelivery, SdkClientProofs

Sorted(s) == \A i, j \in DOMAIN s : i < j => s[i] < s[j]

\* What is being sent is older than what is buffered, and both are in order.
OrderInv ==
    /\ Sorted(batch)
    /\ Sorted(buffer)
    /\ \A x \in Elems(batch), y \in Elems(buffer) : x < y

\* An event that was emitted is held, sent or dropped, and only one of them.
FateInv ==
    /\ Elems(buffer) \cup Elems(batch) \cup acked \cup discarded = 1..emits
    /\ (Elems(buffer) \cup Elems(batch)) \cap (acked \cup discarded) = {}
    /\ acked \cap discarded = {}

\* The API knows emitted events only, and it stored what was reported as sent.
StoredInv ==
    /\ SentIsStored
    /\ stored \subseteq 1..emits
    /\ \A b \in adrift : Elems(b) \subseteq 1..emits

\* The inductive invariant, together with IInv of SdkClientProofs.
DInv == IInv /\ OrderInv /\ FateInv /\ StoredInv
-----------------------------------------------------------------------------
(* Lemmas about sequences in order. *)

\* splice() takes the oldest events of a buffer in order, and leaves the rest.
LEMMA SplitSorted ==
    ASSUME NEW b \in Seq(Event), Sorted(b)
    PROVE  /\ Sorted(Taken(b)) /\ Sorted(Left(b))
           /\ \A x \in Elems(Taken(b)), y \in Elems(Left(b)) : x < y
           /\ Elems(Taken(b)) \cup Elems(Left(b)) = Elems(b)
<1> DEFINE n == Least(BatchSize, Len(b))
           t == SubSeq(b, 1, n)
           l == SubSeq(b, n + 1, Len(b))
<1>1. n \in Nat /\ n <= Len(b) /\ Len(b) \in Nat /\ DOMAIN b = 1..Len(b)
  BY SdkAssumption DEF Least
<1> HIDE DEF n
<1>2. /\ DOMAIN t = 1..n
      /\ \A i \in 1..n : t[i] = b[i]
  BY <1>1
<1>3. /\ DOMAIN l = 1..(Len(b) - n)
      /\ \A i \in 1..(Len(b) - n) : l[i] = b[n + i]
  BY <1>1
<1> HIDE DEF t, l
<1>4. Sorted(t)
  BY <1>1, <1>2 DEF Sorted
<1>5. Sorted(l)
  <2> SUFFICES ASSUME NEW i \in 1..(Len(b) - n), NEW j \in 1..(Len(b) - n), i < j
               PROVE  l[i] < l[j]
    BY <1>3 DEF Sorted
  <2>1. n + i \in DOMAIN b /\ n + j \in DOMAIN b /\ n + i < n + j
    BY <1>1
  <2> QED
    BY <1>3, <2>1 DEF Sorted
<1>6. ASSUME NEW x \in Elems(t), NEW y \in Elems(l)
      PROVE  x < y
  <2>1. PICK i \in 1..n : x = b[i]
    BY <1>2 DEF Elems
  <2>2. PICK j \in 1..(Len(b) - n) : y = b[n + j]
    BY <1>3 DEF Elems
  <2>3. i \in DOMAIN b /\ n + j \in DOMAIN b /\ i < n + j
    BY <1>1
  <2> QED
    BY <2>1, <2>2, <2>3 DEF Sorted
<1>7. Elems(t) \cup Elems(l) = Elems(b)
  <2>1. Elems(t) \subseteq Elems(b)
    BY <1>1, <1>2 DEF Elems
  <2>2. ASSUME NEW i \in 1..(Len(b) - n) PROVE l[i] \in Elems(b)
    <3>1. n + i \in DOMAIN b
      BY <1>1
    <3> QED
      BY <1>3, <3>1 DEF Elems
  <2>3. ASSUME NEW i \in DOMAIN b PROVE b[i] \in Elems(t) \cup Elems(l)
    <3>1. CASE i <= n
      BY <1>1, <1>2, <3>1 DEF Elems
    <3>2. CASE ~(i <= n)
      <4>1. i - n \in 1..(Len(b) - n) /\ n + (i - n) = i
        BY <1>1, <3>2
      <4>2. l[i - n] = b[i]
        BY <1>3, <4>1
      <4> QED
        BY <1>3, <4>1, <4>2 DEF Elems
    <3> QED
      BY <3>1, <3>2
  <2>4. Elems(l) \subseteq Elems(b)
    BY <1>3, <2>2 DEF Elems
  <2>5. Elems(b) \subseteq Elems(t) \cup Elems(l)
    BY <2>3 DEF Elems
  <2> QED
    BY <2>1, <2>4, <2>5
<1>8. t = Taken(b) /\ l = Left(b)
  BY DEF n, t, l, Taken, Left
<1> QED
  BY <1>4, <1>5, <1>6, <1>7, <1>8

\* Dropping the oldest event takes that event away and no other.
LEMMA TailSorted ==
    ASSUME NEW b \in Seq(Event), Sorted(b), b # <<>>
    PROVE  /\ Tail(b) \in Seq(Event) /\ Sorted(Tail(b))
           /\ Head(b) \in Elems(b)
           /\ Elems(Tail(b)) = Elems(b) \ {Head(b)}
<1> DEFINE t == Tail(b)
<1>1. /\ Len(b) \in Nat \ {0} /\ DOMAIN b = 1..Len(b) /\ Head(b) = b[1]
      /\ t \in Seq(Event) /\ DOMAIN t = 1..(Len(b) - 1)
      /\ \A i \in 1..(Len(b) - 1) : t[i] = b[i + 1]
  OBVIOUS
<1> HIDE DEF t
<1>2. \A i \in 1..Len(b) : b[i] \in Event /\ b[i] \in Int
  <2>1. \A i \in 1..Len(b) : b[i] \in Event
    BY <1>1
  <2> QED
    BY <2>1, SdkAssumption DEF Event
<1>3. \A i \in 1..(Len(b) - 1) : i + 1 \in 1..Len(b)
  BY <1>1
<1>4. Sorted(t)
  <2> SUFFICES ASSUME NEW i \in 1..(Len(b) - 1), NEW j \in 1..(Len(b) - 1), i < j
               PROVE  t[i] < t[j]
    BY <1>1 DEF Sorted
  <2>1. b[i + 1] < b[j + 1]
    BY <1>1, <1>3 DEF Sorted
  <2> QED
    BY <1>1, <2>1
<1>5. b[1] \in Elems(b)
  BY <1>1 DEF Elems
<1>6. ASSUME NEW i \in 1..(Len(b) - 1) PROVE t[i] \in Elems(b) \ {b[1]}
  <2>1. b[1] < b[i + 1]
    BY <1>1, <1>3 DEF Sorted
  <2> QED
    BY <1>1, <1>2, <1>3, <2>1 DEF Elems
<1>7. ASSUME NEW i \in 1..Len(b), b[i] # b[1] PROVE b[i] \in Elems(t)
  <2>1. i - 1 \in 1..(Len(b) - 1) /\ (i - 1) + 1 = i
    BY <1>1, <1>7
  <2>2. t[i - 1] = b[i]
    BY <1>1, <2>1
  <2> QED
    BY <1>1, <2>1, <2>2 DEF Elems
<1>8. Elems(t) = Elems(b) \ {b[1]}
  BY <1>1, <1>6, <1>7 DEF Elems
<1> QED
  BY <1>1, <1>4, <1>5, <1>8 DEF t

\* Pushing an event newer than all others keeps the order.
LEMMA AppendSorted ==
    ASSUME NEW b \in Seq(Event), Sorted(b), NEW e \in Event, \A x \in Elems(b) : x < e
    PROVE  /\ Append(b, e) \in Seq(Event) /\ Sorted(Append(b, e))
           /\ Elems(Append(b, e)) = Elems(b) \cup {e}
<1> DEFINE a == Append(b, e)
<1>1. /\ Len(b) \in Nat /\ DOMAIN b = 1..Len(b)
      /\ a \in Seq(Event) /\ DOMAIN a = 1..(Len(b) + 1)
      /\ a[Len(b) + 1] = e
      /\ \A i \in 1..Len(b) : a[i] = b[i]
  OBVIOUS
<1> HIDE DEF a
<1>2. Sorted(a)
  <2> SUFFICES ASSUME NEW i \in 1..(Len(b) + 1), NEW j \in 1..(Len(b) + 1), i < j
               PROVE  a[i] < a[j]
    BY <1>1 DEF Sorted
  <2>1. CASE j = Len(b) + 1
    BY <1>1, <2>1 DEF Elems
  <2>2. CASE j # Len(b) + 1
    BY <1>1, <2>2 DEF Sorted
  <2> QED
    BY <2>1, <2>2
<1>3. Elems(a) = Elems(b) \cup {e}
  <2>1. ASSUME NEW i \in DOMAIN a PROVE a[i] \in Elems(b) \cup {e}
    BY <1>1 DEF Elems
  <2>2. \A i \in DOMAIN b : b[i] \in Elems(a)
    BY <1>1 DEF Elems
  <2>3. e \in Elems(a)
    BY <1>1 DEF Elems
  <2> QED
    BY <2>1, <2>2, <2>3 DEF Elems
<1> QED
  BY <1>1, <1>2, <1>3 DEF a

\* In a batch without repetition, a reply's count of the events it did not reject is
\* their number.
LEMMA AcceptedCounts ==
    ASSUME NEW b \in Seq(Event), Sorted(b)
    PROVE  /\ IsFiniteSet(Valid(b))
           /\ Cardinality(Valid(b)) = Accepted(b)
<1> DEFINE D == 1..Len(b)
           R == {i \in D : b[i] \in Invalid}
           G == {i \in D : b[i] \notin Invalid}
           f == [i \in G |-> b[i]]
<1>1. /\ Len(b) \in Nat /\ DOMAIN b = D /\ IsFiniteSet(D) /\ Cardinality(D) = Len(b)
      /\ \A i \in D : b[i] \in Int
  <2>1. Len(b) \in Nat /\ DOMAIN b = D /\ \A i \in D : b[i] \in Event
    OBVIOUS
  <2>2. \A i \in D : b[i] \in Int
    BY <2>1, SdkAssumption DEF Event
  <2>3. IsFiniteSet(1..Len(b)) /\ Cardinality(1..Len(b)) = Len(b)
    <3>1. Len(b) \in Nat
      OBVIOUS
    <3> QED
      BY <3>1, FS_Interval
  <2> QED
    BY <2>1, <2>2, <2>3
<1>2. /\ IsFiniteSet(R) /\ IsFiniteSet(G)
      /\ R \cup G = D /\ R \cap G = {}
  BY <1>1, FS_Subset
<1>3. /\ Cardinality(R) \in Nat /\ Cardinality(G) \in Nat
      /\ Cardinality(D) = Cardinality(R) + Cardinality(G) - Cardinality({})
  BY <1>2, FS_Union, FS_CardinalityType
<1>4. Cardinality(G) = Len(b) - Cardinality(R)
  BY <1>1, <1>3, FS_EmptySet
<1>5. f \in Bijection(G, Valid(b))
  <2>1. \A i, j \in G : i # j => b[i] # b[j]
    <3> SUFFICES ASSUME NEW i \in G, NEW j \in G, i # j PROVE b[i] # b[j]
      OBVIOUS
    <3>1. i < j \/ j < i
      OBVIOUS
    <3>2. b[i] < b[j] \/ b[j] < b[i]
      BY <1>1, <3>1 DEF Sorted
    <3> QED
      BY <1>1, <3>2
  <2>2. f \in [G -> Valid(b)]
    BY <1>1 DEF Valid, Elems
  <2>3. \A e \in Valid(b) : \E i \in G : f[i] = e
    BY <1>1 DEF Valid, Elems
  <2>4. f \in Injection(G, Valid(b))
    BY <2>1, <2>2 DEF Injection, IsInjective
  <2>5. f \in Surjection(G, Valid(b))
    BY <2>2, <2>3 DEF Surjection
  <2> QED
    BY <2>4, <2>5 DEF Bijection
<1>6. IsFiniteSet(Valid(b)) /\ Cardinality(Valid(b)) = Cardinality(G)
  BY <1>2, <1>5, FS_Bijection DEF ExistsBijection
<1>7. Rejected(b) = Cardinality(R)
  BY <1>1 DEF Rejected
<1> QED
  BY <1>4, <1>6, <1>7 DEF Accepted

-----------------------------------------------------------------------------
(* The invariant. *)

LEMMA InitDInv == Init => DInv
<1> SUFFICES ASSUME Init PROVE DInv
  OBVIOUS
<1>1. OrderInv /\ FateInv
  BY DEF Init, OrderInv, FateInv, Sorted, Elems
<1>2. StoredInv
  BY FS_EmptySet DEF Init, StoredInv, SentIsStored
<1> QED
  BY <1>1, <1>2, InitIInv DEF DInv

\* What the sets of events of a state are.
LEMMA EventTypes ==
    ASSUME DInv
    PROVE  /\ buffer \in Seq(Event) /\ batch \in Seq(Event)
           /\ emits \in Nat /\ emits <= MaxEvents /\ 1..emits \subseteq Event
           /\ Elems(buffer) \subseteq 1..emits /\ Elems(batch) \subseteq 1..emits
           /\ acked \subseteq 1..emits /\ discarded \subseteq 1..emits
BY SdkAssumption DEF DInv, IInv, TypeOK, FateInv, Event

\* A new batch from a buffer in order, when no other is being sent.
LEMMA StartOrder ==
    ASSUME NEW b \in Seq(Event), Sorted(b), StartBatch(b)
    PROVE  /\ OrderInv'
           /\ Elems(buffer)' \cup Elems(batch)' = Elems(b)
<1>1. buffer' = Left(b) /\ batch' = Taken(b)
  BY DEF StartBatch
<1>2. /\ Sorted(Taken(b)) /\ Sorted(Left(b))
      /\ \A x \in Elems(Taken(b)), y \in Elems(Left(b)) : x < y
      /\ Elems(Taken(b)) \cup Elems(Left(b)) = Elems(b)
  BY SplitSorted
<1>3. /\ Sorted(batch') /\ Sorted(buffer')
      /\ \A x \in Elems(batch'), y \in Elems(buffer') : x < y
      /\ Elems(batch') \cup Elems(buffer') = Elems(b)
  BY <1>1, <1>2
<1> QED
  BY <1>3 DEF OrderInv, Elems, Sorted

\* emit() gives its event one fate, and takes at most the oldest buffered one.
LEMMA EmitDInv == DInv /\ Emit => OrderInv' /\ FateInv' /\ StoredInv'
<1> SUFFICES ASSUME DInv, Emit PROVE OrderInv' /\ FateInv' /\ StoredInv'
  OBVIOUS
<1>1. /\ buffer \in Seq(Event) /\ batch \in Seq(Event)
      /\ emits \in Nat /\ emits <= MaxEvents /\ 1..emits \subseteq Event
      /\ Elems(buffer) \subseteq 1..emits /\ Elems(batch) \subseteq 1..emits
      /\ acked \subseteq 1..emits /\ discarded \subseteq 1..emits
  BY EventTypes
<1>2. /\ emits' = emits + 1 /\ emits + 1 \in Event
      /\ 1..emits' = 1..emits \cup {emits + 1} /\ emits + 1 \notin 1..emits
      /\ UNCHANGED <<acked, stored, adrift, sent>>
  BY <1>1, SdkAssumption
  DEF Emit, EmitRefused, EmitDropNewest, EmitPush, RecordDrop, serverVars, Event
<1>3. StoredInv'
  BY <1>2 DEF DInv, StoredInv, SentIsStored
<1>4. CASE EmitRefused \/ EmitDropNewest
  <2>1. UNCHANGED <<buffer, batch>> /\ discarded' = discarded \cup {emits + 1}
    BY <1>4 DEF EmitRefused, EmitDropNewest
  <2>2. OrderInv'
    BY <2>1 DEF DInv, OrderInv
  <2>3. FateInv'
    BY <1>1, <1>2, <2>1 DEF DInv, FateInv
  <2> QED
    BY <1>3, <2>2, <2>3
<1>5. CASE EmitPush
  <2> DEFINE room == IF BufferFull THEN Tail(buffer) ELSE buffer
             pushed == Append(room, emits + 1)
             lost == IF BufferFull THEN {Head(buffer)} ELSE {}
  <2>1. BufferFull => buffer # <<>>
    BY <1>1, SdkAssumption DEF BufferFull
  <2>2. Sorted(buffer) /\ Sorted(batch)
    BY DEF DInv, OrderInv
  <2>3. /\ room \in Seq(Event) /\ Sorted(room)
        /\ lost \subseteq Elems(buffer)
        /\ Elems(room) = Elems(buffer) \ lost
    BY <1>1, <2>1, <2>2, TailSorted
  <2>4. \A x \in 1..emits : x < emits + 1
    BY <1>1
  <2> HIDE DEF room, lost
  <2>5. /\ pushed \in Seq(Event) /\ Sorted(pushed)
        /\ Elems(pushed) = Elems(room) \cup {emits + 1}
    BY <1>1, <1>2, <2>3, <2>4, AppendSorted
  <2>6. discarded' = discarded \cup lost
    BY <1>5 DEF EmitPush, lost
  <2>7. /\ OrderInv'
        /\ Elems(buffer)' \cup Elems(batch)'
             = (Elems(buffer) \ lost) \cup Elems(batch) \cup {emits + 1}
    <3>1. CASE Len(pushed) >= BatchSize /\ phase = "idle"
      <4>1. batch = <<>> /\ StartBatch(pushed)
        BY <1>5, <3>1 DEF EmitPush, DInv, IInv, PhaseInv, room
      <4>2. Elems(batch) = {}
        BY <4>1 DEF Elems
      <4> HIDE DEF pushed
      <4> QED
        BY <2>3, <2>5, <4>1, <4>2, StartOrder
    <3>2. CASE ~(Len(pushed) >= BatchSize /\ phase = "idle")
      <4>1. buffer' = pushed /\ batch' = batch
        BY <1>5, <3>2 DEF EmitPush, room
      <4> HIDE DEF pushed
      <4>2. \A x \in Elems(batch), y \in Elems(pushed) : x < y
        BY <1>1, <2>3, <2>4, <2>5 DEF DInv, OrderInv
      <4>3. OrderInv'
        BY <2>2, <2>5, <4>1, <4>2 DEF OrderInv
      <4>4. Elems(buffer)' = Elems(pushed) /\ Elems(batch)' = Elems(batch)
        BY <4>1
      <4> QED
        BY <2>3, <2>5, <4>3, <4>4
    <3> QED
      BY <3>1, <3>2
  <2>8. (Elems(buffer) \cup Elems(batch)) \cap lost = lost
    BY <2>3
  <2>9. Elems(buffer) \cap Elems(batch) = {}
    <3>1. \A x \in Elems(batch), y \in Elems(buffer) : x < y
      BY DEF DInv, OrderInv
    <3>2. Elems(batch) \subseteq Nat
      BY <1>1
    <3> QED
      BY <3>1, <3>2
  <2>10. FateInv'
    BY <1>1, <1>2, <2>3, <2>6, <2>7, <2>9 DEF DInv, FateInv
  <2> QED
    BY <1>3, <2>7, <2>10
<1> QED
  BY <1>4, <1>5 DEF Emit

\* Starting a batch, or leaving buffer and batch alone, decides nothing.
LEMMA HoldDInv ==
    ASSUME DInv,
           \/ UNCHANGED <<buffer, batch>>
           \/ MayFlush /\ StartBatch(buffer),
           UNCHANGED <<emits, acked, discarded, stored, sent>>,
           \A b \in adrift' : Elems(b) \subseteq 1..emits
    PROVE  /\ OrderInv' /\ FateInv' /\ StoredInv'
           /\ Elems(buffer)' \cup Elems(batch)' = Elems(buffer) \cup Elems(batch)
<1>1. StoredInv'
  BY DEF DInv, StoredInv, SentIsStored
<1>2. /\ OrderInv'
      /\ Elems(buffer)' \cup Elems(batch)' = Elems(buffer) \cup Elems(batch)
  <2>1. CASE UNCHANGED <<buffer, batch>>
    BY <2>1 DEF DInv, OrderInv
  <2>2. CASE MayFlush /\ StartBatch(buffer)
    <3>1. Elems(batch) = {}
      BY <2>2 DEF MayFlush, DInv, IInv, PhaseInv, Elems
    <3>2. buffer \in Seq(Event) /\ Sorted(buffer)
      BY EventTypes DEF DInv, OrderInv
    <3> QED
      BY <2>2, <3>1, <3>2, StartOrder
  <2> QED
    BY <2>1, <2>2
<1>3. FateInv'
  BY <1>2 DEF DInv, FateInv
<1> QED
  BY <1>1, <1>2, <1>3

\* Each action but emit(), a decision and a late store starts a batch or leaves alone
\* what the client holds.
LEMMA QuietSteps ==
    ASSUME DInv,
           \/ TimerFlush \/ HostFlush \/ Retry \/ Settle \/ Close \/ CloseResumes
           \/ Failure /\ ~LastAttempt
    PROVE  /\ \/ UNCHANGED <<buffer, batch>>
              \/ MayFlush /\ StartBatch(buffer)
           /\ UNCHANGED <<emits, acked, discarded, stored, sent>>
           /\ \A b \in adrift' : Elems(b) \subseteq 1..emits
<1>1. \A b \in adrift \cup {batch} : Elems(b) \subseteq 1..emits
  BY EventTypes DEF DInv, StoredInv
<1>2. CASE TimerFlush \/ HostFlush
  BY <1>1, <1>2 DEF TimerFlush, HostFlush, Flush, metrics, historyVars, serverVars
<1>3. CASE Retry \/ Settle
  BY <1>1, <1>3 DEF Retry, Settle, metrics, historyVars, serverVars
<1>4. CASE Close \/ CloseResumes
  BY <1>1, <1>4 DEF Close, CloseResumes, DrainLoop, metrics, historyVars, serverVars
<1>5. CASE Failure /\ ~LastAttempt
  BY <1>1, <1>5 DEF Failure, Backoff, metrics
<1> QED
  BY <1>2, <1>3, <1>4, <1>5

\* A reply decides its batch: what validation accepts is sent and stored, and the
\* rest is dropped.
LEMMA ReplyDInv == DInv /\ Reply => OrderInv' /\ FateInv' /\ StoredInv'
<1> SUFFICES ASSUME DInv, Reply PROVE OrderInv' /\ FateInv' /\ StoredInv'
  OBVIOUS
<1>1. /\ batch \in Seq(Event) /\ Sorted(batch) /\ Sorted(buffer)
      /\ emits \in Nat /\ Elems(batch) \subseteq 1..emits /\ acked \subseteq 1..emits
  BY EventTypes DEF DInv, OrderInv
<1>2. /\ batch' = <<>> /\ UNCHANGED <<buffer, emits, adrift>>
      /\ stored' = stored \cup Valid(batch)
      /\ acked' = acked \cup Valid(batch)
      /\ discarded' = discarded \cup (Elems(batch) \cap Invalid)
      /\ sent' = sent + Accepted(batch)
  BY DEF Reply, Return
<1>3. Elems(batch') = {}
  BY <1>2 DEF Elems
<1>4. /\ Valid(batch) \subseteq Elems(batch)
      /\ Elems(batch) = Valid(batch) \cup (Elems(batch) \cap Invalid)
      /\ Valid(batch) \cap Invalid = {}
  BY DEF Valid
<1>5. OrderInv'
  <2>1. Sorted(batch')
    BY <1>2 DEF Sorted
  <2> QED
    BY <1>1, <1>2, <1>3, <2>1 DEF OrderInv
<1>6. Elems(buffer) \cap Elems(batch) = {}
  <2>1. \A x \in Elems(batch), y \in Elems(buffer) : x < y
    BY DEF DInv, OrderInv
  <2>2. Elems(batch) \subseteq Nat
    BY <1>1
  <2> QED
    BY <2>1, <2>2
<1>7. FateInv'
  <2>1. Elems(buffer)' = Elems(buffer) /\ Elems(batch)' = {}
    BY <1>2, <1>3
  <2> QED
    BY <1>2, <1>4, <1>6, <2>1 DEF DInv, FateInv
<1>8. StoredInv'
  <2>1. IsFiniteSet(Valid(batch)) /\ Cardinality(Valid(batch)) = Accepted(batch)
    BY <1>1, AcceptedCounts
  <2>2. IsFiniteSet(acked)
    <3>1. acked \subseteq 1..emits /\ IsFiniteSet(1..emits)
      BY <1>1, EventTypes, FS_Interval
    <3> QED
      BY <3>1, FS_Subset
  <2>3. acked \cap Valid(batch) = {}
    BY <1>4 DEF DInv, FateInv
  <2>4. /\ Cardinality(acked) \in Nat
        /\ Cardinality(acked \cup Valid(batch))
             = Cardinality(acked) + Accepted(batch) - Cardinality({})
        /\ Cardinality(Valid(batch)) \in Nat
    BY <2>1, <2>2, <2>3, FS_Union, FS_CardinalityType
  <2>5. sent' = Cardinality(acked')
    BY <1>2, <2>1, <2>4, FS_EmptySet DEF DInv, StoredInv, SentIsStored
  <2> QED
    BY <1>1, <1>2, <1>4, <2>5 DEF DInv, StoredInv, SentIsStored
<1> QED
  BY <1>5, <1>7, <1>8

\* A batch that is given up is dropped whole, although the API may still store it.
LEMMA GiveUpDInv ==
    ASSUME DInv, Refusal \/ (Failure /\ LastAttempt)
    PROVE  OrderInv' /\ FateInv' /\ StoredInv'
<1>1. /\ batch \in Seq(Event) /\ Sorted(batch) /\ Sorted(buffer)
      /\ emits \in Nat /\ Elems(batch) \subseteq 1..emits
  BY EventTypes DEF DInv, OrderInv
<1>2. /\ batch' = <<>> /\ UNCHANGED <<buffer, emits, acked, stored, sent>>
      /\ discarded' = discarded \cup Elems(batch)
      /\ adrift' \subseteq adrift \cup {batch}
  BY DEF Refusal, Failure, GiveUp, Return, RecordDrop, serverVars
<1>3. Elems(batch)' = {} /\ Sorted(batch') /\ Elems(batch') = {}
  BY <1>2 DEF Elems, Sorted
<1>4. OrderInv'
  BY <1>1, <1>2, <1>3 DEF OrderInv
<1>5. Elems(buffer) \cap Elems(batch) = {}
  <2>1. \A x \in Elems(batch), y \in Elems(buffer) : x < y
    BY DEF DInv, OrderInv
  <2>2. Elems(batch) \subseteq Nat
    BY <1>1
  <2> QED
    BY <2>1, <2>2
<1>6. FateInv'
  <2>1. Elems(buffer)' = Elems(buffer)
    BY <1>2
  <2> QED
    BY <1>2, <1>3, <1>5, <2>1 DEF DInv, FateInv
<1>7. StoredInv'
  BY <1>1, <1>2 DEF DInv, StoredInv, SentIsStored
<1> QED
  BY <1>4, <1>6, <1>7

\* The API stores what it was sent, late.
LEMMA LateStoreDInv == DInv /\ LateStore => OrderInv' /\ FateInv' /\ StoredInv'
<1> SUFFICES ASSUME DInv, LateStore PROVE OrderInv' /\ FateInv' /\ StoredInv'
  OBVIOUS
<1>1. PICK b \in adrift : stored' = stored \cup Valid(b) /\ adrift' = adrift \ {b}
  BY DEF LateStore
<1>2. UNCHANGED <<buffer, batch, emits, acked, discarded, sent>>
  BY DEF LateStore, clientVars, historyVars, metrics
<1>3. OrderInv' /\ FateInv'
  BY <1>2 DEF DInv, OrderInv, FateInv
<1>4. Valid(b) \subseteq 1..emits
  BY <1>1 DEF Valid, DInv, StoredInv
<1>5. StoredInv'
  BY <1>1, <1>2, <1>4 DEF DInv, StoredInv, SentIsStored
<1> QED
  BY <1>3, <1>5

LEMMA NextDInv == DInv /\ [Next]_vars => DInv'
<1> SUFFICES ASSUME DInv, [Next]_vars PROVE OrderInv' /\ FateInv' /\ StoredInv'
  BY NextIInv DEF DInv
<1>1. CASE UNCHANGED vars
  BY <1>1 DEF vars, clientVars, metrics, historyVars, serverVars, DInv, OrderInv, FateInv,
              StoredInv, SentIsStored
<1>2. CASE Emit
  BY <1>2, EmitDInv
<1>3. CASE Reply
  BY <1>3, ReplyDInv
<1>4. CASE Refusal \/ (Failure /\ LastAttempt)
  BY <1>4, GiveUpDInv
<1>5. CASE \/ TimerFlush \/ HostFlush \/ Retry \/ Settle \/ Close \/ CloseResumes
           \/ Failure /\ ~LastAttempt
  BY <1>5, QuietSteps, HoldDInv
<1>6. CASE LateStore
  BY <1>6, LateStoreDInv
<1> QED
  BY <1>1, <1>2, <1>3, <1>4, <1>5, <1>6 DEF Next, Outcome

LEMMA SafeDInv == SafeSpec => []DInv
BY InitDInv, NextDInv, PTL DEF SafeSpec

-----------------------------------------------------------------------------
\* Emission order survives overflow, batching and retries in what the client holds, for
\* batches and buffers of any size: the batch that is sent is older than what is buffered
\* (sendNextBatch(), emit()).  The order in which the server stores them is not claimed.
THEOREM OrderKept == SafeSpec => []InOrder
<1>1. DInv => InOrder
  <2> SUFFICES ASSUME DInv,
                      NEW i \in DOMAIN (batch \o buffer), NEW j \in DOMAIN (batch \o buffer), i < j
               PROVE  (batch \o buffer)[i] < (batch \o buffer)[j]
    BY DEF InOrder
  <2> DEFINE n == Len(batch)
             m == Len(buffer)
             held == batch \o buffer
  <2>1. /\ n \in Nat /\ m \in Nat /\ DOMAIN batch = 1..n /\ DOMAIN buffer = 1..m
        /\ DOMAIN held = 1..(n + m)
        /\ \A k \in 1..(n + m) : held[k] = IF k <= n THEN batch[k] ELSE buffer[k - n]
    BY EventTypes
  <2>2. /\ Sorted(batch) /\ Sorted(buffer)
        /\ \A x \in Elems(batch), y \in Elems(buffer) : x < y
    BY DEF DInv, OrderInv
  <2> HIDE DEF n, m, held
  <2>3. CASE j <= n
    <3>1. i \in 1..n /\ j \in 1..n /\ held[i] = batch[i] /\ held[j] = batch[j]
      BY <2>1, <2>3 DEF held
    <3> QED
      BY <2>1, <2>2, <3>1 DEF Sorted, held
  <2>4. CASE ~(i <= n)
    <3>1. /\ i - n \in 1..m /\ j - n \in 1..m /\ i - n < j - n
          /\ held[i] = buffer[i - n] /\ held[j] = buffer[j - n]
      BY <2>1, <2>4 DEF held
    <3> QED
      BY <2>1, <2>2, <3>1 DEF Sorted, held
  <2>5. CASE i <= n /\ ~(j <= n)
    <3>1. i \in 1..n /\ j - n \in 1..m /\ held[i] = batch[i] /\ held[j] = buffer[j - n]
      BY <2>1, <2>5 DEF held
    <3>2. batch[i] \in Elems(batch) /\ buffer[j - n] \in Elems(buffer)
      BY <2>1, <3>1 DEF Elems
    <3> QED
      BY <2>2, <3>1, <3>2 DEF held
  <2> QED
    BY <2>3, <2>4, <2>5
<1> QED
  BY <1>1, SafeDInv, PTL

\* What diagnostics() reports as sent is stored, once per event, whatever replies are
\* lost and whatever batches are sent again.
THEOREM SentStored == SafeSpec => []SentIsStored
<1>1. DInv => SentIsStored
  BY DEF DInv, StoredInv
<1> QED
  BY <1>1, SafeDInv, PTL

-----------------------------------------------------------------------------
(* The refinement: the client implements EventFate. *)

\* The fate of each event in a state, and what a step does to it.
Fates == [e \in Event |-> FateOf(e)]

\* Fates, read off the state.
LEMMA FateReads ==
    ASSUME FateInv, NEW e \in Event
    PROVE  /\ Fates[e] = "held" <=> e \in Elems(buffer) \cup Elems(batch)
           /\ Fates[e] = "sent" <=> e \in acked
           /\ Fates[e] = "dropped" <=> e \in discarded
           /\ Fates[e] = "new" <=> e \notin 1..emits
           /\ Fates[e] \in {"new", "held", "sent", "dropped"}
BY DEF FateInv, Fates, FateOf

\* The same after a step.
LEMMA FateReadsNext ==
    ASSUME FateInv', NEW e \in Event
    PROVE  /\ Fates'[e] = "held" <=> e \in Elems(buffer)' \cup Elems(batch)'
           /\ Fates'[e] = "sent" <=> e \in acked'
           /\ Fates'[e] = "dropped" <=> e \in discarded'
           /\ Fates'[e] = "new" <=> e \notin 1..emits'
           /\ Fates'[e] \in {"new", "held", "sent", "dropped"}
BY DEF FateInv, Fates, FateOf, Elems

\* A step that moves no event from one set to another changes no fate.
LEMMA SameFates ==
    ASSUME Elems(buffer)' \cup Elems(batch)' = Elems(buffer) \cup Elems(batch),
           acked' = acked, discarded' = discarded
    PROVE  Fates' = Fates
<1>1. ASSUME NEW e \in Event PROVE FateOf(e)' = FateOf(e)
  BY DEF FateOf, Elems
<1> QED
  BY <1>1 DEF Fates

\* The initial states are EventFate's.
LEMMA InitPromise == Init => Promise!Init
BY DEF Init, Promise!Init, FateOf, Promise!Event, Event, Elems
\* emit() is EventFate's Emit of the next event.
LEMMA EmitPromise ==
    ASSUME DInv, DInv', Emit
    PROVE  Promise!Next
<1> DEFINE e == emits + 1
           Swapped(old) == [Fates EXCEPT ![e] = "held", ![old] = "dropped"]
<1>1. /\ emits' = e /\ e \in Event /\ e \notin 1..emits /\ 1..emits' = 1..emits \cup {e}
      /\ UNCHANGED <<acked, stored>>
  BY EventTypes, SdkAssumption
  DEF Emit, EmitRefused, EmitDropNewest, EmitPush, RecordDrop, serverVars, Event
<1> HIDE DEF e, Swapped
<1>2. FateInv /\ FateInv'
  BY DEF DInv
<1>3. Fates[e] = "new"
  BY <1>1, <1>2, FateReads
<1>4. \/ Fates' = [Fates EXCEPT ![e] = "dropped"]
      \/ Fates' = [Fates EXCEPT ![e] = "held"]
      \/ \E old \in Promise!Held : Fates' = Swapped(old)
  <2>1. CASE EmitRefused \/ EmitDropNewest
    <3>1. /\ Elems(buffer)' \cup Elems(batch)' = Elems(buffer) \cup Elems(batch)
          /\ discarded' = discarded \cup {e}
      BY <2>1 DEF EmitRefused, EmitDropNewest, e
    <3>2. ASSUME NEW x \in Event
          PROVE  Fates'[x] = IF x = e THEN "dropped" ELSE Fates[x]
      BY <1>1, <1>2, <3>1, FateReads, FateReadsNext
    <3> QED
      BY <3>2 DEF Fates
  <2>2. CASE EmitPush
    <3>1. CASE BufferFull
      <4> DEFINE old == Head(buffer)
      <4>1. buffer \in Seq(Event) /\ buffer # <<>> /\ Sorted(buffer)
        BY <3>1, EventTypes, SdkAssumption DEF BufferFull, DInv, OrderInv
      <4>2. old \in Elems(buffer) /\ old \in Event
        BY <4>1, TailSorted, EventTypes
      <4>3. discarded' = discarded \cup {old}
        BY <2>2, <3>1 DEF EmitPush
      <4> HIDE DEF old
      <4>4. Fates[old] = "held"
        BY <1>2, <4>2, FateReads
      <4>5. ASSUME NEW x \in Event
            PROVE  Fates'[x] = IF x = old THEN "dropped" ELSE IF x = e THEN "held" ELSE Fates[x]
        <5>1. CASE x = old
          BY <1>2, <4>3, <5>1, FateReadsNext
        <5>2. CASE x # old /\ x = e
          <6>1. Fates[e] # "sent" /\ Fates[e] # "dropped"
            BY <1>3
          <6>2. e \notin acked /\ e \notin discarded
            BY <1>1, <1>2, <6>1, FateReads
          <6>3. e \notin acked' /\ e \notin discarded' /\ e \in 1..emits'
            BY <1>1, <4>3, <5>2, <6>2
          <6>4. /\ Fates'[e] # "sent" /\ Fates'[e] # "dropped" /\ Fates'[e] # "new"
                /\ Fates'[e] \in {"new", "held", "sent", "dropped"}
            BY <1>1, <1>2, <6>3, FateReadsNext
          <6> QED
            BY <5>2, <6>4
        <5>3. CASE x # old /\ x # e
          <6>1. /\ x \in acked' <=> x \in acked
                /\ x \in discarded' <=> x \in discarded
                /\ x \in 1..emits' <=> x \in 1..emits
            BY <1>1, <4>3, <5>3
          <6> QED
            BY <1>2, <5>3, <6>1, FateReads, FateReadsNext
        <5> QED
          BY <5>1, <5>2, <5>3
      <4>6. e # old
        BY <1>3, <4>4
      <4>7. Fates' = Swapped(old)
        BY <4>5, <4>6 DEF Fates, Swapped
      <4>8. old \in Promise!Held
        BY <4>2, <4>4 DEF Promise!Held, Promise!Event, Event, Fates
      <4> QED
        BY <4>7, <4>8
    <3>2. CASE ~BufferFull
      <4>1. discarded' = discarded
        BY <2>2, <3>2 DEF EmitPush
      <4>2. ASSUME NEW x \in Event
            PROVE  Fates'[x] = IF x = e THEN "held" ELSE Fates[x]
        <5>1. CASE x = e
          <6>1. e \notin acked' /\ e \notin discarded' /\ e \in 1..emits'
            BY <1>1, <1>2, <1>3, <4>1, FateReads
          <6> QED
            BY <1>1, <1>2, <5>1, <6>1, FateReadsNext
        <5>2. CASE x # e
          <6>1. x \in 1..emits' <=> x \in 1..emits
            BY <1>1, <5>2
          <6> QED
            BY <1>1, <1>2, <4>1, <5>2, <6>1, FateReads, FateReadsNext
        <5> QED
          BY <5>1, <5>2
      <4> QED
        BY <4>2 DEF Fates
    <3> QED
      BY <3>1, <3>2
  <2> QED
    BY <2>1, <2>2 DEF Emit
<1>5. Promise!Emit(e)
  BY <1>1, <1>3, <1>4, Zenon DEF Promise!Emit, Fates, Swapped
<1> QED
  BY <1>1, <1>5 DEF Promise!Next, Promise!Event, Event

\* A reply, and giving up, are EventFate's Decide.
LEMMA DecidePromise ==
    ASSUME DInv, DInv', Reply \/ Refusal \/ (Failure /\ LastAttempt)
    PROVE  Promise!Next
<1>1. FateInv /\ FateInv' /\ UNCHANGED <<buffer, emits>> /\ batch' = <<>>
  BY DEF DInv, Reply, Refusal, Failure, GiveUp, Return
<1>2. Elems(buffer)' = Elems(buffer) /\ Elems(batch)' = {}
  BY <1>1 DEF Elems
<1>3. PICK S \in SUBSET Elems(batch) :
         /\ acked' = acked \cup S
         /\ discarded' = discarded \cup (Elems(batch) \ S)
         /\ stored' = stored \cup S
  <2>1. CASE Reply
    <3>1. /\ Elems(batch) \cap Invalid = Elems(batch) \ Valid(batch)
          /\ Valid(batch) \subseteq Elems(batch)
      BY DEF Valid
    <3> QED
      BY <2>1, <3>1 DEF Reply
  <2>2. CASE Refusal \/ (Failure /\ LastAttempt)
    <3>1. acked' = acked \cup {} /\ discarded' = discarded \cup (Elems(batch) \ {})
          /\ stored' = stored \cup {}
      BY <2>2 DEF Refusal, Failure, GiveUp, serverVars
    <3> QED
      BY <3>1
  <2> QED
    BY <2>1, <2>2
<1>4. ASSUME NEW e \in Event
      PROVE  /\ \/ Fates'[e] = Fates[e]
                \/ Fates[e] = "held" /\ Fates'[e] \in {"sent", "dropped"}
             /\ Fates[e] = "held" /\ Fates'[e] = "sent" <=> e \in S
             /\ Fates'[e] \in {"new", "held", "sent", "dropped"}
  <2>1. CASE e \in S
    <3>1. e \in Elems(batch) /\ e \in acked'
      BY <1>3, <2>1
    <3> QED
      BY <1>1, <2>1, <3>1, FateReads, FateReadsNext
  <2>2. CASE e \in Elems(batch) /\ e \notin S
    <3>1. e \in discarded'
      BY <1>3, <2>2
    <3> QED
      BY <1>1, <2>2, <3>1, FateReads, FateReadsNext
  <2>3. CASE e \notin Elems(batch)
    <3>1. /\ e \in acked' <=> e \in acked
          /\ e \in discarded' <=> e \in discarded
          /\ e \in 1..emits' <=> e \in 1..emits
          /\ e \notin S
      BY <1>1, <1>3, <2>3
    <3>2. Fates'[e] = Fates[e]
      BY <1>1, <3>1, FateReads, FateReadsNext
    <3>3. Fates[e] = "held" => Fates[e] # "sent"
      OBVIOUS
    <3> QED
      BY <1>1, <3>1, <3>2, <3>3, FateReadsNext
  <2> QED
    BY <2>1, <2>2, <2>3
<1>5. Elems(batch) \subseteq Event
  BY EventTypes
<1>6. S = {e \in Event : Fates[e] = "held" /\ Fates'[e] = "sent"}
  BY <1>4, <1>5
<1>7. Fates' \in [Event -> {"new", "held", "sent", "dropped"}]
  <2>1. Fates' = [e \in Event |-> Fates'[e]]
    BY DEF Fates
  <2> QED
    BY <1>4, <2>1
<1>8. stored' = stored \cup {e \in {x \in Event : Fates[x] = "held"} : Fates'[e] = "sent"}
  BY <1>3, <1>6
<1>9. Promise!Decide
  BY <1>4, <1>7, <1>8 DEF Promise!Decide, Promise!Held, Promise!Event, Promise!Fate, Event, Fates
<1> QED
  BY <1>9 DEF Promise!Next

\* The API's late store is EventFate's StoreUnseen.
LEMMA LatePromise ==
    ASSUME DInv, LateStore
    PROVE  Promise!Next
<1>1. PICK b \in adrift : stored' = stored \cup Valid(b)
  BY DEF LateStore
<1>2. UNCHANGED <<buffer, batch, acked, discarded>>
  BY DEF LateStore, clientVars, historyVars
<1>3. Fates' = Fates
  BY <1>2, SameFates
<1>4. Valid(b) \subseteq 1..emits
  BY <1>1 DEF Valid, DInv, StoredInv
<1>5. \A e \in 1..emits : e \in Event /\ Fates[e] # "new"
  BY EventTypes, FateReads DEF DInv
<1>6. stored' \subseteq stored \cup {e \in Event : Fates[e] # "new"}
  BY <1>1, <1>4, <1>5
<1>7. Promise!StoreUnseen
  BY <1>1, <1>3, <1>6 DEF Promise!StoreUnseen, Promise!Known, Promise!Event, Event, Fates
<1> QED
  BY <1>7 DEF Promise!Next

\* Every step of the client is one of EventFate's, or changes no fate.
LEMMA StepPromise == DInv /\ DInv' /\ [Next]_vars => [Promise!Next]_(Promise!vars)
<1> SUFFICES ASSUME DInv, DInv', [Next]_vars PROVE [Promise!Next]_(Promise!vars)
  OBVIOUS
<1>1. ASSUME Fates' = Fates, stored' = stored PROVE [Promise!Next]_(Promise!vars)
  BY <1>1 DEF Promise!vars, Fates
<1>2. CASE UNCHANGED vars
  BY <1>1, <1>2, SameFates DEF vars, clientVars, historyVars, serverVars
<1>3. CASE Emit
  BY <1>3, EmitPromise
<1>4. CASE Reply \/ Refusal \/ (Failure /\ LastAttempt)
  BY <1>4, DecidePromise
<1>5. CASE \/ TimerFlush \/ HostFlush \/ Retry \/ Settle \/ Close \/ CloseResumes
           \/ Failure /\ ~LastAttempt
  <2>1. Elems(buffer)' \cup Elems(batch)' = Elems(buffer) \cup Elems(batch)
    BY <1>5, QuietSteps, HoldDInv
  <2>2. UNCHANGED <<acked, discarded, stored>>
    BY <1>5, QuietSteps
  <2> QED
    BY <1>1, <2>1, <2>2, SameFates
<1>6. CASE LateStore
  BY <1>6, LatePromise
<1> QED
  BY <1>2, <1>3, <1>4, <1>5, <1>6 DEF Next, Outcome

\* The SDK client implements the promise: every event is decided once and for good, and
\* one reported as sent is stored.
THEOREM KeepsPromise == SafeSpec => PromiseKept
<1>1. Init => Promise!Init
  BY InitPromise
<1>2. DInv /\ DInv' /\ [Next]_vars => [Promise!Next]_(Promise!vars)
  BY StepPromise
<1> QED
  BY <1>1, <1>2, SafeDInv, PTL DEF SafeSpec, PromiseKept, Promise!Spec

=============================================================================
