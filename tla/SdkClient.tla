---------------------------- MODULE SdkClient ----------------------------
(***************************************************************************)
(* The delivery side of the Node SDK: class QueueMonitorClient of          *)
(* packages/sdk/src/client.ts.  The host emits telemetry events; the       *)
(* client buffers them, sends them in batches with retries, and drains     *)
(* itself when it is closed.                                               *)
(*                                                                         *)
(* JavaScript runs one callback at a time, so an action is the code from   *)
(* one suspension point (an await, a timer, the end of a callback) to the  *)
(* next.  Events are named by the order of their emit() calls: event i is  *)
(* the i-th one.  The ingestion API is the environment: an answered        *)
(* request was processed; an unanswered one was processed, will be         *)
(* processed late, or never will be.                                       *)
(***************************************************************************)
EXTENDS Integers, Sequences, FiniteSets

CONSTANTS
    BatchSize,        \* config.batchSize
    MaxBufferSize,    \* config.maxBufferSize
    MaxAttempts,      \* config.retry.maxAttempts
    DropNewest,       \* TRUE iff config.overflowStrategy is "drop-newest"
    Sampling,         \* TRUE iff config.sampleRate is below 1
    Invalid,          \* the events the API's validation rejects
    LateFlush,        \* TRUE iff the host may call flush() after close()
    MaxEvents         \* bound: how many times the host calls emit()

ASSUME SdkAssumption ==
    /\ BatchSize \in Nat \ {0}
    /\ MaxBufferSize \in Nat \ {0}
    /\ MaxAttempts \in Nat \ {0}
    /\ DropNewest \in BOOLEAN
    /\ Sampling \in BOOLEAN
    /\ LateFlush \in BOOLEAN
    /\ MaxEvents \in Nat
    /\ Invalid \subseteq 1..MaxEvents

VARIABLES
    buffer,      \* this.buffer
    phase,       \* where sendNextBatch() is; "idle" iff this.flushing is null
    batch,       \* the events local to sendNextBatch()
    attempt,     \* its loop counter
    closed,      \* this.closed; the interval timer runs iff it is FALSE
    closer,      \* where the close() call that found closed = FALSE is
    queued,      \* this.metrics.eventsQueued
    sent,        \* this.metrics.eventsSent
    dropped,     \* this.metrics.eventsDropped
    emits,       \* history: how many emit() calls there were
    acked,       \* history: events whose delivery a reply confirmed
    discarded,   \* history: events passed to recordDrop()
    stored,      \* the API: events it has stored
    adrift       \* the API: batches given up on that may still be processed

metrics == <<queued, sent, dropped>>
clientVars == <<buffer, phase, batch, attempt, closed, closer, metrics>>
historyVars == <<emits, acked, discarded>>
serverVars == <<stored, adrift>>
vars == <<clientVars, historyVars, serverVars>>

Event == 1..MaxEvents
Phase == {"idle", "requesting", "waiting", "settled"}
Closer == {"none", "awaiting", "resumed", "returned"}

Elems(s) == {s[i] : i \in DOMAIN s}
Least(m, n) == IF m < n THEN m ELSE n

(***************************************************************************)
(* Variants of definitions below, as a mistake in the code would make      *)
(* them.  No run uses them as they stand: each one shows that a property   *)
(* would notice the mistake.                                               *)
(***************************************************************************)
BugBufferFull == Len(buffer) > MaxBufferSize
BugLastAttempt == attempt > MaxAttempts
BugNextAttempt == attempt
BugTaken(b) == SubSeq(b, Len(b) - Least(BatchSize, Len(b)) + 1, Len(b))
BugAccepted(b) == Len(b)
BugMayFlush == buffer # <<>>
BugTicking == ~closed /\ Len(buffer) >= BatchSize
BugRefused == FALSE
BugEvicted == 0

-----------------------------------------------------------------------------
(* Pieces of the code the actions share. *)

\* buffer.splice(0, batchSize) in sendNextBatch(): what it returns and leaves.
Taken(b) == SubSeq(b, 1, Least(BatchSize, Len(b)))
Left(b) == SubSeq(b, Least(BatchSize, Len(b)) + 1, Len(b))

BufferFull == Len(buffer) >= MaxBufferSize
LastAttempt == attempt = MaxAttempts
NextAttempt == attempt + 1

\* The early return of flush(), negated; a flush in progress is joined.
MayFlush == phase = "idle" /\ buffer # <<>>

\* setInterval(() => void this.flush()): clearInterval() in close() ends it.
Ticking == ~closed

\* emit() on a closed client.
Refused == closed

\* How many events a buffer overflow counts as dropped.
Evicted == 1

\* The reply to a batch: validation decides, and accepted + duplicates counts
\* every other event, whether this request or an earlier one stored it.
Valid(b) == Elems(b) \ Invalid
Rejected(b) == Cardinality({i \in DOMAIN b : b[i] \in Invalid})
Accepted(b) == Len(b) - Rejected(b)

\* recordDrop(n)
RecordDrop(n) == dropped' = dropped + n /\ UNCHANGED <<queued, sent>>

-----------------------------------------------------------------------------
Init ==
    /\ buffer = <<>>
    /\ phase = "idle"
    /\ batch = <<>>
    /\ attempt = 0
    /\ closed = FALSE
    /\ closer = "none"
    /\ queued = 0 /\ sent = 0 /\ dropped = 0
    /\ emits = 0
    /\ acked = {}
    /\ discarded = {}
    /\ stored = {}
    /\ adrift = {}

\* flush() up to its first suspension: it starts sendNextBatch(), which takes a
\* batch from the buffer b and sends the first request.
StartBatch(b) ==
    /\ phase' = "requesting"
    /\ batch' = Taken(b)
    /\ buffer' = Left(b)
    /\ attempt' = 1

\* emit() turned away: the client is closed, or the event is sampled out.
EmitRefused ==
    /\ emits < MaxEvents
    /\ Refused \/ Sampling
    /\ emits' = emits + 1
    /\ discarded' = discarded \cup {emits + 1}
    /\ RecordDrop(1)
    /\ UNCHANGED <<buffer, phase, batch, attempt, closed, closer, acked, serverVars>>

\* emit() on a full buffer under "drop-newest": the new event is dropped.
EmitDropNewest ==
    /\ emits < MaxEvents
    /\ ~Refused
    /\ BufferFull /\ DropNewest
    /\ emits' = emits + 1
    /\ discarded' = discarded \cup {emits + 1}
    /\ RecordDrop(1)
    /\ UNCHANGED <<buffer, phase, batch, attempt, closed, closer, acked, serverVars>>

\* The rest of emit(): on a full buffer the oldest event makes room; the new one
\* is pushed, and a buffer of batchSize events or more is flushed.
EmitPush ==
    /\ emits < MaxEvents
    /\ ~Refused
    /\ ~(BufferFull /\ DropNewest)
    /\ emits' = emits + 1
    /\ LET room == IF BufferFull THEN Tail(buffer) ELSE buffer
           pushed == Append(room, emits + 1)
       IN /\ IF Len(pushed) >= BatchSize /\ phase = "idle"
             THEN StartBatch(pushed)
             ELSE buffer' = pushed /\ UNCHANGED <<phase, batch, attempt>>
          /\ discarded' = IF BufferFull THEN discarded \cup {Head(buffer)} ELSE discarded
    /\ queued' = queued + 1
    /\ dropped' = dropped + (IF BufferFull THEN Evicted ELSE 0)
    /\ UNCHANGED <<sent, closed, closer, acked, serverVars>>

\* A tick of the interval timer, or the host's own flush().
Flush ==
    /\ MayFlush
    /\ StartBatch(buffer)
    /\ UNCHANGED <<closed, closer, metrics, historyVars, serverVars>>

TimerFlush == Ticking /\ Flush
HostFlush == (~closed \/ LateFlush) /\ Flush

-----------------------------------------------------------------------------
(* sendNextBatch(), from the outcome of a request to the next suspension.   *)

\* It returns; batch goes out of scope.
Return ==
    /\ phase' = "settled"
    /\ batch' = <<>>
    /\ attempt' = 0

GiveUp ==
    /\ Return
    /\ RecordDrop(Len(batch))
    /\ discarded' = discarded \cup Elems(batch)

\* waitForRetry() up to its timer.
Backoff ==
    /\ phase' = "waiting"
    /\ UNCHANGED <<batch, attempt, metrics, discarded>>

\* A 2xx reply: the API stored the batch's valid events, in this request or before.
Reply ==
    /\ phase = "requesting"
    /\ Return
    /\ stored' = stored \cup Valid(batch)
    /\ acked' = acked \cup Valid(batch)
    /\ discarded' = discarded \cup (Elems(batch) \cap Invalid)
    /\ sent' = sent + Accepted(batch)
    /\ dropped' = dropped + Rejected(batch)
    /\ UNCHANGED <<queued, buffer, closed, closer, emits, adrift>>

\* A reply whose status says not to retry: the API stored nothing.
Refusal ==
    /\ phase = "requesting"
    /\ GiveUp
    /\ UNCHANGED <<buffer, closed, closer, emits, acked, serverVars>>

\* A retryable status, or no reply at all (timeout, network failure, a body cut
\* short).  The API may have processed the batch, or may yet do so.
Failure ==
    /\ phase = "requesting"
    /\ IF LastAttempt THEN GiveUp ELSE Backoff
    /\ adrift' \in {adrift, adrift \cup {batch}}
    /\ UNCHANGED <<buffer, closed, closer, emits, acked, stored>>

\* The backoff timer fires: the next request is sent.
Retry ==
    /\ phase = "waiting"
    /\ phase' = "requesting"
    /\ attempt' = NextAttempt
    /\ UNCHANGED <<buffer, batch, closed, closer, metrics, historyVars, serverVars>>

\* The finally() callback of flush(): flushing becomes null, and a close() that
\* awaits this flush is ready to run.
Settle ==
    /\ phase = "settled"
    /\ phase' = "idle"
    /\ closer' = IF closer = "awaiting" THEN "resumed" ELSE closer
    /\ UNCHANGED <<buffer, batch, attempt, closed, metrics, historyVars, serverVars>>

-----------------------------------------------------------------------------
(* close().  A second call returns at once and changes nothing.             *)

\* The test of close()'s loop, and the flush() it calls: it starts a batch or
\* joins the one in progress.
DrainLoop ==
    IF buffer = <<>>
    THEN closer' = "returned" /\ UNCHANGED <<buffer, phase, batch, attempt>>
    ELSE /\ closer' = "awaiting"
         /\ IF MayFlush THEN StartBatch(buffer) ELSE UNCHANGED <<buffer, phase, batch, attempt>>

Close ==
    /\ closer = "none"
    /\ closed' = TRUE
    /\ IF phase = "idle"
       THEN DrainLoop
       ELSE closer' = "awaiting" /\ UNCHANGED <<buffer, phase, batch, attempt>>
    /\ UNCHANGED <<metrics, historyVars, serverVars>>

CloseResumes ==
    /\ closer = "resumed"
    /\ DrainLoop
    /\ UNCHANGED <<closed, metrics, historyVars, serverVars>>

-----------------------------------------------------------------------------
\* The API processes a request the client no longer waits for.
LateStore ==
    /\ \E b \in adrift :
          /\ stored' = stored \cup Valid(b)
          /\ adrift' = adrift \ {b}
    /\ UNCHANGED <<clientVars, historyVars>>

Emit == EmitRefused \/ EmitDropNewest \/ EmitPush
Outcome == Reply \/ Refusal \/ Failure

Next ==
    \/ Emit
    \/ TimerFlush
    \/ HostFlush
    \/ Outcome
    \/ Retry
    \/ Settle
    \/ Close
    \/ CloseResumes
    \/ LateStore

\* The event loop runs what is ready: timers fire, callbacks run, and the
\* AbortController of each attempt ends a request nobody answers.  Nothing makes
\* the host emit, flush or close, nor the API process a request late.
Fairness ==
    /\ WF_vars(TimerFlush)
    /\ WF_vars(Outcome)
    /\ WF_vars(Retry)
    /\ WF_vars(Settle)
    /\ WF_vars(CloseResumes)

SafeSpec == Init /\ [][Next]_vars
Spec == SafeSpec /\ Fairness

-----------------------------------------------------------------------------
\* The types of the state, and the batch present exactly while it is being sent.
TypeOK ==
    /\ buffer \in Seq(Event)
    /\ phase \in Phase
    /\ batch \in Seq(Event)
    /\ attempt \in 0..MaxAttempts
    /\ closed \in BOOLEAN
    /\ closer \in Closer
    /\ queued \in Nat /\ sent \in Nat /\ dropped \in Nat
    /\ emits \in 0..MaxEvents
    /\ acked \subseteq Event
    /\ discarded \subseteq Event
    /\ stored \subseteq Event
    /\ adrift \subseteq Seq(Event)

\* The counters account for every emit() call: each event was sent, was dropped,
\* or is still held, through overflow, retries, rejections and shutdown
\* (diagnostics() is what an operator judges loss by).
Ledger ==
    /\ emits = sent + dropped + Len(buffer) + Len(batch)
    /\ sent + Len(buffer) + Len(batch) <= queued
    /\ queued <= emits

\* The buffer keeps its bound; what the client holds in memory exceeds it by the
\* batch being sent, and by no more.
HeldBound ==
    /\ Len(buffer) <= MaxBufferSize
    /\ Len(batch) <= Least(BatchSize, MaxBufferSize)

\* Emission order survives overflow, batching and retries: everything being sent
\* is older than everything buffered, and both are in order, so that batches are sent in
\* order.  The order of storage is another: the server may process a batch that was given
\* up after it has stored newer ones.
InOrder ==
    LET held == batch \o buffer
    IN \A i, j \in DOMAIN held : i < j => held[i] < held[j]

\* What the client reports as sent is stored, although replies are lost and
\* batches are sent again; and no event is counted twice.
SentIsStored ==
    /\ acked \subseteq stored
    /\ sent = Cardinality(acked)

\* When close() returns, nothing is left behind: the buffer is empty for good, and
\* no request is in progress unless the host itself called flush() after close().
CloseDrains ==
    closer = "returned" => /\ buffer = <<>>
                           /\ LateFlush \/ phase = "idle"

\* packages/sdk/README.md: the SDK "never holds more than maxBufferSize" events.
NeverHoldsMore == Len(buffer) + Len(batch) <= MaxBufferSize

\* close() returns: the retries of every remaining batch come to an end.
CloseReturns == closed ~> closer = "returned"

\* No event stays in the client: the timer flushes a batch that never fills up,
\* and every batch is sent or given up.
NothingLingers ==
    \A e \in Event : e \in Elems(buffer \o batch) ~> e \notin Elems(buffer \o batch)

=============================================================================
