---------------------------- MODULE Ingestion ----------------------------
(***************************************************************************)
(* POST /v1/events/batch of apps/api/src/app.ts, from the request to the   *)
(* reply, for concurrent handlers of one environment: admission (module    *)
(* Admission), insertEvents(), recordStoredUsage(), live publication and   *)
(* the reply.  Each database call is a step of its own, and between two    *)
(* steps the process may die, the client may give up and send the same     *)
(* batch again, time may pass, and events may be deleted.                  *)
(*                                                                         *)
(* The lookup of the API key is taken to succeed, and validation is the    *)
(* set of events it rejects.  A row has a size of its own, which is not    *)
(* the event's share of the request's body: it repeats route, job and      *)
(* error in columns and in the metadata.  Deletion is taken to give back   *)
(* what insertion charged for the row.                                     *)
(***************************************************************************)
EXTENDS Integers, Sequences, FiniteSets, FiniteSetsExt

CONSTANTS
    Handler, Key, Counts,
    EventLimit, RequestLimit, BandwidthLimit, StorageLimit,
    OrgRate, EnvRate, KeyRate, Burst, Second, Minute, MonthLength,
    LockWait, StorageLevels, MaxTime, MaxRequests,
    Event,            \* event ids
    Invalid,          \* those whose validation fails
    Batch,            \* the batches clients send: sequences of events
    RowSize,          \* pg_column_size() of an event's row, in events of a body
    RowLimit,         \* the size no row exceeds
    Retention,        \* retention_days, in ticks
    Deletable         \* TRUE iff the environment may be deleted

VARIABLES
    clock, active, retained, requests, bandwidth, ingested, quotaRejected, rateLimited,
    tokens, updatedAt, stage, request, begun, admitted, ipDenied, taken,
    receivedAt,       \* the events table: events.received_at by event id, or NoRow
    storedUsage,      \* usage_monthly.events_stored, by month
    exists,           \* the environment exists
    step,             \* how far a handler is beside admission
    batch,            \* the batch it handles
    fresh,            \* insertedEvents: what its insertion added
    acked,            \* history: events a 200 reply reported accepted or duplicate
    inserted,         \* history: how often each event was inserted
    published,        \* history: how often each event was published
    deleted           \* history: events that were deleted

Admission == INSTANCE Admission

admissionVars ==
    <<clock, active, retained, requests, bandwidth, ingested, quotaRejected, rateLimited,
      tokens, updatedAt, stage, request, begun, admitted, ipDenied, taken>>
tableVars == <<receivedAt, storedUsage, exists>>
handlerVars == <<step, batch, fresh>>
historyVars == <<acked, inserted, published, deleted>>
vars == <<admissionVars, tableVars, handlerVars, historyVars>>

NoRow == -1
Month == Admission!Month
Step == {"none", "validated", "inserted", "metered"}

Rows == {e \in Event : receivedAt[e] # NoRow}
Valid(b) == {b[i] : i \in DOMAIN b} \ Invalid
ValidCount(b) == Cardinality({i \in DOMAIN b : b[i] \notin Invalid})

Total(f) == MapThenSumSet(LAMBDA x : f[x], DOMAIN f)

\* What the rows of the events S take together.
StorageOf(S) == Total([e \in Event |-> IF e \in S THEN RowSize[e] ELSE 0])

ASSUME IngestionAssumption ==
    /\ Admission!AdmissionAssumption
    /\ IsFiniteSet(Handler) /\ Handler # {}
    /\ IsFiniteSet(Event)
    /\ RowLimit \in Nat \ {0}
    /\ RowSize \in [Event -> 1..RowLimit]
    /\ {StorageOf(S) : S \in SUBSET Event} \subseteq StorageLevels
    /\ Batch \subseteq Seq(Event)
    /\ Invalid \subseteq Event
    /\ \A b \in Batch : ValidCount(b) \in Counts
    /\ \E n \in Counts : \A k \in Counts : k <= n
    /\ Retention \in Nat
    /\ Deletable \in BOOLEAN

-----------------------------------------------------------------------------
(***************************************************************************)
(* Variants of definitions below, as a mistake in the code would make      *)
(* them; each one shows that a property would notice the mistake.          *)
(***************************************************************************)
BugCharged(b) == StorageOf(Valid(b))
BugStoredCount(h) == ValidCount(batch[h])
BugMayReply(h) == stage[h] = "admitted"
BugPublications(h, e) == Cardinality({i \in DOMAIN batch[h] : batch[h][i] = e})

-----------------------------------------------------------------------------
Init ==
    /\ Admission!Init
    /\ receivedAt = [e \in Event |-> NoRow]
    /\ storedUsage = [m \in Month |-> 0]
    /\ exists = TRUE
    /\ step = [h \in Handler |-> "none"]
    /\ batch = [h \in Handler |-> <<>>]
    /\ fresh = [h \in Handler |-> {}]
    /\ acked = {}
    /\ inserted = [e \in Event |-> 0]
    /\ published = [e \in Event |-> 0]
    /\ deleted = {}

\* A request arrives; its key is found and its events are validated.
Receive(h, b) ==
    /\ step[h] = "none"
    /\ exists
    /\ begun < MaxRequests
    /\ step' = [step EXCEPT ![h] = "validated"]
    /\ batch' = [batch EXCEPT ![h] = b]
    /\ UNCHANGED <<admissionVars, tableVars, fresh, historyVars>>

\* authorizeIngestion() is called.
Begin(h, k, ip) ==
    /\ step[h] = "validated"
    /\ Admission!Begin(h, k, ValidCount(batch[h]), ip)
    /\ UNCHANGED <<tableVars, handlerVars, historyVars>>

Authorize(h) ==
    /\ Admission!Authorize(h)
    /\ UNCHANGED <<tableVars, handlerVars, historyVars>>

\* The events of b that the table has no row for, and what the insert trigger adds to
\* the organization's storage for them.
Fresh(b) == Valid(b) \ Rows
Charged(b) == StorageOf(Fresh(b))

\* The events of an admitted request are still to be inserted.
Pending(h) == stage[h] = "admitted" /\ step[h] = "validated"

\* insertEvents(): one INSERT ... ON CONFLICT DO NOTHING in a transaction.  The unique
\* index makes concurrent insertions of an event wait for each other; the insert
\* trigger accounts the new rows.
Insert(h) ==
    /\ Pending(h)
    /\ exists \/ Valid(batch[h]) = {}
    /\ LET new == Fresh(batch[h])
       IN /\ receivedAt' = [e \in Event |-> IF e \in new THEN clock ELSE receivedAt[e]]
          /\ inserted' = [e \in Event |-> IF e \in new THEN inserted[e] + 1 ELSE inserted[e]]
          /\ fresh' = [fresh EXCEPT ![h] = new]
    /\ retained' = retained + Charged(batch[h])
    /\ step' = [step EXCEPT ![h] = "inserted"]
    /\ UNCHANGED <<clock, active, requests, bandwidth, ingested, quotaRejected, rateLimited,
                   tokens, updatedAt, stage, request, begun, admitted, ipDenied, taken,
                   storedUsage, exists, batch, acked, published, deleted>>

\* inserted.accepted: the positions of the batch whose event was inserted.
StoredCount(h) == Cardinality({i \in DOMAIN batch[h] : batch[h][i] \in fresh[h]})

\* recordStoredUsage(): an UPDATE of the month it runs in, which does nothing when no
\* request has been metered in that month yet.
RecordStored(h) ==
    /\ step[h] = "inserted"
    /\ LET m == Admission!MonthOf(clock)
       IN storedUsage' = IF requests[m] > 0
                         THEN [storedUsage EXCEPT ![m] = @ + StoredCount(h)]
                         ELSE storedUsage
    /\ step' = [step EXCEPT ![h] = "metered"]
    /\ UNCHANGED <<admissionVars, receivedAt, exists, batch, fresh, historyVars>>

\* The handler forgets the request.
Forget(h) ==
    /\ step' = [step EXCEPT ![h] = "none"]
    /\ batch' = [batch EXCEPT ![h] = <<>>]
    /\ fresh' = [fresh EXCEPT ![h] = {}]

MayReply(h) == step[h] = "metered"

\* How often inserted.insertedEvents holds the event e.
Publications(h, e) == Cardinality({i \in DOMAIN batch[h] : batch[h][i] = e /\ e \in fresh[h]})

\* onEventsAccepted() and the 200 reply.
Reply(h) ==
    /\ MayReply(h)
    /\ Admission!Release(h)
    /\ published' = [e \in Event |-> published[e] + Publications(h, e)]
    /\ acked' = acked \cup Valid(batch[h])
    /\ Forget(h)
    /\ UNCHANGED <<tableVars, inserted, deleted>>

\* A mistaken variant of the next action: a refused request is not billed.
BugReplyDenied(h) ==
    /\ stage[h] = "denied"
    /\ stage' = [stage EXCEPT ![h] = "idle"]
    /\ requests' = [requests EXCEPT ![Admission!MonthOf(clock)] = Max({0, @ - 1})]
    /\ UNCHANGED <<clock, active, retained, bandwidth, ingested, quotaRejected, rateLimited,
                   tokens, updatedAt, request, begun, admitted, ipDenied, taken>>
    /\ Forget(h)
    /\ UNCHANGED <<tableVars, historyVars>>

\* The 403 or 429 reply.
ReplyDenied(h) ==
    /\ stage[h] = "denied"
    /\ Admission!Release(h)
    /\ Forget(h)
    /\ UNCHANGED <<tableVars, historyVars>>

\* The process dies, the database fails, or the environment is gone when its events
\* are inserted: an open transaction is rolled back, a committed one stays, and no
\* 200 reply is sent.
Fail(h) ==
    /\ step[h] # "none"
    /\ IF stage[h] = "idle" THEN UNCHANGED admissionVars ELSE Admission!Release(h)
    /\ Forget(h)
    /\ UNCHANGED <<tableVars, historyVars>>

\* Events are deleted, and the delete trigger gives their storage back.
Delete(S) ==
    /\ receivedAt' = [e \in Event |-> IF e \in S THEN NoRow ELSE receivedAt[e]]
    /\ retained' = Max({0, retained - StorageOf(S)})
    /\ deleted' = deleted \cup S
    /\ UNCHANGED <<clock, active, requests, bandwidth, ingested, quotaRejected, rateLimited,
                   tokens, updatedAt, stage, request, begun, admitted, ipDenied, taken,
                   storedUsage, exists, handlerVars, acked, inserted, published>>

\* deleteExpiredEvents(), the retention job.
Expired == {e \in Rows : receivedAt[e] < clock - Retention}
ApplyRetention == Expired # {} /\ Delete(Expired)

\* deleteOrganizationTelemetry().
DeleteTelemetry == Rows # {} /\ Delete(Rows)

\* deleteEnvironment(): the cascade deletes the events after the environment, so the
\* delete trigger finds no organization to give their storage back to.
DeleteEnvironment ==
    /\ Deletable /\ exists
    /\ exists' = FALSE
    /\ receivedAt' = [e \in Event |-> NoRow]
    /\ deleted' = deleted \cup Rows
    /\ UNCHANGED <<admissionVars, storedUsage, handlerVars, acked, inserted, published>>

Tick ==
    /\ Admission!Tick
    /\ UNCHANGED <<tableVars, handlerVars, historyVars>>

Next ==
    \/ \E h \in Handler, b \in Batch : Receive(h, b)
    \/ \E h \in Handler, k \in Key, ip \in BOOLEAN : Begin(h, k, ip)
    \/ \E h \in Handler : Authorize(h)
    \/ \E h \in Handler : Insert(h)
    \/ \E h \in Handler : RecordStored(h)
    \/ \E h \in Handler : Reply(h)
    \/ \E h \in Handler : ReplyDenied(h)
    \/ \E h \in Handler : Fail(h)
    \/ ApplyRetention
    \/ DeleteTelemetry
    \/ DeleteEnvironment
    \/ Tick

Spec == Init /\ [][Next]_vars

-----------------------------------------------------------------------------
\* The types of the state.
TypeOK ==
    /\ Admission!TypeOK
    /\ receivedAt \in [Event -> 0..MaxTime \cup {NoRow}]
    /\ storedUsage \in [Month -> Nat]
    /\ exists \in BOOLEAN
    /\ step \in [Handler -> Step]
    /\ batch \in [Handler -> Batch \cup {<<>>}]
    /\ fresh \in [Handler -> SUBSET Event]
    /\ {acked, deleted} \subseteq SUBSET Event
    /\ {inserted, published} \subseteq [Event -> Nat]

\* What a 200 reply reports as accepted or duplicate is stored, until it is deleted,
\* although the request may be one of several that carry the event, and although
\* the one that inserted it may have failed.
AckedDurable == acked \subseteq Rows \cup deleted

\* An insertion is published at most once: a batch that is sent again, or handled
\* twice at the same time, shows nothing twice on the live dashboard.
PublishedOnce == \A e \in Event : published[e] <= inserted[e]

\* Usage never bills more than was stored.  docs/billing.md, "events stored: new
\* idempotent event rows actually inserted".
NeverOvercounted == Total(storedUsage) <= Total(inserted)

\* As long as its environment exists, the storage an organization is charged for is
\* exactly that of the rows it has, through concurrent insertions of the same
\* events, failures, retention and telemetry deletion.
StorageExact == exists => retained = StorageOf(Rows)

\* 004_security_saas_operations.sql: "The event trigger keeps this exact as retention
\* and tenant deletion remove rows."  Deleting an environment is such a deletion.
StorageReturned == retained = StorageOf(Rows)

\* The storage quota compares the request's body with what is left, before its rows are
\* stored and charged their own size.  So the quota is overshot, even by one request
\* alone, but no further than this: by a whole batch of the largest rows for each other
\* handler, and for the last one admitted by what its rows exceed its body.
Largest == CHOOSE n \in Counts : \A k \in Counts : k <= n
StorageOvershoot ==
    retained < StorageLimit + (Cardinality(Handler) - 1) * (RowLimit * Largest)
                            + (RowLimit - 1) * Largest

\* The pipeline keeps the promises of admission control: each of its steps is one of
\* Admission's, or changes nothing that Admission speaks of.
AdmissionKept == Admission!Spec

=============================================================================
