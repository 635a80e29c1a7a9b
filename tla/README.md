# Queue Monitor: a verification project

TLA+ models of Queue Monitor, the TLC runs that check them on small instances, and
proofs of the main invariants for every value of the constants (TLAPS).
`PROJECT.json` ties every definition to the source lines it models. Paths below are
relative to the repository.

## 1. The system

Applications use the **Node SDK** to emit telemetry events about HTTP requests and
BullMQ jobs. The SDK buffers them and posts them in batches to the **API**, which
meters and admits each request, stores its events in PostgreSQL, publishes the new ones
on Socket.IO and answers. A **web dashboard** reads the events and refreshes on the
live push. Around this are tenants: organizations, projects, environments, members,
invitations, sessions, API keys, plans and retention.

| Component | State | Operations | Interacts with | What makes it correct |
|---|---|---|---|---|
| SDK client (`packages/sdk/src/client.ts`) | buffer, batch in flight, closed flag, counters | emit, flush (timer, size, host), send with retries, close | host callbacks; API over HTTP | every event accounted for once; sent in order; bounds; close drains and returns |
| Monitor singleton (`monitor.ts`) | current client | init, emit, shutdown | client | one client at a time |
| Trace context and adapters (`context.ts`, `bullmq.ts`, `express.ts`, `fastify.ts`) | `_monitor` data in the job | add job, process attempt, finish request | Redis through BullMQ; client | the events of a job form one chain through all attempts, and say how the job ended |
| Validation (`packages/shared`) | none | validate, redact | SDK and API | redaction never turns a good event into a rejected one |
| Admission (`store.ts`: `authorizeIngestion`) | `usage_monthly`, `rate_limit_buckets`, subscription row lock | authorize | replicas through PostgreSQL | quotas never exceeded; each request metered once; rates bounded |
| Ingestion (`app.ts`: POST `/v1/events/batch`) | `events` | admit, insert, record usage, publish, reply | admission, live push, SDK retries | what is acknowledged is stored; inserted, billed and published once |
| Storage accounting, retention, deletion (`store.ts`, `004_*.sql`) | `organization_storage`, `events` | triggers, retention job, deletions | ingestion, the storage quota | the charged storage is that of the rows |
| Live push (`server.ts`) | Socket.IO rooms | connect, subscribe, publish, disconnect | dashboard, sessions | a socket is in one room at most, of an environment its user may see |
| Sessions, passwords (`auth.ts`, `store.ts`) | sessions, reset tokens | sign up, log in, revoke, reset | every request | nothing revoked is honoured; tokens are single-use |
| Tenants, keys, settings (`app.ts`, `store.ts`) | organizations, projects, environments, keys, audit entries | create, list, update, revoke, delete | every request; ingestion by key | what is done is permitted, what is acknowledged is audited; no dead key stores events |
| Membership (`store.ts`) | memberships, invitations | change role, remove, invite, accept, revoke, delete user | sessions | an organization keeps an owner |
| Reports (`store.ts`) | none | trace order, overview, lists | dashboard | a trace lists each event once, parents first |
| Migrations (`scripts/migrate.ts`) | `schema_migrations` | migrate | deployments | each migration is applied once |
| Dashboard (`apps/web`) | selected environment, fetched data | fetch, switch, refresh | live push | comes to show the selected environment, up to date |
| Configuration, e-mail, demo service, scripts, CI | - | - | - | - |

Hard behaviours, listed line by line under `hazards`: overlapping flushes and shutdown in
the SDK; lost replies and resent batches; a request admitted in one transaction and
stored in another; transactions that wait for a lock while the clock moves on; crashes
between the steps of a request; cascades that run triggers without their parents;
READ COMMITTED transactions that count rows others are changing, and that wait for each
other's row locks; roles read in one statement and used in the next; jobs whose lock lapses
while their worker runs on; subscriptions and fetches that end out of order.

## 2. The modules

| Module | What it is | Status |
|---|---|---|
| `SdkClient` | the SDK client | checked |
| `EventFate` | the abstract promise of the SDK about an event | checked |
| `SdkDelivery` | `SdkClient` implements `EventFate` | checked |
| `SdkClientProofs` | theorems about `SdkClient` | proved |
| `SdkDeliveryProofs` | theorems about the fate of events, and that `SdkClient` implements `EventFate` | proved |
| `Admission`, `MCAdmission` | admission control, and its small instances | checked |
| `AdmissionProofs` | theorems about `Admission` | proved |
| `Ingestion`, `MCIngestion` | the ingestion pipeline, composed with `Admission` | checked |
| `IngestionProofs` | theorems about `Ingestion`, and that it implements `Admission` | proved |
| `EventRules` | redaction and validation of one event, as operators | checked in `TraceView` |
| `TraceChain` | the events of a request and of its job over all attempts | checked in `TraceView` |
| `TraceView`, `MCTraces` | which of these events the API takes and how it lists them | checked |
| `TraceProofs` | theorems about `TraceChain`, `EventRules` and `TraceView` | proved |
| `Membership`, `MCMembership` | members and invitations of an organization | checked |
| `MembershipProofs` | theorems about `Membership` | proved |
| `Sessions` | sessions, password and reset tokens of a user | checked in `Console` |
| `Tenancy` | organizations, projects, environments, keys, settings, audit entries | checked in `Console` |
| `LiveRooms` | the live push and the page that shows it | checked in `Console` |
| `Console`, `MCConsole` | the last three, composed | checked |
| `SessionsProofs` | lemmas about the steps of `Sessions` | proved |
| `ConsoleProofs` | theorems about `Console` | proved |

### SdkClient

JavaScript runs one callback at a time, so an action is the code between two
suspension points. `phase` says where `sendNextBatch()` stands: `idle` (no flush,
`this.flushing` is null), `requesting` (awaiting the fetch), `waiting` (in the backoff
timer), `settled` (returned, its `finally` callback still to run). `closer` says where
the first `close()` stands; a second call returns at once and changes nothing.

| Action | Code |
|---|---|
| `EmitRefused`, `EmitDropNewest`, `EmitPush` | the three ways through `emit()`; `EmitPush` includes the eviction of the oldest event and the flush of a full batch up to its request |
| `TimerFlush`, `HostFlush` | `flush()` from the interval or the host; joining a flush in progress changes nothing |
| `Reply`, `Refusal`, `Failure` | the outcome of a request: 2xx, a final status, a retryable status or no usable reply |
| `Retry`, `Settle` | the backoff timer, the `finally` callback |
| `Close`, `CloseResumes` | `close()` to its first await, and from one await to the next |
| `LateStore` | the API processes a request the client has given up on |

Events are numbered in emission order. The API is the environment: a 2xx reply means the
valid events of the batch are stored; after any other outcome the batch may still be
processed, now, later or never. `emits`, `acked`, `discarded` are history. Left out:
`retryCount`, `lastError`, `lastFlushAt` (each set beside a step that is modelled),
redaction, logging, and the length of a delay (any delay may elapse at any time).

`EventFate` promises that an event is held, then sent or dropped, once and for good, and
that what is sent is stored. `SdkDelivery` reads the fate of an event off the client's
buffers and history, and states the refinement as `PromiseKept`.

### Admission

`authorizeIngestion()` is one transaction. It begins (`Begin`), which fixes SQL's
`now()`; it then waits for `SELECT ... FOR UPDATE` on the organization's subscription,
and does everything else under that lock. Transactions of one organization are therefore
serial from that point, and the rest is one step: `DenyQuota`, `DenyAddress`, `DenyRate`
or `Admit`, by the code's order of tests. Every decision meters the request first
(`Decide`, `Meter`), in the month of `now()`; the buckets refill by `Date.now()`, the
time of the step, and are stamped with `now()`, the time of `Begin`. A tick of the clock
is a fraction of a second, so that `Parsed` can drop what printing a `Date` drops.
Database and JavaScript clocks are taken to agree; each divergence shown below occurs
all the same. Tokens are counted in `Minute`-ths, which keeps the arithmetic in integers.
`Release` is the end of the handler, by whatever cause; a transaction that is rolled
back leaves nothing. `MoveStorage` and `ChangeStatus` are the rest of the system.

### Ingestion

The handler after its key is found and its events are validated: `Receive`, `Begin` and
`Authorize` (Admission's), `Insert`, `RecordStored`, `Reply`, each a database call or the
reply itself, so that anything may happen between them: `Fail` (the process or the
database dies; the client may send the batch again, which is a new `Receive`), time, the
retention job, telemetry deletion, deletion of the environment, and the steps of other
handlers. The unique index makes concurrent insertions of an event wait for each other, so
one INSERT is one step. A row has a size of its own (`RowSize`, `pg_column_size()`), which is not
the event's share of the body that the quota is tested with: `eventValues()` stores route,
job and error both in columns and in the metadata. `RowLimit` bounds it. A deletion is
taken to give back what the insertion charged for the row. `Admission` is instantiated on the same variables;
`AdmissionKept` states that the pipeline implements it: every step of the pipeline is a
step of `Admission`, or changes nothing it speaks of.

### EventRules, TraceChain, TraceView

`EventRules` translates `redactTelemetryData()` and `validateEvent()` on abstract values: a
value is one of the kinds that those functions tell apart (an integer, a string with an
address, a timestamp, a route template, a blank, ...), and a form that has no bearing on
the others (ids, durations) is one flag.

`TraceChain` is one request and one job. `Finish` is the event of `express.ts` and
`fastify.ts`, in `Abort` it never comes. `Land` and `AddReturns` (or `AddRejects`) are the
two ends of `queue.add()` in `addMonitoredJob()`, so that a worker may have the job before
its pending event is emitted. `PickUp`, `Succeed`, `ThrowRetry`, `ThrowLast`, `Update` and
`UpdateFails` are `instrumentBullMqProcessor()` between its awaits. `Settle` and `Stall`
are BullMQ, which is external: it settles an attempt only for the worker that owns the
job's lock, and gives a job whose lock lapsed to another worker while the first may still
run. A job with attempts left is tried again or, when what was thrown says so
(`UnrecoverableError`, `job.discard()`, a backoff of -1), given up at once (`Outcomes`); and a
processor may postpone its job without an attempt being counted (`Postpone`, then
`DelayedError`). The wrapper asks for none of this: it looks at the number of the attempt. `Crash` is a worker's death. A job may also come from a producer without the SDK; and
instead of adding a job, a handler may emit events of its own, whose parents may be
missing or form a circle. Clocks of workers differ by `Skew`. `disturbed` is history.

`TraceView` adds the API's side: `GetTrace` is the chronological query with
`orderTraceByParent()`, on any part of what was emitted (the SDK may lose events): `Visits`
iterates `Visit`, three times for each event, which is proved to be enough. And
`StrictOrder` is the validator `timeline.ts` of the demo service, the reference that
`GetTrace` must agree with on a complete, undisturbed trace.

### Membership

One organization, and requests that are each a sequence of statements: `Arrive` (the
session hook), then the statements of `updateMemberRole()` (`LockRequester`, `LockTarget`,
`CountOwners`, `WriteRole`), `removeMember()` (`LockFirst`, `LockBoth`, `CountOwners`,
`Remove`), `deleteUser()` (`CheckAccount`, `DeleteAccount`), `deleteOrganization()`, and
the three functions of invitations; then what the route does after them, `RevokeSessions`
and `Audit`. PostgreSQL is external and READ COMMITTED: a plain SELECT sees what is
committed (`CountOwners`), a statement that locks waits and sees the newest row
(`Lockable`, `TakeLock`), the last statement and the COMMIT are one step, as nothing of an
open transaction is visible. `AbortDeadlock` aborts a request of a circle of waits.
`Fail` is any call that fails or a death of the process. `deleteUser()` is two steps, as
its condition is evaluated on the snapshot of its statement and its cascade then waits for
locks. `stale` and `withdrawn` are history.

### Sessions, Tenancy, LiveRooms, Console

`Sessions` is one user: calls of the `/v1/auth` routes, each statement a step, with the
locks of `resetPassword()` on token rows and the user's row, and the snapshots on which its
two last UPDATEs choose rows (`SeeTokens`, `EndSessions`) before its COMMIT. Passwords are
numbered; a session remembers, as history, the password that was shown for it.

`Tenancy` writes each store function as the sequence of its statements and each route as the
sequence of the functions it calls (`RouteDeleteEnvironment == GetEnvironmentAccess \o
DeleteEnvironment \o <<AuditFound>>`); requests run their sequences one statement at a time,
interleaved with others', with role changes made by other members, and with expiring
keys. A statement is what it does and the roles it does it for. Slugs that are taken are
rows that exist. `held`, `cut`, `dead`, `did` and `acked` are history.

`LiveRooms` is one socket of the user and the events page: `Connect`, `Disconnect`, the
handler of `environment:subscribe` between its awaits (`CheckAccess`, `Leave` for each room
it leaves, `Join`), `Publish`, and the page's fetches (`Ask`, `Answer`, `Show`), any of
which may overtake another. `Console` composes the three: requests and handshakes need a
session of `Sessions`, subscriptions and fetches the access of `Tenancy`. Its constant
`Load` lists what clients do in a behaviour, so that one run covers six workloads
without their product.

Left out: the read-only sessions of the demo workspace; plans (allowlists need the Business
plan, which is assumed); CSRF checks, password hashing and token signatures; other
members of the organization, except for the role changes they make.

## 3. The runs

| Run | Question | Result |
|---|---|---|
| `sdk_safety` | Does the client account for every event, hold and send them in order and within bounds, report as sent only what is stored, drain on close, and keep the promise of `EventFate`? | holds |
| `sdk_liveness` | Does `close()` return, and does every event leave the client? | holds |
| `sdk_held` | Does the client never hold more than `maxBufferSize` events, as its README says? | violated |
| `admission` | Do quotas, metering and the order of scopes hold under concurrency and lock waits? | holds |
| `admission_rate` | Does a bucket keep to its burst and refill rate? | violated |
| `ingestion` | Are events durable, published and billed at most once, and exactly accounted? How far is the storage quota overshot? Does the pipeline implement `Admission`? | holds |
| `ingestion_storage` | Does deleting an environment give its storage back? | violated |
| `ingestion_usage` | Is a batch that carries an event twice billed for the rows it added? | violated |
| `traces` | Do the events of a job form one chain that says how it ended? Does the API take them, and list any part of them once, parents first? | holds |
| `membership` | Do concurrent changes of members and invitations end, act on a role still held, revoke sessions before the reply, use an invitation once? How can the last owner go? | holds |
| `last_owner` | Does an organization keep an owner, as `docs/security.md` says? | violated |
| `console` | Are reset tokens single-use, do resets end sessions, do dead keys store nothing, is what is done permitted, is what is acknowledged audited, is a socket in one room, does the page become fresh? | holds |

What the violations show:

- **Held events.** `sendNextBatch()` splices its batch out of the buffer, and `emit()`
  tests the buffer alone. The real bound is `HeldBound`: the buffer plus one batch.
- **Refill.** `Date.parse(String(updated_at))` loses the milliseconds, so each request is
  credited again for up to a second. The run has one handler and no lock waits; with
  `Second = 1` (nothing to lose) and no waits the bound holds, and with waits it fails
  again, for a second reason: the bucket is stamped with the transaction's start and
  refilled to the time after its wait.
- **Storage.** The cascade deletes the events after their environment, so the trigger
  cannot find their organization and gives nothing back. While the environment exists
  the account is exact (`StorageExact`).
- **Usage.** `insertEvents()` counts positions, not rows. The `ingestion` run has batches
  of distinct events, and there usage never exceeds what was inserted. It may fall short:
  a crash after the insertion, or a month that turned with no request metered yet, loses
  the usage of the rows, and a crash also loses their publication; the batch that is sent
  again only finds duplicates.

- **Last owner.** `updateMemberRole()` and `removeMember()` count owners without locking
  the rows they count. Alice demotes herself while Bob demotes himself: neither locks the
  other's row, each counts two owners, both commit, and nobody is left. `deleteUser()`
  evaluates its condition before it waits, to the same effect. What does hold
  (`OwnerKept`): owners who demote *each other* are serialized by the lock each takes on
  its own row first, so it takes owners that withdraw themselves.

Some passing properties name the exceptions that the code has, so that they can be argued
about. `InOrder` is about what the client holds and sends: a batch that it gave up may
be stored after a newer one. `StorageOvershoot`: the bound has the rows of the other
handlers' largest batches, and what the rows of the request itself exceed its body by, so
that one request alone may pass the quota. `Causal`: a processing event can precede its
pending event, and a job's events the event of the request. `Linear` and part of `Told`: only
while no lock lapses, no attempt is postponed and no `updateData()` fails. `Told`: a job that
BullMQ gives up before its last attempt has no final failure event, and its events end with
a retry that never comes; what `docs/project-analysis.md` says of it, "`queue_failed:failure`
on the terminal attempt", holds only of a last attempt by number. `Recorded`: the event of a request that matched no route, and an
event whose error has no message, are rejected. `ResetRevokes`: the session of a login
that had shown the old password before the reset committed, and was written after the
reset saw the sessions, survives it. `Accounted`: `updateOrganizationSecurity()` of an
organization without environments changes its settings, yet the reply is 403 and nothing is
audited; a request that fails, or whose process dies, between its change and
`recordAudit()` has changed what no entry tells of, although `docs/security.md` says of
deletions that they "are audited"; and the entry of a user who was cut off between the
change and `getEnvironmentAccess()` belongs to no organization. What the property demands is
that a request which `docs/security.md` lists (`Auditable`) has its entry when it is
answered, and that an entry is of something done.

### Bounds

- *SDK.* Batch 2, buffer 3, two attempts, six events: an overflow while a full batch is
  retried, a buffer that outgrows a batch, a close with a batch in flight and more to
  drain, and a late processing of every batch all occur; event 2 is rejected by validation. The liveness
  run has a batch size (3) above the buffer size (2), which the configuration allows and
  where a push never flushes; it also has sampling, `drop-newest`, and a host that calls
  `flush()` after `close()`.
- *Admission.* Two handlers, four requests, limits that each can be hit, two months, a
  second of two ticks, a key whose own limit is above its environment's. Handlers are symmetric. The theorems
  lift the bounds.
- *Ingestion.* Two handlers, three requests, batches that overlap and carry an invalid
  event, rows of one and of two units, a storage limit that one batch's body fits, its
  rows may pass and two overshoot by far, a month of one tick so
  that it turns between any two steps. Rates are ample: `admission` covers denials by
  rate.

- *Traces.* Two workers, of which one has a clock far behind; two attempts, three runs, one lapse
  before BullMQ gives up, so that a lapsed worker overlaps its successor and a job fails
  with and without its last event. All parents of three events that a handler emits, so
  that circles of one, two and three occur. Any two events of a trace may be lost. The request
  is one of Express: Fastify's differs in the route of a request that matched none.
  `Fault = {"named"}`: errors with a sensible message, as `Recorded` speaks of no others.
- *Membership.* Two owners and an outsider, two requests at once of any kind, two
  invitations of which one may be pending at the start. Two requests are enough for each race
  of the code, since each compares one request's read with another's write, the
  deadlock of two transactions included.
- *Console.* Three calls, two sessions and two reset links; two or three requests at once
  on a tree of two organizations, two projects, three environments and two keys; two
  subscription handlers and two fetches at once, two selections, one event per environment
  and one lost connection. Each workload of `MCLoad` is explored to its end.

Deadlock checking is off where the model stops: every event emitted, or every request
spent, at the bound.

### Fairness

`SdkClient`: the event loop runs what is ready: timers fire (`TimerFlush` while the
interval lives, `Retry`), promise callbacks run (`Settle`, `CloseResumes`), and each
attempt has an `AbortController` that ends a request nobody answers, so a request has
*some* outcome (`Outcome`). A weak fairness condition each; none on the host or on late
processing by the API.

`Membership`: a weak fairness condition on `Step` of each request. A handler goes on by
itself; PostgreSQL hands a lock on when it is released, and its deadlock detector aborts
one of a circle. None on failures, arrivals, logins or expiry.

`Console`: `setInterval` of the page ticks for as long as it is open (`Ask`), a fetch is
answered or fails (`Answer`), its callback runs (`Show`), and so do the subscription handlers
(`Handler`): a weak fairness condition for each slot. None on the user, the network, the
push or the other parts. `EventuallyFresh` therefore holds by polling alone, which is what
`README.md` claims.

`Admission`, `Ingestion` and `TraceChain` state safety only: a crashed handler or worker
owes nothing.

## 4. The proofs

`SdkClientProofs`, under `SdkAssumption` (the ranges `validateMonitorConfig()` enforces),
proves for every configuration that `SafeSpec` keeps `TypeOK`, `Ledger`, `HeldBound` and
`CloseDrains`. None of the last three is inductive. `IInv` adds `PhaseInv` (no batch
outside a flush, so that starting one cannot overwrite another; attempts are left
while a retry waits, so that the counter keeps its type) and `CloserInv` (a close that
awaited a flush finds the client idle when it resumes, unless the host may flush in between).
`SpliceSplits` and `RejectedBound` say what the operators on sequences return.

`AdmissionProofs`, under `AdmissionAssumption` (the CHECKs of `subscription_plans`, with
natural bounds), proves `TypeOK`, `QuotaKept`, `Metered` and `Nested` for every plan,
number of handlers, clock and lock wait. They are inductive together: the request
quota follows from `Metered`, since an admission was metered before it was tested;
the types of buckets rest on lemmas about division and products (`Quotient`,
`QuotientOrder`, `Product`), which the provers need stated.

`MembershipProofs`, under `MembershipAssumption` (at the start there is an owner and at most
one pending invitation, as registration and the unique index see to; users are finitely many;
operands have the types the routes validate), proves `TypeOK`, `OwnerKept`,
`InvitationOnce`, `AckedRevoked` and `Authorised` for any number of users, requests and
invitations, whatever is asked and whatever fails. `StepKinds` says what every step is: it
moves its own request and its own locks (`Proceeds`) and either leaves the tables alone
(`Quiet`) or is one of nine steps that write (`Writes`). On that rests `IInv`: the types with
`HolderInv`; `LockInv`, what a request has read under its locks still holds, because no
other request writes to a row that it has locked (`RolesKept`, `PendingKept`); `OwnerInv`,
a request that is about to withdraw its own owner has counted another, who is still one or
has withdrawn since; `InvitationInv`, which requests have used an invitation; `StaleInv`,
where a change is whose sessions are not revoked yet. `Authorised` is `LockInv` read at the
step that writes. `OwnerKept` needs both `LockInv` and `OwnerInv`: `OwnerLost` lists the
ways to lose an owner, and the one who demotes or removes another stays an owner under the
lock.

`SdkDeliveryProofs` adds to the `IInv` of `SdkClientProofs` what `InOrder`, `SentIsStored` and
the refinement `PromiseKept` need: `OrderInv`, the batch and the buffer are in order and the
batch is the older (`SplitSorted` says that `splice()` and an eviction keep it so); `FateInv`,
each emitted event is held, sent or dropped and only one of these; `StoredInv`, the API
knows emitted events only. The refinement is proved step by step: an action of the client
or of the API is a step of `EventFate` or leaves the fates alone.

`IngestionProofs`, under `IngestionAssumption` (the assumption of `Admission`, finitely many
handlers and events, rows no larger than `RowLimit`, and constants large enough for the batches: a bound of `StorageLevels`
or `Counts` that cut a run short would make an action silently impossible), proves `TypeOK`,
`AckedDurable`, `StorageExact`, `StorageOvershoot`, `PublishedOnce`, `NeverOvercounted` and
`AdmissionKept`.
`IInv` has `Control` (what a handler at each step may hold), `Storage` (the charge is the
sum of the rows' sizes while there is an environment, and no rows are left without one), `Durable`
(what a handler inserted or found is a row until it is deleted) and `Types`. The
proof of `StorageOvershoot` counts what the admitted handlers may still add (`Reserved`): the
largest batch of the largest rows each, but for the last one admitted, which adds its own
events, whose body the quota took into account. `PublicationOnce` has the hypothesis `NoTwins`, no batch carries an
event twice: otherwise the property is false, as `ingestion_usage` shows of the usage that is
counted in the same way. `UsageBounded` has the same hypothesis. It rests on `Accounted`: what
all months were billed for and what the handlers between their insertion and their
metering still owe is together no more than what was inserted, so that an insertion
pays in advance for a metering in whatever month that one falls. The sums are the folds of
the model; `TotalIs` and `SumExists` say by which recursion they go, and `SumOneMore`
and `SumMoreAt` what becomes of a sum when one summand changes. `AdmissionImplemented` makes the theorems of
`AdmissionProofs`, instantiated on the variables of the pipeline, theorems about the
pipeline: `AdmissionInvariants`.

`TraceProofs`, under `TraceAssumption` (which names what the handlers' own events are: finitely
many, with ids of their own), proves `TypeOK`, `Causal`, `Linear` and `Told` for any number of
workers, attempts and stalls, and any clocks. `IInv` has `Lifecycle` (a run has a number of its
own, and the one that owns the job is the attempt that BullMQ counts next), `Forms` (an event
is the host's, the request's, or one of five of the job's, its id tells which run's, and a run
has one outcome), `Parents` (the events that others will name have been
emitted), `Announced` (how the job ended has its event), and `Undisturbed`: as long as nothing
lapses, no attempt is postponed and no update fails, one run is under way, the parent that the job's data name is nobody's parent yet, and the
attempts that began and were retried are counted as BullMQ counts them. `Linear` needs
that the next parent is unused *before* the event that uses it, so neither `Causal` nor
`Linear` is inductive.

On top of that it proves the three properties of `TraceView`:
- `Listed`, from `TraceListed`, a fact about any finite set of events with distinct ids. With
  every visit there is one less ahead (`VisitAdvances`, where `Ahead` counts what waits and
  the events whose parent is not listed yet), so that the visits end within the bound of
  `Visits` (`VisitsEnd`); every event is listed or waits (`ListedOnce`); and while what waits
  was reached from the roots, all of it is a root or the child of an event that is listed
  (`FromRoots`), so that when the rest comes nothing of it descends from a root
  (`ListedInOrder`).
- `Agrees`, from `OrdersAgree`: the events of an undisturbed job are `Undivided`, one root, no
  parent with two children, every parent before its child in a rank that is no clock. Then the
  validator's generations are single events (`WholeChain`), and the visits go along them
  (`Along`). That the reachable events are so (`JobUndivided`) takes, beside `Linear` and
  `Causal`, a second invariant, `Gathered`: the request and `addMonitoredJob()` have emitted their
  events when they say so, and all runs of the job keep the request's trace.
- `Recorded`, under `TypedShown` and `HostSound`: the SDK's `redact` option hides no field that
  the validation reads, and a handler's own events are as good as those the SDK makes.
  Without the first, an SDK that hides, say, `statusCode` sends text where the API wants a number.
  `AllSound` is the invariant, and `RedactionKeeps` says that the API's redaction keeps a valid
  event valid.

Both `IngestionProofs` and `TraceProofs` need induction over data. The library's theorems
on it take an operator as a parameter, which the provers cannot instantiate; what is used
instead is that a set of numbers that is not empty has a least one (`Least`, from
`NatLessThanWellFounded` and `WFMin`), applied to the set of counterexamples: `UpTo` for
numbers and `SetInduction` for the parts of a finite set. Recursive functions are given their
equations in the same way (`Iteration`, `SortedExists`).

`SessionsProofs` and `ConsoleProofs` prove `TypeOK`, `TokenOnce`, `ResetRevokes`, `KeyDead`,
`Accounted` and `OneRoom` for every load: any number of calls, requests, sessions, links,
subscription handlers and fetches, and any tree of tenants. The assumptions: a load has
well-formed calls and requests (`Operation`, `Question`: what the routes let
through, the kind of the row included), rows form a tree of organizations, projects,
environments and keys, and what exists at the start exists with its parents. The three parts
share no variable, so `ConsoleInv` is a conjunction of invariants of each.
- `SInv`: a lock is held by a reset in the middle of its transaction, and a reset holds the
  locks of its point (`Locks`); while one waits for the tokens it has seen, no other is done
  with one of them, since it holds the user's row (`Spending`, the reason for
  `TokenOnce`); a session that a reset does not see is late (`Ending`, the reason for
  `ResetRevokes`).
- `TInv`: that a request's remaining statements are still in order and still ask for a
  role before they act (`Permitted`); that the organization of its audit entry is found, or
  the user was cut off, or what comes first will be refused (`Traced`); that a request whose
  key was dead will not find it (`Doomed`); that one which is to end a row has done so
  or has still to do it (`ToEnd`); and that a row lives under rows that live (`Rows`).
  It starts from `Planned`: the statements of every route are `WellMade`, that is, they ask
  first, act once, and audit last, what is to be audited after it was done. A role is then followed through the other
  requests' steps: they can take it away, which `held` and `cut` record, but not give an
  audit entry to an organization the user never had a part in.
- `AInv`: a request that is to be audited has its entry or has still to write it, and will not
  write it before it has done something (`Logged`). It is kept by every step because the
  statements of a request only ever get fewer, and other requests write no entry for it
  (`TurnsKeep`).
- `LInv`: a handler that leaves rooms has found its environment accessible, and a socket is
  in one room at most at every step, not only between handlers.

For the provers' sake `Tenancy` names its routes without spaces, and a change of several
fields of one request is written as one record.

Only model-checked:

- `CloseReturns`, `NothingLingers`, `RequestsEnd` and `EventuallyFresh`: liveness under
  fairness is out of the prover's reach. Every other property of the passing runs is
  the statement of a theorem.
- That a hypothesis of a theorem can be met: the instances of the passing runs meet `NoTwins`,
  `TypedShown` and `HostSound`.
- The five violations: a theorem cannot say that a property fails; the runs show how.

## 5. The plan

What is left, in order of importance:

1. Proofs: what `NeverOvercounted` becomes without `NoTwins`, a bound by the positions of
   the batches; that `EventRules` redacts whatever the SDK redacts.
2. `EndToEnd`: `SdkClient` against `Ingestion`, replacing the environment of the first by
   the second; `Ingestion` with the verdicts of `EventRules` and the keys of `Tenancy`.
3. A second client beside the first (the singleton of `monitor.ts`), and the retry delay as a
   function.

### Not modelled

- *The monitor singleton* (`monitor.ts`): one guard around a client; see the plan.
- *Migrations*: their tables, constraints and cascades are part of the modules that use
  them; what a migration does when it is run twice at once is a matter of its SQL.
- *Reporting SQL* (`listEvents`, `overview`): read-only, no algorithm of its own. The other pages of
  the dashboard fetch as the events page does; rendering and forms are left out.
- *Configuration and e-mail*: parsing, and calls to a library.
- *The demo service* but for `timeline.ts`, demo data, load tests, backups, containers and CI: uses
  of the SDK or scripts around external tools.
