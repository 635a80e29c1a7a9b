---------------------------- MODULE Admission ----------------------------
(***************************************************************************)
(* Admission control of the ingestion API: authorizeIngestion() of         *)
(* apps/api/src/store.ts, one database transaction per request that meters *)
(* the request and decides whether its events may be stored.  The requests *)
(* are those of one organization's environment, handled concurrently by    *)
(* any number of API replicas.                                             *)
(*                                                                         *)
(* The transaction begins, waits for the organization's subscription row   *)
(* (SELECT ... FOR UPDATE), then does everything else under that lock.     *)
(* So a transaction is two steps: Begin, and one of the decisions.  SQL's  *)
(* now() is the time of Begin; JavaScript's Date.now() that of the         *)
(* decision.  A tick of the clock is a fraction of a second.               *)
(***************************************************************************)
EXTENDS Integers

CONSTANTS
    Handler,          \* the concurrent handlers of POST /v1/events/batch
    Key,              \* the environment's API keys
    Counts,           \* how many valid events a request may carry
    EventLimit, RequestLimit, BandwidthLimit, StorageLimit,  \* the plan's limits
    OrgRate, EnvRate, KeyRate,   \* tokens per minute of each scope
    Burst,            \* burst_multiplier
    Second,           \* ticks in a second
    Minute,           \* ticks in a minute
    MonthLength,      \* ticks in a month
    LockWait,         \* may a transaction wait for the lock while time passes?
    StorageLevels,    \* bound: the values organization_storage takes
    MaxTime,          \* bound: the last tick
    MaxRequests       \* bound: how many requests there are

ASSUME AdmissionAssumption ==
    /\ Counts \subseteq Nat
    /\ {EventLimit, RequestLimit, BandwidthLimit, StorageLimit} \subseteq Nat \ {0}
    /\ {OrgRate, EnvRate, KeyRate, Burst} \subseteq Nat \ {0}
    /\ {Second, Minute, MonthLength} \subseteq Nat \ {0}
    /\ LockWait \in BOOLEAN
    /\ StorageLevels \subseteq Nat /\ 0 \in StorageLevels
    /\ {MaxTime, MaxRequests} \subseteq Nat
    /\ Key \cap {"organization", "environment"} = {}

VARIABLES
    clock,            \* the time
    active,           \* subscription.status is "active" or "trialing"
    retained,         \* organization_storage.storage_bytes
    requests,         \* usage_monthly.ingestion_requests, by month
    bandwidth,        \* usage_monthly.bandwidth_bytes
    ingested,         \* usage_monthly.events_ingested
    quotaRejected,    \* usage_monthly.quota_rejected_requests
    rateLimited,      \* usage_monthly.rate_limited_requests
    tokens,           \* rate_limit_buckets.tokens by scope, in Minute-ths of a token
    updatedAt,        \* rate_limit_buckets.updated_at
    stage,            \* where each handler is
    request,          \* what it handles
    begun,            \* history: how many transactions began
    admitted,         \* history: requests admitted, by month
    ipDenied,         \* history: requests refused for their IP address, by month
    taken             \* history: tokens handed out, by scope

meters == <<requests, bandwidth, ingested, quotaRejected, rateLimited>>
buckets == <<tokens, updatedAt, taken>>
admissionVars ==
    <<clock, active, retained, meters, buckets, stage, request, begun, admitted, ipDenied>>

MonthOf(t) == t \div MonthLength
Month == 0..MonthOf(MaxTime)
Scope == {"organization", "environment"} \cup Key
Stage == {"idle", "authorizing", "admitted", "denied"}

\* A request: the API key it carries, its number of valid events, whether its
\* address is allowed, and the time its transaction began.
Request == [key : Key, count : Counts, ipAllowed : BOOLEAN, now : 0..MaxTime]

NoRequest == [key |-> "none", count |-> 0, ipAllowed |-> FALSE, now |-> 0]

\* The size of a request's body: an envelope and its events.
Bytes(r) == 1 + r.count

-----------------------------------------------------------------------------
(***************************************************************************)
(* Variants of definitions below, as a mistake in the code would make      *)
(* them; each one shows that a property would notice the mistake.          *)
(***************************************************************************)
BugOverStorage(r) == r.count > 0 /\ retained > StorageLimit
BugOverEvents(r, m) == ingested[m] > EventLimit
BugRefilled(s, rate) == tokens[s] + (clock - updatedAt[s]) * rate
BugScopesOf(r) == <<r.key, "environment", "organization">>
BugMeter(r, m) ==
    /\ requests' = [requests EXCEPT ![MonthOf(clock)] = @ + 1]
    /\ bandwidth' = [bandwidth EXCEPT ![m] = @ + Bytes(r)]

-----------------------------------------------------------------------------
(* Quotas.  The request is metered before they are tested, so a counter     *)
(* already includes it.                                                     *)

\* date_trunc('month', now())
MeteredMonth(r) == MonthOf(r.now)

OverRequests(m) == requests[m] + 1 > RequestLimit
OverBandwidth(r, m) == bandwidth[m] + Bytes(r) > BandwidthLimit
OverStorage(r) == r.count > 0 /\ retained + Bytes(r) > StorageLimit
OverEvents(r, m) == ingested[m] + r.count > EventLimit

OverQuota(r, m) ==
    OverRequests(m) \/ OverBandwidth(r, m) \/ OverStorage(r) \/ OverEvents(r, m)

-----------------------------------------------------------------------------
(* Token buckets.  A scope without a row has a full bucket.                 *)

RateOf(s) == CASE s = "organization" -> OrgRate
               [] s = "environment" -> EnvRate
               [] OTHER -> KeyRate
Capacity(s) == RateOf(s) * Burst * Minute

\* Date.parse(String(updated_at)): printing the Date drops its milliseconds.
Parsed(t) == t - (t % Second)

\* elapsedSeconds, in ticks
Elapsed(s) ==
    LET passed == clock - Parsed(updatedAt[s])
    IN IF passed > 0 THEN passed ELSE 0

Refilled(s, rate) ==
    LET sum == tokens[s] + Elapsed(s) * rate
    IN IF sum < Capacity(s) THEN sum ELSE Capacity(s)
Available(s) == Refilled(s, RateOf(s))
Starved(s) == Available(s) < Minute

\* The scopes of a request, in the order they are asked for a token.
ScopesOf(r) == <<"organization", "environment", r.key>>

\* A token from each scope of T.  updated_at = now(), the transaction's.
Take(T, r) ==
    /\ tokens' = [s \in Scope |-> IF s \in T THEN Available(s) - Minute ELSE tokens[s]]
    /\ updatedAt' = [s \in Scope |-> IF s \in T THEN r.now ELSE updatedAt[s]]
    /\ taken' = [s \in Scope |-> IF s \in T THEN taken[s] + 1 ELSE taken[s]]

-----------------------------------------------------------------------------
Init ==
    /\ clock = 0
    /\ active = TRUE
    /\ retained = 0
    /\ requests = [m \in Month |-> 0]
    /\ bandwidth = [m \in Month |-> 0]
    /\ ingested = [m \in Month |-> 0]
    /\ quotaRejected = [m \in Month |-> 0]
    /\ rateLimited = [m \in Month |-> 0]
    /\ tokens = [s \in Scope |-> Capacity(s)]
    /\ updatedAt = [s \in Scope |-> 0]
    /\ stage = [h \in Handler |-> "idle"]
    /\ request = [h \in Handler |-> NoRequest]
    /\ begun = 0
    /\ admitted = [m \in Month |-> 0]
    /\ ipDenied = [m \in Month |-> 0]
    /\ taken = [s \in Scope |-> 0]

\* BEGIN: the transaction's now() is fixed here, before it waits for the lock.
Begin(h, key, count, ipAllowed) ==
    /\ stage[h] = "idle"
    /\ begun < MaxRequests
    /\ begun' = begun + 1
    /\ stage' = [stage EXCEPT ![h] = "authorizing"]
    /\ request' = [request EXCEPT ![h] =
                     [key |-> key, count |-> count, ipAllowed |-> ipAllowed, now |-> clock]]
    /\ UNCHANGED <<clock, active, retained, meters, buckets, admitted, ipDenied>>

\* The upsert of usage_monthly, the first thing done under the lock.
Meter(r, m) ==
    /\ requests' = [requests EXCEPT ![m] = @ + 1]
    /\ bandwidth' = [bandwidth EXCEPT ![m] = @ + Bytes(r)]

\* What every decision has in common.
Decide(h, verdict) ==
    /\ stage[h] = "authorizing"
    /\ stage' = [stage EXCEPT ![h] = verdict]
    /\ request' = [request EXCEPT ![h] = NoRequest]
    /\ Meter(request[h], MeteredMonth(request[h]))
    /\ UNCHANGED <<clock, active, retained, begun>>

\* denyQuota(): the subscription is inactive, or a quota is exceeded.
DenyQuota(h) ==
    LET r == request[h]
        m == MeteredMonth(r)
    IN /\ Decide(h, "denied")
       /\ active => r.ipAllowed /\ OverQuota(r, m)
       /\ quotaRejected' = [quotaRejected EXCEPT ![m] = @ + 1]
       /\ UNCHANGED <<ingested, rateLimited, buckets, admitted, ipDenied>>

\* The environment's IP allowlist refuses the address.
DenyAddress(h) ==
    LET r == request[h]
        m == MeteredMonth(r)
    IN /\ Decide(h, "denied")
       /\ active /\ ~r.ipAllowed
       /\ ipDenied' = [ipDenied EXCEPT ![m] = @ + 1]
       /\ UNCHANGED <<ingested, quotaRejected, rateLimited, buckets, admitted>>

PassesQuota(r) == active /\ r.ipAllowed /\ ~OverQuota(r, MeteredMonth(r))

\* A scope has no token.  The scopes asked before it have given theirs, and the
\* commit keeps it so.
DenyRate(h) ==
    LET r == request[h]
        m == MeteredMonth(r)
    IN /\ Decide(h, "denied")
       /\ PassesQuota(r)
       /\ \E i \in 1..3 :
             /\ Starved(ScopesOf(r)[i])
             /\ \A j \in 1..(i - 1) : ~Starved(ScopesOf(r)[j])
             /\ Take({ScopesOf(r)[j] : j \in 1..(i - 1)}, r)
       /\ rateLimited' = [rateLimited EXCEPT ![m] = @ + 1]
       /\ UNCHANGED <<ingested, quotaRejected, admitted, ipDenied>>

Ingest(r, m) == ingested' = [ingested EXCEPT ![m] = @ + r.count]

Admit(h) ==
    LET r == request[h]
        m == MeteredMonth(r)
        asked == {"organization", "environment", r.key}
    IN /\ Decide(h, "admitted")
       /\ PassesQuota(r)
       /\ \A s \in asked : ~Starved(s)
       /\ Take(asked, r)
       /\ Ingest(r, m)
       /\ admitted' = [admitted EXCEPT ![m] = @ + 1]
       /\ UNCHANGED <<quotaRejected, rateLimited, ipDenied>>

Authorize(h) == DenyQuota(h) \/ DenyAddress(h) \/ DenyRate(h) \/ Admit(h)

\* The handler is done with the request, or its process or its connection died:
\* an open transaction is rolled back.
Release(h) ==
    /\ stage[h] # "idle"
    /\ stage' = [stage EXCEPT ![h] = "idle"]
    /\ request' = [request EXCEPT ![h] = NoRequest]
    /\ UNCHANGED <<clock, active, retained, meters, buckets, begun, admitted, ipDenied>>

\* An admitted request's events are stored, or stored events are deleted: the
\* triggers on the events table move the organization's retained bytes.
MoveStorage ==
    /\ retained' \in StorageLevels
    /\ UNCHANGED <<clock, active, meters, buckets, stage, request, begun, admitted, ipDenied>>

\* An operator suspends or reactivates the subscription.
ChangeStatus ==
    /\ active' = ~active
    /\ UNCHANGED <<clock, retained, meters, buckets, stage, request, begun, admitted, ipDenied>>

Tick ==
    /\ clock < MaxTime
    /\ LockWait \/ \A h \in Handler : stage[h] # "authorizing"
    /\ clock' = clock + 1
    /\ UNCHANGED <<active, retained, meters, buckets, stage, request, begun, admitted, ipDenied>>

Next ==
    \/ \E h \in Handler, k \in Key, n \in Counts, ip \in BOOLEAN : Begin(h, k, n, ip)
    \/ \E h \in Handler : Authorize(h)
    \/ \E h \in Handler : Release(h)
    \/ MoveStorage
    \/ ChangeStatus
    \/ Tick

Spec == Init /\ [][Next]_admissionVars

-----------------------------------------------------------------------------
\* The types of the state; a bucket never holds more than its capacity, nor less
\* than nothing.
TypeOK ==
    /\ clock \in 0..MaxTime
    /\ active \in BOOLEAN
    /\ retained \in StorageLevels
    /\ {requests, bandwidth, ingested, quotaRejected, rateLimited, admitted, ipDenied}
         \subseteq [Month -> Nat]
    /\ tokens \in [Scope -> Nat]
    /\ \A s \in Scope : tokens[s] <= Capacity(s)
    /\ updatedAt \in [Scope -> 0..MaxTime]
    /\ taken \in [Scope -> Nat]
    /\ stage \in [Handler -> Stage]
    /\ request \in [Handler -> Request \cup {NoRequest}]
    /\ \A h \in Handler : stage[h] = "authorizing" => request[h] \in Request
    /\ begun \in 0..MaxRequests

\* The monthly quotas hold at every moment, for requests decided concurrently: what
\* was admitted in a month never exceeds what the plan allows in it.
QuotaKept ==
    \A m \in Month : /\ ingested[m] <= EventLimit
                     /\ admitted[m] <= RequestLimit

\* Every metered request has exactly one outcome, in the month it was metered in,
\* even when it waits for the lock across the turn of the month.
Metered ==
    \A m \in Month :
        requests[m] = admitted[m] + quotaRejected[m] + rateLimited[m] + ipDenied[m]

\* No API key outruns its environment, nor the environment its organization: a
\* request denied by a narrow scope has already paid the wide ones, never the
\* reverse, so a starved organization costs its keys nothing.
Nested ==
    /\ taken["environment"] <= taken["organization"]
    /\ \A k \in Key : taken[k] <= taken["environment"]

\* docs/security.md, "Rate limiting": a scope hands out no more tokens than its
\* burst and its refill rate allow.
RateBound ==
    \A s \in Scope : taken[s] * Minute <= Capacity(s) + clock * RateOf(s)

=============================================================================
