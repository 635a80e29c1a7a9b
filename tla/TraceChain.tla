----------------------------- MODULE TraceChain -----------------------------
(***************************************************************************)
(* The events of one trace: an HTTP request that adds a job (express.ts,   *)
(* fastify.ts, addMonitoredJob() of bullmq.ts), and the attempts of that   *)
(* job on several workers (instrumentBullMqProcessor()).  Each event names *)
(* its parent; the parent of an attempt travels in the job's _monitor      *)
(* data, which updateData() moves to the retry event of the last attempt.  *)
(*                                                                         *)
(* BullMQ is external: it hands a waiting job to a worker, counts the      *)
(* attempts that ended, and hands the job to another worker when the lock  *)
(* of the first one lapsed, although that one may still be running.  What  *)
(* was thrown may tell BullMQ to try no more (UnrecoverableError,          *)
(* job.discard(), a backoff of -1), or not to count the attempt            *)
(* (DelayedError and its like).  The wrapper looks at neither.             *)
(***************************************************************************)
EXTENDS Integers, FiniteSets, EventRules

CONSTANTS
    Worker,
    Attempts,        \* options.attempts of the job
    MaxRuns,         \* bound: attempts started
    MaxStalls,       \* BullMQ's maxStalledCount, and the bound on lapsed locks
    Skew,            \* the clock of each worker, relative to that of the request
    Framework,       \* subset of {"express", "fastify"}
    Fault,           \* the errors that are thrown: subset of {"named", "unnamed", "huge"}
    SdkHidden,       \* the SDK's redact option
    HostEvents       \* sets of events that a handler emits instead of adding a job

ASSUME TraceAssumption ==
    /\ Attempts \in Nat \ {0} /\ MaxRuns \in Nat /\ MaxStalls \in Nat
    /\ Skew \in [Worker -> Int]
    /\ Framework \subseteq {"express", "fastify"}
    /\ Fault \subseteq {"named", "unnamed", "huge"}
    /\ "nobody" \notin Worker
    /\ \A H \in HostEvents : IsFiniteSet(H) /\ \A e, f \in H :
          /\ e.id[1] = "host" /\ e.type \notin {"queue_job", "queue_retry", "queue_failed"}
          /\ e.id = f.id => e = f

VARIABLES
    request,         \* "open", "finished", "aborted"
    call,            \* addMonitoredJob(): "none", "adding", "returned", "failed"
    job,             \* the job in Redis
    run,             \* what each worker is doing
    runs, stalls,    \* attempts started, and locks lapsed
    emitted,         \* events handed to the SDK client
    disturbed        \* history: a lock lapsed, an attempt was postponed, or updateData() failed

vars == <<request, call, job, run, runs, stalls, emitted, disturbed>>

NoParent == <<"none">>
Http == <<"http">>
Pending == <<"pending">>
TraceId == <<"trace">>
Nobody == "nobody"
Idle == [pc |-> "idle", n |-> 0, attempt |-> 0, trace |-> TraceId]

MaxAttempts == IF Attempts > 1 THEN Attempts ELSE 1

-----------------------------------------------------------------------------
(***************************************************************************)
(* Variants of definitions below, as a mistake in the code would make      *)
(* them; each one shows that a property would notice the mistake.          *)
(***************************************************************************)
BugAttemptOf(j) == j.made
BugNextTrace(w) == <<"trace", run[w].n + 1>>
BugNextParent(w) == <<"run", run[w].n>>
BugMayRetry(w) == run[w].attempt <= MaxAttempts

-----------------------------------------------------------------------------
\* client.emit(): the data is redacted.
Emit(id, parent, trace, type, status, at, data, attempt) ==
    emitted' = emitted \cup {
        [id |-> id, parent |-> parent, trace |-> trace, type |-> type, status |-> status,
         at |-> at, data |-> SdkRedacted(data, SdkHidden), attempt |-> attempt,
         maxAttempts |-> MaxAttempts, wellFormed |-> TRUE]}

With(data, field, value) ==
    [f \in DOMAIN data \cup {field} |-> IF f = field THEN value ELSE data[f]]

JobData == [queueName |-> "text", jobId |-> "contact", jobName |-> "text", attempt |-> "int"]
FaultData(fault) == With(With(JobData, "maxAttempts", "int"), "error", fault)
RetryData(fault) == With(FaultData(fault), "nextRetryAt", "time")

\* The route of a request that matched none is its path, or undefined.
ExpressRoutes == {"template", "path"}
FastifyRoutes == {"template", "absent"}
Routes == UNION {IF f = "express" THEN ExpressRoutes ELSE FastifyRoutes : f \in Framework}

HttpData(route, fault) ==
    LET base == [method |-> "text", statusCode |-> "int"]
        routed == IF route = "absent" THEN base ELSE With(base, "route", route)
    IN  IF fault = "none" THEN routed ELSE With(routed, "error", fault)

-----------------------------------------------------------------------------
\* The handler adds a job, or emits events of its own; or a producer without the SDK
\* has put a job without _monitor data into the queue.
Init ==
    /\ request = "open"
    /\ emitted \in HostEvents
    /\ \E plain \in IF emitted = {} THEN BOOLEAN ELSE {FALSE} :
          /\ call = IF plain \/ emitted # {} THEN "none" ELSE "adding"
          /\ job = [state |-> IF plain THEN "waiting" ELSE "absent", made |-> 0,
                    monitored |-> ~plain, parent |-> Pending, trace |-> TraceId,
                    owner |-> Nobody]
    /\ run = [w \in Worker |-> Idle]
    /\ runs = 0 /\ stalls = 0
    /\ disturbed = FALSE

\* The response is sent: one event, failed if an error was raised on the way (which
\* expressErrorMiddleware() or Fastify's onError hook kept) or the status says so.
FaultOf(raised, serverError) == IF raised = "none" /\ serverError THEN "named" ELSE raised

Finish(route, fault) ==
    /\ request = "open"
    /\ request' = "finished"
    /\ Emit(Http, NoParent, TraceId, "http_request",
            IF fault = "none" THEN "success" ELSE "failure", 0, HttpData(route, fault), 0)
    /\ UNCHANGED <<call, job, run, runs, stalls, disturbed>>

\* The client goes away before the response is sent: "finish" never comes.
Abort ==
    /\ request = "open"
    /\ request' = "aborted"
    /\ UNCHANGED <<call, job, run, runs, stalls, emitted, disturbed>>

\* Redis stores the job that queue.add() sends.
Land ==
    /\ call = "adding" /\ job.state = "absent"
    /\ job' = [job EXCEPT !.state = "waiting"]
    /\ UNCHANGED <<request, call, run, runs, stalls, emitted, disturbed>>

\* addMonitoredJob() emits the pending event when queue.add() has returned.
AddReturns ==
    /\ call = "adding" /\ job.state # "absent"
    /\ call' = "returned"
    /\ Emit(Pending, Http, TraceId, "queue_job", "pending", 0, JobData, 0)
    /\ UNCHANGED <<request, job, run, runs, stalls, disturbed>>

\* queue.add() fails, maybe after the job was stored.
AddRejects ==
    /\ call = "adding"
    /\ call' = "failed"
    /\ UNCHANGED <<request, job, run, runs, stalls, emitted, disturbed>>

-----------------------------------------------------------------------------
\* A worker's clock: time goes on when an attempt starts.
Now(w) == runs + Skew[w]

AttemptOf(j) == j.made + 1
ActiveEvent(w) == <<"run", run[w].n>>
NextParent(w) == <<"retry", run[w].n>>
NextTrace(w) == run[w].trace
MayRetry(w) == run[w].attempt < MaxAttempts

\* A worker gets the job: it emits the processing event and calls the processor.
PickUp(w) ==
    /\ job.state = "waiting" /\ run[w].pc = "idle" /\ runs < MaxRuns
    /\ LET n == runs + 1
           trace == IF job.monitored THEN job.trace ELSE <<"trace", n>>
           parent == IF job.monitored THEN job.parent ELSE <<"lost", n>>
       IN  /\ run' = [run EXCEPT ![w] = [pc |-> "processing", n |-> n,
                                         attempt |-> AttemptOf(job), trace |-> trace]]
           /\ Emit(<<"run", n>>, parent, trace, "queue_job", "processing", Now(w), JobData,
                   AttemptOf(job))
    /\ runs' = runs + 1
    /\ job' = [job EXCEPT !.state = "active", !.owner = w]
    /\ UNCHANGED <<request, call, stalls, disturbed>>

\* The processor has ended; its event is emitted, and the rest of the wrapper follows.
Report(w, id, type, status, data, pc) ==
    /\ run[w].pc = "processing"
    /\ Emit(id, ActiveEvent(w), run[w].trace, type, status, Now(w), data, run[w].attempt)
    /\ run' = [run EXCEPT ![w].pc = pc]
    /\ UNCHANGED <<request, call, job, runs, stalls, disturbed>>

Succeed(w) == Report(w, <<"end", run[w].n>>, "queue_job", "success", JobData, "succeeded")

ThrowRetry(w, fault) ==
    /\ MayRetry(w)
    /\ Report(w, <<"retry", run[w].n>>, "queue_retry", "retrying", RetryData(fault), "updating")

ThrowLast(w, fault) ==
    /\ ~MayRetry(w)
    /\ Report(w, <<"end", run[w].n>>, "queue_failed", "failure", FaultData(fault), "thrown")

\* await job.updateData(): it does not ask who holds the job's lock.
Update(w) ==
    /\ run[w].pc = "updating"
    /\ job' = [job EXCEPT !.parent = NextParent(w), !.trace = NextTrace(w),
                          !.monitored = TRUE]
    /\ run' = [run EXCEPT ![w].pc = "thrown"]
    /\ UNCHANGED <<request, call, runs, stalls, emitted, disturbed>>

\* updateData() fails, and its error replaces that of the processor.
UpdateFails(w) ==
    /\ run[w].pc = "updating"
    /\ run' = [run EXCEPT ![w].pc = "thrown"]
    /\ disturbed' = TRUE
    /\ UNCHANGED <<request, call, job, runs, stalls, emitted>>

\* The processor postpones the job (job.moveToDelayed() and its like) before it throws the
\* error that says so: the attempt is not counted, but the wrapper reports it like another.
Postpone(w) ==
    /\ run[w].pc = "processing" /\ job.owner = w
    /\ job' = [job EXCEPT !.state = "waiting", !.owner = Nobody]
    /\ disturbed' = TRUE
    /\ UNCHANGED <<request, call, run, runs, stalls, emitted>>

\* BullMQ settles the attempt, if the worker still owns the job: a job with attempts left
\* waits for the next one, unless what was thrown, or its backoff, ends it at once; that
\* is "givenUp" here, and a failed job like any other in BullMQ.
Thrown(state) == [job EXCEPT !.made = @ + 1, !.owner = Nobody, !.state = state]
Outcomes(w) ==
    IF run[w].pc = "succeeded" THEN {[job EXCEPT !.state = "completed", !.owner = Nobody]}
    ELSE IF job.made + 1 < MaxAttempts THEN {Thrown("waiting"), Thrown("givenUp")}
    ELSE {Thrown("failed")}

Settle(w) ==
    /\ run[w].pc \in {"succeeded", "thrown"}
    /\ job' \in IF job.owner = w THEN Outcomes(w) ELSE {job}
    /\ run' = [run EXCEPT ![w] = Idle]
    /\ UNCHANGED <<request, call, runs, stalls, emitted, disturbed>>

\* The worker's process dies and is started again.
Crash(w) ==
    /\ run[w].pc # "idle"
    /\ run' = [run EXCEPT ![w] = Idle]
    /\ UNCHANGED <<request, call, job, runs, stalls, emitted, disturbed>>

\* BullMQ finds the lock lapsed: the job waits again, or fails without any event.
Stall ==
    /\ job.state = "active"
    /\ stalls' = stalls + 1
    /\ job' = [job EXCEPT !.state = IF stalls < MaxStalls THEN "waiting" ELSE "failed",
                          !.owner = Nobody]
    /\ disturbed' = TRUE
    /\ UNCHANGED <<request, call, run, runs, emitted>>

Next ==
    \/ \E route \in Routes, raised \in Fault \cup {"none"}, serverError \in BOOLEAN :
          Finish(route, FaultOf(raised, serverError))
    \/ Abort \/ Land \/ AddReturns \/ AddRejects \/ Stall
    \/ \E w \in Worker :
          \/ PickUp(w) \/ Succeed(w) \/ Update(w) \/ UpdateFails(w) \/ Postpone(w)
          \/ Settle(w) \/ Crash(w)
          \/ \E fault \in Fault : ThrowRetry(w, fault) \/ ThrowLast(w, fault)

Spec == Init /\ [][Next]_vars

-----------------------------------------------------------------------------
TypeOK ==
    /\ request \in {"open", "finished", "aborted"}
    /\ call \in {"none", "adding", "returned", "failed"}
    /\ job.state \in {"absent", "waiting", "active", "completed", "failed", "givenUp"}
    /\ job.made \in 0..MaxAttempts /\ job.owner \in Worker \cup {Nobody}
    /\ job.state = "active" <=> job.owner # Nobody
    /\ \A w \in Worker :
          /\ run[w].pc \in {"idle", "processing", "succeeded", "updating", "thrown"}
          /\ run[w].n \in 0..runs
          /\ run[w].attempt \in IF run[w].pc = "idle" THEN {0} ELSE 1..MaxAttempts
    /\ runs \in 0..MaxRuns /\ stalls \in 0..MaxStalls + 1
    /\ disturbed \in BOOLEAN
    /\ \A e, f \in emitted : e.id = f.id => e = f

Queued(e) == e.type \in {"queue_job", "queue_retry", "queue_failed"}

\* The parent of every event of a job has been emitted before it, with the two exceptions
\* the code has: the request's own event comes when its response is sent, and the pending
\* event when queue.add() has returned, which may be after a worker has begun.
Causal ==
    \A e \in {e \in emitted : Queued(e)} :
        \/ \E p \in emitted : p.id = e.parent /\ p.trace = e.trace
        \/ e.parent = Http
        \/ e.parent = Pending /\ e.status = "processing"
        \/ e.parent[1] = "lost"

\* As long as no lock lapses, no attempt is postponed and no updateData() fails, the events
\* of a job form a chain, also when BullMQ gives the job up before its last attempt: an
\* event is the parent of one event at most, through all attempts, also for a job that came
\* without _monitor data.
Linear ==
    ~disturbed =>
        \A e, f \in {e \in emitted : Queued(e)} : e.parent = f.parent => e = f

\* What BullMQ decides about a job and what its events say.  A completed job has a success
\* event.  One that failed with its last attempt has a final failure event, unless BullMQ
\* failed it for lapsed locks.  One that BullMQ gave up earlier has none: its events end
\* with a retry that never comes.  And without accidents there is one terminal event at
\* most, and one processing event for each attempt.
Told ==
    LET Events(type, status) == {e \in emitted : e.type = type /\ e.status = status}
        succeeded == Events("queue_job", "success")
        failed == Events("queue_failed", "failure")
        begun == Events("queue_job", "processing")
        retried == Events("queue_retry", "retrying")
    IN  /\ job.state = "completed" => succeeded # {}
        /\ job.state = "failed" => failed # {} \/ stalls > MaxStalls
        /\ job.state = "givenUp" => retried # {}
        /\ ~disturbed =>
              /\ Cardinality(succeeded \cup failed) <= 1
              /\ job.state = "givenUp" => succeeded \cup failed = {}
              /\ {e.attempt : e \in begun} = 1..Cardinality(begun)
              /\ Cardinality(retried) <= MaxAttempts - 1
=============================================================================
