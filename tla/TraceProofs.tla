---------------------------- MODULE TraceProofs -----------------------------
(***************************************************************************)
(* Proofs about the events of a trace, for any number of workers, attempts *)
(* and lapsed locks, and whatever the clocks of the workers say; and about *)
(* the order in which they are shown, for any finite set of events.        *)
(***************************************************************************)
EXTENDS TraceView, FiniteSetTheorems, SequenceTheorems, TLAPS

\* The ids of the events of a run, and their parts.
RunId(n) == <<"run", n>>
RetryId(n) == <<"retry", n>>
EndId(n) == <<"end", n>>
LostId(n) == <<"lost", n>>
KindOf(id) == id[1]
NumberOf(id) == id[2]

ParentId == {Pending} \cup {RetryId(n) : n \in Nat}
JobType ==
    [state : {"absent", "waiting", "active", "completed", "failed", "givenUp"},
     made : 0..MaxAttempts, monitored : BOOLEAN, parent : ParentId,
     trace : {TraceId} \cup {<<"trace", n>> : n \in Nat},
     owner : Worker \cup {Nobody}]
RunType ==
    [pc : {"idle", "processing", "succeeded", "updating", "thrown"}, n : Nat, attempt : Nat,
     trace : {TraceId} \cup {<<"trace", n>> : n \in Nat}]

\* The types of the state.
Types ==
    /\ request \in {"open", "finished", "aborted"}
    /\ call \in {"none", "adding", "returned", "failed"}
    /\ job \in JobType
    /\ run \in [Worker -> RunType]
    /\ runs \in 0..MaxRuns /\ stalls \in 0..MaxStalls + 1
    /\ disturbed \in BOOLEAN

Busy(w) == run[w].pc # "idle"

\* How a job and its attempts go together: a run has a number of its own, and the one
\* that owns the job is the attempt that BullMQ counts next.
Lifecycle ==
    /\ job.state = "active" <=> job.owner # Nobody
    /\ job.state \in {"absent", "waiting", "active"} => job.made < MaxAttempts
    /\ stalls > MaxStalls => job.state = "failed"
    /\ \A w \in Worker :
          /\ ~Busy(w) => run[w].n = 0 /\ run[w].attempt = 0
          /\ Busy(w) => run[w].n \in 1..runs /\ run[w].attempt \in 1..MaxAttempts
          /\ Busy(w) /\ job.owner = w => run[w].attempt = job.made + 1
    /\ \A v, w \in Worker : Busy(v) /\ run[v].n = run[w].n => v = w

HttpEvent(e) == e.id = Http /\ e.type = "http_request" /\ request # "open"
PendingEvent(e) ==
    /\ e.id = Pending /\ e.parent = Http /\ e.type = "queue_job" /\ e.status = "pending"
    /\ call = "returned"
RunEvent(e) ==
    /\ e.type = "queue_job" /\ e.status = "processing"
    /\ e.id = RunId(NumberOf(e.id)) /\ NumberOf(e.id) \in 1..runs
    /\ \/ e.parent = LostId(NumberOf(e.id))
       \/ e.parent = Pending
       \/ /\ e.parent = RetryId(NumberOf(e.parent)) /\ NumberOf(e.parent) \in 1..runs
          /\ NumberOf(e.parent) < NumberOf(e.id)
RetryForm(e) == e.type = "queue_retry" /\ e.status = "retrying"
RetryEvent(e) ==
    /\ RetryForm(e)
    /\ e.id = RetryId(NumberOf(e.id)) /\ NumberOf(e.id) \in 1..runs
    /\ e.parent = RunId(NumberOf(e.id))
SuccessForm(e) == e.type = "queue_job" /\ e.status = "success"
SuccessEvent(e) ==
    /\ SuccessForm(e)
    /\ e.id = EndId(NumberOf(e.id)) /\ NumberOf(e.id) \in 1..runs
    /\ e.parent = RunId(NumberOf(e.id))
FailureForm(e) == e.type = "queue_failed" /\ e.status = "failure"
FailureEvent(e) ==
    /\ FailureForm(e)
    /\ e.id = EndId(NumberOf(e.id)) /\ NumberOf(e.id) \in 1..runs
    /\ e.parent = RunId(NumberOf(e.id))
OutcomeEvent(e) == RetryEvent(e) \/ SuccessEvent(e) \/ FailureEvent(e)
HostEvent(e) == KindOf(e.id) = "host" /\ ~Queued(e)

\* An event is one of these, and a run has at most one that says how it ended.
Forms ==
    /\ \A e \in emitted :
          HostEvent(e) \/ HttpEvent(e) \/ PendingEvent(e) \/ RunEvent(e) \/ OutcomeEvent(e)
    /\ \A e, f \in emitted : e.id = f.id => e = f
    /\ \A e, f \in emitted :
          OutcomeEvent(e) /\ OutcomeEvent(f) /\ NumberOf(e.id) = NumberOf(f.id) => e = f
    /\ \A e \in emitted, w \in Worker :
          OutcomeEvent(e) /\ run[w].pc = "processing" => NumberOf(e.id) # run[w].n

Emitted(id, trace) == \E p \in emitted : p.id = id /\ p.trace = trace

\* The events that others will name as their parents have been emitted.
Parents ==
    /\ job.parent # Pending => Emitted(job.parent, job.trace)
    /\ \A w \in Worker :
          /\ Busy(w) => Emitted(RunId(run[w].n), run[w].trace)
          /\ run[w].pc = "updating" => Emitted(RetryId(run[w].n), run[w].trace)
    /\ Causal

Succeeded == {e \in emitted : e.type = "queue_job" /\ e.status = "success"}
Failed == {e \in emitted : e.type = "queue_failed" /\ e.status = "failure"}
Begun == {e \in emitted : e.type = "queue_job" /\ e.status = "processing"}
Retried == {e \in emitted : e.type = "queue_retry" /\ e.status = "retrying"}

\* What the events tell of a run or a job, also while BullMQ has not decided yet.
Announced ==
    /\ job.state = "completed" => Succeeded # {}
    /\ job.state = "failed" => Failed # {} \/ stalls > MaxStalls
    /\ job.state = "givenUp" => Retried # {}
    /\ \A w \in Worker :
          /\ run[w].pc = "succeeded" => Succeeded # {}
          /\ run[w].pc = "updating" => Retried # {}
          /\ run[w].pc = "thrown" /\ run[w].attempt < MaxAttempts => Retried # {}
          /\ run[w].pc = "thrown" /\ run[w].attempt >= MaxAttempts => Failed # {}
          /\ run[w].pc = "updating" => run[w].attempt < MaxAttempts

\* A run that has ended the job, as far as its processor is concerned.
Over(w) ==
    run[w].pc = "succeeded" \/ (run[w].pc = "thrown" /\ run[w].attempt >= MaxAttempts)

\* Without accidents one run at most is under way, the last one, and the job's data name
\* an event that is nobody's parent yet.
Single ==
    \A w \in Worker : Busy(w) => job.owner = w /\ run[w].n = runs

Unused(parent) == \A e \in emitted : Queued(e) => e.parent # parent

NextParentUnused ==
    /\ job.state \in {"absent", "waiting"} /\ job.monitored => Unused(job.parent)
    /\ \A w \in Worker :
          /\ run[w].pc \in {"processing", "updating"} => Unused(RetryId(run[w].n))
          /\ run[w].pc = "thrown" /\ run[w].attempt < MaxAttempts =>
                job.monitored /\ Unused(job.parent)
Distinct == \A e, f \in {e \in emitted : Queued(e)} : e.parent = f.parent => e = f

\* One run at most ends the job, and its attempts are counted as BullMQ counts them.
EndedOnce ==
    /\ \A t, u \in Succeeded \cup Failed : t = u
    /\ Succeeded \cup Failed # {} =>
          /\ job.state \notin {"absent", "waiting", "givenUp"}
          /\ \A w \in Worker : Busy(w) => Over(w)
BegunCounted ==
    /\ IsFiniteSet(Begun) /\ {e.attempt : e \in Begun} = 1..Cardinality(Begun)
    /\ job.state \in {"absent", "waiting"} => Cardinality(Begun) = job.made
    /\ job.state = "active" => Cardinality(Begun) = job.made + 1
RetriedCounted ==
    /\ IsFiniteSet(Retried) /\ Cardinality(Retried) <= MaxAttempts - 1
    /\ job.state \in {"absent", "waiting"} => Cardinality(Retried) <= job.made
    /\ job.state = "active" => Cardinality(Retried) <= job.made + 1
    /\ \A w \in Worker : run[w].pc = "processing" => Cardinality(Retried) <= job.made
Counted == EndedOnce /\ BegunCounted /\ RetriedCounted

Undisturbed == ~disturbed => Single /\ NextParentUnused /\ Distinct /\ Counted

\* The inductive invariant.
IInv == Types /\ Lifecycle /\ Forms /\ Parents /\ Announced /\ Undisturbed

-----------------------------------------------------------------------------
(* Lemmas about ids and events. *)

\* Ids of different kinds or numbers differ.
LEMMA IdParts ==
    /\ KindOf(Http) = "http" /\ KindOf(Pending) = "pending"
    /\ \A n : KindOf(RunId(n)) = "run" /\ NumberOf(RunId(n)) = n
    /\ \A n : KindOf(RetryId(n)) = "retry" /\ NumberOf(RetryId(n)) = n
    /\ \A n : KindOf(EndId(n)) = "end" /\ NumberOf(EndId(n)) = n
    /\ \A n : KindOf(LostId(n)) = "lost" /\ NumberOf(LostId(n)) = n
<1>1. KindOf(Http) = "http" /\ KindOf(Pending) = "pending"
  BY DEF Http, Pending, KindOf
<1>2. \A n : KindOf(RunId(n)) = "run" /\ NumberOf(RunId(n)) = n
  BY DEF KindOf, NumberOf, RunId
<1>3. \A n : KindOf(RetryId(n)) = "retry" /\ NumberOf(RetryId(n)) = n
  BY DEF KindOf, NumberOf, RetryId
<1>4. \A n : KindOf(EndId(n)) = "end" /\ NumberOf(EndId(n)) = n
  BY DEF KindOf, NumberOf, EndId
<1>5. \A n : KindOf(LostId(n)) = "lost" /\ NumberOf(LostId(n)) = n
  BY DEF KindOf, NumberOf, LostId
<1> QED
  BY <1>1, <1>2, <1>3, <1>4, <1>5

\* Emit() adds one event with what it is given.
LEMMA EmitAdds ==
    ASSUME NEW id, NEW parent, NEW trace, NEW type, NEW status, NEW at, NEW data, NEW attempt,
           Emit(id, parent, trace, type, status, at, data, attempt)
    PROVE  \E x : /\ emitted' = emitted \cup {x}
                  /\ x.id = id /\ x.parent = parent /\ x.trace = trace
                  /\ x.type = type /\ x.status = status /\ x.attempt = attempt
<1> DEFINE x == [id |-> id, parent |-> parent, trace |-> trace, type |-> type,
                 status |-> status, at |-> at, data |-> SdkRedacted(data, SdkHidden),
                 attempt |-> attempt, maxAttempts |-> MaxAttempts, wellFormed |-> TRUE]
<1>1. emitted' = emitted \cup {x}
  BY DEF Emit
<1>2. /\ x.id = id /\ x.parent = parent /\ x.trace = trace
      /\ x.type = type /\ x.status = status /\ x.attempt = attempt
  OBVIOUS
<1> QED
  BY <1>1, <1>2

LEMMA Limits == MaxAttempts \in Nat \ {0} /\ MaxRuns \in Nat /\ MaxStalls \in Nat
  BY TraceAssumption DEF MaxAttempts

\* The event of a step that emits one, and what else the step does.
FinishStep(x) ==
    /\ request = "open" /\ request' = "finished"
    /\ emitted' = emitted \cup {x} /\ HttpEvent(x)'
    /\ x.parent = NoParent /\ x.trace = TraceId
    /\ UNCHANGED <<call, job, run, runs, stalls, disturbed>>

AddStep(x) ==
    /\ call = "adding" /\ job.state # "absent" /\ call' = "returned"
    /\ emitted' = emitted \cup {x} /\ PendingEvent(x)' /\ x.trace = TraceId
    /\ UNCHANGED <<request, job, run, runs, stalls, disturbed>>

LEMMA FinishEmits ==
    ASSUME NEW route, NEW fault, Finish(route, fault)
    PROVE  \E x : FinishStep(x)
<1>1. PICK x : /\ emitted' = emitted \cup {x}
               /\ x.id = Http /\ x.type = "http_request"
               /\ x.parent = NoParent /\ x.trace = TraceId
  BY EmitAdds DEF Finish
<1> QED
  BY <1>1 DEF Finish, FinishStep, HttpEvent

LEMMA AddEmits ==
    ASSUME AddReturns
    PROVE  \E x : AddStep(x)
<1>1. PICK x : /\ emitted' = emitted \cup {x}
               /\ x.id = Pending /\ x.parent = Http /\ x.trace = TraceId
               /\ x.type = "queue_job" /\ x.status = "pending"
  BY EmitAdds DEF AddReturns
<1> QED
  BY <1>1 DEF AddReturns, AddStep, PendingEvent

PickUpStep(w, x) ==
    /\ job.state = "waiting" /\ ~Busy(w)
    /\ runs < MaxRuns /\ runs' = runs + 1
    /\ run' = [run EXCEPT ![w] = [pc |-> "processing", n |-> runs + 1,
                                  attempt |-> job.made + 1, trace |-> x.trace]]
    /\ job' = [job EXCEPT !.state = "active", !.owner = w]
    /\ emitted' = emitted \cup {x}
    /\ x.id = RunId(runs + 1) /\ x.type = "queue_job" /\ x.status = "processing"
    /\ x.attempt = job.made + 1
    /\ IF job.monitored THEN x.parent = job.parent /\ x.trace = job.trace
       ELSE x.parent = LostId(runs + 1) /\ x.trace = <<"trace", runs + 1>>
    /\ UNCHANGED <<request, call, stalls, disturbed>>

LEMMA PickUpEmits ==
    ASSUME NEW w \in Worker, PickUp(w)
    PROVE  \E x : PickUpStep(w, x)
<1> DEFINE n == runs + 1
           trace == IF job.monitored THEN job.trace ELSE <<"trace", n>>
           parent == IF job.monitored THEN job.parent ELSE <<"lost", n>>
<1>1. PICK x : /\ emitted' = emitted \cup {x}
               /\ x.id = <<"run", n>> /\ x.parent = parent /\ x.trace = trace
               /\ x.type = "queue_job" /\ x.status = "processing"
               /\ x.attempt = job.made + 1
  <2> HIDE DEF trace, parent
  <2> QED
    BY EmitAdds DEF PickUp, AttemptOf, trace, parent
<1>2. x.id = RunId(n) /\ <<"lost", n>> = LostId(n)
  BY <1>1 DEF RunId, LostId
<1> QED
  BY <1>1, <1>2 DEF PickUp, PickUpStep, AttemptOf, Busy

\* The three ways in which a processor ends.
ReportStep(w, x, pc) ==
    /\ run[w].pc = "processing"
    /\ run' = [run EXCEPT ![w].pc = pc]
    /\ emitted' = emitted \cup {x}
    /\ x.trace = run[w].trace /\ NumberOf(x.id) = run[w].n
    /\ \/ pc = "succeeded" /\ x.id = EndId(run[w].n) /\ SuccessForm(x)
       \/ /\ pc = "updating" /\ x.id = RetryId(run[w].n) /\ RetryForm(x)
          /\ run[w].attempt < MaxAttempts
       \/ /\ pc = "thrown" /\ x.id = EndId(run[w].n) /\ FailureForm(x)
          /\ ~(run[w].attempt < MaxAttempts)
    /\ x.parent = RunId(run[w].n)
    /\ UNCHANGED <<request, call, job, runs, stalls, disturbed>>

LEMMA ReportEmits ==
    ASSUME NEW w \in Worker, NEW id, NEW type, NEW status, NEW data, NEW pc,
           Report(w, id, type, status, data, pc)
    PROVE  \E x : /\ run[w].pc = "processing"
                  /\ run' = [run EXCEPT ![w].pc = pc]
                  /\ emitted' = emitted \cup {x}
                  /\ x.id = id /\ x.parent = RunId(run[w].n) /\ x.trace = run[w].trace
                  /\ x.type = type /\ x.status = status
                  /\ UNCHANGED <<request, call, job, runs, stalls, disturbed>>
<1>1. PICK x : /\ emitted' = emitted \cup {x}
               /\ x.id = id /\ x.parent = ActiveEvent(w) /\ x.trace = run[w].trace
               /\ x.type = type /\ x.status = status
  BY EmitAdds DEF Report
<1> QED
  BY <1>1 DEF Report, ActiveEvent, RunId

LEMMA ProcessorEnds ==
    ASSUME NEW w \in Worker,
           \/ Succeed(w)
           \/ \E fault \in Fault : ThrowRetry(w, fault) \/ ThrowLast(w, fault)
    PROVE  \E x, pc : ReportStep(w, x, pc)
<1>1. CASE Succeed(w)
  <2>1. PICK x : /\ run[w].pc = "processing"
                 /\ run' = [run EXCEPT ![w].pc = "succeeded"]
                 /\ emitted' = emitted \cup {x}
                 /\ x.id = EndId(run[w].n) /\ x.parent = RunId(run[w].n)
                 /\ x.trace = run[w].trace
                 /\ x.type = "queue_job" /\ x.status = "success"
                 /\ UNCHANGED <<request, call, job, runs, stalls, disturbed>>
    BY <1>1, ReportEmits DEF Succeed, EndId
  <2> QED
    BY <2>1, IdParts DEF ReportStep, SuccessForm
<1>2. ASSUME NEW fault \in Fault, ThrowRetry(w, fault)
      PROVE  \E x, pc : ReportStep(w, x, pc)
  <2>1. PICK x : /\ run[w].pc = "processing"
                 /\ run' = [run EXCEPT ![w].pc = "updating"]
                 /\ emitted' = emitted \cup {x}
                 /\ x.id = RetryId(run[w].n) /\ x.parent = RunId(run[w].n)
                 /\ x.trace = run[w].trace
                 /\ x.type = "queue_retry" /\ x.status = "retrying"
                 /\ UNCHANGED <<request, call, job, runs, stalls, disturbed>>
    BY <1>2, ReportEmits DEF ThrowRetry, RetryId
  <2> QED
    BY <2>1, <1>2, IdParts DEF ReportStep, RetryForm, ThrowRetry, MayRetry
<1>3. ASSUME NEW fault \in Fault, ThrowLast(w, fault)
      PROVE  \E x, pc : ReportStep(w, x, pc)
  <2>1. PICK x : /\ run[w].pc = "processing"
                 /\ run' = [run EXCEPT ![w].pc = "thrown"]
                 /\ emitted' = emitted \cup {x}
                 /\ x.id = EndId(run[w].n) /\ x.parent = RunId(run[w].n)
                 /\ x.trace = run[w].trace
                 /\ x.type = "queue_failed" /\ x.status = "failure"
                 /\ UNCHANGED <<request, call, job, runs, stalls, disturbed>>
    BY <1>3, ReportEmits DEF ThrowLast, EndId
  <2> QED
    BY <2>1, <1>3, IdParts DEF ReportStep, FailureForm, ThrowLast, MayRetry
<1> QED
  BY <1>1, <1>2, <1>3

\* How BullMQ settles an attempt, spelled out.
SettleStep(w) ==
    /\ run' = [run EXCEPT ![w] = Idle]
    /\ \/ job.owner # w /\ job' = job
       \/ /\ job.owner = w /\ run[w].pc = "succeeded"
          /\ job' = [job EXCEPT !.state = "completed", !.owner = Nobody]
       \/ /\ job.owner = w /\ run[w].pc = "thrown" /\ job.made + 1 < MaxAttempts
          /\ \/ job' = [job EXCEPT !.made = @ + 1, !.owner = Nobody, !.state = "waiting"]
             \/ job' = [job EXCEPT !.made = @ + 1, !.owner = Nobody, !.state = "givenUp"]
       \/ /\ job.owner = w /\ run[w].pc = "thrown" /\ ~(job.made + 1 < MaxAttempts)
          /\ job' = [job EXCEPT !.made = @ + 1, !.owner = Nobody, !.state = "failed"]
    /\ UNCHANGED <<request, call, runs, stalls, emitted, disturbed>>

\* A step that concerns the request only.
RequestStep ==
    /\ UNCHANGED <<job, run, runs, stalls, emitted, disturbed>>
    /\ \/ request = "open" /\ request' = "aborted" /\ UNCHANGED call
       \/ call = "adding" /\ call' = "failed" /\ UNCHANGED request

\* BullMQ takes the job from a worker whose attempt it does not count.
Lapse == Stall \/ \E w \in Worker : Postpone(w)

\* The steps of a worker that emit nothing.
WorkerStep(w) == Update(w) \/ UpdateFails(w) \/ SettleStep(w) \/ Crash(w)

\* Every step is one of these.
LEMMA Steps ==
    ASSUME Next
    PROVE  \/ \E x : FinishStep(x) \/ AddStep(x)
           \/ RequestStep \/ Land \/ Lapse
           \/ \E w \in Worker :
                 \/ \E x : PickUpStep(w, x) \/ \E pc : ReportStep(w, x, pc)
                 \/ Busy(w) /\ WorkerStep(w)
<1>1. CASE \E route \in Routes, raised \in Fault \cup {"none"}, serverError \in BOOLEAN :
              Finish(route, FaultOf(raised, serverError))
  BY <1>1, FinishEmits
<1>2. CASE AddReturns
  BY <1>2, AddEmits
<1>3. CASE Abort \/ AddRejects
  BY <1>3 DEF Abort, AddRejects, RequestStep
<1>4. CASE Land \/ Lapse
  BY <1>4
<1>5. ASSUME NEW w \in Worker, PickUp(w)
      PROVE  \E x : PickUpStep(w, x)
  BY <1>5, PickUpEmits
<1>6. ASSUME NEW w \in Worker, \/ Succeed(w)
                              \/ \E fault \in Fault : ThrowRetry(w, fault) \/ ThrowLast(w, fault)
      PROVE  \E x, pc : ReportStep(w, x, pc)
  BY <1>6, ProcessorEnds
<1>7. ASSUME NEW w \in Worker, Update(w) \/ UpdateFails(w) \/ Crash(w)
      PROVE  Busy(w) /\ WorkerStep(w)
  BY <1>7 DEF Update, UpdateFails, Crash, Busy, WorkerStep
<1>8. ASSUME NEW w \in Worker, Settle(w)
      PROVE  Busy(w) /\ WorkerStep(w)
  <2>1. Busy(w)
    BY <1>8 DEF Settle, Busy
  <2>2. SettleStep(w)
    BY <1>8 DEF Settle, SettleStep, Outcomes, Thrown
  <2> QED
    BY <2>1, <2>2 DEF WorkerStep
<1> QED
  BY <1>1, <1>2, <1>3, <1>4, <1>5, <1>6, <1>7, <1>8 DEF Next, Lapse

\* What becomes of a job whose owner's attempt is settled.
LEMMA SettleFields ==
    ASSUME Types, NEW w \in Worker, SettleStep(w), job.owner = w
    PROVE  /\ job'.owner = Nobody /\ job'.parent = job.parent
           /\ job'.monitored = job.monitored
           /\ \/ /\ run[w].pc = "succeeded"
                 /\ job'.state = "completed" /\ job'.made = job.made
              \/ /\ run[w].pc = "thrown" /\ job.made + 1 < MaxAttempts
                 /\ job'.state \in {"waiting", "givenUp"} /\ job'.made = job.made + 1
              \/ /\ run[w].pc = "thrown" /\ ~(job.made + 1 < MaxAttempts)
                 /\ job'.state = "failed" /\ job'.made = job.made + 1
<1>1. CASE /\ run[w].pc = "succeeded"
           /\ job' = [job EXCEPT !.state = "completed", !.owner = Nobody]
  BY <1>1 DEF Types, JobType
<1>2. CASE /\ run[w].pc = "thrown" /\ job.made + 1 < MaxAttempts
           /\ \/ job' = [job EXCEPT !.made = @ + 1, !.owner = Nobody, !.state = "waiting"]
              \/ job' = [job EXCEPT !.made = @ + 1, !.owner = Nobody, !.state = "givenUp"]
  BY <1>2 DEF Types, JobType
<1>3. CASE /\ run[w].pc = "thrown" /\ ~(job.made + 1 < MaxAttempts)
           /\ job' = [job EXCEPT !.made = @ + 1, !.owner = Nobody, !.state = "failed"]
  BY <1>3 DEF Types, JobType
<1> QED
  BY <1>1, <1>2, <1>3 DEF SettleStep

\* What becomes of a job whose attempt is not counted.
LEMMA LapseFields ==
    ASSUME Types, Lifecycle, Lapse
    PROVE  /\ job.state = "active" /\ job'.state \in {"waiting", "failed"}
           /\ job'.owner = Nobody /\ job'.made = job.made
           /\ job'.state = "failed" <=> stalls' > MaxStalls
           /\ stalls' \in {stalls, stalls + 1}
<1> USE Limits, TraceAssumption DEF Types, JobType, Lifecycle, Nobody
<1>1. CASE Stall
  BY <1>1 DEF Stall
<1>2. ASSUME NEW w \in Worker, Postpone(w)
      PROVE  /\ job.state = "active" /\ job'.state = "waiting"
             /\ job'.owner = Nobody /\ job'.made = job.made
             /\ stalls' = stalls /\ ~(stalls > MaxStalls)
  BY <1>2 DEF Postpone
<1> QED
  BY <1>1, <1>2 DEF Lapse

-----------------------------------------------------------------------------
(* The types of the state. *)

LEMMA TypesNext ==
    ASSUME Types, Lifecycle, Next
    PROVE  Types'
<1> USE Limits DEF Types, JobType, RunType
<1>1. CASE \E x : FinishStep(x) \/ AddStep(x)
  BY <1>1 DEF FinishStep, AddStep
<1>2. CASE RequestStep
  BY <1>2 DEF RequestStep
<1>3. CASE Land
  BY <1>3 DEF Land
<1>4. CASE Lapse
  <2>1. stalls' \in 0..MaxStalls + 1
    BY <1>4 DEF Lapse, Stall, Postpone, Lifecycle
  <2>2. job' \in JobType
    BY <1>4 DEF Lapse, Stall, Postpone
  <2> QED
    BY <1>4, <2>1, <2>2 DEF Lapse, Stall, Postpone
<1>5. ASSUME NEW w \in Worker, NEW x, PickUpStep(w, x)
      PROVE  Types'
  <2>1. x.trace \in {TraceId} \cup {<<"trace", n>> : n \in Nat}
    <3>1. CASE job.monitored
      BY <1>5, <3>1 DEF PickUpStep
    <3>2. CASE ~job.monitored
      <4>1. x.trace = <<"trace", runs + 1>> /\ runs + 1 \in Nat
        BY <1>5, <3>2 DEF PickUpStep
      <4> QED
        BY <4>1
    <3> QED
      BY <3>1, <3>2
  <2>2. run' \in [Worker -> RunType]
    BY <1>5, <2>1 DEF PickUpStep
  <2>3. job' \in JobType
    BY <1>5 DEF PickUpStep
  <2> QED
    BY <1>5, <2>2, <2>3 DEF PickUpStep
<1>6. ASSUME NEW w \in Worker, NEW x, NEW pc, ReportStep(w, x, pc)
      PROVE  Types'
  BY <1>6 DEF ReportStep
<1>7. ASSUME NEW w \in Worker, Busy(w), WorkerStep(w)
      PROVE  Types'
  <2>1. CASE Update(w)
    <3>1. /\ NextParent(w) \in ParentId
          /\ NextTrace(w) \in {TraceId} \cup {<<"trace", n>> : n \in Nat}
      BY DEF NextParent, NextTrace, ParentId, RetryId
    <3>2. job' \in JobType
      BY <2>1, <3>1 DEF Update
    <3> QED
      BY <2>1, <3>2 DEF Update
  <2>2. CASE UpdateFails(w)
    BY <2>2 DEF UpdateFails
  <2>3. CASE SettleStep(w)
    <3>1. run' \in [Worker -> RunType]
      BY <2>3 DEF SettleStep, Idle
    <3>2. job' \in JobType
      <4>1. job.owner = w => job.made + 1 \in 0..MaxAttempts
        BY TraceAssumption DEF Lifecycle, Nobody
      <4>2. job.owner = w =>
            [job EXCEPT !.made = @ + 1, !.owner = Nobody, !.state = "waiting"] \in JobType
        BY <4>1
      <4>3. job.owner = w =>
            [job EXCEPT !.made = @ + 1, !.owner = Nobody, !.state = "failed"] \in JobType
        BY <4>1
      <4>4. job.owner = w =>
            [job EXCEPT !.made = @ + 1, !.owner = Nobody, !.state = "givenUp"] \in JobType
        BY <4>1
      <4> QED
        BY <2>3, <4>2, <4>3, <4>4 DEF SettleStep
    <3> QED
      BY <2>3, <3>1, <3>2 DEF SettleStep
  <2>4. CASE Crash(w)
    BY <2>4 DEF Crash, Idle
  <2> QED
    BY <1>7, <2>1, <2>2, <2>3, <2>4 DEF WorkerStep
<1> QED
  BY <1>1, <1>2, <1>3, <1>4, <1>5, <1>6, <1>7, Steps

-----------------------------------------------------------------------------
(* The job and its attempts. *)

LEMMA LifecycleNext ==
    ASSUME Types, Lifecycle, Next
    PROVE  Lifecycle'
<1> USE Limits, TraceAssumption DEF Nobody
<1>1. CASE \E x : FinishStep(x) \/ AddStep(x)
  BY <1>1 DEF FinishStep, AddStep, Lifecycle, Busy
<1>2. CASE RequestStep
  BY <1>2 DEF RequestStep, Lifecycle, Busy
<1>3. CASE Land
  BY <1>3 DEF Land, Types, JobType, Lifecycle, Busy
<1>4. CASE Lapse
  <2>1. /\ job'.state \in {"waiting", "failed"} /\ job'.owner = Nobody /\ job'.made = job.made
        /\ stalls' > MaxStalls => job'.state = "failed"
    BY <1>4, LapseFields
  <2> QED
    BY <1>4, <2>1 DEF Lapse, Stall, Postpone, Lifecycle, Busy
<1>5. ASSUME NEW w \in Worker, NEW x, PickUpStep(w, x)
      PROVE  Lifecycle'
  <2>1. /\ job'.state = "active" /\ job'.owner = w /\ job'.made = job.made
        /\ job.made < MaxAttempts /\ job.made \in Nat
    BY <1>5 DEF PickUpStep, Types, JobType, Lifecycle
  <2>2. /\ run'[w].pc = "processing" /\ run'[w].n = runs + 1
        /\ run'[w].attempt = job.made + 1
        /\ \A v \in Worker \ {w} : run'[v] = run[v]
    BY <1>5 DEF PickUpStep, Types
  <2>3. \A v \in Worker : Busy(v) => run[v].n \in 1..runs
    BY DEF Lifecycle
  <2> QED
    BY <1>5, <2>1, <2>2, <2>3 DEF PickUpStep, Lifecycle, Busy, Types
<1>6. ASSUME NEW w \in Worker, NEW x, NEW pc, ReportStep(w, x, pc)
      PROVE  Lifecycle'
  <2>1. /\ run'[w] = [run[w] EXCEPT !.pc = pc] /\ pc # "idle"
        /\ \A v \in Worker \ {w} : run'[v] = run[v]
    BY <1>6 DEF ReportStep, Types
  <2>2. /\ run'[w].n = run[w].n /\ run'[w].attempt = run[w].attempt
        /\ run'[w].pc # "idle" /\ run[w].pc # "idle"
    BY <1>6, <2>1 DEF ReportStep, Types, RunType
  <2> QED
    BY <1>6, <2>1, <2>2 DEF ReportStep, Lifecycle, Busy
<1>7. ASSUME NEW w \in Worker, Busy(w), WorkerStep(w)
      PROVE  Lifecycle'
  <2>1. CASE Update(w) \/ UpdateFails(w)
    <3>1. /\ run'[w].n = run[w].n /\ run'[w].attempt = run[w].attempt
          /\ run'[w].pc # "idle" /\ run[w].pc # "idle"
          /\ \A v \in Worker \ {w} : run'[v] = run[v]
      BY <2>1 DEF Update, UpdateFails, Types, RunType
    <3>2. job'.state = job.state /\ job'.owner = job.owner /\ job'.made = job.made
      <4>1. CASE Update(w)
        BY <4>1 DEF Update, Types, JobType
      <4>2. CASE UpdateFails(w)
        BY <4>2 DEF UpdateFails
      <4> QED
        BY <2>1, <4>1, <4>2
    <3> QED
      BY <2>1, <3>1, <3>2 DEF Update, UpdateFails, Lifecycle, Busy
  <2>2. CASE SettleStep(w) \/ Crash(w)
    <3>1. /\ run'[w].n = 0 /\ run'[w].attempt = 0 /\ run'[w].pc = "idle"
          /\ \A v \in Worker \ {w} : run'[v] = run[v]
      BY <2>2 DEF SettleStep, Crash, Types, Idle
    <3>2. CASE job' = job
      BY <2>2, <3>1, <3>2 DEF SettleStep, Crash, Lifecycle, Busy
    <3>3. CASE job' # job
      <4>1. /\ job.owner = w /\ job'.owner = Nobody
            /\ \/ job'.state = "waiting" /\ job'.made = job.made + 1 /\ job.made + 1 < MaxAttempts
               \/ job'.state \in {"completed", "failed", "givenUp"}
        <5>1. SettleStep(w) /\ job.owner = w
          BY <2>2, <3>3 DEF SettleStep, Crash
        <5> QED
          BY <5>1, SettleFields
      <4>2. stalls' = stalls /\ runs' = runs
        BY <2>2 DEF SettleStep, Crash
      <4> QED
        BY <3>1, <4>1, <4>2 DEF Lifecycle, Busy
    <3> QED
      BY <3>2, <3>3
  <2> QED
    BY <1>7, <2>1, <2>2 DEF WorkerStep
<1> QED
  BY <1>1, <1>2, <1>3, <1>4, <1>5, <1>6, <1>7, Steps

-----------------------------------------------------------------------------
(* The forms of the events. *)

Form(e) == HostEvent(e) \/ HttpEvent(e) \/ PendingEvent(e) \/ RunEvent(e) \/ OutcomeEvent(e)

\* The id of an event tells its form.
LEMMA FormOf ==
    ASSUME Forms, NEW e \in emitted
    PROVE  /\ KindOf(e.id) = "http" => HttpEvent(e)
           /\ KindOf(e.id) = "pending" => PendingEvent(e)
           /\ KindOf(e.id) = "run" => RunEvent(e)
           /\ KindOf(e.id) = "retry" => RetryEvent(e)
           /\ KindOf(e.id) = "end" => SuccessEvent(e) \/ FailureEvent(e)
<1>1. HostEvent(e) \/ HttpEvent(e) \/ PendingEvent(e) \/ RunEvent(e) \/ OutcomeEvent(e)
  BY DEF Forms
<1>2. HostEvent(e) => KindOf(e.id) = "host"
  BY DEF HostEvent
<1>3. HttpEvent(e) => KindOf(e.id) = "http"
  BY IdParts DEF HttpEvent
<1>4. PendingEvent(e) => KindOf(e.id) = "pending"
  BY IdParts DEF PendingEvent
<1>5. RunEvent(e) => KindOf(e.id) = "run"
  BY IdParts DEF RunEvent
<1>6. RetryEvent(e) => KindOf(e.id) = "retry"
  BY IdParts DEF RetryEvent
<1>7. SuccessEvent(e) \/ FailureEvent(e) => KindOf(e.id) = "end"
  BY IdParts DEF SuccessEvent, FailureEvent
<1> QED
  BY <1>1, <1>2, <1>3, <1>4, <1>5, <1>6, <1>7 DEF OutcomeEvent

\* And so do its type and status, for the events of a job.
LEMMA FormByType ==
    ASSUME Forms, NEW e \in emitted, Queued(e)
    PROVE  /\ e.status = "pending" /\ e.type = "queue_job" => PendingEvent(e)
           /\ e.status = "processing" /\ e.type = "queue_job" => RunEvent(e)
           /\ RetryForm(e) => RetryEvent(e)
           /\ SuccessForm(e) => SuccessEvent(e)
           /\ FailureForm(e) => FailureEvent(e)
           /\ PendingEvent(e) \/ RunEvent(e) \/ OutcomeEvent(e)
  BY DEF Forms, HostEvent, Queued, HttpEvent, PendingEvent, RunEvent, OutcomeEvent, RetryEvent,
         SuccessEvent, FailureEvent, RetryForm, SuccessForm, FailureForm

\* What happens later does not change what an event is.
Onwards ==
    /\ request # "open" => request' # "open"
    /\ call = "returned" => call' = "returned"
    /\ runs \in Nat /\ runs' \in Nat /\ runs <= runs'

LEMMA FormStays ==
    ASSUME Forms, Onwards, NEW e \in emitted
    PROVE  Form(e)' /\ (OutcomeEvent(e)' => OutcomeEvent(e))
<1>1. HttpEvent(e) => HttpEvent(e)'
  BY DEF HttpEvent, Onwards
<1>2. PendingEvent(e) => PendingEvent(e)'
  BY DEF PendingEvent, Onwards
<1>3. RunEvent(e) => RunEvent(e)'
  BY DEF RunEvent, Onwards
<1>4. OutcomeEvent(e) => OutcomeEvent(e)'
  BY DEF OutcomeEvent, RetryEvent, SuccessEvent, FailureEvent, Onwards
<1>5. OutcomeEvent(e)' => OutcomeEvent(e)
  <2>1. OutcomeEvent(e)' => KindOf(e.id) \in {"retry", "end"}
    BY IdParts DEF OutcomeEvent, RetryEvent, SuccessEvent, FailureEvent
  <2> QED
    BY <2>1, FormOf DEF OutcomeEvent
<1>6. HostEvent(e) => HostEvent(e)'
  BY DEF HostEvent, Queued
<1> QED
  BY <1>1, <1>2, <1>3, <1>4, <1>5, <1>6 DEF Form, Forms

\* A new event whose id nobody has, and which is the only one to say how its run ended.
LEMMA FormsAdd ==
    ASSUME Forms, Onwards, NEW x, emitted' = emitted \cup {x}, Form(x)',
           \A e \in emitted : e.id # x.id,
           OutcomeEvent(x)' => \A e \in emitted :
               OutcomeEvent(e) => NumberOf(e.id) # NumberOf(x.id),
           \A e \in emitted', w \in Worker :
               OutcomeEvent(e)' /\ run'[w].pc = "processing" => NumberOf(e.id) # run'[w].n
    PROVE  Forms'
<1>1. \A e \in emitted' : Form(e)'
  BY FormStays
<1>2. \A e, f \in emitted' : e.id = f.id => e = f
  BY DEF Forms
<1>3. \A e, f \in emitted' :
         OutcomeEvent(e)' /\ OutcomeEvent(f)' /\ NumberOf(e.id) = NumberOf(f.id) => e = f
  BY FormStays DEF Forms
<1> QED
  BY <1>1, <1>2, <1>3 DEF Forms, Form

LEMMA FormsKeep ==
    ASSUME Forms, Onwards, emitted' = emitted,
           \A w \in Worker :
               run'[w].pc = "processing" => run[w].pc = "processing" /\ run'[w].n = run[w].n
    PROVE  Forms'
<1>1. \A e \in emitted' : Form(e)'
  BY FormStays
<1>2. \A e, f \in emitted' : e.id = f.id => e = f
  BY DEF Forms
<1>3. \A e, f \in emitted' :
         OutcomeEvent(e)' /\ OutcomeEvent(f)' /\ NumberOf(e.id) = NumberOf(f.id) => e = f
  BY FormStays DEF Forms
<1>4. \A e \in emitted', w \in Worker :
         OutcomeEvent(e)' /\ run'[w].pc = "processing" => NumberOf(e.id) # run'[w].n
  BY FormStays DEF Forms
<1> QED
  BY <1>1, <1>2, <1>3, <1>4 DEF Forms, Form

LEMMA FormsNext ==
    ASSUME Types, Lifecycle, Forms, Parents, Next
    PROVE  Forms'
<1> USE Limits
<1>0. \A w \in Worker : Busy(w) => run[w].n \in 1..runs
  BY DEF Lifecycle
<1>1. ASSUME NEW x, FinishStep(x)
      PROVE  Forms'
  <2>1. Onwards
    BY <1>1 DEF FinishStep, Onwards, Types
  <2>2. KindOf(x.id) = "http" /\ Form(x)' /\ ~OutcomeEvent(x)'
    BY <1>1, IdParts
    DEF FinishStep, HttpEvent, Form, OutcomeEvent, RetryEvent, SuccessEvent, FailureEvent
  <2>3. \A e \in emitted : e.id # x.id
    BY <1>1, <2>2, FormOf DEF FinishStep, HttpEvent
  <2>4. \A e \in emitted', w \in Worker :
           OutcomeEvent(e)' /\ run'[w].pc = "processing" => NumberOf(e.id) # run'[w].n
    BY <1>1, <2>1, <2>2, FormStays DEF FinishStep, Forms
  <2> QED
    BY <1>1, <2>1, <2>2, <2>3, <2>4, FormsAdd DEF FinishStep
<1>2. ASSUME NEW x, AddStep(x)
      PROVE  Forms'
  <2>1. Onwards
    BY <1>2 DEF AddStep, Onwards, Types
  <2>2. KindOf(x.id) = "pending" /\ Form(x)' /\ ~OutcomeEvent(x)'
    BY <1>2, IdParts
    DEF AddStep, PendingEvent, Form, OutcomeEvent, RetryEvent, SuccessEvent, FailureEvent
  <2>3. \A e \in emitted : e.id # x.id
    BY <1>2, <2>2, FormOf DEF AddStep, PendingEvent
  <2>4. \A e \in emitted', w \in Worker :
           OutcomeEvent(e)' /\ run'[w].pc = "processing" => NumberOf(e.id) # run'[w].n
    BY <1>2, <2>1, <2>2, FormStays DEF AddStep, Forms
  <2> QED
    BY <1>2, <2>1, <2>2, <2>3, <2>4, FormsAdd DEF AddStep
<1>3. CASE RequestStep \/ Land \/ Lapse
  BY <1>3, FormsKeep DEF RequestStep, Land, Lapse, Stall, Postpone, Onwards, Types
<1>4. ASSUME NEW w \in Worker, NEW x, PickUpStep(w, x)
      PROVE  Forms'
  <2>1. Onwards
    BY <1>4 DEF PickUpStep, Onwards, Types
  <2>2. KindOf(x.id) = "run" /\ NumberOf(x.id) = runs + 1 /\ ~OutcomeEvent(x)'
    BY <1>4, IdParts DEF PickUpStep, OutcomeEvent, RetryEvent, SuccessEvent, FailureEvent
  <2>3. \A e \in emitted : e.id # x.id
    BY <2>2, FormOf DEF RunEvent, Types
  <2>4. Form(x)'
    <3>1. CASE job.monitored /\ job.parent # Pending
      <4>1. PICK p \in emitted : p.id = job.parent
        BY <1>4, <3>1 DEF Parents, Emitted
      <4>2. KindOf(job.parent) = "retry"
        BY <3>1, IdParts DEF Types, JobType, ParentId, RetryId
      <4>3. RetryEvent(p)
        BY <4>1, <4>2, FormOf
      <4> QED
        BY <1>4, <2>2, <3>1, <4>1, <4>3 DEF PickUpStep, RetryEvent, RunEvent, Form, Types
    <3>2. CASE ~(job.monitored /\ job.parent # Pending)
      BY <1>4, <2>2, <3>2 DEF PickUpStep, RunEvent, Form, Types
    <3> QED
      BY <3>1, <3>2
  <2>5. ASSUME NEW e \in emitted', NEW v \in Worker, OutcomeEvent(e)', run'[v].pc = "processing"
        PROVE  NumberOf(e.id) # run'[v].n
    <3>1. e \in emitted /\ OutcomeEvent(e)
      BY <1>4, <2>1, <2>2, <2>5, FormStays DEF PickUpStep
    <3>2. NumberOf(e.id) \in 1..runs
      BY <3>1 DEF OutcomeEvent, RetryEvent, SuccessEvent, FailureEvent
    <3>3. CASE v = w
      BY <1>4, <3>2, <3>3 DEF PickUpStep, Types
    <3>4. CASE v # w
      BY <1>4, <2>5, <3>1, <3>4 DEF PickUpStep, Forms, Types
    <3> QED
      BY <3>3, <3>4
  <2> QED
    BY <1>4, <2>1, <2>2, <2>3, <2>4, <2>5, FormsAdd DEF PickUpStep
<1>5. ASSUME NEW w \in Worker, NEW x, NEW pc, ReportStep(w, x, pc)
      PROVE  Forms'
  <2>1. Onwards /\ Busy(w) /\ run[w].n \in 1..runs
    BY <1>0, <1>5 DEF ReportStep, Onwards, Types, Busy
  <2>2. OutcomeEvent(x)' /\ Form(x)' /\ KindOf(x.id) \in {"retry", "end"}
    BY <1>5, <2>1, IdParts
    DEF ReportStep, OutcomeEvent, RetryEvent, SuccessEvent, FailureEvent, Form
  <2>3. \A e \in emitted : OutcomeEvent(e) => NumberOf(e.id) # NumberOf(x.id)
    BY <1>5 DEF ReportStep, Forms
  <2>4. \A e \in emitted : e.id # x.id
    BY <2>2, <2>3, FormOf DEF OutcomeEvent
  <2>5. ASSUME NEW e \in emitted', NEW v \in Worker, OutcomeEvent(e)', run'[v].pc = "processing"
        PROVE  NumberOf(e.id) # run'[v].n
    <3>1. v # w /\ run'[v] = run[v] /\ Busy(v)
      BY <1>5, <2>5 DEF ReportStep, Types, Busy
    <3>2. CASE e \in emitted
      BY <2>1, <2>5, <3>1, <3>2, FormStays DEF Forms
    <3>3. CASE e = x
      BY <1>5, <3>1, <3>3 DEF ReportStep, Lifecycle
    <3> QED
      BY <1>5, <3>2, <3>3 DEF ReportStep
  <2> QED
    BY <1>5, <2>1, <2>2, <2>3, <2>4, <2>5, FormsAdd DEF ReportStep
<1>6. ASSUME NEW w \in Worker, WorkerStep(w)
      PROVE  Forms'
  <2>1. Onwards /\ emitted' = emitted
    BY <1>6 DEF WorkerStep, Update, UpdateFails, SettleStep, Crash, Onwards, Types
  <2>2. /\ run'[w].pc # "processing"
        /\ \A v \in Worker \ {w} : run'[v] = run[v]
    <3>1. CASE Update(w) \/ UpdateFails(w)
      BY <3>1 DEF Update, UpdateFails, Types, RunType
    <3>2. CASE SettleStep(w) \/ Crash(w)
      BY <3>2 DEF SettleStep, Crash, Types, Idle
    <3> QED
      BY <1>6, <3>1, <3>2 DEF WorkerStep
  <2> QED
    BY <2>1, <2>2, FormsKeep
<1> QED
  BY <1>1, <1>2, <1>3, <1>4, <1>5, <1>6, Steps

-----------------------------------------------------------------------------
(* The parents of the events. *)

\* One event of Causal.
HasParent(e) ==
    \/ Emitted(e.parent, e.trace)
    \/ e.parent = Http
    \/ e.parent = Pending /\ e.status = "processing"
    \/ KindOf(e.parent) = "lost"

\* What Parents says of the job, of the runs and of the events.
JobParent == job.parent # Pending => Emitted(job.parent, job.trace)
RunParents ==
    \A w \in Worker : /\ Busy(w) => Emitted(RunId(run[w].n), run[w].trace)
                      /\ run[w].pc = "updating" => Emitted(RetryId(run[w].n), run[w].trace)
EventParents == \A e \in emitted : Queued(e) => HasParent(e)

LEMMA ParentsParts ==
    /\ Parents <=> JobParent /\ RunParents /\ EventParents
    /\ Parents' <=> JobParent' /\ RunParents' /\ EventParents'
<1>1. Causal <=> EventParents
  BY DEF Causal, HasParent, Emitted, KindOf, EventParents
<1>2. Causal' <=> EventParents'
  BY DEF Causal, HasParent, Emitted, KindOf, EventParents
<1> QED
  BY <1>1, <1>2 DEF Parents, JobParent, RunParents

LEMMA EmittedStays ==
    ASSUME NEW id, NEW trace, emitted \subseteq emitted', Emitted(id, trace)
    PROVE  Emitted(id, trace)'
  BY DEF Emitted

LEMMA ParentStays ==
    ASSUME EventParents, emitted \subseteq emitted'
    PROVE  \A e \in emitted : Queued(e) => HasParent(e)'
  BY DEF HasParent, Emitted, EventParents

LEMMA ParentsNext ==
    ASSUME Types, Lifecycle, Parents, Next
    PROVE  Parents'
<1>0. JobParent /\ RunParents /\ EventParents
  BY ParentsParts
<1>s. SUFFICES JobParent' /\ RunParents' /\ EventParents'
  BY ParentsParts
<1>1. ASSUME NEW x, FinishStep(x) \/ AddStep(x)
      PROVE  JobParent' /\ RunParents' /\ EventParents'
  <2>1. emitted' = emitted \cup {x} /\ UNCHANGED <<job, run>> /\ (Queued(x) => x.parent = Http)
    BY <1>1 DEF FinishStep, AddStep, HttpEvent, PendingEvent, Queued
  <2>2. JobParent' /\ RunParents'
    BY <1>0, <2>1, EmittedStays DEF JobParent, RunParents, Busy
  <2>3. EventParents'
    BY <1>0, <2>1, ParentStays DEF EventParents, HasParent, Queued
  <2> QED
    BY <2>2, <2>3
<1>2. CASE RequestStep \/ Land \/ Lapse
  <2>1. /\ UNCHANGED <<emitted, run>>
        /\ job'.parent = job.parent /\ job'.trace = job.trace
    BY <1>2 DEF RequestStep, Land, Lapse, Stall, Postpone, Types, JobType
  <2>2. JobParent' /\ RunParents'
    BY <1>0, <2>1, EmittedStays DEF JobParent, RunParents, Busy
  <2>3. EventParents'
    BY <1>0, <2>1, ParentStays DEF EventParents, Queued
  <2> QED
    BY <2>2, <2>3
<1>3. ASSUME NEW w \in Worker, NEW x, PickUpStep(w, x)
      PROVE  JobParent' /\ RunParents' /\ EventParents'
  <2>1. /\ emitted' = emitted \cup {x} /\ x \in emitted'
        /\ job'.parent = job.parent /\ job'.trace = job.trace
        /\ run'[w].pc = "processing" /\ run'[w].n = runs + 1 /\ run'[w].trace = x.trace
        /\ \A v \in Worker \ {w} : run'[v] = run[v]
    BY <1>3 DEF PickUpStep, Types, JobType
  <2>2. JobParent'
    BY <1>0, <2>1, EmittedStays DEF JobParent
  <2>3. Emitted(RunId(run[w].n), run[w].trace)'
    BY <1>3, <2>1 DEF PickUpStep, Emitted
  <2>4. RunParents'
    BY <1>0, <2>1, <2>3, EmittedStays DEF RunParents, Busy
  <2>5. HasParent(x)'
    <3>1. CASE job.monitored /\ job.parent # Pending
      BY <1>0, <1>3, <2>1, <3>1, EmittedStays DEF PickUpStep, JobParent, HasParent
    <3>2. CASE job.monitored /\ job.parent = Pending
      BY <1>3, <3>2 DEF PickUpStep, HasParent
    <3>3. CASE ~job.monitored
      BY <1>3, <3>3, IdParts DEF PickUpStep, HasParent
    <3> QED
      BY <3>1, <3>2, <3>3
  <2>6. EventParents'
    BY <1>0, <2>1, <2>5, ParentStays DEF EventParents, Queued
  <2> QED
    BY <2>2, <2>4, <2>6
<1>4. ASSUME NEW w \in Worker, NEW x, NEW pc, ReportStep(w, x, pc)
      PROVE  JobParent' /\ RunParents' /\ EventParents'
  <2>1. /\ emitted' = emitted \cup {x} /\ x \in emitted' /\ job' = job
        /\ run'[w].pc = pc /\ run'[w].n = run[w].n /\ run'[w].trace = run[w].trace
        /\ \A v \in Worker \ {w} : run'[v] = run[v]
        /\ Busy(w)
    BY <1>4 DEF ReportStep, Types, RunType, Busy
  <2>2. JobParent'
    BY <1>0, <2>1, EmittedStays DEF JobParent
  <2>3. pc = "updating" => Emitted(RetryId(run[w].n), run[w].trace)'
    BY <1>4, <2>1 DEF ReportStep, Emitted
  <2>4. Emitted(RunId(run[w].n), run[w].trace)'
    BY <1>0, <2>1, EmittedStays DEF RunParents
  <2>5. RunParents'
    BY <1>0, <2>1, <2>3, <2>4, EmittedStays DEF RunParents, Busy
  <2>6. HasParent(x)'
    BY <1>4, <2>4 DEF ReportStep, HasParent
  <2>7. EventParents'
    BY <1>0, <2>1, <2>6, ParentStays DEF EventParents, Queued
  <2> QED
    BY <2>2, <2>5, <2>7
<1>5. ASSUME NEW w \in Worker, WorkerStep(w), Busy(w)
      PROVE  JobParent' /\ RunParents' /\ EventParents'
  <2>1. /\ emitted' = emitted
        /\ run'[w].pc \in {"idle", "thrown"}
        /\ run'[w].pc = "thrown" => run'[w].n = run[w].n /\ run'[w].trace = run[w].trace
        /\ \A v \in Worker \ {w} : run'[v] = run[v]
    <3>1. CASE Update(w) \/ UpdateFails(w)
      BY <3>1 DEF Update, UpdateFails, Types, RunType
    <3>2. CASE SettleStep(w) \/ Crash(w)
      BY <3>2 DEF SettleStep, Crash, Types, Idle
    <3> QED
      BY <1>5, <3>1, <3>2 DEF WorkerStep
  <2>2. JobParent'
    <3>1. CASE Update(w)
      <4>1. job'.parent = RetryId(run[w].n) /\ job'.trace = run[w].trace
        BY <3>1 DEF Update, Types, JobType, NextParent, NextTrace, RetryId
      <4> QED
        BY <1>0, <2>1, <3>1, <4>1, EmittedStays DEF Update, JobParent, RunParents
    <3>2. CASE ~Update(w)
      <4>1. job'.parent = job.parent /\ job'.trace = job.trace
        BY <1>5, <3>2 DEF WorkerStep, UpdateFails, SettleStep, Crash, Types, JobType
      <4> QED
        BY <1>0, <2>1, <4>1, EmittedStays DEF JobParent
    <3> QED
      BY <3>1, <3>2
  <2>3. RunParents'
    BY <1>0, <1>5, <2>1, EmittedStays DEF RunParents, Busy
  <2>4. EventParents'
    BY <1>0, <2>1, ParentStays DEF EventParents, Queued
  <2> QED
    BY <2>2, <2>3, <2>4
<1> QED
  BY <1>1, <1>2, <1>3, <1>4, <1>5, Steps

-----------------------------------------------------------------------------
(* What the events tell. *)

\* What a new event adds to each kind of them.
LEMMA Tallies ==
    ASSUME NEW x, emitted' = emitted \cup {x}
    PROVE  /\ Succeeded' = IF SuccessForm(x) THEN Succeeded \cup {x} ELSE Succeeded
           /\ Failed' = IF FailureForm(x) THEN Failed \cup {x} ELSE Failed
           /\ Retried' = IF RetryForm(x) THEN Retried \cup {x} ELSE Retried
           /\ Begun' = IF x.type = "queue_job" /\ x.status = "processing" THEN Begun \cup {x}
                       ELSE Begun
  BY DEF Succeeded, Failed, Retried, Begun, SuccessForm, FailureForm, RetryForm

LEMMA SameTallies ==
    ASSUME emitted' = emitted
    PROVE  Succeeded' = Succeeded /\ Failed' = Failed /\ Retried' = Retried /\ Begun' = Begun
  BY DEF Succeeded, Failed, Retried, Begun

LEMMA AnnouncedNext ==
    ASSUME Types, Lifecycle, Announced, Next
    PROVE  Announced'
<1> USE Limits
<1>1. ASSUME NEW x, FinishStep(x) \/ AddStep(x)
      PROVE  Announced'
  BY <1>1, Tallies DEF FinishStep, AddStep, Announced
<1>2. CASE RequestStep \/ Land \/ Lapse
  <2>1. UNCHANGED <<emitted, run>> /\ stalls' \in {stalls, stalls + 1}
    BY <1>2 DEF RequestStep, Land, Lapse, Stall, Postpone
  <2>2. /\ job'.state = "completed" => job.state = "completed"
        /\ job'.state = "failed" => job.state = "failed" \/ stalls' > MaxStalls
        /\ job'.state = "givenUp" => job.state = "givenUp"
    <3>1. CASE RequestStep \/ Land
      BY <3>1 DEF RequestStep, Land, Types, JobType
    <3>2. CASE Lapse
      BY <3>2, LapseFields
    <3> QED
      BY <1>2, <3>1, <3>2
  <2> QED
    BY <2>1, <2>2, SameTallies DEF Announced, Types
<1>3. ASSUME NEW w \in Worker, NEW x, PickUpStep(w, x)
      PROVE  Announced'
  <2>1. /\ emitted' = emitted \cup {x} /\ stalls' = stalls /\ job'.state = "active"
        /\ run'[w].pc = "processing"
        /\ \A v \in Worker \ {w} : run'[v] = run[v]
    BY <1>3 DEF PickUpStep, Types, JobType
  <2> QED
    BY <2>1, Tallies DEF Announced
<1>4. ASSUME NEW w \in Worker, NEW x, NEW pc, ReportStep(w, x, pc)
      PROVE  Announced'
  <2>1. /\ emitted' = emitted \cup {x} /\ UNCHANGED <<job, stalls>>
        /\ run'[w].pc = pc /\ run'[w].attempt = run[w].attempt
        /\ \A v \in Worker \ {w} : run'[v] = run[v]
    BY <1>4 DEF ReportStep, Types, RunType
  <2>2. /\ pc = "succeeded" => Succeeded' # {}
        /\ pc = "thrown" => Failed' # {}
        /\ pc = "thrown" => ~(run[w].attempt < MaxAttempts)
        /\ pc = "updating" => run[w].attempt < MaxAttempts /\ Retried' # {}
    BY <1>4, <2>1, Tallies DEF ReportStep
  <2>3. /\ Succeeded # {} => Succeeded' # {}
        /\ Failed # {} => Failed' # {}
        /\ Retried # {} => Retried' # {}
    BY <2>1, Tallies
  <2> QED
    BY <2>1, <2>2, <2>3 DEF Announced
<1>5. ASSUME NEW w \in Worker, WorkerStep(w), Busy(w)
      PROVE  Announced'
  <2>1. UNCHANGED <<emitted, stalls>>
    BY <1>5 DEF WorkerStep, Update, UpdateFails, SettleStep, Crash
  <2>2. \A v \in Worker \ {w} : run'[v] = run[v]
    BY <1>5 DEF WorkerStep, Update, UpdateFails, SettleStep, Crash, Types
  <2>3. CASE Update(w) \/ UpdateFails(w)
    <3>1. run[w].pc = "updating" /\ run'[w].pc = "thrown" /\ run'[w].attempt = run[w].attempt
      BY <2>3 DEF Update, UpdateFails, Types, RunType
    <3>2. job'.state = job.state
      BY <2>3 DEF Update, UpdateFails, Types, JobType
    <3> QED
      BY <2>1, <2>2, <3>1, <3>2, SameTallies DEF Announced, Types, RunType
  <2>4. CASE SettleStep(w) \/ Crash(w)
    <3>1. run'[w].pc = "idle"
      BY <2>4 DEF SettleStep, Crash, Types, Idle
    <3>2. CASE job' = job
      BY <2>1, <2>2, <3>1, <3>2, SameTallies DEF Announced
    <3>3. CASE SettleStep(w) /\ job' # job
      <4>1. job.owner = w /\ run[w].attempt = job.made + 1
        BY <1>5, <3>3 DEF SettleStep, Lifecycle
      <4>2. job'.state = "completed" => run[w].pc = "succeeded"
        BY <3>3, <4>1, SettleFields
      <4>3. job'.state = "failed" => run[w].pc = "thrown" /\ run[w].attempt >= MaxAttempts
        <5>1. job.made \in Nat
          BY DEF Types, JobType
        <5> QED
          BY <3>3, <4>1, <5>1, SettleFields
      <4>4. job'.state = "givenUp" => run[w].pc = "thrown" /\ run[w].attempt < MaxAttempts
        BY <3>3, <4>1, SettleFields
      <4> QED
        BY <2>1, <2>2, <3>1, <4>2, <4>3, <4>4, SameTallies DEF Announced
    <3> QED
      BY <2>4, <3>2, <3>3 DEF Crash
  <2> QED
    BY <1>5, <2>3, <2>4 DEF WorkerStep
<1> QED
  BY <1>1, <1>2, <1>3, <1>4, <1>5, Steps

-----------------------------------------------------------------------------
(* Runs without accidents. *)

LEMMA SingleNext ==
    ASSUME Types, Lifecycle, Single, ~disturbed', Next
    PROVE  Single'
<1> USE TraceAssumption DEF Nobody, Busy
<1>1. ASSUME NEW x, FinishStep(x) \/ AddStep(x)
      PROVE  Single'
  BY <1>1 DEF FinishStep, AddStep, Single
<1>2. CASE RequestStep \/ Land \/ Lapse
  <2>1. job'.owner = job.owner /\ run' = run /\ runs' = runs
    BY <1>2 DEF RequestStep, Land, Lapse, Stall, Postpone, Types, JobType
  <2> QED
    BY <2>1 DEF Single
<1>3. ASSUME NEW w \in Worker, NEW x, PickUpStep(w, x)
      PROVE  Single'
  <2>1. \A v \in Worker : ~Busy(v)
    BY <1>3 DEF PickUpStep, Single, Lifecycle
  <2>2. /\ job'.owner = w /\ run'[w].n = runs'
        /\ \A v \in Worker \ {w} : run'[v] = run[v]
    BY <1>3 DEF PickUpStep, Types, JobType
  <2> QED
    BY <2>1, <2>2 DEF Single
<1>4. ASSUME NEW w \in Worker, NEW x, NEW pc, ReportStep(w, x, pc)
      PROVE  Single'
  <2>1. /\ UNCHANGED <<job, runs>> /\ run'[w].n = run[w].n /\ run[w].pc = "processing"
        /\ \A v \in Worker \ {w} : run'[v] = run[v]
    BY <1>4 DEF ReportStep, Types, RunType
  <2> QED
    BY <2>1 DEF Single
<1>5. ASSUME NEW w \in Worker, WorkerStep(w), Busy(w)
      PROVE  Single'
  <2>1. CASE Update(w) \/ UpdateFails(w)
    <3>1. runs' = runs /\ run'[w].n = run[w].n /\ \A v \in Worker \ {w} : run'[v] = run[v]
      BY <2>1 DEF Update, UpdateFails, Types, RunType
    <3>2. job'.owner = job.owner
      BY <2>1 DEF Update, UpdateFails, Types, JobType
    <3> QED
      BY <1>5, <3>1, <3>2 DEF Single
  <2>2. CASE SettleStep(w) \/ Crash(w)
    <3>1. run'[w].pc = "idle" /\ \A v \in Worker \ {w} : run'[v] = run[v]
      BY <2>2 DEF SettleStep, Crash, Types, Idle
    <3>2. \A v \in Worker \ {w} : ~Busy(v)
      BY <1>5 DEF Single
    <3> QED
      BY <3>1, <3>2 DEF Single
  <2> QED
    BY <1>5, <2>1, <2>2 DEF WorkerStep
<1> QED
  BY <1>1, <1>2, <1>3, <1>4, <1>5, Steps

\* The parent of an event of a job tells the event's form.
LEMMA ParentTells ==
    ASSUME Forms, NEW e \in emitted, Queued(e)
    PROVE  /\ KindOf(e.parent) = "http" => PendingEvent(e)
           /\ KindOf(e.parent) = "run" => OutcomeEvent(e) /\ NumberOf(e.parent) = NumberOf(e.id)
           /\ KindOf(e.parent) = "lost" => RunEvent(e) /\ NumberOf(e.parent) = NumberOf(e.id)
           /\ KindOf(e.parent) = "retry" => /\ RunEvent(e) /\ NumberOf(e.parent) \in 1..runs
                                           /\ NumberOf(e.parent) # NumberOf(e.id)
<1>1. PendingEvent(e) => KindOf(e.parent) = "http"
  BY IdParts DEF PendingEvent
<1>2. OutcomeEvent(e) => KindOf(e.parent) = "run" /\ NumberOf(e.parent) = NumberOf(e.id)
  BY IdParts DEF OutcomeEvent, RetryEvent, SuccessEvent, FailureEvent
<1>3. RunEvent(e) =>
         \/ KindOf(e.parent) = "lost" /\ NumberOf(e.parent) = NumberOf(e.id)
         \/ KindOf(e.parent) = "pending"
         \/ /\ KindOf(e.parent) = "retry" /\ NumberOf(e.parent) \in 1..runs
            /\ NumberOf(e.parent) # NumberOf(e.id)
  BY IdParts DEF RunEvent
<1>4. PendingEvent(e) \/ RunEvent(e) \/ OutcomeEvent(e)
  BY FormByType
<1> QED
  BY <1>1, <1>2, <1>3, <1>4

\* The job's data name no request.
LEMMA JobParentKind ==
    ASSUME Types
    PROVE  KindOf(job.parent) \in {"pending", "retry"}
<1>1. job.parent = Pending \/ \E n \in Nat : job.parent = RetryId(n)
  BY DEF Types, JobType, ParentId, RetryId
<1> QED
  BY <1>1, IdParts

\* A parent that no event of a job has, after a new event as well.
LEMMA UnusedStays ==
    ASSUME NEW parent, NEW x, emitted' = emitted \cup {x}, Unused(parent),
           Queued(x) => x.parent # parent
    PROVE  Unused(parent)'
  BY DEF Unused, Queued

LEMMA UnusedNext ==
    ASSUME Types, Lifecycle, Forms, Forms', Single, Single', NextParentUnused, ~disturbed', Next
    PROVE  NextParentUnused'
<1> USE Limits, TraceAssumption DEF Nobody
<1>1. ASSUME NEW x, FinishStep(x) \/ AddStep(x)
      PROVE  NextParentUnused'
  <2>1. /\ emitted' = emitted \cup {x} /\ UNCHANGED <<job, run>>
        /\ Queued(x) => KindOf(x.parent) = "http"
    BY <1>1, IdParts DEF FinishStep, AddStep, HttpEvent, PendingEvent, Queued
  <2>2. Unused(job.parent) => Unused(job.parent)'
    BY <2>1, JobParentKind, UnusedStays
  <2>3. \A w \in Worker : Unused(RetryId(run[w].n)) => Unused(RetryId(run[w].n))'
    BY <2>1, IdParts, UnusedStays
  <2> QED
    BY <2>1, <2>2, <2>3 DEF NextParentUnused
<1>2. CASE RequestStep \/ Land \/ Lapse
  <2>1. UNCHANGED <<emitted, run>>
    BY <1>2 DEF RequestStep, Land, Lapse, Stall, Postpone
  <2>2. /\ job'.parent = job.parent /\ job'.monitored = job.monitored
        /\ job'.state \in {"absent", "waiting"} => job.state \in {"absent", "waiting"}
    BY <1>2 DEF RequestStep, Land, Lapse, Stall, Postpone, Types, JobType
  <2> QED
    BY <2>1, <2>2 DEF NextParentUnused, Unused
<1>3. ASSUME NEW w \in Worker, NEW x, PickUpStep(w, x)
      PROVE  NextParentUnused'
  <2>1. /\ emitted' = emitted \cup {x} /\ Queued(x) /\ runs' = runs + 1 /\ runs \in Nat
        /\ NumberOf(x.id) = runs + 1
        /\ job'.state = "active" /\ job'.owner = w
        /\ run'[w].pc = "processing" /\ run'[w].n = runs + 1
    BY <1>3, IdParts DEF PickUpStep, Types, JobType, Queued
  <2>2. \A v \in Worker \ {w} : run'[v].pc = "idle"
    BY <2>1 DEF Single, Busy
  <2>3. Unused(RetryId(runs + 1))
    BY <2>1, ParentTells, IdParts DEF Unused
  <2>4. x.parent # RetryId(runs + 1)
    <3>1. Form(x)' /\ KindOf(x.id) = "run"
      BY <1>3, <2>1, IdParts DEF Forms, Form, PickUpStep
    <3>2. RunEvent(x)'
      BY <3>1, IdParts
      DEF Form, HostEvent, HttpEvent, PendingEvent, OutcomeEvent, RetryEvent, SuccessEvent,
          FailureEvent
    <3> QED
      BY <2>1, <3>2, IdParts DEF RunEvent
  <2>5. Unused(RetryId(run[w].n))'
    BY <2>1, <2>3, <2>4 DEF Unused, Queued
  <2> QED
    BY <2>1, <2>2, <2>5 DEF NextParentUnused
<1>4. ASSUME NEW w \in Worker, NEW x, NEW pc, ReportStep(w, x, pc)
      PROVE  NextParentUnused'
  <2>1. /\ emitted' = emitted \cup {x} /\ job' = job /\ KindOf(x.parent) = "run"
        /\ run[w].pc = "processing" /\ run'[w].pc = pc /\ run'[w].n = run[w].n
        /\ pc = "thrown" => ~(run'[w].attempt < MaxAttempts)
        /\ pc # "processing"
        /\ \A v \in Worker \ {w} : run'[v] = run[v]
    BY <1>4, IdParts DEF ReportStep, Types, RunType
  <2>2. Unused(job.parent) => Unused(job.parent)'
    BY <2>1, JobParentKind, UnusedStays
  <2>3. \A v \in Worker : Unused(RetryId(run[v].n)) => Unused(RetryId(run[v].n))'
    BY <2>1, IdParts, UnusedStays
  <2> QED
    BY <2>1, <2>2, <2>3 DEF NextParentUnused
<1>5. ASSUME NEW w \in Worker, WorkerStep(w), Busy(w)
      PROVE  NextParentUnused'
  <2>1. emitted' = emitted /\ job.owner = w /\ job.state = "active"
    BY <1>5
    DEF WorkerStep, Update, UpdateFails, SettleStep, Crash, Single, Lifecycle
  <2>2. \A v \in Worker \ {w} : run[v].pc = "idle" /\ run'[v] = run[v]
    BY <1>5, <2>1
    DEF WorkerStep, Update, UpdateFails, SettleStep, Crash, Single, Busy, Types
  <2>3. CASE Update(w)
    <3>1. job'.state = "active" /\ job'.monitored /\ job'.parent = RetryId(run[w].n)
      BY <2>1, <2>3 DEF Update, Types, JobType, NextParent, RetryId
    <3>2. run[w].pc = "updating" /\ run'[w].pc = "thrown"
      BY <2>3 DEF Update, Types, RunType
    <3> QED
      BY <2>1, <2>2, <3>1, <3>2 DEF NextParentUnused, Unused
  <2>4. CASE SettleStep(w) \/ Crash(w)
    <3>1. run'[w].pc = "idle"
      BY <2>4 DEF SettleStep, Crash, Types, Idle
    <3>2. job'.state \in {"absent", "waiting"} /\ job'.monitored => Unused(job'.parent)
      <4>1. CASE Crash(w)
        BY <2>1, <4>1 DEF Crash
      <4>2. CASE SettleStep(w) /\ job'.state = "waiting"
        <5>1. /\ run[w].pc = "thrown" /\ job.made + 1 < MaxAttempts
              /\ job'.parent = job.parent
          BY <2>1, <4>2, SettleFields
        <5>2. run[w].attempt = job.made + 1
          BY <1>5, <2>1 DEF Lifecycle
        <5> QED
          BY <5>1, <5>2 DEF NextParentUnused
      <4> QED
        BY <2>1, <2>4, <4>1, <4>2, SettleFields
    <3> QED
      BY <2>1, <2>2, <3>1, <3>2 DEF NextParentUnused, Unused
  <2> QED
    BY <1>5, <2>3, <2>4 DEF WorkerStep, UpdateFails
<1> QED
  BY <1>1, <1>2, <1>3, <1>4, <1>5, Steps

LEMMA DistinctNext ==
    ASSUME Types, Forms, NextParentUnused, Distinct, Next
    PROVE  Distinct'
<1>1. ASSUME NEW x, emitted' = emitted \cup {x}, Queued(x) => Unused(x.parent)
      PROVE  Distinct'
  BY <1>1 DEF Distinct, Unused, Queued
<1>2. ASSUME NEW x, FinishStep(x)
      PROVE  Distinct'
  BY <1>1, <1>2 DEF FinishStep, HttpEvent, Queued
<1>3. ASSUME NEW x, AddStep(x)
      PROVE  Distinct'
  <2>1. KindOf(x.parent) = "http"
    BY <1>3, IdParts DEF AddStep, PendingEvent
  <2>2. Unused(x.parent)
    BY <1>3, <2>1, ParentTells DEF AddStep, PendingEvent, Unused
  <2> QED
    BY <1>1, <1>3, <2>2 DEF AddStep
<1>4. ASSUME NEW w \in Worker, NEW x, PickUpStep(w, x)
      PROVE  Distinct'
  <2>1. CASE job.monitored
    BY <1>1, <1>4, <2>1 DEF PickUpStep, NextParentUnused
  <2>2. CASE ~job.monitored
    <3>1. KindOf(x.parent) = "lost" /\ NumberOf(x.parent) = runs + 1 /\ runs \in Nat
      BY <1>4, <2>2, IdParts DEF PickUpStep, Types
    <3>2. Unused(x.parent)
      BY <3>1, ParentTells DEF Unused, RunEvent
    <3> QED
      BY <1>1, <1>4, <3>2 DEF PickUpStep
  <2> QED
    BY <2>1, <2>2
<1>5. ASSUME NEW w \in Worker, NEW x, NEW pc, ReportStep(w, x, pc)
      PROVE  Distinct'
  <2>1. KindOf(x.parent) = "run" /\ NumberOf(x.parent) = run[w].n /\ run[w].pc = "processing"
    BY <1>5, IdParts DEF ReportStep
  <2>2. Unused(x.parent)
    BY <2>1, ParentTells DEF Unused, Forms
  <2> QED
    BY <1>1, <1>5, <2>2 DEF ReportStep
<1>6. CASE emitted' = emitted
  BY <1>6 DEF Distinct, Queued
<1>7. ASSUME NEW w \in Worker, WorkerStep(w)
      PROVE  emitted' = emitted
  BY <1>7 DEF WorkerStep, Update, UpdateFails, SettleStep, Crash
<1>8. RequestStep \/ Land \/ Lapse => emitted' = emitted
  BY DEF RequestStep, Land, Lapse, Stall, Postpone
<1> QED
  BY <1>2, <1>3, <1>4, <1>5, <1>6, <1>7, <1>8, Steps

\* A step that emits nothing.
SilentStep == \/ RequestStep \/ Land \/ Lapse
              \/ \E w \in Worker : Busy(w) /\ WorkerStep(w)

\* How such a step, when it is no accident, moves the job and the runs.
LEMMA SilentMoves ==
    ASSUME Types, Lifecycle, Single, ~disturbed', SilentStep
    PROVE  /\ emitted' = emitted
           /\ \/ /\ job'.made = job.made /\ UNCHANGED run
                 /\ job'.state = job.state \/ (job.state = "absent" /\ job'.state = "waiting")
              \/ /\ job'.made = job.made /\ job.state = "active" /\ job'.state = "active"
                 /\ \E w \in Worker :
                       /\ run[w].pc = "updating"
                       /\ \A v \in Worker : run'[v].pc # "processing"
              \/ /\ job.state = "active" /\ \A v \in Worker : run'[v].pc = "idle"
                 /\ \/ job'.state = "active" /\ job'.made = job.made
                    \/ job'.state \in {"completed", "failed"}
                    \/ /\ job'.state \in {"waiting", "givenUp"} /\ job'.made = job.made + 1
                       /\ \E w \in Worker : run[w].pc = "thrown" /\ run[w].attempt < MaxAttempts
<1> USE TraceAssumption DEF Nobody
<1>1. CASE RequestStep \/ Land \/ Lapse
  <2>1. UNCHANGED <<emitted, run>> /\ job'.made = job.made
    BY <1>1 DEF RequestStep, Land, Lapse, Stall, Postpone, Types, JobType
  <2>2. job'.state = job.state \/ (job.state = "absent" /\ job'.state = "waiting")
    BY <1>1 DEF RequestStep, Land, Lapse, Stall, Postpone, Types, JobType
  <2> QED
    BY <2>1, <2>2
<1>2. CASE \E w \in Worker : Busy(w) /\ WorkerStep(w)
  <2>1. PICK w \in Worker : Busy(w) /\ WorkerStep(w)
    BY <1>2
  <2>2. /\ emitted' = emitted /\ job.owner = w /\ job.state = "active"
        /\ run[w].attempt = job.made + 1
    BY <2>1 DEF WorkerStep, Update, UpdateFails, SettleStep, Crash, Single, Lifecycle
  <2>3. \A v \in Worker \ {w} : run'[v].pc = "idle"
    BY <2>1, <2>2
    DEF WorkerStep, Update, UpdateFails, SettleStep, Crash, Single, Busy, Types
  <2>4. CASE Update(w)
    <3>1. job'.made = job.made /\ job'.state = "active"
      BY <2>2, <2>4 DEF Update, Types, JobType
    <3>2. run[w].pc = "updating" /\ run'[w].pc = "thrown"
      BY <2>4 DEF Update, Types, RunType
    <3> QED
      BY <2>2, <2>3, <3>1, <3>2
  <2>5. CASE Crash(w)
    <3>1. run'[w].pc = "idle" /\ job' = job
      BY <2>5 DEF Crash, Types, Idle
    <3> QED
      BY <2>2, <2>3, <3>1
  <2>6. CASE SettleStep(w)
    <3>1. run'[w].pc = "idle"
      BY <2>6 DEF SettleStep, Types, Idle
    <3>2. \A v \in Worker : run'[v].pc = "idle"
      BY <2>3, <3>1
    <3>3. \/ job'.state \in {"completed", "failed"}
          \/ /\ job'.state \in {"waiting", "givenUp"} /\ job'.made = job.made + 1
             /\ run[w].pc = "thrown" /\ run[w].attempt < MaxAttempts
      BY <2>2, <2>6, SettleFields
    <3> QED
      BY <2>2, <3>2, <3>3
  <2> QED
    BY <2>1, <2>4, <2>5, <2>6 DEF WorkerStep, UpdateFails
<1> QED
  BY <1>1, <1>2 DEF SilentStep

LEMMA EndedOnceNext ==
    ASSUME Types, Lifecycle, Forms, Announced, Single, Single', EndedOnce, ~disturbed', Next
    PROVE  EndedOnce'
<1> DEFINE Ends == Succeeded \cup Failed
<1>1. ASSUME NEW x, FinishStep(x) \/ AddStep(x)
      PROVE  EndedOnce'
  <2>1. Succeeded' = Succeeded /\ Failed' = Failed /\ UNCHANGED <<job, run>>
    BY <1>1, Tallies
    DEF FinishStep, AddStep, HttpEvent, PendingEvent, SuccessForm, FailureForm
  <2> QED
    BY <2>1 DEF EndedOnce, Busy, Over
<1>2. ASSUME NEW w \in Worker, NEW x, PickUpStep(w, x)
      PROVE  EndedOnce'
  <2>1. Succeeded' = Succeeded /\ Failed' = Failed
    BY <1>2, Tallies DEF PickUpStep, SuccessForm, FailureForm
  <2> QED
    BY <1>2, <2>1 DEF EndedOnce, PickUpStep
<1>3. ASSUME NEW w \in Worker, NEW x, NEW pc, ReportStep(w, x, pc)
      PROVE  EndedOnce'
  <2>1. Succeeded = {} /\ Failed = {} /\ run[w].pc = "processing" /\ Busy(w)
    BY <1>3 DEF ReportStep, EndedOnce, Busy, Over
  <2>2. Succeeded' \cup Failed' \in {{}, {x}}
    BY <1>3, <2>1, Tallies DEF ReportStep, SuccessForm, FailureForm
  <2>3. pc = "updating" => Succeeded' \cup Failed' = {}
    BY <1>3, <2>1, Tallies DEF ReportStep, SuccessForm, FailureForm, RetryForm
  <2>4. /\ job.state = "active" /\ job' = job
        /\ run'[w].pc = pc /\ run'[w].attempt = run[w].attempt
        /\ \A v \in Worker \ {w} : run'[v].pc = "idle"
        /\ pc \in {"succeeded", "updating", "thrown"}
        /\ pc = "thrown" => ~(run[w].attempt < MaxAttempts)
    BY <1>3, <2>1, TraceAssumption DEF ReportStep, Types, RunType, Single, Lifecycle, Busy, Nobody
  <2>5. run[w].attempt \in Nat /\ MaxAttempts \in Nat
    BY Limits DEF Types, RunType
  <2>6. pc \in {"succeeded", "thrown"} => \A v \in Worker : Busy(v)' => Over(v)'
    BY <2>4, <2>5 DEF Busy, Over
  <2> QED
    BY <2>2, <2>3, <2>4, <2>6 DEF EndedOnce
<1>4. CASE SilentStep
  <2>1. Succeeded' = Succeeded /\ Failed' = Failed
    BY <1>4, SilentMoves, SameTallies
  <2>2. CASE Ends = {}
    BY <2>1, <2>2 DEF EndedOnce
  <2>3. CASE Ends # {}
    <3>1. /\ job.state \notin {"absent", "waiting", "givenUp"}
          /\ \A w \in Worker : Busy(w) => Over(w)
      BY <2>3 DEF EndedOnce
    <3>2. \A w \in Worker : /\ run[w].pc # "updating"
                           /\ ~(run[w].pc = "thrown" /\ run[w].attempt < MaxAttempts)
      BY <3>1, Limits DEF Busy, Over, Types, RunType
    <3>3. \/ UNCHANGED run /\ job'.state = job.state
          \/ /\ \A v \in Worker : run'[v].pc = "idle"
             /\ job'.state \in {"active", "completed", "failed"}
      BY <1>4, <3>1, <3>2, SilentMoves
    <3> QED
      BY <2>1, <3>1, <3>3 DEF EndedOnce, Busy, Over
  <2> QED
    BY <2>2, <2>3
<1> QED
  BY <1>1, <1>2, <1>3, <1>4, Steps DEF SilentStep

\* One more attempt, numbered next.
LEMMA NextAttempt ==
    ASSUME NEW S, IsFiniteSet(S), {e.attempt : e \in S} = 1..Cardinality(S),
           NEW x, x \notin S, x.attempt = Cardinality(S) + 1
    PROVE  /\ IsFiniteSet(S \cup {x}) /\ Cardinality(S \cup {x}) = Cardinality(S) + 1
           /\ {e.attempt : e \in S \cup {x}} = 1..Cardinality(S \cup {x})
<1>1. /\ IsFiniteSet(S \cup {x}) /\ Cardinality(S) \in Nat
      /\ Cardinality(S \cup {x}) = Cardinality(S) + 1
  BY FS_AddElement, FS_CardinalityType
<1>2. {e.attempt : e \in S \cup {x}} = {e.attempt : e \in S} \cup {x.attempt}
  OBVIOUS
<1>3. \A c \in Nat : 1..(c + 1) = (1..c) \cup {c + 1}
  OBVIOUS
<1>4. 1..(Cardinality(S) + 1) = (1..Cardinality(S)) \cup {Cardinality(S) + 1}
  BY <1>1, <1>3
<1> QED
  BY <1>1, <1>2, <1>4

LEMMA BegunNext ==
    ASSUME Types, Lifecycle, Forms, Single, BegunCounted, ~disturbed', Next
    PROVE  BegunCounted'
<1>1. ASSUME NEW x, \/ FinishStep(x) \/ AddStep(x)
                    \/ \E w \in Worker : \E pc : ReportStep(w, x, pc)
      PROVE  BegunCounted'
  <2>1. Begun' = Begun /\ job' = job
    BY <1>1, Tallies
    DEF FinishStep, AddStep, ReportStep, HttpEvent, PendingEvent, SuccessForm, FailureForm,
        RetryForm
  <2> QED
    BY <2>1 DEF BegunCounted
<1>2. ASSUME NEW w \in Worker, NEW x, PickUpStep(w, x)
      PROVE  BegunCounted'
  <2>1. Begun' = Begun \cup {x}
    BY <1>2, Tallies DEF PickUpStep
  <2>2. x \notin Begun
    <3>1. KindOf(x.id) = "run" /\ NumberOf(x.id) = runs + 1 /\ runs \in Nat
      BY <1>2, IdParts DEF PickUpStep, Types
    <3> QED
      BY <3>1, FormOf DEF Begun, RunEvent
  <2>3. /\ job'.made = job.made /\ job'.state = "active"
        /\ x.attempt = Cardinality(Begun) + 1
    BY <1>2 DEF PickUpStep, BegunCounted, Types, JobType
  <2>4. /\ IsFiniteSet(Begun') /\ Cardinality(Begun') = Cardinality(Begun) + 1
        /\ {e.attempt : e \in Begun'} = 1..Cardinality(Begun')
    BY <2>1, <2>2, <2>3, NextAttempt DEF BegunCounted
  <2> QED
    BY <1>2, <2>3, <2>4 DEF BegunCounted, PickUpStep
<1>3. CASE SilentStep
  <2>1. Begun' = Begun
    BY <1>3, SilentMoves, SameTallies
  <2>2. /\ job'.state \in {"absent", "waiting"} => Cardinality(Begun) = job'.made
        /\ job'.state = "active" => Cardinality(Begun) = job'.made + 1
    BY <1>3, SilentMoves DEF BegunCounted
  <2> QED
    BY <2>1, <2>2 DEF BegunCounted
<1> QED
  BY <1>1, <1>2, <1>3, Steps DEF SilentStep

LEMMA RetriedNext ==
    ASSUME Types, Lifecycle, Single, Single', RetriedCounted, ~disturbed', Next
    PROVE  RetriedCounted'
<1> USE Limits
<1>1. ASSUME NEW x, FinishStep(x) \/ AddStep(x)
      PROVE  RetriedCounted'
  <2>1. Retried' = Retried /\ UNCHANGED <<job, run>>
    BY <1>1, Tallies DEF FinishStep, AddStep, HttpEvent, PendingEvent, RetryForm
  <2> QED
    BY <2>1 DEF RetriedCounted
<1>2. ASSUME NEW w \in Worker, NEW x, PickUpStep(w, x)
      PROVE  RetriedCounted'
  <2>1. Retried' = Retried
    BY <1>2, Tallies DEF PickUpStep, RetryForm
  <2>2. job'.made = job.made /\ job'.state = "active" /\ job.state = "waiting"
    BY <1>2 DEF PickUpStep, Types, JobType
  <2>3. Cardinality(Retried) <= job.made /\ Cardinality(Retried) \in Nat /\ job.made \in Nat
    BY <2>2, FS_CardinalityType DEF RetriedCounted, Types, JobType
  <2> QED
    BY <2>1, <2>2, <2>3 DEF RetriedCounted
<1>3. ASSUME NEW w \in Worker, NEW x, NEW pc, ReportStep(w, x, pc)
      PROVE  RetriedCounted'
  <2>1. /\ Cardinality(Retried) <= job.made /\ Cardinality(Retried) \in Nat
        /\ IsFiniteSet(Retried) /\ Cardinality(Retried) <= MaxAttempts - 1
    BY <1>3, FS_CardinalityType DEF ReportStep, RetriedCounted
  <2>2. /\ job' = job /\ job.state = "active" /\ job.made \in Nat
        /\ run[w].attempt = job.made + 1
        /\ \A v \in Worker : run'[v].pc # "processing"
    <3>1. job' = job /\ job.owner = w /\ job.made \in Nat /\ run[w].attempt = job.made + 1
      BY <1>3 DEF ReportStep, Single, Lifecycle, Busy, Types, JobType
    <3>2. job.state = "active"
      BY <3>1, TraceAssumption DEF Lifecycle, Nobody
    <3>3. \A v \in Worker \ {w} : run'[v].pc = "idle"
      BY <1>3, <3>1 DEF ReportStep, Types, Single, Busy
    <3>4. run'[w].pc # "processing"
      BY <1>3 DEF ReportStep, Types, RunType
    <3> QED
      BY <3>1, <3>2, <3>3, <3>4
  <2>3. CASE RetryForm(x)
    <3>1. run[w].attempt < MaxAttempts
      BY <1>3, <2>3 DEF ReportStep, RetryForm, SuccessForm, FailureForm
    <3>2. /\ Retried' = Retried \cup {x} /\ IsFiniteSet(Retried')
          /\ Cardinality(Retried') \in {Cardinality(Retried), Cardinality(Retried) + 1}
      BY <1>3, <2>1, <2>3, Tallies, FS_AddElement DEF ReportStep
    <3> QED
      BY <2>1, <2>2, <3>1, <3>2 DEF RetriedCounted
  <2>4. CASE ~RetryForm(x)
    <3>1. Retried' = Retried
      BY <1>3, <2>4, Tallies DEF ReportStep
    <3> QED
      BY <2>1, <2>2, <3>1 DEF RetriedCounted
  <2> QED
    BY <2>3, <2>4
<1>4. CASE SilentStep
  <2>1. Retried' = Retried
    BY <1>4, SilentMoves, SameTallies
  <2>2. job.made \in Nat
    BY DEF Types, JobType
  <2>3. \/ /\ job'.made = job.made /\ UNCHANGED run
           /\ job'.state = job.state \/ (job.state = "absent" /\ job'.state = "waiting")
        \/ /\ \A v \in Worker : run'[v].pc # "processing"
           /\ job.state = "active"
           /\ \/ job'.state = "active" /\ job'.made = job.made
              \/ job'.state \in {"completed", "failed"}
              \/ job'.state \in {"waiting", "givenUp"} /\ job'.made = job.made + 1
    BY <1>4, SilentMoves
  <2> QED
    BY <2>1, <2>2, <2>3 DEF RetriedCounted
<1> QED
  BY <1>1, <1>2, <1>3, <1>4, Steps DEF SilentStep

-----------------------------------------------------------------------------
(* The inductive invariant. *)

LEMMA InitIInv == Init => IInv
<1> SUFFICES ASSUME Init PROVE IInv
  OBVIOUS
<1>1. \A w \in Worker : run[w] = Idle
  BY DEF Init
<1>2. \A e, f \in emitted : /\ KindOf(e.id) = "host" /\ ~Queued(e)
                            /\ e.id = f.id => e = f
  BY TraceAssumption DEF Init, KindOf, Queued
<1>3. /\ job.state \in {"absent", "waiting"} /\ job.made = 0 /\ job.parent = Pending
      /\ job.owner = Nobody
  BY DEF Init
<1>4. Types
  <2>1. job \in JobType
    BY Limits DEF Init, JobType, ParentId
  <2>2. run \in [Worker -> RunType]
    BY DEF Init, RunType, Idle
  <2>3. call \in {"none", "adding"} /\ request = "open"
    <3>1. PICK plain \in BOOLEAN : call = IF plain \/ emitted # {} THEN "none" ELSE "adding"
      BY Zenon DEF Init
    <3>2. request = "open"
      BY Zenon DEF Init
    <3> QED
      BY <3>1, <3>2
  <2>4. runs \in 0..MaxRuns /\ stalls \in 0..MaxStalls + 1 /\ disturbed \in BOOLEAN
    <3>1. runs = 0
      BY Zenon DEF Init
    <3>2. stalls = 0
      BY Zenon DEF Init
    <3>3. disturbed = FALSE
      BY Zenon DEF Init
    <3>4. runs \in 0..MaxRuns
      BY <3>1, Limits
    <3>5. stalls \in 0..MaxStalls + 1
      BY <3>2, Limits
    <3> QED
      BY <3>3, <3>4, <3>5
  <2> QED
    BY <2>1, <2>2, <2>3, <2>4 DEF Types
<1>5. Lifecycle
  BY <1>1, <1>3, Limits DEF Init, Lifecycle, Busy, Idle
<1>6. Forms
  BY <1>1, <1>2, IdParts
  DEF Forms, HostEvent, OutcomeEvent, RetryEvent, SuccessEvent, FailureEvent, Idle
<1>7. Parents
  BY <1>1, <1>2, <1>3, ParentsParts
  DEF JobParent, RunParents, EventParents, Busy, Idle
<1>8. Announced
  BY <1>1, <1>3 DEF Announced, Idle
<1>9. Single /\ NextParentUnused /\ Distinct
  BY <1>1, <1>2 DEF Single, NextParentUnused, Distinct, Unused, Busy, Idle
<1>10. Succeeded = {} /\ Failed = {} /\ Begun = {} /\ Retried = {}
  BY <1>2 DEF Succeeded, Failed, Begun, Retried, Queued
<1>11. Counted
  <2>1. IsFiniteSet({}) /\ Cardinality({}) = 0
    BY FS_EmptySet
  <2>2. {e.attempt : e \in {}} = 1..0
    OBVIOUS
  <2> QED
    BY <1>1, <1>3, <1>10, <2>1, <2>2, Limits
    DEF Counted, EndedOnce, BegunCounted, RetriedCounted, Idle
<1> QED
  BY <1>4, <1>5, <1>6, <1>7, <1>8, <1>9, <1>11 DEF IInv, Undisturbed

LEMMA NextIInv == IInv /\ [Next]_vars => IInv'
<1> SUFFICES ASSUME IInv, [Next]_vars PROVE IInv'
  OBVIOUS
<1> USE DEF IInv
<1>1. CASE Next
  <2>1. Types' /\ Lifecycle' /\ Forms' /\ Parents' /\ Announced'
    BY <1>1, TypesNext, LifecycleNext, FormsNext, ParentsNext, AnnouncedNext
  <2>2. ASSUME ~disturbed'
        PROVE  Single' /\ NextParentUnused' /\ Distinct' /\ Counted'
    <3>1. ~disturbed
      BY <1>1, <2>2, Steps
      DEF FinishStep, AddStep, RequestStep, Land, Lapse, Stall, Postpone,
          PickUpStep, ReportStep, WorkerStep,
          Update, UpdateFails, SettleStep, Crash
    <3>2. Single /\ NextParentUnused /\ Distinct /\ Counted
      BY <3>1 DEF Undisturbed
    <3>3. Single'
      BY <1>1, <2>2, <3>2, SingleNext
    <3>4. NextParentUnused' /\ Distinct'
      BY <1>1, <2>1, <2>2, <3>2, <3>3, UnusedNext, DistinctNext
    <3>5. Counted'
      BY <1>1, <2>1, <2>2, <3>2, <3>3, EndedOnceNext, BegunNext, RetriedNext DEF Counted
    <3> QED
      BY <3>3, <3>4, <3>5
  <2> QED
    BY <2>1, <2>2 DEF Undisturbed
<1>2. CASE UNCHANGED vars
  BY <1>2
  DEF vars, Types, Lifecycle, Forms, Parents, Announced, Undisturbed, Busy, HttpEvent, PendingEvent,
      RunEvent, OutcomeEvent, RetryEvent, SuccessEvent, FailureEvent, HostEvent, Queued, Emitted,
      Causal, Succeeded, Failed, Begun, Retried, Single, NextParentUnused, Distinct, Counted,
      EndedOnce, BegunCounted, RetriedCounted, Unused, Over
<1> QED
  BY <1>1, <1>2

LEMMA SpecIInv == Spec => []IInv
  BY InitIInv, NextIInv, PTL DEF Spec

-----------------------------------------------------------------------------
(* The request and its one trace. *)

\* The events of the job that the request added are in one trace, and so is what its runs
\* will emit.
OneTrace ==
    /\ job.monitored /\ job.trace = TraceId
    /\ \A w \in Worker : Busy(w) => run[w].trace = TraceId
    /\ \A e \in emitted :
          e.trace = TraceId /\ KindOf(e.id) # "host" /\ KindOf(e.parent) # "lost"

\* What the request has said of itself, and of its job.
RequestTold ==
    /\ request = "finished" => \E e \in emitted : e.id = Http
    /\ call = "returned" => \E e \in emitted : e.id = Pending
    /\ \A e \in emitted : e.id = Http => e.parent = NoParent
    /\ call # "none" => OneTrace

Gathered == IsFiniteSet(emitted) /\ RequestTold

\* At first there is nothing but the events of a handler.
LEMMA GatheredInit == Init => Gathered
<1> SUFFICES ASSUME Init PROVE Gathered
  OBVIOUS
<1>1. /\ \A e \in emitted : KindOf(e.id) = "host"
      /\ IsFiniteSet(emitted)
  BY TraceAssumption DEF Init, KindOf
<1>2. \A e \in emitted : e.id # Http
  BY <1>1, IdParts
<1>3. request = "open" /\ run = [w \in Worker |-> Idle]
  BY Zenon DEF Init
<1>4. PICK plain \in BOOLEAN :
         /\ call = IF plain \/ emitted # {} THEN "none" ELSE "adding"
         /\ job = [state |-> IF plain THEN "waiting" ELSE "absent", made |-> 0,
                   monitored |-> ~plain, parent |-> Pending, trace |-> TraceId,
                   owner |-> Nobody]
  BY Zenon DEF Init
<1>5. call # "none" => OneTrace
  BY <1>3, <1>4 DEF OneTrace, Busy, Idle
<1>6. call # "returned"
  BY <1>4
<1> QED
  BY <1>1, <1>2, <1>3, <1>5, <1>6 DEF Gathered, RequestTold

\* What a step adds, or one event.
LEMMA FiniteNext ==
    ASSUME IsFiniteSet(emitted), Next
    PROVE  IsFiniteSet(emitted')
<1>1. emitted' = emitted \/ \E x : emitted' = emitted \cup {x}
  BY Steps DEF FinishStep, AddStep, RequestStep, Land, Lapse, Stall, Postpone,
               PickUpStep, ReportStep, WorkerStep,
               Update, UpdateFails, SettleStep, Crash
<1> QED
  BY <1>1, FS_AddElement

\* Events, runs and the job keep the trace of the request.
LEMMA OneTraceNext ==
    ASSUME Types, OneTrace, Next
    PROVE  OneTrace'
<1>1. ASSUME NEW x, FinishStep(x) \/ AddStep(x)
      PROVE  OneTrace'
  <2>1. /\ emitted' = emitted \cup {x} /\ UNCHANGED <<job, run>> /\ x.trace = TraceId
        /\ x.id \in {Http, Pending} /\ x.parent \in {NoParent, Http}
    BY <1>1 DEF FinishStep, AddStep, HttpEvent, PendingEvent
  <2>2. KindOf(x.id) # "host" /\ KindOf(x.parent) # "lost"
    BY <2>1, IdParts DEF KindOf, NoParent
  <2> QED
    BY <2>1, <2>2 DEF OneTrace, Busy
<1>2. CASE RequestStep \/ Land \/ Lapse
  <2>1. /\ UNCHANGED <<emitted, run>>
        /\ job'.monitored = job.monitored /\ job'.trace = job.trace
    BY <1>2 DEF RequestStep, Land, Lapse, Stall, Postpone, Types, JobType
  <2> QED
    BY <2>1 DEF OneTrace, Busy
<1>3. ASSUME NEW w \in Worker, NEW x, PickUpStep(w, x)
      PROVE  OneTrace'
  <2>1. /\ x.trace = TraceId /\ x.id = RunId(runs + 1) /\ x.parent = job.parent
        /\ emitted' = emitted \cup {x}
    BY <1>3 DEF PickUpStep, OneTrace
  <2>2. KindOf(x.id) # "host" /\ KindOf(x.parent) # "lost"
    BY <2>1, IdParts, JobParentKind
  <2>3. /\ job'.monitored = job.monitored /\ job'.trace = job.trace
        /\ run'[w].trace = TraceId /\ \A v \in Worker \ {w} : run'[v] = run[v]
    BY <1>3, <2>1 DEF PickUpStep, Types, JobType
  <2> QED
    BY <2>1, <2>2, <2>3 DEF OneTrace, Busy
<1>4. ASSUME NEW w \in Worker, NEW x, NEW pc, ReportStep(w, x, pc)
      PROVE  OneTrace'
  <2>1. /\ x.trace = run[w].trace /\ emitted' = emitted \cup {x} /\ job' = job
        /\ x.id \in {EndId(run[w].n), RetryId(run[w].n)} /\ x.parent = RunId(run[w].n)
        /\ run[w].pc = "processing"
    BY <1>4 DEF ReportStep
  <2>2. KindOf(x.id) # "host" /\ KindOf(x.parent) # "lost"
    BY <2>1, IdParts
  <2>3. run'[w].trace = run[w].trace /\ \A v \in Worker \ {w} : run'[v] = run[v]
    BY <1>4 DEF ReportStep, Types, RunType
  <2> QED
    BY <2>1, <2>2, <2>3 DEF OneTrace, Busy
<1>5. ASSUME NEW w \in Worker, Busy(w), WorkerStep(w)
      PROVE  OneTrace'
  <2>1. CASE Update(w)
    <3>1. /\ emitted' = emitted /\ job'.monitored /\ job'.trace = run[w].trace
          /\ run'[w].trace = run[w].trace /\ \A v \in Worker \ {w} : run'[v] = run[v]
      BY <2>1 DEF Update, NextTrace, Types, JobType, RunType
    <3> QED
      BY <1>5, <3>1 DEF OneTrace, Busy
  <2>2. CASE UpdateFails(w)
    <3>1. /\ UNCHANGED <<emitted, job>>
          /\ run'[w].trace = run[w].trace /\ \A v \in Worker \ {w} : run'[v] = run[v]
      BY <2>2 DEF UpdateFails, Types, RunType
    <3> QED
      BY <1>5, <3>1 DEF OneTrace, Busy
  <2>3. CASE SettleStep(w) \/ Crash(w)
    <3>1. /\ emitted' = emitted /\ job'.monitored = job.monitored /\ job'.trace = job.trace
      BY <2>3 DEF SettleStep, Crash, Types, JobType
    <3>2. run'[w].pc = "idle" /\ \A v \in Worker \ {w} : run'[v] = run[v]
      BY <2>3 DEF SettleStep, Crash, Types, Idle
    <3> QED
      BY <3>1, <3>2 DEF OneTrace, Busy
  <2> QED
    BY <1>5, <2>1, <2>2, <2>3 DEF WorkerStep
<1> QED
  BY <1>1, <1>2, <1>3, <1>4, <1>5, Steps

\* What the request has told stays told.
LEMMA GatheredNext ==
    ASSUME Types, Gathered, Next
    PROVE  Gathered'
<1>1. ASSUME NEW x, FinishStep(x)
      PROVE  RequestTold'
  <2>1. /\ x.id = Http /\ x.parent = NoParent
        /\ emitted' = emitted \cup {x} /\ call' = call
    BY <1>1 DEF FinishStep, HttpEvent
  <2>2. call' # "none" => OneTrace'
    BY <2>1, OneTraceNext DEF Gathered, RequestTold
  <2> QED
    BY <2>1, <2>2 DEF Gathered, RequestTold
<1>2. ASSUME NEW x, AddStep(x)
      PROVE  RequestTold'
  <2>1. /\ x.id = Pending /\ call # "none"
        /\ emitted' = emitted \cup {x} /\ request' = request
    BY <1>2 DEF AddStep, PendingEvent
  <2>2. x.id # Http
    BY <2>1 DEF Http, Pending
  <2>3. OneTrace'
    BY <2>1, OneTraceNext DEF Gathered, RequestTold
  <2> QED
    BY <2>1, <2>2, <2>3 DEF Gathered, RequestTold
<1>3. ASSUME RequestStep
      PROVE  RequestTold'
  <2>1. /\ emitted' = emitted
        /\ call' = "returned" => call = "returned"
        /\ request' = "finished" => request = "finished"
        /\ call' # "none" => call # "none"
    BY <1>3 DEF RequestStep
  <2>2. call' # "none" => OneTrace'
    BY <2>1, OneTraceNext DEF Gathered, RequestTold
  <2> QED
    BY <2>1, <2>2 DEF Gathered, RequestTold
<1>4. ASSUME UNCHANGED <<request, call>>,
             emitted' = emitted \/ \E x : emitted' = emitted \cup {x} /\ x.id # Http
      PROVE  RequestTold'
  <2>1. call' # "none" => OneTrace'
    BY <1>4, OneTraceNext DEF Gathered, RequestTold
  <2> QED
    BY <1>4, <2>1 DEF Gathered, RequestTold
<1>5. ASSUME Land \/ Lapse
      PROVE  RequestTold'
  <2>1. UNCHANGED <<request, call>> /\ emitted' = emitted
    BY <1>5 DEF Land, Lapse, Stall, Postpone
  <2> QED
    BY <1>4, <2>1
<1>6. ASSUME NEW w \in Worker, Busy(w), WorkerStep(w)
      PROVE  RequestTold'
  <2>1. UNCHANGED <<request, call>> /\ emitted' = emitted
    BY <1>6 DEF WorkerStep, Update, UpdateFails, SettleStep, Crash
  <2> QED
    BY <1>4, <2>1
<1>7. ASSUME NEW w \in Worker, NEW x, PickUpStep(w, x) \/ \E pc : ReportStep(w, x, pc)
      PROVE  RequestTold'
  <2>1. /\ KindOf(x.id) \in {"run", "retry", "end"} /\ emitted' = emitted \cup {x}
        /\ UNCHANGED <<request, call>>
    BY <1>7, IdParts DEF PickUpStep, ReportStep
  <2>2. x.id # Http
    BY <2>1, IdParts
  <2> QED
    BY <1>4, <2>1, <2>2
<1>8. RequestTold'
  BY <1>1, <1>2, <1>3, <1>5, <1>6, <1>7, Steps
<1> QED
  BY <1>8, FiniteNext DEF Gathered

\* Both invariants hold always.
LEMMA SpecGathered == Spec => [](IInv /\ Gathered)
<1>1. IInv /\ Gathered /\ [Next]_vars => Gathered'
  <2>1. ASSUME IInv, Gathered, Next
        PROVE  Gathered'
    BY <2>1, GatheredNext DEF IInv
  <2>2. ASSUME Gathered, UNCHANGED vars
        PROVE  Gathered'
    BY <2>2 DEF vars, Gathered, RequestTold, OneTrace, Busy
  <2> QED
    BY <2>1, <2>2
<1> QED
  BY <1>1, GatheredInit, SpecIInv, PTL DEF Spec

-----------------------------------------------------------------------------
(* Induction and recursion over numbers and finite sets. *)

\* A set of numbers that is not empty has a least one.
LEMMA Least ==
    ASSUME NEW T \in SUBSET Nat, T # {}
    PROVE  \E n \in T : \A m \in T : n <= m
<1>1. IsWellFoundedOn(OpToRel(<, Nat), Nat)
  BY NatLessThanWellFounded
<1>2. PICK n \in T : \A m \in T : ~(<<m, n>> \in OpToRel(<, Nat))
  BY <1>1, WFMin
<1>3. \A m \in T : ~(m < n)
  BY <1>2 DEF OpToRel
<1> QED
  BY <1>3

\* Induction up to N: T holds every number when it holds 0 and, with each number, the next.
LEMMA UpTo ==
    ASSUME NEW N \in Nat, NEW T, 0 \in T, \A n \in 1..N : n - 1 \in T => n \in T
    PROVE  \A n \in 0..N : n \in T
<1> DEFINE Bad == {n \in 0..N : n \notin T}
<1>1. SUFFICES ASSUME Bad # {} PROVE FALSE
  OBVIOUS
<1>2. PICK n \in Bad : \A m \in Bad : n <= m
  <2>1. Bad \in SUBSET Nat
    OBVIOUS
  <2> HIDE DEF Bad
  <2> QED
    BY <1>1, <2>1, Least
<1>3. n \in 1..N /\ n - 1 \in 0..N /\ n - 1 \notin Bad
  BY <1>2
<1> QED
  BY <1>2, <1>3

\* The states v that N steps of the function next lead through from x.
Iterates(v, N, x, next) == v = [n \in 0..N |-> IF n = 0 THEN x ELSE next[v[n - 1]]]

\* Iterating a function some number of times has a result each time.
LEMMA Iteration ==
    ASSUME NEW N \in Nat, NEW D, NEW next \in [D -> D], NEW x \in D
    PROVE  \E v \in [0..N -> D] : Iterates(v, N, x, next)
<1> DEFINE Is(v, k) == v = [n \in 0..k |-> IF n = 0 THEN x ELSE next[v[n - 1]]]
           T == {k \in 0..N : \E v \in [0..k -> D] : Is(v, k)}
<1>1. 0 \in T
  <2> DEFINE v == [n \in 0..0 |-> x]
  <2>1. v \in [0..0 -> D] /\ Is(v, 0) /\ 0 \in 0..N
    OBVIOUS
  <2> HIDE DEF v
  <2> QED
    BY <2>1
<1>2. ASSUME NEW k \in 1..N, k - 1 \in T PROVE k \in T
  <2>1. PICK v \in [0..(k - 1) -> D] : Is(v, k - 1)
    BY <1>2
  <2> DEFINE w == [n \in 0..k |-> IF n = k THEN next[v[k - 1]] ELSE v[n]]
  <2>2. w \in [0..k -> D]
    OBVIOUS
  <2>3. ASSUME NEW n \in 0..k PROVE w[n] = IF n = 0 THEN x ELSE next[w[n - 1]]
    <3>1. CASE n = k
      BY <3>1
    <3>2. CASE n # k
      <4>1. n \in 0..(k - 1) /\ (n # 0 => n - 1 \in 0..(k - 1) /\ n - 1 \in 0..k /\ n - 1 # k)
        BY <3>2
      <4>2. v[n] = IF n = 0 THEN x ELSE next[v[n - 1]]
        BY <2>1, <4>1
      <4> QED
        BY <3>2, <4>1, <4>2
    <3> QED
      BY <3>1, <3>2
  <2>4. Is(w, k)
    <3> HIDE DEF w
    <3> QED
      BY <2>2, <2>3
  <2> HIDE DEF w
  <2> QED
    BY <2>2, <2>4
<1>3. N \in T
  <2> HIDE DEF T
  <2> QED
    BY <1>1, <1>2, UpTo
<1> QED
  BY <1>3 DEF Iterates

\* Induction over the subsets of a finite set.
One(s) == CHOOSE x \in s : TRUE

\* What holds of the empty set, and of a set when it holds without one element, holds of
\* every finite set.
LEMMA SetInduction ==
    ASSUME NEW S, IsFiniteSet(S), NEW T, {} \in T,
           \A s \in SUBSET S : s # {} /\ s \ {One(s)} \in T => s \in T
    PROVE  S \in T
<1> DEFINE Bad == {n \in Nat : \E s \in SUBSET S : Cardinality(s) = n /\ s \notin T}
<1>1. \A s \in SUBSET S : IsFiniteSet(s) /\ Cardinality(s) \in Nat
  BY FS_Subset, FS_CardinalityType
<1>2. SUFFICES ASSUME Bad # {} PROVE FALSE
  BY <1>1
<1>3. PICK n \in Bad : \A m \in Bad : n <= m
  <2>1. Bad \in SUBSET Nat
    OBVIOUS
  <2> HIDE DEF Bad
  <2> QED
    BY <1>2, <2>1, Least
<1>4. PICK s \in SUBSET S : Cardinality(s) = n /\ s \notin T
  BY <1>3
<1>5. s # {} /\ s \ {One(s)} \notin T /\ One(s) \in s
  BY <1>4 DEF One
<1>6. Cardinality(s \ {One(s)}) = n - 1 /\ n - 1 \in Nat
  <2>1. IsFiniteSet(s \ {One(s)}) /\ Cardinality(s \ {One(s)}) = Cardinality(s) - 1
    BY <1>1, <1>5, FS_RemoveElement
  <2> QED
    BY <1>1, <1>4, <2>1
<1>7. n - 1 \in Bad
  BY <1>5, <1>6
<1> QED
  BY <1>3, <1>6, <1>7

\* Chronological(), as a function of the parts of a set.

-----------------------------------------------------------------------------
(* The chronological order. *)

Place(list, e) ==
    InsertAt(list, 1 + Cardinality({i \in DOMAIN list : list[i].at <= e.at}), e)
Sorting(S, f) ==
    f = [s \in SUBSET S |-> IF s = {} THEN <<>> ELSE Place(f[s \ {One(s)}], One(s))]
Sorted(S) == CHOOSE f : Sorting(S, f)

\* Chronological() by the recursion that the fold stands for.
LEMMA ChronologicalIs == \A S : Chronological(S) = Sorted(S)[S]
  BY DEF Chronological, FoldSet, MapThenFoldSet, Sorted, Sorting, Place, One

\* That recursion defines a function on the subsets of a finite set.
LEMMA SortedExists ==
    ASSUME NEW S, IsFiniteSet(S)
    PROVE  Sorting(S, Sorted(S))
<1> DEFINE Small(n) == {s \in SUBSET S : Cardinality(s) <= n}
           Next1(g, s) == IF s = {} THEN <<>> ELSE Place(g[s \ {One(s)}], One(s))
           Good(g, n) == g = [s \in Small(n) |-> Next1(g, s)]
           T == {n \in 0..Cardinality(S) : \E g : Good(g, n)}
<1>1. \A s \in SUBSET S : /\ IsFiniteSet(s) /\ Cardinality(s) \in Nat
                           /\ Cardinality(s) <= Cardinality(S)
  BY FS_Subset, FS_CardinalityType
<1>2. Cardinality(S) \in Nat
  BY FS_CardinalityType
<1>3. 0 \in T
  <2> DEFINE g == [s \in Small(0) |-> <<>>]
  <2>1. \A s \in Small(0) : s = {}
    BY <1>1, FS_EmptySet
  <2>2. Good(g, 0)
    BY <2>1
  <2> HIDE DEF Good
  <2> QED
    BY <1>2, <2>2
<1>4. ASSUME NEW n \in 1..Cardinality(S), n - 1 \in T PROVE n \in T
  <2>1. PICK g : Good(g, n - 1)
    BY <1>4
  <2> DEFINE h == [s \in Small(n) |-> Next1(g, s)]
  <2>2. ASSUME NEW s \in Small(n), s # {}
        PROVE  /\ s \ {One(s)} \in Small(n - 1) /\ s \ {One(s)} \in Small(n)
               /\ h[s \ {One(s)}] = g[s \ {One(s)}]
    <3>1. One(s) \in s
      BY <2>2 DEF One
    <3>2. Cardinality(s \ {One(s)}) = Cardinality(s) - 1
      BY <1>1, <3>1, FS_RemoveElement
    <3>3. /\ s \ {One(s)} \in Small(n - 1) /\ s \ {One(s)} \in Small(n)
      BY <1>1, <3>2, <1>4
    <3> QED
      BY <3>3, <2>1
  <2>3. Good(h, n)
    BY <2>2
  <2> HIDE DEF Good
  <2> QED
    BY <2>3
<1>5. Small(Cardinality(S)) = SUBSET S
  BY <1>1
<1>6. PICK g : Good(g, Cardinality(S))
  <2> HIDE DEF T
  <2>1. Cardinality(S) \in T
    BY <1>2, <1>3, <1>4, UpTo
  <2> QED
    BY <2>1 DEF T
<1>7. Sorting(S, g)
  BY <1>5, <1>6 DEF Sorting
<1> QED
  BY <1>7 DEF Sorted

\* Inserting an element anywhere.
LEMMA InsertProperties ==
    ASSUME NEW D, NEW list \in Seq(D), NEW e \in D, NEW i \in 1..(Len(list) + 1)
    PROVE  /\ InsertAt(list, i, e) \in Seq(D)
           /\ Len(InsertAt(list, i, e)) = Len(list) + 1
           /\ ToSet(InsertAt(list, i, e)) = ToSet(list) \cup {e}
<1> DEFINE a == SubSeq(list, 1, i - 1)
           b == SubSeq(list, i, Len(list))
           n == Len(list)
<1>1. /\ n \in Nat /\ i \in Int /\ \A k \in 1..n : list[k] \in D
  OBVIOUS
<1>2. /\ a \in Seq(D) /\ Len(a) = i - 1 /\ \A k \in 1..(i - 1) : a[k] = list[k]
  BY <1>1, SubSeqProperties
<1>3. /\ b \in Seq(D) /\ Len(b) = n - i + 1 /\ \A k \in 1..(n - i + 1) : b[k] = list[i + k - 1]
  BY <1>1, SubSeqProperties
<1> HIDE DEF a, b
<1>4. /\ a \o <<e>> \in Seq(D) /\ Len(a \o <<e>>) = i
      /\ (a \o <<e>>)[i] = e /\ \A k \in 1..(i - 1) : (a \o <<e>>)[k] = list[k]
  BY <1>1, <1>2
<1> DEFINE c == a \o <<e>>
           d == c \o b
<1> HIDE DEF c
<1>5. /\ d \in Seq(D) /\ Len(d) = n + 1
      /\ \A k \in 1..(n + 1) : d[k] = IF k <= i THEN c[k] ELSE b[k - i]
  <2>1. c \in Seq(D) /\ Len(c) = i
    BY <1>4 DEF c
  <2>2. /\ d \in Seq(D) /\ Len(d) = Len(c) + Len(b)
        /\ \A k \in 1..(Len(c) + Len(b)) : d[k] = IF k <= Len(c) THEN c[k] ELSE b[k - Len(c)]
    BY <1>3, <2>1, ConcatProperties
  <2>3. Len(c) + Len(b) = n + 1
    BY <1>1, <1>3, <2>1
  <2> HIDE DEF d
  <2> QED
    BY <2>1, <2>2, <2>3
<1> HIDE DEF d
<1>6. \A k \in 1..(n + 1) : d[k] = IF k < i THEN list[k] ELSE IF k = i THEN e ELSE list[k - 1]
  BY <1>1, <1>3, <1>4, <1>5 DEF c
<1>7. DOMAIN d = 1..(n + 1) /\ DOMAIN list = 1..n
  BY <1>1, <1>5
<1>8. ToSet(d) = ToSet(list) \cup {e}
  <2>1. ToSet(d) \subseteq ToSet(list) \cup {e}
    BY <1>1, <1>6, <1>7 DEF ToSet
  <2>2. ASSUME NEW k \in 1..n PROVE list[k] \in ToSet(d)
    <3>1. CASE k < i
      BY <1>1, <1>6, <1>7, <3>1 DEF ToSet
    <3>2. CASE ~(k < i)
      <4>1. k + 1 \in 1..(n + 1) /\ d[k + 1] = list[k]
        BY <1>1, <1>6, <3>2
      <4> QED
        BY <1>7, <4>1 DEF ToSet
    <3> QED
      BY <3>1, <3>2
  <2>3. e \in ToSet(d)
    BY <1>1, <1>6, <1>7 DEF ToSet
  <2> QED
    BY <1>7, <2>1, <2>2, <2>3 DEF ToSet
<1> QED
  BY <1>5, <1>8 DEF InsertAt, a, b, c, d

\* Sorting a set gives each of its elements once.
LEMMA ChronologicalType ==
    ASSUME NEW S, IsFiniteSet(S)
    PROVE  /\ Chronological(S) \in Seq(S)
           /\ Len(Chronological(S)) = Cardinality(S)
           /\ ToSet(Chronological(S)) = S
<1> DEFINE f == Sorted(S)
           T == {s \in SUBSET S : /\ f[s] \in Seq(S) /\ Len(f[s]) = Cardinality(s)
                                  /\ ToSet(f[s]) = s}
<1>1. Sorting(S, f)
  BY SortedExists
<1> HIDE DEF f
<1>2. {} \in T
  <2>1. f[{}] = <<>>
    BY <1>1 DEF Sorting
  <2>2. <<>> \in Seq(S) /\ Len(<<>>) = 0 /\ ToSet(<<>>) = {} /\ Cardinality({}) = 0
    BY FS_EmptySet DEF ToSet
  <2> QED
    BY <2>1, <2>2
<1>3. ASSUME NEW s \in SUBSET S, s # {}, s \ {One(s)} \in T PROVE s \in T
  <2> DEFINE e == One(s)
             r == s \ {e}
             list == f[r]
             c == Cardinality({i \in DOMAIN list : list[i].at <= e.at})
  <2>1. e \in s /\ r \in T /\ s = r \cup {e}
    BY <1>3 DEF One
  <2>2. IsFiniteSet(s) /\ Cardinality(s) \in Nat /\ Cardinality(r) = Cardinality(s) - 1
    BY <2>1, FS_Subset, FS_RemoveElement, FS_CardinalityType
  <2>3. f[s] = Place(list, e)
    BY <1>1, <1>3 DEF Sorting
  <2>4. list \in Seq(S) /\ Len(list) = Cardinality(r) /\ ToSet(list) = r
    BY <2>1
  <2> HIDE DEF e, r, list
  <2>5. c \in Nat /\ c <= Len(list)
    <3>1. DOMAIN list = 1..Len(list) /\ Len(list) \in Nat
      BY <2>4
    <3>2. IsFiniteSet(1..Len(list)) /\ Cardinality(1..Len(list)) = Len(list)
      <4>1. /\ IsFiniteSet(1..Len(list))
            /\ Cardinality(1..Len(list)) = IF 1 > Len(list) THEN 0 ELSE Len(list) - 1 + 1
        BY <3>1, FS_Interval
      <4> QED
        BY <3>1, <4>1
    <3>3. {i \in DOMAIN list : list[i].at <= e.at} \subseteq 1..Len(list)
      BY <3>1
    <3> QED
      BY <3>2, <3>3, FS_Subset, FS_CardinalityType
  <2>6. 1 + c \in 1..(Len(list) + 1)
    BY <2>4, <2>5
  <2> HIDE DEF c
  <2>7. f[s] = InsertAt(list, 1 + c, e)
    BY <2>3 DEF Place, c
  <2>8. /\ f[s] \in Seq(S) /\ Len(f[s]) = Len(list) + 1 /\ ToSet(f[s]) = ToSet(list) \cup {e}
    <3>1. e \in S
      BY <2>1
    <3> QED
      BY <3>1, <2>4, <2>6, <2>7, InsertProperties
  <2>9. Len(f[s]) = Cardinality(s) /\ ToSet(f[s]) = s
    BY <2>1, <2>2, <2>4, <2>8
  <2> QED
    BY <2>8, <2>9
<1>4. S \in T
  <2> HIDE DEF T
  <2> QED
    BY <1>2, <1>3, SetInduction
<1> QED
  BY <1>4, ChronologicalIs DEF f

-----------------------------------------------------------------------------
(* Sequences, and the visits of orderTraceByParent(). *)

\* The elements of sequences that the visits build.
LEMMA SetOfConcat ==
    ASSUME NEW D, NEW s \in Seq(D), NEW t \in Seq(D)
    PROVE  s \o t \in Seq(D) /\ Len(s \o t) = Len(s) + Len(t)
           /\ ToSet(s \o t) = ToSet(s) \cup ToSet(t)
<1> DEFINE u == s \o t
<1>1. /\ u \in Seq(D) /\ Len(u) = Len(s) + Len(t)
      /\ \A i \in 1..(Len(s) + Len(t)) : u[i] = IF i <= Len(s) THEN s[i] ELSE t[i - Len(s)]
  BY ConcatProperties
<1>2. Len(s) \in Nat /\ Len(t) \in Nat
  OBVIOUS
<1>3. DOMAIN s = 1..Len(s) /\ DOMAIN t = 1..Len(t) /\ DOMAIN u = 1..(Len(s) + Len(t))
  BY <1>1
<1> HIDE DEF u
<1>4. ToSet(u) \subseteq ToSet(s) \cup ToSet(t)
  <2> SUFFICES ASSUME NEW i \in 1..(Len(s) + Len(t)) PROVE u[i] \in ToSet(s) \cup ToSet(t)
    BY <1>3 DEF ToSet
  <2>1. CASE i <= Len(s)
    BY <1>1, <1>2, <1>3, <2>1 DEF ToSet
  <2>2. CASE ~(i <= Len(s))
    <3>1. i - Len(s) \in 1..Len(t) /\ u[i] = t[i - Len(s)]
      BY <1>1, <1>2, <2>2
    <3> QED
      BY <1>3, <3>1 DEF ToSet
  <2> QED
    BY <2>1, <2>2
<1>5. ASSUME NEW i \in 1..Len(s) PROVE s[i] \in ToSet(u)
  <2>1. i \in 1..(Len(s) + Len(t)) /\ u[i] = s[i]
    BY <1>1, <1>2
  <2> QED
    BY <1>3, <2>1 DEF ToSet
<1>6. ASSUME NEW i \in 1..Len(t) PROVE t[i] \in ToSet(u)
  <2> DEFINE k == i + Len(s)
  <2>1. k \in 1..(Len(s) + Len(t)) /\ ~(k <= Len(s)) /\ k - Len(s) = i
    BY <1>2
  <2> HIDE DEF k
  <2>2. u[k] = t[i]
    BY <1>1, <2>1
  <2> QED
    BY <1>3, <2>1, <2>2 DEF ToSet
<1>7. ToSet(u) = ToSet(s) \cup ToSet(t)
  BY <1>3, <1>4, <1>5, <1>6 DEF ToSet
<1> QED
  BY <1>1, <1>7 DEF u

\* The same for one more element.
LEMMA SetOfAppend ==
    ASSUME NEW D, NEW s \in Seq(D), NEW e \in D
    PROVE  /\ Append(s, e) \in Seq(D) /\ Len(Append(s, e)) = Len(s) + 1
           /\ ToSet(Append(s, e)) = ToSet(s) \cup {e}
           /\ Append(s, e)[Len(s) + 1] = e
           /\ \A i \in 1..Len(s) : Append(s, e)[i] = s[i]
<1>1. Append(s, e) = s \o <<e>> /\ <<e>> \in Seq(D) /\ ToSet(<<e>>) = {e}
  BY AppendIsConcat DEF ToSet
<1>2. ToSet(Append(s, e)) = ToSet(s) \cup {e}
  <2>1. ToSet(s \o <<e>>) = ToSet(s) \cup ToSet(<<e>>)
    BY <1>1, SetOfConcat
  <2> QED
    BY <1>1, <2>1
<1> QED
  BY <1>2, AppendProperties

\* And for one less.
LEMMA SetOfTail ==
    ASSUME NEW D, NEW s \in Seq(D), s # <<>>
    PROVE  /\ Head(s) \in D /\ Tail(s) \in Seq(D) /\ Len(Tail(s)) = Len(s) - 1
           /\ Len(s) \in Nat \ {0}
           /\ ToSet(s) = ToSet(Tail(s)) \cup {Head(s)}
<1> DEFINE t == Tail(s)
           n == Len(s)
<1>1. /\ Head(s) \in D /\ t \in Seq(D) /\ Len(t) = n - 1
      /\ \A i \in 1..(n - 1) : t[i] = s[i + 1]
  BY HeadTailProperties
<1>2. n \in Nat \ {0} /\ DOMAIN s = 1..n /\ Head(s) = s[1]
  BY EmptySeq
<1>3. DOMAIN t = 1..(n - 1)
  BY <1>1
<1> HIDE DEF t, n
<1>4. ASSUME NEW i \in 1..n PROVE s[i] \in ToSet(t) \cup {s[1]}
  <2>1. CASE i = 1
    BY <2>1
  <2>2. CASE i # 1
    <3>1. i - 1 \in 1..(n - 1) /\ t[i - 1] = s[i]
      BY <1>1, <1>2, <2>2
    <3> QED
      BY <1>3, <3>1 DEF ToSet
  <2> QED
    BY <2>1, <2>2
<1>5. ASSUME NEW i \in 1..(n - 1) PROVE t[i] \in ToSet(s)
  <2>1. i + 1 \in 1..n /\ t[i] = s[i + 1]
    BY <1>1, <1>2
  <2> QED
    BY <1>2, <2>1 DEF ToSet
<1>6. ToSet(s) \subseteq ToSet(t) \cup {s[1]}
  BY <1>2, <1>4 DEF ToSet
<1>7. ToSet(t) \cup {s[1]} \subseteq ToSet(s)
  <2>1. 1 \in DOMAIN s
    BY <1>2
  <2> QED
    BY <1>3, <1>5, <2>1 DEF ToSet
<1>8. ToSet(s) = ToSet(t) \cup {Head(s)}
  BY <1>2, <1>6, <1>7
<1> QED
  BY <1>1, <1>2, <1>8 DEF t, n

\* An element that a sequence contains.
LEMMA ContainsIs ==
    ASSUME NEW D, NEW s \in Seq(D), NEW e
    PROVE  /\ Contains(s, e) <=> e \in ToSet(s)
           /\ ToSet(s) \subseteq D
  BY DEF Contains, ToSet

\* The states that the visits of some events go through, and what a visit may be.
VisitState(events) == [todo : Seq(events), listed : Seq(events)]

PassesOver(s, t) ==
    /\ s.todo # <<>> /\ Head(s.todo) \in ToSet(s.listed)
    /\ t.listed = s.listed /\ t.todo = Tail(s.todo)
Lists(events, s, t) ==
    /\ s.todo # <<>> /\ Head(s.todo) \in events \ ToSet(s.listed)
    /\ t.listed = Append(s.listed, Head(s.todo))
    /\ t.todo = Chronological(Children(events, Head(s.todo))) \o Tail(s.todo)

\* The children of an event, in the order in which they are visited.
LEMMA ChildrenSorted ==
    ASSUME NEW events, IsFiniteSet(events), NEW e
    PROVE  /\ Chronological(Children(events, e)) \in Seq(events)
           /\ Len(Chronological(Children(events, e))) = Cardinality(Children(events, e))
           /\ ToSet(Chronological(Children(events, e))) = Children(events, e)
           /\ IsFiniteSet(Children(events, e)) /\ Cardinality(Children(events, e)) \in Nat
<1>1. Children(events, e) \subseteq events
  BY DEF Children
<1>2. IsFiniteSet(Children(events, e)) /\ Cardinality(Children(events, e)) \in Nat
  BY <1>1, FS_Subset, FS_CardinalityType
<1>3. /\ Chronological(Children(events, e)) \in Seq(Children(events, e))
      /\ Len(Chronological(Children(events, e))) = Cardinality(Children(events, e))
      /\ ToSet(Chronological(Children(events, e))) = Children(events, e)
  BY <1>2, ChronologicalType
<1>4. Chronological(Children(events, e)) \in Seq(events)
  BY <1>1, <1>3, SeqMonotonic
<1> QED
  BY <1>2, <1>3, <1>4

\* One call of visit() does nothing, passes over an event or lists it.
LEMMA VisitCases ==
    ASSUME NEW events, IsFiniteSet(events), NEW s \in VisitState(events)
    PROVE  /\ Visit(events, s) \in VisitState(events)
           /\ \/ s.todo = <<>> /\ Visit(events, s) = s
              \/ PassesOver(s, Visit(events, s))
              \/ Lists(events, s, Visit(events, s))
<1>1. s.todo \in Seq(events) /\ s.listed \in Seq(events)
  BY DEF VisitState
<1>2. CASE s.todo = <<>>
  BY <1>2 DEF Visit
<1>3. CASE s.todo # <<>> /\ Head(s.todo) \in ToSet(s.listed)
  <2>1. Visit(events, s) = [s EXCEPT !.todo = Tail(@)]
    BY <1>1, <1>3, ContainsIs DEF Visit
  <2>2. Tail(s.todo) \in Seq(events)
    BY <1>1, <1>3, SetOfTail
  <2> QED
    BY <1>3, <2>1, <2>2 DEF VisitState, PassesOver
<1>4. CASE s.todo # <<>> /\ Head(s.todo) \notin ToSet(s.listed)
  <2> DEFINE todo == Chronological(Children(events, Head(s.todo))) \o Tail(s.todo)
             listed == Append(s.listed, Head(s.todo))
  <2>1. Visit(events, s) = [todo |-> todo, listed |-> listed]
    BY <1>1, <1>4, ContainsIs DEF Visit
  <2>2. Head(s.todo) \in events /\ Tail(s.todo) \in Seq(events)
    BY <1>1, <1>4, SetOfTail
  <2>3. todo \in Seq(events)
    BY <2>2, ChildrenSorted, SetOfConcat
  <2>4. listed \in Seq(events)
    BY <1>1, <2>2, SetOfAppend
  <2> HIDE DEF todo, listed
  <2>5. Visit(events, s).todo = todo /\ Visit(events, s).listed = listed
    BY <2>1
  <2>6. Visit(events, s) \in VisitState(events)
    BY <2>1, <2>3, <2>4 DEF VisitState
  <2>7. Lists(events, s, Visit(events, s))
    BY <1>4, <2>2, <2>5 DEF Lists, todo, listed
  <2> QED
    BY <2>6, <2>7
<1> QED
  BY <1>2, <1>3, <1>4

FirstVisit(events) == [todo |-> Start(events), listed |-> <<>>]
Rounds(events) == 3 * Cardinality(events)

\* What is to be visited at first: every event, and a root twice.
LEMMA StartSorted ==
    ASSUME NEW events, IsFiniteSet(events)
    PROVE  /\ Chronological(events) \in Seq(events)
           /\ Len(Chronological(events)) = Cardinality(events)
           /\ ToSet(Chronological(events)) = events
           /\ Roots(events) \subseteq events /\ IsFiniteSet(Roots(events))
           /\ Chronological(Roots(events)) \in Seq(events)
           /\ Len(Chronological(Roots(events))) = Cardinality(Roots(events))
           /\ ToSet(Chronological(Roots(events))) = Roots(events)
           /\ Cardinality(events) \in Nat /\ Cardinality(Roots(events)) \in Nat
           /\ Cardinality(Roots(events)) <= Cardinality(events)
           /\ FirstVisit(events) \in VisitState(events)
           /\ ToSet(Start(events)) = events
           /\ Len(Start(events)) = Cardinality(Roots(events)) + Cardinality(events)
<1>1. Roots(events) \subseteq events
  BY DEF Roots
<1>2. /\ IsFiniteSet(Roots(events)) /\ Cardinality(events) \in Nat
      /\ Cardinality(Roots(events)) \in Nat
      /\ Cardinality(Roots(events)) <= Cardinality(events)
  BY <1>1, FS_Subset, FS_CardinalityType
<1>3. /\ Chronological(events) \in Seq(events)
      /\ Len(Chronological(events)) = Cardinality(events)
      /\ ToSet(Chronological(events)) = events
  BY ChronologicalType
<1>4. /\ Chronological(Roots(events)) \in Seq(Roots(events))
      /\ Len(Chronological(Roots(events))) = Cardinality(Roots(events))
      /\ ToSet(Chronological(Roots(events))) = Roots(events)
  BY <1>2, ChronologicalType
<1>5. Chronological(Roots(events)) \in Seq(events)
  BY <1>1, <1>4, SeqMonotonic
<1>6. /\ Start(events) \in Seq(events)
      /\ ToSet(Start(events)) = Roots(events) \cup events
      /\ Len(Start(events)) = Cardinality(Roots(events)) + Cardinality(events)
  BY <1>3, <1>4, <1>5, SetOfConcat DEF Start
<1>7. FirstVisit(events) \in VisitState(events)
  BY <1>6 DEF FirstVisit, VisitState
<1> QED
  BY <1>1, <1>2, <1>3, <1>4, <1>5, <1>6, <1>7

\* The visits, one after the other.
LEMMA VisitsAre ==
    ASSUME NEW events, IsFiniteSet(events)
    PROVE  /\ Visits(events)[0] = FirstVisit(events)
           /\ \A n \in 1..Rounds(events) : Visits(events)[n] = Visit(events, Visits(events)[n - 1])
           /\ Rounds(events) \in Nat
<1> DEFINE D == VisitState(events)
           N == Rounds(events)
           next == [s \in D |-> Visit(events, s)]
           Is(v) == v = [n \in 0..N |-> IF n = 0 THEN FirstVisit(events)
                                        ELSE Visit(events, v[n - 1])]
<1>1. N \in Nat
  BY FS_CardinalityType DEF Rounds
<1>2. next \in [D -> D] /\ FirstVisit(events) \in D
  BY VisitCases, StartSorted
<1>3. PICK v \in [0..N -> D] : Iterates(v, N, FirstVisit(events), next)
  <2> HIDE DEF D, N, next
  <2> QED
    BY <1>1, <1>2, Iteration
<1>4. \A n \in 0..N : n # 0 => next[v[n - 1]] = Visit(events, v[n - 1])
  <2> SUFFICES ASSUME NEW n \in 0..N, n # 0 PROVE next[v[n - 1]] = Visit(events, v[n - 1])
    OBVIOUS
  <2> HIDE DEF D, N
  <2>1. n - 1 \in 0..N
    BY <1>1
  <2>2. v[n - 1] \in D
    BY <2>1
  <2> QED
    BY <2>2
<1>5. Is(v)
  <2> HIDE DEF next, N
  <2> QED
    BY <1>3, <1>4 DEF Iterates
<1>6. Visits(events) = CHOOSE f : Is(f)
  BY DEF Visits, FirstVisit, Rounds
<1>7. Is(Visits(events))
  BY <1>5, <1>6
<1> QED
  BY <1>1, <1>7

\* What holds of the first visit, and of each visit after one it holds of, holds of the last.
LEMMA VisitInduction ==
    ASSUME NEW events, IsFiniteSet(events), NEW G, FirstVisit(events) \in G,
           \A s \in VisitState(events) : s \in G => Visit(events, s) \in G
    PROVE  \A n \in 0..Rounds(events) : /\ Visits(events)[n] \in VisitState(events)
                                        /\ Visits(events)[n] \in G
<1> DEFINE D == VisitState(events)
           v == Visits(events)
           N == Rounds(events)
           T == {n \in 0..N : v[n] \in D /\ v[n] \in G}
<1>1. /\ N \in Nat /\ v[0] = FirstVisit(events)
      /\ \A n \in 1..N : v[n] = Visit(events, v[n - 1])
  BY VisitsAre
<1>2. 0 \in T
  BY <1>1, StartSorted
<1>3. ASSUME NEW n \in 1..N, n - 1 \in T PROVE n \in T
  <2>1. Visit(events, v[n - 1]) \in D
    BY <1>3, VisitCases
  <2> QED
    BY <1>1, <1>3, <2>1
<1>4. \A n \in 0..N : n \in T
  <2> HIDE DEF T, N
  <2> QED
    BY <1>1, <1>2, <1>3, UpTo
<1> QED
  BY <1>4

\* Ids name events.
IdsUnique(events) == \A e, f \in events : e.id = f.id => e = f

\* The events whose parent has not been listed.
Awaited(events, listed) == {f \in events : \A e \in listed : f.parent # e.id}
Ahead(events, s) == Len(s.todo) + Cardinality(Awaited(events, ToSet(s.listed)))

\* The number of visits ahead.
LEMMA AheadType ==
    ASSUME NEW events, IsFiniteSet(events), NEW s \in VisitState(events)
    PROVE  /\ Len(s.todo) \in Nat /\ Ahead(events, s) \in Nat
           /\ \A L : /\ IsFiniteSet(Awaited(events, L)) /\ Cardinality(Awaited(events, L)) \in Nat
                     /\ Cardinality(Awaited(events, L)) <= Cardinality(events)
<1>1. \A L : Awaited(events, L) \subseteq events
  BY DEF Awaited
<1>2. \A L : IsFiniteSet(Awaited(events, L)) /\ Cardinality(Awaited(events, L)) \in Nat
             /\ Cardinality(Awaited(events, L)) <= Cardinality(events)
  BY <1>1, FS_Subset, FS_CardinalityType
<1>3. Len(s.todo) \in Nat
  BY DEF VisitState
<1> QED
  BY <1>2, <1>3 DEF Ahead

\* Each visit brings the end one step nearer.
LEMMA VisitAdvances ==
    ASSUME NEW events, IsFiniteSet(events), IdsUnique(events),
           NEW s \in VisitState(events), s.todo # <<>>
    PROVE  Ahead(events, Visit(events, s)) = Ahead(events, s) - 1
<1> DEFINE t == Visit(events, s)
           e == Head(s.todo)
           L == ToSet(s.listed)
<1>1. /\ e \in events /\ Tail(s.todo) \in Seq(events) /\ Len(Tail(s.todo)) = Len(s.todo) - 1
      /\ Len(s.todo) \in Nat /\ s.listed \in Seq(events) /\ L \subseteq events
  BY SetOfTail, ContainsIs DEF VisitState
<1>2. /\ IsFiniteSet(Awaited(events, L)) /\ Cardinality(Awaited(events, L)) \in Nat
  BY AheadType
<1>3. CASE PassesOver(s, t)
  BY <1>1, <1>2, <1>3 DEF PassesOver, Ahead
<1>4. CASE Lists(events, s, t)
  <2> DEFINE C == Children(events, e)
             A == Awaited(events, L)
             B == Awaited(events, ToSet(t.listed))
  <2>1. e \in events \ L /\ ToSet(t.listed) = L \cup {e}
    BY <1>1, <1>4, SetOfAppend DEF Lists
  <2>2. Len(t.todo) = Cardinality(C) + (Len(s.todo) - 1)
    <3>1. t.todo = Chronological(C) \o Tail(s.todo)
      BY <1>4 DEF Lists
    <3>2. Chronological(C) \in Seq(events) /\ Len(Chronological(C)) = Cardinality(C)
      BY ChildrenSorted
    <3> HIDE DEF t, e, C
    <3>3. Len(t.todo) = Len(Chronological(C)) + Len(Tail(s.todo))
      BY <1>1, <3>1, <3>2, SetOfConcat
    <3> QED
      BY <1>1, <3>2, <3>3
  <2>3. C \subseteq A
    BY <1>1, <2>1 DEF IdsUnique, Children, Awaited
  <2>4. B = A \ C
    BY <2>1 DEF Children, Awaited
  <2>5. Cardinality(A \ C) = Cardinality(A) - Cardinality(A \cap C)
    BY <1>2, FS_Difference
  <2>6. A \cap C = C
    BY <2>3
  <2>7. Cardinality(B) = Cardinality(A) - Cardinality(C)
    BY <2>4, <2>5, <2>6
  <2>8. Cardinality(C) \in Nat
    BY ChildrenSorted
  <2> QED
    BY <1>1, <1>2, <2>2, <2>7, <2>8 DEF Ahead
<1> QED
  BY <1>3, <1>4, VisitCases

\* In the end everything has been visited.
LEMMA VisitsEnd ==
    ASSUME NEW events, IsFiniteSet(events), IdsUnique(events)
    PROVE  Visits(events)[Rounds(events)].todo = <<>>
<1> DEFINE N == Rounds(events)
           v == Visits(events)
           Done(n) == v[n].todo = <<>> \/ Ahead(events, v[n]) <= N - n
           T == {n \in 0..N : Done(n)}
<1>1. /\ N \in Nat /\ v[0] = FirstVisit(events)
      /\ \A n \in 1..N : v[n] = Visit(events, v[n - 1])
  BY VisitsAre
<1>2. \A n \in 0..N : v[n] \in VisitState(events)
  <2> DEFINE D == VisitState(events)
  <2>1. \A s \in D : Visit(events, s) \in D
    BY VisitCases
  <2> HIDE DEF D
  <2>2. FirstVisit(events) \in D
    BY StartSorted DEF D
  <2>3. \A n \in 0..N : v[n] \in D
    BY <2>1, <2>2, VisitInduction
  <2> QED
    BY <2>3 DEF D
<1> HIDE DEF N, v
<1>3. 0 \in T
  <2>1. /\ Len(FirstVisit(events).todo) <= 2 * Cardinality(events)
        /\ Len(FirstVisit(events).todo) \in Nat
    <3>1. /\ Len(Start(events)) = Cardinality(Roots(events)) + Cardinality(events)
          /\ Cardinality(Roots(events)) <= Cardinality(events)
          /\ Cardinality(events) \in Nat /\ Cardinality(Roots(events)) \in Nat
      BY StartSorted
    <3> QED
      BY <3>1 DEF FirstVisit
  <2>2. Ahead(events, v[0]) <= N
    BY <1>1, <2>1, StartSorted, AheadType DEF Ahead, Rounds, N
  <2> QED
    BY <1>1, <2>2
<1>4. ASSUME NEW n \in 1..N, n - 1 \in T PROVE n \in T
  <2>1. n - 1 \in 0..N /\ v[n - 1] \in VisitState(events)
    BY <1>2, <1>4
  <2>2. CASE v[n - 1].todo = <<>>
    <3>1. v[n] = v[n - 1]
      BY <1>1, <2>1, <2>2, VisitCases DEF PassesOver, Lists
    <3> QED
      BY <2>2, <3>1
  <2>3. CASE v[n - 1].todo # <<>>
    <3>1. Ahead(events, v[n]) = Ahead(events, v[n - 1]) - 1
      BY <1>1, <2>1, <2>3, VisitAdvances
    <3>2. Ahead(events, v[n - 1]) <= N - (n - 1) /\ Ahead(events, v[n - 1]) \in Nat
      BY <1>4, <2>1, <2>3, AheadType
    <3> QED
      BY <1>1, <3>1, <3>2
  <2> QED
    BY <2>2, <2>3
<1>5. N \in T
  <2> HIDE DEF T
  <2> QED
    BY <1>1, <1>3, <1>4, UpTo
<1>6. CASE Ahead(events, v[N]) <= 0
  <2>1. v[N].todo \in Seq(events) /\ Len(v[N].todo) = 0
    BY <1>1, <1>2, <1>6, AheadType DEF Ahead, VisitState
  <2> QED
    BY <2>1, EmptySeq DEF N, v
<1> QED
  BY <1>1, <1>5, <1>6 DEF N, v

-----------------------------------------------------------------------------
(* Every event is listed once. *)

\* No event is twice in a list.
NoRepeats(list) == \A i, j \in DOMAIN list : list[i] = list[j] => i = j

\* A new event repeats none.
LEMMA NoRepeatsAppend ==
    ASSUME NEW D, NEW list \in Seq(D), NoRepeats(list), NEW e \in D, e \notin ToSet(list)
    PROVE  NoRepeats(Append(list, e))
<1> DEFINE new == Append(list, e)
           n == Len(list)
<1>1. /\ n \in Nat /\ DOMAIN list = 1..n
      /\ new \in Seq(D) /\ Len(new) = n + 1 /\ new[n + 1] = e /\ \A i \in 1..n : new[i] = list[i]
  BY SetOfAppend
<1>2. DOMAIN new = 1..(n + 1)
  BY <1>1
<1>3. \A i \in 1..n : list[i] # e
  BY <1>1 DEF ToSet
<1> HIDE DEF new, n
<1>4. ASSUME NEW i \in 1..(n + 1), NEW j \in 1..(n + 1), new[i] = new[j] PROVE i = j
  <2>1. CASE i \in 1..n /\ j \in 1..n
    BY <1>1, <1>4, <2>1 DEF NoRepeats
  <2>2. CASE i = n + 1 \/ j = n + 1
    BY <1>1, <1>3, <1>4, <2>2
  <2> QED
    BY <1>1, <2>1, <2>2
<1> QED
  BY <1>2, <1>4 DEF NoRepeats, new

\* Every event is listed once.
LEMMA ListedOnce ==
    ASSUME NEW events, IsFiniteSet(events), IdsUnique(events)
    PROVE  /\ OrderTraceByParent(events) \in Seq(events)
           /\ NoRepeats(OrderTraceByParent(events))
           /\ ToSet(OrderTraceByParent(events)) = events
           /\ Len(OrderTraceByParent(events)) = Cardinality(events)
<1> DEFINE Kept(s) == NoRepeats(s.listed) /\ ToSet(s.listed) \cup ToSet(s.todo) = events
           G == {s \in VisitState(events) : Kept(s)}
           N == Rounds(events)
           list == Visits(events)[N].listed
<1>1. FirstVisit(events) \in G
  <2>1. /\ FirstVisit(events) \in VisitState(events) /\ ToSet(Start(events)) = events
    BY StartSorted
  <2>2. NoRepeats(<<>>) /\ ToSet(<<>>) = {}
    BY DEF NoRepeats, ToSet
  <2> QED
    BY <2>1, <2>2 DEF FirstVisit
<1>2. ASSUME NEW s \in VisitState(events), s \in G PROVE Visit(events, s) \in G
  <2> DEFINE t == Visit(events, s)
  <2>1. /\ t \in VisitState(events) /\ Kept(s)
        /\ s.todo \in Seq(events) /\ s.listed \in Seq(events)
    BY <1>2, VisitCases DEF VisitState
  <2>2. CASE t = s
    BY <1>2, <2>2
  <2>3. CASE PassesOver(s, t)
    <3>1. ToSet(s.todo) = ToSet(Tail(s.todo)) \cup {Head(s.todo)}
      BY <2>1, <2>3, SetOfTail DEF PassesOver
    <3>2. Kept(t)
      BY <2>1, <2>3, <3>1 DEF PassesOver
    <3> QED
      BY <2>1, <3>2
  <2>4. CASE Lists(events, s, t)
    <3> DEFINE e == Head(s.todo)
               c == Chronological(Children(events, e))
    <3>1. ToSet(s.todo) = ToSet(Tail(s.todo)) \cup {e} /\ Tail(s.todo) \in Seq(events)
      BY <2>1, <2>4, SetOfTail DEF Lists
    <3>2. /\ e \in events \ ToSet(s.listed) /\ t.listed = Append(s.listed, e)
          /\ t.todo = c \o Tail(s.todo)
      BY <2>4 DEF Lists
    <3>3. c \in Seq(events) /\ ToSet(c) \subseteq events
      BY ChildrenSorted, ContainsIs
    <3>4. ToSet(t.listed) = ToSet(s.listed) \cup {e} /\ NoRepeats(t.listed)
      BY <2>1, <3>2, SetOfAppend, NoRepeatsAppend
    <3> HIDE DEF e, c, t
    <3>5. ToSet(t.todo) = ToSet(c) \cup ToSet(Tail(s.todo))
      BY <3>1, <3>2, <3>3, SetOfConcat
    <3>6. Kept(t)
      BY <2>1, <3>1, <3>2, <3>3, <3>4, <3>5
    <3> QED
      BY <2>1, <3>6 DEF t
  <2> QED
    BY <2>2, <2>3, <2>4, VisitCases
<1>3. N \in Nat /\ Visits(events)[N] \in VisitState(events) /\ Kept(Visits(events)[N])
  <2>1. \A n \in 0..N : Visits(events)[n] \in VisitState(events) /\ Visits(events)[n] \in G
    <3> HIDE DEF G, N
    <3> QED
      BY <1>1, <1>2, VisitInduction DEF N
  <2>2. N \in Nat /\ N \in 0..N
    BY VisitsAre
  <2> QED
    BY <2>1, <2>2
<1>4. list \in Seq(events) /\ NoRepeats(list) /\ ToSet(list) = events
  <2>1. Visits(events)[N].todo = <<>> /\ ToSet(<<>>) = {}
    BY VisitsEnd DEF ToSet
  <2> QED
    BY <1>3, <2>1 DEF VisitState
<1>5. Len(list) = Cardinality(events)
  <2> HIDE DEF list
  <2>1. DOMAIN list = 1..Len(list) /\ Len(list) \in Nat
    BY <1>4
  <2>2. list \in Bijection(1..Len(list), events)
    <3>1. list \in [1..Len(list) -> events]
      BY <1>4
    <3>2. \A i, j \in 1..Len(list) : list[i] = list[j] => i = j
      BY <1>4, <2>1 DEF NoRepeats
    <3>3. \A e \in events : \E i \in 1..Len(list) : list[i] = e
      BY <1>4, <2>1 DEF ToSet
    <3> QED
      BY <3>1, <3>2, <3>3 DEF Bijection, Injection, Surjection, IsInjective
  <2>3. IsFiniteSet(1..Len(list)) /\ Cardinality(1..Len(list)) = Cardinality(events)
    <3> DEFINE S == 1..Len(list)
    <3>1. IsFiniteSet(S)
      BY <2>1, FS_Interval
    <3> HIDE DEF S
    <3>2. ExistsBijection(S, events)
      BY <2>2 DEF ExistsBijection, S
    <3> QED
      BY <3>1, <3>2, FS_Bijection DEF S
  <2>4. Cardinality(1..Len(list)) = IF 1 > Len(list) THEN 0 ELSE Len(list) - 1 + 1
    BY <2>1, FS_Interval
  <2> QED
    BY <2>1, <2>3, <2>4
<1> QED
  BY <1>4, <1>5 DEF OrderTraceByParent, Rounds

-----------------------------------------------------------------------------
\* The next generation.
Offspring(events, s) == UNION {Children(events, e) : e \in s}

\* Each generation has the children of the one before it.
LEMMA GenerationsAre ==
    ASSUME NEW events, IsFiniteSet(events), NEW first \in SUBSET events
    PROVE  /\ Generations(events, first)[0] = first
           /\ \A n \in 1..Cardinality(events) :
                 Generations(events, first)[n]
                    = Offspring(events, Generations(events, first)[n - 1])
           /\ Cardinality(events) \in Nat
<1> DEFINE D == SUBSET events
           N == Cardinality(events)
           next == [s \in D |-> Offspring(events, s)]
           Is(v) == v = [n \in 0..N |-> IF n = 0 THEN first ELSE Offspring(events, v[n - 1])]
<1>1. N \in Nat
  BY FS_CardinalityType
<1>2. next \in [D -> D]
  BY DEF Children, Offspring
<1>3. PICK v \in [0..N -> D] : Iterates(v, N, first, next)
  <2> HIDE DEF N, next
  <2> QED
    BY <1>1, <1>2, Iteration
<1>4. \A n \in 0..N : n # 0 => next[v[n - 1]] = Offspring(events, v[n - 1])
  <2> SUFFICES ASSUME NEW n \in 0..N, n # 0 PROVE next[v[n - 1]] = Offspring(events, v[n - 1])
    OBVIOUS
  <2> HIDE DEF D, N
  <2>1. n - 1 \in 0..N
    BY <1>1
  <2>2. v[n - 1] \in D
    BY <2>1
  <2> QED
    BY <2>2
<1>5. Is(v)
  <2> HIDE DEF next, N
  <2> QED
    BY <1>3, <1>4 DEF Iterates
<1>6. Generations(events, first) = CHOOSE f : Is(f)
  BY DEF Generations, Offspring
<1>7. Is(Generations(events, first))
  BY <1>5, <1>6
<1> QED
  BY <1>1, <1>7

\* A list that has the roots, and with each event its children, has every event that
\* descends from a root.
LEMMA DescendantsListed ==
    ASSUME NEW events, IsFiniteSet(events), NEW L, Roots(events) \subseteq L,
           \A e \in L : Children(events, e) \subseteq L, NEW e, Rooted(events, e)
    PROVE  e \in L
<1> DEFINE N == Cardinality(events)
           g == Generations(events, Roots(events))
           T == {n \in 0..N : g[n] \subseteq L}
<1>1. /\ N \in Nat /\ g[0] = Roots(events)
      /\ \A n \in 1..N : g[n] = Offspring(events, g[n - 1])
  <2>1. Roots(events) \in SUBSET events
    BY DEF Roots
  <2> QED
    BY <2>1, GenerationsAre
<1> HIDE DEF g, N
<1>2. 0 \in T
  BY <1>1
<1>3. ASSUME NEW n \in 1..N, n - 1 \in T PROVE n \in T
  BY <1>1, <1>3 DEF Offspring
<1>4. \A n \in 0..N : n \in T
  <2> HIDE DEF T
  <2> QED
    BY <1>1, <1>2, <1>3, UpTo
<1>5. {r \in events : \A p \in events : p.id # r.parent} = Roots(events)
  BY DEF Roots
<1> QED
  BY <1>4, <1>5 DEF Rooted, g, N

-----------------------------------------------------------------------------
(* Parents come before their children. *)

\* A root, or the child of something listed.
Founded(events, e, L) == e \in Roots(events) \/ \E p \in L : e.parent = p.id

\* What descends from a root comes after its parent.
InOrder(events, list) ==
    \A i \in DOMAIN list :
        Rooted(events, list[i]) =>
            list[i] \in Roots(events) \/ \E j \in 1..(i - 1) : list[j].id = list[i].parent

\* The first part of the work list has what was reached from the roots and has not been
\* visited.  When it is exhausted, all that descends from the roots is listed.
FromRoots(events, s, part) ==
    /\ s.todo = part \o Chronological(events)
    /\ Roots(events) \subseteq ToSet(s.listed) \cup ToSet(part)
    /\ \A e \in ToSet(s.listed) : Children(events, e) \subseteq ToSet(s.listed) \cup ToSet(part)
    /\ \A e \in ToSet(part) : Founded(events, e, ToSet(s.listed))
RootedListed(events, s) == \A e \in events : Rooted(events, e) => e \in ToSet(s.listed)

ParentsFirstIn(events, s) ==
    /\ InOrder(events, s.listed)
    /\ RootedListed(events, s) \/ \E part \in Seq(events) : FromRoots(events, s, part)

\* An event may come next if it is a root, or if its parent is listed.
LEMMA InOrderAppend ==
    ASSUME NEW events, NEW list \in Seq(events), InOrder(events, list), NEW e \in events,
           Rooted(events, e) => Founded(events, e, ToSet(list))
    PROVE  InOrder(events, Append(list, e))
<1> DEFINE new == Append(list, e)
           n == Len(list)
<1>1. /\ n \in Nat /\ DOMAIN list = 1..n
      /\ new \in Seq(events) /\ Len(new) = n + 1 /\ new[n + 1] = e
      /\ \A i \in 1..n : new[i] = list[i]
  BY SetOfAppend
<1>2. DOMAIN new = 1..(n + 1)
  BY <1>1
<1> HIDE DEF new, n
<1>3. ASSUME NEW i \in 1..(n + 1), Rooted(events, new[i])
      PROVE  new[i] \in Roots(events) \/ \E j \in 1..(i - 1) : new[j].id = new[i].parent
  <2>1. CASE i \in 1..n
    <3>1. new[i] = list[i] /\ \A j \in 1..(i - 1) : new[j] = list[j]
      BY <1>1, <2>1
    <3>2. list[i] \in Roots(events) \/ \E j \in 1..(i - 1) : list[j].id = list[i].parent
      BY <1>1, <1>3, <2>1, <3>1 DEF InOrder
    <3> QED
      BY <3>1, <3>2
  <2>2. CASE i = n + 1
    <3>1. new[i] = e /\ Founded(events, e, ToSet(list))
      BY <1>1, <1>3, <2>2
    <3>2. ASSUME NEW p \in ToSet(list), e.parent = p.id
          PROVE  \E j \in 1..(i - 1) : new[j].id = new[i].parent
      <4>1. PICK j \in 1..n : p = list[j]
        BY <1>1 DEF ToSet
      <4> QED
        BY <1>1, <2>2, <3>1, <3>2, <4>1
    <3> QED
      BY <3>1, <3>2 DEF Founded
  <2> QED
    BY <1>1, <2>1, <2>2
<1> QED
  BY <1>2, <1>3 DEF InOrder, new

\* A visit keeps parents before their children.
LEMMA VisitKeepsOrder ==
    ASSUME NEW events, IsFiniteSet(events), NEW s \in VisitState(events),
           ParentsFirstIn(events, s)
    PROVE  ParentsFirstIn(events, Visit(events, s))
<1> DEFINE t == Visit(events, s)
           L == ToSet(s.listed)
           e == Head(s.todo)
<1>1. /\ s.todo \in Seq(events) /\ s.listed \in Seq(events) /\ t \in VisitState(events)
      /\ InOrder(events, s.listed) /\ L \subseteq events
  BY VisitCases, ContainsIs DEF VisitState, ParentsFirstIn
<1>2. CASE t = s
  BY <1>2
<1>3. Lists(events, s, t) => /\ e \in events \ L /\ t.listed = Append(s.listed, e)
                             /\ ToSet(t.listed) = L \cup {e}
  BY <1>1, SetOfAppend DEF Lists
<1>4. CASE RootedListed(events, s)
  <2>1. CASE PassesOver(s, t)
    BY <1>1, <1>4, <2>1 DEF PassesOver, ParentsFirstIn, RootedListed
  <2>2. CASE Lists(events, s, t)
    <3>1. ~Rooted(events, e)
      BY <1>3, <1>4, <2>2 DEF RootedListed
    <3>2. InOrder(events, t.listed)
      BY <1>1, <1>3, <2>2, <3>1, InOrderAppend
    <3>3. RootedListed(events, t)
      BY <1>3, <1>4, <2>2 DEF RootedListed
    <3> QED
      BY <3>2, <3>3 DEF ParentsFirstIn
  <2> QED
    BY <1>2, <2>1, <2>2, VisitCases
<1>5. ASSUME NEW part \in Seq(events), FromRoots(events, s, part), t # s
      PROVE  ParentsFirstIn(events, t)
  <2> DEFINE all == Chronological(events)
  <2>1. /\ all \in Seq(events)
        /\ s.todo = part \o all
        /\ Roots(events) \subseteq L \cup ToSet(part)
        /\ \A f \in L : Children(events, f) \subseteq L \cup ToSet(part)
        /\ \A f \in ToSet(part) : Founded(events, f, L)
    BY <1>5, StartSorted DEF FromRoots
  <2>2. CASE part = <<>>
    <3>1. ToSet(part) = {}
      BY <2>2 DEF ToSet
    <3>2. RootedListed(events, s)
      BY <2>1, <3>1, DescendantsListed DEF RootedListed
    <3> QED
      BY <1>4, <3>2
  <2>3. CASE part # <<>>
    <3> DEFINE rest == Tail(part)
    <3>1. /\ rest \in Seq(events) /\ ToSet(part) = ToSet(rest) \cup {Head(part)}
      BY <2>3, SetOfTail
    <3>2. e = Head(part) /\ Tail(s.todo) = rest \o all
      BY <2>1, <2>3
    <3> HIDE DEF rest, all, e, t, L
    <3>3. CASE PassesOver(s, t)
      <4>1. t.listed = s.listed /\ t.todo = rest \o all /\ e \in L
        BY <3>2, <3>3 DEF PassesOver, e, L
      <4>2. FromRoots(events, t, rest)
        BY <2>1, <3>1, <3>2, <4>1 DEF FromRoots, all, L
      <4> QED
        BY <1>1, <3>1, <4>1, <4>2 DEF ParentsFirstIn
    <3>4. CASE Lists(events, s, t)
      <4> DEFINE c == Chronological(Children(events, e))
      <4>1. /\ e \in events \ L /\ t.listed = Append(s.listed, e) /\ ToSet(t.listed) = L \cup {e}
            /\ t.todo = c \o (rest \o all)
        BY <1>3, <3>2, <3>4 DEF Lists, e
      <4>2. c \in Seq(events) /\ ToSet(c) = Children(events, e)
        BY ChildrenSorted
      <4> HIDE DEF c
      <4>3. t.todo = (c \o rest) \o all
        <5>1. all \in Seq(events)
          BY <2>1, StartSorted DEF all
        <5>2. (c \o rest) \o all = c \o (rest \o all)
          BY <3>1, <4>2, <5>1, ConcatAssociative
        <5> QED
          BY <4>1, <5>2
      <4>4. c \o rest \in Seq(events) /\ ToSet(c \o rest) = Children(events, e) \cup ToSet(rest)
        BY <3>1, <4>2, SetOfConcat
      <4>5. \A f \in Children(events, e) : f.parent = e.id
        BY DEF Children
      <4>6. Founded(events, e, L)
        BY <2>1, <3>1, <3>2
      <4>7. InOrder(events, t.listed)
        BY <1>1, <4>1, <4>6, InOrderAppend DEF L
      <4>8. \A f \in ToSet(c \o rest) : Founded(events, f, L \cup {e})
        BY <2>1, <3>1, <4>4, <4>5 DEF Founded
      <4>9. FromRoots(events, t, c \o rest)
        BY <2>1, <3>1, <3>2, <4>1, <4>3, <4>4, <4>8 DEF FromRoots, all
      <4> QED
        BY <4>4, <4>7, <4>9 DEF ParentsFirstIn
    <3> QED
      BY <1>5, <3>3, <3>4, VisitCases DEF t
  <2> QED
    BY <2>2, <2>3
<1> QED
  BY <1>2, <1>4, <1>5 DEF ParentsFirstIn

\* In the end every event that descends from a root comes after its parent.
LEMMA ListedInOrder ==
    ASSUME NEW events, IsFiniteSet(events)
    PROVE  InOrder(events, OrderTraceByParent(events))
<1> DEFINE G == {s \in VisitState(events) : ParentsFirstIn(events, s)}
           N == Rounds(events)
<1>1. FirstVisit(events) \in G
  <2> DEFINE s == FirstVisit(events)
             part == Chronological(Roots(events))
  <2>1. /\ s \in VisitState(events) /\ part \in Seq(events) /\ ToSet(part) = Roots(events)
    BY StartSorted
  <2>2. s.listed = <<>> /\ s.todo = part \o Chronological(events)
    BY DEF FirstVisit, Start
  <2> HIDE DEF s, part
  <2>3. ToSet(s.listed) = {} /\ InOrder(events, s.listed)
    BY <2>2 DEF ToSet, InOrder
  <2>4. FromRoots(events, s, part)
    BY <2>1, <2>2, <2>3 DEF FromRoots, Founded
  <2> QED
    BY <2>1, <2>3, <2>4 DEF ParentsFirstIn, s
<1>2. \A s \in VisitState(events) : s \in G => Visit(events, s) \in G
  BY VisitKeepsOrder, VisitCases
<1>3. N \in Nat /\ Visits(events)[N] \in G
  <2>1. \A n \in 0..N : Visits(events)[n] \in G
    <3> HIDE DEF G, N
    <3> QED
      BY <1>1, <1>2, VisitInduction DEF N
  <2>2. N \in Nat /\ N \in 0..N
    BY VisitsAre
  <2> QED
    BY <2>1, <2>2
<1> QED
  BY <1>3 DEF ParentsFirstIn, OrderTraceByParent, Rounds

\* The order of a stored trace, whatever it is.
LEMMA TraceListed ==
    ASSUME NEW events, IsFiniteSet(events), IdsUnique(events)
    PROVE  LET list == OrderTraceByParent(events)
           IN  /\ Len(list) = Cardinality(events)
               /\ ToSet(list) = events
               /\ \A i, j \in DOMAIN list :
                     list[i].parent = list[j].id => j < i \/ ~Rooted(events, list[i])
<1> DEFINE list == OrderTraceByParent(events)
<1>1. /\ list \in Seq(events) /\ NoRepeats(list) /\ ToSet(list) = events
      /\ Len(list) = Cardinality(events) /\ InOrder(events, list)
  BY ListedOnce, ListedInOrder
<1> HIDE DEF list
<1>2. DOMAIN list = 1..Len(list) /\ Len(list) \in Nat /\ \A i \in DOMAIN list : list[i] \in events
  BY <1>1
<1>3. ASSUME NEW i \in DOMAIN list, NEW j \in DOMAIN list, list[i].parent = list[j].id,
             Rooted(events, list[i])
      PROVE  j < i
  <2>1. list[i] \notin Roots(events)
    BY <1>2, <1>3 DEF Roots
  <2>2. PICK k \in 1..(i - 1) : list[k].id = list[i].parent
    BY <1>1, <1>3, <2>1 DEF InOrder
  <2>3. k \in DOMAIN list /\ k < i
    BY <1>2
  <2>4. list[k] = list[j]
    BY <1>2, <1>3, <2>2, <2>3 DEF IdsUnique
  <2>5. k = j
    BY <1>1, <2>3, <2>4 DEF NoRepeats
  <2> QED
    BY <2>3, <2>5
<1> QED
  BY <1>1, <1>3 DEF list

-----------------------------------------------------------------------------
(* The order of a job that ran undisturbed. *)

\* The events of one job that ran undisturbed: one root, and no parent has two children.
\* Every other event has its parent among them, and comes later than it.
Undivided(events, root, rank) ==
    /\ IdsUnique(events)
    /\ root \in events /\ {e \in events : e.parent = NoParent} = {root}
    /\ Roots(events) = {root}
    /\ \A e, f \in events : e.parent = f.parent => e = f
    /\ rank \in [events -> Nat]
    /\ \A e, p \in events : e.parent = p.id => rank[p] < rank[e]

\* The chain c of some of them: each one is the only one of its generation.
Chain(events, root, c, n) ==
    /\ c \in [0..n -> events]
    /\ \A i, j \in 0..n : c[i] = c[j] => i = j
    /\ \A i \in 0..n : Generations(events, {root})[i] = {c[i]}

\* The children of a single event.
LEMMA OnlyOffspring == \A events, e : Offspring(events, {e}) = Children(events, e)
  BY DEF Offspring

\* The next event of a chain that is not whole yet: of the events that are left, the first
\* by rank has its parent in the chain, and there it can only be the last.
LEMMA ChainGrows ==
    ASSUME NEW events, IsFiniteSet(events), NEW root, NEW rank, Undivided(events, root, rank),
           NEW n \in Nat, n + 1 < Cardinality(events), NEW c, Chain(events, root, c, n)
    PROVE  \E d : Chain(events, root, d, n + 1)
<1> DEFINE R == {c[i] : i \in 0..n}
           left == events \ R
           ranks == {rank[e] : e \in left}
           g == Generations(events, {root})
<1>1. /\ g[0] = {root} /\ Cardinality(events) \in Nat
      /\ \A i \in 1..Cardinality(events) : g[i] = Offspring(events, g[i - 1])
  <2>1. {root} \in SUBSET events
    BY DEF Undivided
  <2> QED
    BY <2>1, GenerationsAre
<1>2. c \in [0..n -> events] /\ \A i, j \in 0..n : c[i] = c[j] => i = j
  BY DEF Chain
<1>3. \A i \in 0..n : g[i] = {c[i]}
  BY DEF Chain
<1>4. left # {}
  <2>1. c \in Bijection(0..n, R)
    BY <1>2 DEF Bijection, Injection, Surjection, IsInjective
  <2>2. IsFiniteSet(0..n) /\ Cardinality(0..n) = n + 1
    <3>1. IsFiniteSet(0..n) /\ Cardinality(0..n) = IF 0 > n THEN 0 ELSE n - 0 + 1
      BY FS_Interval
    <3> QED
      BY <3>1
  <2>3. Cardinality(R) = n + 1
    <3> DEFINE I == 0..n
    <3>1. ExistsBijection(I, R)
      BY <2>1 DEF ExistsBijection
    <3> HIDE DEF I, R
    <3>2. Cardinality(R) = Cardinality(I)
      BY <2>2, <3>1, FS_Bijection DEF I
    <3> QED
      BY <2>2, <3>2 DEF I
  <2>4. R # events
    <3> HIDE DEF R
    <3> QED
      BY <2>3
  <2>5. R \subseteq events
    BY <1>2
  <2> QED
    BY <2>4, <2>5
<1> HIDE DEF g
<1>5. PICK f \in left : \A e \in left : rank[f] <= rank[e]
  <2>1. ranks \in SUBSET Nat /\ ranks # {}
    BY <1>4 DEF Undivided
  <2>2. PICK r \in ranks : \A q \in ranks : r <= q
    <3> HIDE DEF ranks
    <3> QED
      BY <2>1, Least
  <2> QED
    BY <2>2
<1>6. f \notin Roots(events)
  <2>1. root \in R
    <3>1. 0 \in 0..n /\ {root} = {c[0]}
      BY <1>1, <1>3
    <3>2. root = c[0]
      BY <3>1
    <3> QED
      BY <3>1, <3>2
  <2> QED
    BY <1>5, <2>1 DEF Undivided
<1>7. PICK p \in events : f.parent = p.id
  BY <1>5, <1>6 DEF Roots
<1>8. p \in R
  <2>1. rank[p] < rank[f] /\ rank[p] \in Nat /\ rank[f] \in Nat
    BY <1>5, <1>7 DEF Undivided
  <2> QED
    BY <1>5, <1>7, <2>1
<1>9. PICK i \in 0..n : p = c[i]
  BY <1>8
<1>10. i = n
  <2> SUFFICES ASSUME i # n PROVE FALSE
    OBVIOUS
  <2>1. i + 1 \in 0..n /\ i + 1 \in 1..Cardinality(events) /\ (i + 1) - 1 = i
    BY <1>1
  <2>2. g[i + 1] = Offspring(events, {c[i]}) /\ g[i + 1] = {c[i + 1]}
    BY <1>1, <1>3, <2>1
  <2>3. c[i + 1] \in Children(events, c[i])
    BY <2>2, OnlyOffspring
  <2>4. c[i + 1] \in events /\ c[i + 1].parent = f.parent
    BY <1>7, <1>9, <2>3 DEF Children
  <2>5. c[i + 1] = f
    BY <1>5, <2>4 DEF Undivided
  <2> QED
    BY <1>5, <2>1, <2>5
<1>11. g[n + 1] = {f}
  <2>1. n + 1 \in 1..Cardinality(events) /\ (n + 1) - 1 = n
    BY <1>1
  <2>2. g[n + 1] = Children(events, c[n])
    BY <1>1, <1>3, <2>1, OnlyOffspring
  <2>3. Children(events, c[n]) = {f}
    BY <1>5, <1>7, <1>9, <1>10 DEF Children, Undivided
  <2> QED
    BY <2>2, <2>3
<1> DEFINE d == [j \in 0..(n + 1) |-> IF j = n + 1 THEN f ELSE c[j]]
<1>12. \A j \in 0..(n + 1) : j = n + 1 \/ j \in 0..n
  OBVIOUS
<1>13. d \in [0..(n + 1) -> events] /\ d[n + 1] = f /\ \A j \in 0..n : d[j] = c[j]
  BY <1>2, <1>5
<1> HIDE DEF d
<1>14. \A j \in 0..n : c[j] # f
  BY <1>5
<1>15. \A j, k \in 0..(n + 1) : d[j] = d[k] => j = k
  BY <1>2, <1>12, <1>13, <1>14
<1>16. \A j \in 0..(n + 1) : g[j] = {d[j]}
  BY <1>3, <1>11, <1>12, <1>13
<1> QED
  BY <1>13, <1>15, <1>16 DEF Chain, g

\* The chain has all of them.
LEMMA WholeChain ==
    ASSUME NEW events, IsFiniteSet(events), NEW root, NEW rank, Undivided(events, root, rank)
    PROVE  /\ Cardinality(events) \in Nat \ {0}
           /\ \E c : Chain(events, root, c, Cardinality(events) - 1)
<1> DEFINE N == Cardinality(events)
           T == {n \in 0..(N - 1) : \E c : Chain(events, root, c, n)}
<1>1. N \in Nat \ {0}
  <2>1. N \in Nat /\ events # {}
    BY FS_CardinalityType DEF Undivided
  <2> QED
    BY <2>1, FS_EmptySet
<1> HIDE DEF N
<1>2. 0 \in T
  <2> DEFINE c == [i \in 0..0 |-> root]
  <2>1. {root} \in SUBSET events /\ root \in events
    BY DEF Undivided
  <2>2. Generations(events, {root})[0] = {root}
    BY <2>1, GenerationsAre
  <2>3. Chain(events, root, c, 0)
    BY <2>1, <2>2 DEF Chain
  <2> HIDE DEF c
  <2> QED
    BY <1>1, <2>3
<1>3. ASSUME NEW n \in 1..(N - 1), n - 1 \in T PROVE n \in T
  <2>1. PICK c : Chain(events, root, c, n - 1)
    BY <1>3
  <2>2. n - 1 \in Nat /\ (n - 1) + 1 < N /\ (n - 1) + 1 = n
    BY <1>1
  <2> DEFINE m == n - 1
  <2>3. m \in Nat /\ m + 1 < N /\ m + 1 = n /\ Chain(events, root, c, m)
    BY <2>1, <2>2
  <2> HIDE DEF m
  <2>4. \E d : Chain(events, root, d, m + 1)
    BY <2>3, ChainGrows DEF N
  <2> QED
    BY <2>3, <2>4
<1>4. N - 1 \in T
  <2>1. N - 1 \in Nat
    BY <1>1
  <2> HIDE DEF T
  <2> DEFINE M == N - 1
  <2>2. M \in Nat /\ 0 \in T /\ \A n \in 1..M : n - 1 \in T => n \in T
    BY <1>2, <1>3, <2>1
  <2> HIDE DEF M
  <2>3. \A n \in 0..M : n \in T
    BY <2>2, UpTo
  <2> QED
    BY <2>2, <2>3 DEF M
<1> QED
  BY <1>1, <1>4 DEF N

\* The validator's order, from its root.
StrictFrom(events, first) ==
    IF \A n \in 1..Cardinality(events) : Cardinality(Generations(events, first)[n - 1]) = 1
    THEN [n \in 1..Cardinality(events) |-> CHOOSE e \in Generations(events, first)[n - 1] : TRUE]
    ELSE <<>>

\* The validator's order of them is the chain.
LEMMA StrictChain ==
    ASSUME NEW events, IsFiniteSet(events), NEW root, NEW rank, Undivided(events, root, rank)
    PROVE  LET list == StrictOrder(events)
               N == Cardinality(events)
           IN  /\ N \in Nat \ {0} /\ list \in [1..N -> events] /\ list[1] = root
               /\ NoRepeats(list) /\ ToSet(list) = events
               /\ \A n \in 1..(N - 1) : Children(events, list[n]) = {list[n + 1]}
<1> DEFINE N == Cardinality(events)
           g == Generations(events, {root})
           list == StrictOrder(events)
<1>1. PICK c : N \in Nat \ {0} /\ Chain(events, root, c, N - 1)
  BY WholeChain
<1>2. /\ c \in [0..(N - 1) -> events] /\ \A i, j \in 0..(N - 1) : c[i] = c[j] => i = j
      /\ \A i \in 0..(N - 1) : g[i] = {c[i]}
  BY <1>1 DEF Chain
<1>3. /\ g[0] = {root} /\ \A n \in 1..N : g[n] = Offspring(events, g[n - 1])
  <2>1. {root} \in SUBSET events
    BY DEF Undivided
  <2> QED
    BY <2>1, GenerationsAre
<1>4. list = IF \A n \in 1..N : Cardinality(g[n - 1]) = 1
             THEN [n \in 1..N |-> CHOOSE e \in g[n - 1] : TRUE] ELSE <<>>
  <2>1. {e \in events : e.parent = NoParent} = {root}
    BY DEF Undivided
  <2>2. StrictOrder(events) = StrictFrom(events, {e \in events : e.parent = NoParent})
    BY DEF StrictOrder, StrictFrom
  <2>3. StrictOrder(events) = StrictFrom(events, {root})
    BY <2>1, <2>2
  <2> QED
    BY <2>3 DEF StrictFrom
<1> HIDE DEF N, g, list
<1>5. \A n \in 1..N : n - 1 \in 0..(N - 1) /\ g[n - 1] = {c[n - 1]}
  BY <1>1, <1>2
<1>6. \A n \in 1..N : Cardinality(g[n - 1]) = 1 /\ (CHOOSE e \in g[n - 1] : TRUE) = c[n - 1]
  <2>1. \A x : Cardinality({x}) = 1 /\ (CHOOSE e \in {x} : TRUE) = x
    BY FS_Singleton
  <2> QED
    BY <1>5, <2>1
<1>7. list = [n \in 1..N |-> c[n - 1]]
  BY <1>4, <1>6
<1>8. DOMAIN list = 1..N /\ \A n \in 1..N : list[n] = c[n - 1]
  BY <1>7
<1>9. list \in [1..N -> events]
  BY <1>2, <1>5, <1>7
<1>10. list[1] = root
  <2>1. 1 \in 1..N /\ 0 \in 0..(N - 1) /\ 1 - 1 = 0
    BY <1>1
  <2>2. list[1] = c[0]
    BY <1>8, <2>1
  <2>3. {root} = {c[0]}
    BY <1>2, <1>3, <2>1
  <2> QED
    BY <2>2, <2>3
<1>11. NoRepeats(list)
  <2> SUFFICES ASSUME NEW i \in 1..N, NEW j \in 1..N, list[i] = list[j] PROVE i = j
    BY <1>8 DEF NoRepeats
  <2>1. i - 1 = j - 1
    BY <1>2, <1>5, <1>8
  <2> QED
    BY <1>1, <2>1
<1>12. ToSet(list) = events
  <2>1. ToSet(list) \subseteq events
    BY <1>8, <1>9 DEF ToSet
  <2>2. Cardinality(ToSet(list)) = N
    <3> DEFINE I == 1..N
               R == ToSet(list)
    <3>1. IsFiniteSet(I) /\ Cardinality(I) = N
      <4>1. IsFiniteSet(I) /\ Cardinality(I) = IF 1 > N THEN 0 ELSE N - 1 + 1
        BY <1>1, FS_Interval
      <4> QED
        BY <1>1, <4>1
    <3>2. list \in Bijection(I, R)
      BY <1>8, <1>9, <1>11 DEF NoRepeats, ToSet, Bijection, Injection, Surjection, IsInjective
    <3>3. ExistsBijection(I, R)
      BY <3>2 DEF ExistsBijection
    <3> HIDE DEF I, R
    <3>4. Cardinality(R) = Cardinality(I)
      BY <3>1, <3>3, FS_Bijection
    <3> QED
      BY <3>1, <3>4 DEF R
  <2> QED
    BY <2>1, <2>2, FS_Subset DEF N
<1>13. ASSUME NEW n \in 1..(N - 1) PROVE Children(events, list[n]) = {list[n + 1]}
  <2>1. n \in 1..N /\ n + 1 \in 1..N /\ (n + 1) - 1 = n /\ n \in 0..(N - 1)
    BY <1>1
  <2>2. g[n] = Offspring(events, g[n - 1])
    BY <1>3, <2>1
  <2>3. g[n] = Children(events, c[n - 1])
    BY <1>5, <2>1, <2>2, OnlyOffspring
  <2> QED
    BY <1>2, <1>8, <2>1, <2>3
<1> QED
  BY <1>1, <1>9, <1>10, <1>11, <1>12, <1>13 DEF N, list

\* The API visits the chain along its length, and nothing twice.
Along(events, list, s, n) ==
    /\ n < Cardinality(events) =>
          /\ s.listed = SubSeq(list, 1, n)
          /\ s.todo = <<list[n + 1]>> \o Chronological(events)
    /\ n >= Cardinality(events) => s.listed = list

\* A single event is in order.
LEMMA OneSorted ==
    ASSUME NEW x
    PROVE  Chronological({x}) = <<x>>
<1>1. IsFiniteSet({x}) /\ Cardinality({x}) = 1
  BY FS_Singleton
<1>2. /\ Chronological({x}) \in Seq({x}) /\ Len(Chronological({x})) = 1
  BY <1>1, ChronologicalType
<1>3. Chronological({x})[1] = x
  BY <1>2
<1> QED
  BY <1>2, <1>3

\* The two orders of an undisturbed job agree.
LEMMA OrdersAgree ==
    ASSUME NEW events, IsFiniteSet(events), NEW root, NEW rank, Undivided(events, root, rank)
    PROVE  StrictOrder(events) # <<>> /\ OrderTraceByParent(events) = StrictOrder(events)
<1> DEFINE N == Cardinality(events)
           list == StrictOrder(events)
           v == Visits(events)
           M == Rounds(events)
           all == Chronological(events)
           T == {n \in 0..M : Along(events, list, v[n], n)}
<1>1. /\ N \in Nat \ {0} /\ list \in [1..N -> events] /\ list[1] = root
      /\ NoRepeats(list) /\ ToSet(list) = events
      /\ \A n \in 1..(N - 1) : Children(events, list[n]) = {list[n + 1]}
  BY StrictChain
<1>2. /\ M \in Nat /\ v[0] = FirstVisit(events)
      /\ \A n \in 1..M : v[n] = Visit(events, v[n - 1])
  BY VisitsAre
<1>3. \A n \in 0..M : v[n] \in VisitState(events)
  <2> DEFINE D == VisitState(events)
  <2>1. \A s \in D : Visit(events, s) \in D
    BY VisitCases
  <2> HIDE DEF D
  <2>2. FirstVisit(events) \in D
    BY StartSorted DEF D
  <2>3. \A n \in 0..M : v[n] \in D
    BY <2>1, <2>2, VisitInduction
  <2> QED
    BY <2>3 DEF D
<1>4. M >= N
  BY <1>1 DEF Rounds
<1>5. /\ all \in Seq(events) /\ list \in Seq(events) /\ Len(list) = N
      /\ \A n \in 0..N : /\ SubSeq(list, 1, n) \in Seq(events) /\ Len(SubSeq(list, 1, n)) = n
                         /\ \A i \in 1..n : SubSeq(list, 1, n)[i] = list[i]
  <2>1. all \in Seq(events) /\ list \in Seq(events) /\ Len(list) = N
    BY <1>1, StartSorted
  <2> HIDE DEF N, list
  <2>2. ASSUME NEW n \in 0..N
        PROVE  /\ SubSeq(list, 1, n) \in Seq(events) /\ Len(SubSeq(list, 1, n)) = n
               /\ \A i \in 1..n : SubSeq(list, 1, n)[i] = list[i]
    <3>1. \A i \in 1..n : list[i] \in events
      BY <1>1
    <3>2. /\ SubSeq(list, 1, n) \in Seq(events)
          /\ Len(SubSeq(list, 1, n)) = IF 1 <= n THEN n - 1 + 1 ELSE 0
          /\ \A i \in 1..(n - 1 + 1) : SubSeq(list, 1, n)[i] = list[1 + i - 1]
      BY <1>1, <3>1, SubSeqProperties
    <3> QED
      BY <1>1, <3>2
  <2> QED
    BY <2>1, <2>2
<1> HIDE DEF N, list, v, M, all
<1>6. 0 \in T
  <2>1. Start(events) = <<root>> \o all
    BY OneSorted DEF Undivided, Start, all
  <2>2. SubSeq(list, 1, 0) = <<>>
    BY <1>1, <1>5, EmptySeq
  <2>3. Along(events, list, v[0], 0)
    BY <1>1, <1>2, <2>1, <2>2 DEF Along, FirstVisit, N, all
  <2> QED
    BY <1>2, <2>3
<1>7. ASSUME NEW n \in 1..M, n - 1 \in T PROVE n \in T
  <2> DEFINE m == n - 1
             s == v[m]
             t == v[n]
  <2>1. /\ m \in 0..M /\ n = m + 1 /\ s \in VisitState(events) /\ t = Visit(events, s)
        /\ Along(events, list, s, m)
    BY <1>2, <1>3, <1>7
  <2>2. s.todo \in Seq(events) /\ s.listed \in Seq(events)
    BY <2>1 DEF VisitState
  <2> HIDE DEF m, s, t
  <2>3. CASE m >= N
    <3>1. s.listed = list /\ n >= N
      BY <1>1, <2>1, <2>3 DEF Along, N
    <3>2. ~Lists(events, s, t)
      BY <1>1, <3>1 DEF Lists
    <3>3. t.listed = list
      BY <2>1, <3>1, <3>2, VisitCases DEF PassesOver
    <3>4. Along(events, list, t, n)
      BY <1>1, <2>1, <3>1, <3>3 DEF Along, N
    <3> QED
      BY <3>4 DEF t
  <2>4. CASE m < N
    <3>1. /\ s.listed = SubSeq(list, 1, m) /\ s.todo = <<list[n]>> \o all
          /\ n \in 1..N /\ m \in 0..N
      BY <1>1, <2>1, <2>4 DEF Along, N, all
    <3>2. list[n] \in events
      BY <1>1, <3>1
    <3>3. /\ s.todo # <<>> /\ Head(s.todo) = list[n] /\ Tail(s.todo) = all
      BY <1>5, <3>1, <3>2
    <3>4. list[n] \notin ToSet(s.listed)
      <4>1. \A i \in 1..m : list[i] # list[n]
        BY <1>1, <1>5, <2>1, <3>1 DEF NoRepeats
      <4>2. DOMAIN s.listed = 1..m /\ \A i \in 1..m : s.listed[i] = list[i]
        BY <1>5, <2>2, <3>1
      <4> QED
        BY <4>1, <4>2 DEF ToSet
    <3>5. Lists(events, s, t)
      BY <2>1, <3>3, <3>4, VisitCases DEF PassesOver
    <3>6. /\ t.listed = Append(SubSeq(list, 1, m), list[n])
          /\ t.todo = Chronological(Children(events, list[n])) \o all
      BY <3>1, <3>3, <3>5 DEF Lists
    <3>7. t.listed = SubSeq(list, 1, n)
      <4> DEFINE a == SubSeq(list, 1, m)
                 b == SubSeq(list, 1, n)
      <4>1. /\ a \in Seq(events) /\ Len(a) = m /\ \A i \in 1..m : a[i] = list[i]
            /\ b \in Seq(events) /\ Len(b) = n /\ \A i \in 1..n : b[i] = list[i]
        BY <1>5, <3>1
      <4> HIDE DEF a, b
      <4>2. /\ Append(a, list[n]) \in Seq(events) /\ Len(Append(a, list[n])) = n
            /\ Append(a, list[n])[n] = list[n] /\ \A i \in 1..m : Append(a, list[n])[i] = a[i]
        BY <2>1, <3>2, <4>1, SetOfAppend
      <4>3. \A i \in 1..n : Append(a, list[n])[i] = b[i]
        BY <2>1, <4>1, <4>2
      <4>4. Append(a, list[n]) = b
        BY <4>1, <4>2, <4>3, SeqEqual
      <4> QED
        BY <3>6, <4>4 DEF a, b
    <3>8. CASE n < N
      <4>1. Children(events, list[n]) = {list[n + 1]}
        <5>1. n \in 1..(N - 1)
          BY <1>1, <3>1, <3>8
        <5> QED
          BY <1>1, <5>1
      <4>2. t.todo = <<list[n + 1]>> \o all
        BY <3>6, <4>1, OneSorted
      <4>3. Along(events, list, t, n)
        <5>1. ~(n >= N) /\ n < N
          BY <1>1, <3>1, <3>8
        <5> QED
          BY <3>7, <4>2, <5>1 DEF Along, N, all
      <4> QED
        BY <4>3 DEF t
    <3>9. CASE n = N
      <4>1. SubSeq(list, 1, N) = list
        BY <1>5, SubSeqFull
      <4>2. Along(events, list, t, n)
        BY <1>1, <3>7, <3>9, <4>1 DEF Along, N
      <4> QED
        BY <4>2 DEF t
    <3> QED
      BY <1>1, <3>1, <3>8, <3>9
  <2> QED
    BY <1>1, <2>1, <2>3, <2>4
<1>8. M \in T
  <2> HIDE DEF T
  <2> QED
    BY <1>2, <1>6, <1>7, UpTo
<1>9. v[M].listed = list
  BY <1>4, <1>8 DEF Along, N
<1>10. list # <<>>
  BY <1>1, <1>5
<1> QED
  BY <1>9, <1>10 DEF OrderTraceByParent, Rounds, v, M, list

\* The order in which the events of one job come.
RankOf(e) ==
    IF e.id = Http THEN 0
    ELSE IF e.id = Pending THEN 1
    ELSE IF KindOf(e.id) = "run" THEN 2 * NumberOf(e.id) ELSE 2 * NumberOf(e.id) + 1

\* An undisturbed job whose request and addMonitoredJob() have returned.
WholeJob ==
    ~disturbed /\ request = "finished" /\ call = "returned"

\* Every event but that of the request names an event that has been emitted.
LEMMA ParentEmitted ==
    ASSUME IInv, Gathered, WholeJob, NEW e \in emitted, e.id # Http
    PROVE  Queued(e) /\ \E p \in emitted : p.id = e.parent
<1>1. OneTrace /\ (\E p \in emitted : p.id = Http) /\ \E p \in emitted : p.id = Pending
  BY DEF Gathered, RequestTold, WholeJob
<1>2. Queued(e)
  BY <1>1
  DEF OneTrace, IInv, Forms, HostEvent, HttpEvent, PendingEvent, RunEvent, OutcomeEvent,
      RetryEvent, SuccessEvent, FailureEvent, RetryForm, SuccessForm, FailureForm, Queued
<1>3. HasParent(e)
  BY <1>2, ParentsParts DEF IInv, EventParents
<1>4. KindOf(e.parent) # "lost"
  BY <1>1 DEF OneTrace
<1> QED
  BY <1>1, <1>2, <1>3, <1>4 DEF HasParent, Emitted

\* A parent comes before its child.
LEMMA ParentComesFirst ==
    ASSUME IInv, NEW e \in emitted, NEW p \in emitted, Queued(e), e.parent = p.id
    PROVE  RankOf(e) \in Nat /\ RankOf(p) \in Nat /\ RankOf(p) < RankOf(e)
<1>1. PendingEvent(e) \/ RunEvent(e) \/ OutcomeEvent(e)
  BY FormByType DEF IInv
<1>2. runs \in Nat
  BY DEF IInv, Types
<1>3. RankOf(Http) = RankOf(Http)
  OBVIOUS
<1>4. ASSUME PendingEvent(e)
      PROVE  RankOf(e) = 1 /\ RankOf(p) = 0
  BY <1>4, IdParts DEF PendingEvent, RankOf
<1>5. ASSUME RunEvent(e)
      PROVE  /\ RankOf(e) = 2 * NumberOf(e.id) /\ NumberOf(e.id) \in 1..runs
             /\ \/ RankOf(p) = 1
                \/ /\ RankOf(p) = 2 * NumberOf(p.id) + 1 /\ NumberOf(p.id) \in 1..runs
                   /\ NumberOf(p.id) < NumberOf(e.id)
  <2>1. KindOf(e.id) = "run" /\ NumberOf(e.id) \in 1..runs
    BY <1>5, IdParts DEF RunEvent
  <2>2. RankOf(e) = 2 * NumberOf(e.id)
    BY <2>1, IdParts DEF RankOf
  <2>3. KindOf(p.id) # "lost"
    BY IdParts DEF IInv, Forms, HostEvent, HttpEvent, PendingEvent, RunEvent, OutcomeEvent,
                   RetryEvent, SuccessEvent, FailureEvent
  <2>4. CASE e.parent = Pending
    BY <2>1, <2>2, <2>4, IdParts DEF RankOf
  <2>5. CASE e.parent # Pending
    <3>1. /\ p.id = RetryId(NumberOf(p.id)) /\ NumberOf(p.id) \in 1..runs
          /\ NumberOf(p.id) < NumberOf(e.id)
      BY <1>5, <2>3, <2>5, IdParts DEF RunEvent
    <3>2. KindOf(p.id) = "retry"
      BY <3>1, IdParts
    <3>3. RankOf(p) = 2 * NumberOf(p.id) + 1
      BY <3>2, IdParts DEF RankOf
    <3> QED
      BY <2>1, <2>2, <3>1, <3>3
  <2> QED
    BY <2>4, <2>5
<1>6. ASSUME OutcomeEvent(e)
      PROVE  /\ NumberOf(e.id) \in 1..runs
             /\ RankOf(e) = 2 * NumberOf(e.id) + 1 /\ RankOf(p) = 2 * NumberOf(e.id)
  <2>1. /\ KindOf(e.id) \in {"retry", "end"} /\ NumberOf(e.id) \in 1..runs
        /\ p.id = RunId(NumberOf(e.id))
    BY <1>6, IdParts DEF OutcomeEvent, RetryEvent, SuccessEvent, FailureEvent
  <2>2. KindOf(p.id) = "run" /\ NumberOf(p.id) = NumberOf(e.id)
    BY <2>1, IdParts
  <2> QED
    BY <2>1, <2>2, IdParts DEF RankOf
<1>7. \A n \in 1..runs : n \in Nat /\ n >= 1
  BY <1>2
<1> HIDE DEF RankOf
<1> QED
  BY <1>1, <1>4, <1>5, <1>6, <1>7

\* The events of such a job form one chain.
LEMMA JobUndivided ==
    ASSUME IInv, Gathered, WholeJob
    PROVE  \E root, rank : Undivided(emitted, root, rank)
<1>1. PICK root \in emitted : root.id = Http
  BY DEF Gathered, RequestTold, WholeJob
<1>2. IdsUnique(emitted)
  BY DEF IInv, Forms, IdsUnique
<1>3. \A e \in emitted : e.id = Http <=> e = root
  BY <1>1, <1>2 DEF IdsUnique
<1>4. root.parent = NoParent
  BY <1>1 DEF Gathered, RequestTold
<1>5. \A e \in emitted : e.id # NoParent
  <2>1. \A e \in emitted : KindOf(e.id) # "none"
    <3>1. OneTrace
      BY DEF Gathered, RequestTold, WholeJob
    <3> QED
      BY IdParts DEF IInv, Forms, HostEvent, HttpEvent, PendingEvent, RunEvent, OutcomeEvent,
                     RetryEvent, SuccessEvent, FailureEvent
  <2> QED
    BY <2>1 DEF NoParent, KindOf
<1>6. \A e \in emitted \ {root} : Queued(e) /\ \E p \in emitted : p.id = e.parent
  BY <1>3, ParentEmitted
<1>7. {e \in emitted : e.parent = NoParent} = {root} /\ Roots(emitted) = {root}
  BY <1>1, <1>4, <1>5, <1>6 DEF Roots
<1>8. \A e, f \in emitted : e.parent = f.parent => e = f
  <2>1. Distinct
    BY DEF IInv, Undisturbed, WholeJob
  <2> QED
    BY <1>4, <1>5, <1>6, <2>1 DEF Distinct
<1> DEFINE rank == [e \in emitted |-> RankOf(e)]
<1>9. /\ \A e \in emitted : RankOf(e) \in Nat
      /\ \A e, p \in emitted : e.parent = p.id => RankOf(p) < RankOf(e)
  <2>1. RankOf(root) = 0
    BY <1>1 DEF RankOf
  <2>2. ASSUME NEW e \in emitted, e # root
        PROVE  RankOf(e) \in Nat
    BY <1>6, <2>2, ParentComesFirst
  <2>3. ASSUME NEW e \in emitted, NEW p \in emitted, e.parent = p.id
        PROVE  RankOf(p) < RankOf(e)
    <3>1. e # root
      BY <1>4, <1>5, <2>3
    <3> QED
      BY <1>6, <2>3, <3>1, ParentComesFirst
  <2> QED
    BY <2>1, <2>2, <2>3
<1>10. rank \in [emitted -> Nat] /\ \A e, p \in emitted : e.parent = p.id => rank[p] < rank[e]
  BY <1>9
<1> HIDE DEF rank
<1> QED
  BY <1>1, <1>2, <1>7, <1>8, <1>10 DEF Undivided

-----------------------------------------------------------------------------
(* What the API takes. *)

\* The fields of an event that the API looks at.
EventFields == {"type", "status", "wellFormed", "attempt", "maxAttempts", "data"}

\* An error with a message of sensible size, and a route that is a template.
Sensible(e) ==
    /\ "error" \in DOMAIN e.data => e.data["error"] = "named"
    /\ e.type = "http_request" => "route" \in DOMAIN e.data /\ e.data["route"] = "template"
Sound(e) == EventFields \subseteq DOMAIN e /\ (Sensible(e) => ValidEvent(e))

\* Redaction keeps of every typed field what the validation asks of it.
LEMMA RedactedField ==
    ASSUME NEW data, NEW policy, policy.hidden \cap TypedField = {}, NEW f \in DOMAIN data
    PROVE  LET new == RedactTelemetryData(data, policy)
           IN  /\ DOMAIN new = DOMAIN data
               /\ data[f] # "huge" => new[f] # "huge"
               /\ f \in TypedField =>
                     /\ data[f] \in Strings => new[f] \in Strings
                     /\ data[f] # "contact" => new[f] = data[f]
                     /\ data[f] # "path" => new[f] # "path"
  BY DEF RedactTelemetryData, RedactString, Strings

\* A valid event stays valid.
LEMMA RedactionKeeps ==
    ASSUME NEW e, EventFields \subseteq DOMAIN e, ValidEvent(e),
           NEW policy, policy.hidden \cap TypedField = {}
    PROVE  Accepts(e, policy)
<1> DEFINE c == Candidate(e, policy)
           data == e.data
           new == RedactTelemetryData(data, policy)
<1>1. /\ c.type = e.type /\ c.status = e.status /\ c.wellFormed = e.wellFormed
      /\ c.attempt = e.attempt /\ c.maxAttempts = e.maxAttempts /\ c.data = new
  BY DEF Candidate, EventFields
<1>2. DOMAIN new = DOMAIN data
  BY DEF RedactTelemetryData
<1>3. \A f \in DOMAIN data :
         /\ data[f] # "huge" => new[f] # "huge"
         /\ f \in TypedField =>
               /\ data[f] \in Strings => new[f] \in Strings
               /\ data[f] # "contact" => new[f] = data[f]
               /\ data[f] # "path" => new[f] # "path"
  <2> TAKE f \in DOMAIN data
  <2> QED
    BY RedactedField
<1> HIDE DEF c, data, new
<1>4. \A f \in TypedField : /\ RequiredString(data, f) => RequiredString(new, f)
                            /\ RequiredInteger(data, f) => RequiredInteger(new, f)
  BY <1>2, <1>3 DEF RequiredString, RequiredInteger
<1>5. \A required \in BOOLEAN : ErrorValid(data, required) => ErrorValid(new, required)
  BY <1>2, <1>3 DEF ErrorValid, TypedField
<1>6. \A s : HttpValid(data, s) => HttpValid(new, s)
  <2> SUFFICES ASSUME NEW s, HttpValid(data, s) PROVE HttpValid(new, s)
    OBVIOUS
  <2>1. new["route"] # "path"
    BY <1>3 DEF HttpValid, RequiredString, TypedField
  <2>2. /\ RequiredString(new, "method") /\ RequiredString(new, "route")
        /\ RequiredInteger(new, "statusCode")
    BY <1>4 DEF HttpValid, TypedField
  <2> QED
    BY <1>5, <2>1, <2>2 DEF HttpValid
<1>7. \A s : WebhookValid(data, s) => WebhookValid(new, s)
  BY <1>4, <1>5 DEF WebhookValid, TypedField
<1>8. QueueBaseValid(data) => QueueBaseValid(new)
  BY <1>4 DEF QueueBaseValid, TypedField
<1>9. AttemptsValid(e) => AttemptsValid(c)
  BY <1>1, <1>4 DEF AttemptsValid, TypedField, data
<1>10. "nextRetryAt" \in DOMAIN data /\ data["nextRetryAt"] = "time" =>
       "nextRetryAt" \in DOMAIN new /\ new["nextRetryAt"] = "time"
  BY <1>2, <1>3 DEF TypedField
<1>11. TypeDataValid(c)
  <2>1. TypeDataValid(e)
    BY DEF ValidEvent
  <2> QED
    BY <1>1, <1>5, <1>6, <1>7, <1>8, <1>9, <1>10, <2>1 DEF TypeDataValid, data
<1>12. Fits(c) /\ SensitiveFree(c.data)
  BY <1>1, <1>2, <1>3 DEF ValidEvent, Fits, SensitiveFree, data
<1> QED
  BY <1>1, <1>11, <1>12 DEF Accepts, ValidEvent, c

IsFcn(g) == g = [x \in DOMAIN g |-> g[x]]

\* With() sets one field.
Sets(new, data, field, value) ==
    /\ DOMAIN new = DOMAIN data \cup {field} /\ IsFcn(new) /\ new[field] = value
    /\ \A f \in DOMAIN data \ {field} : new[f] = data[f]

LEMMA WithIs ==
    ASSUME NEW data, NEW field, NEW value
    PROVE  Sets(With(data, field, value), data, field, value)
  BY DEF With, IsFcn, Sets

\* A record of typed fields, which the SDK's redaction leaves as it is.
Plain(data) == DOMAIN data \subseteq TypedField /\ IsFcn(data)

\* The data of the adapters stay what they are.
LEMMA SdkLeaves ==
    ASSUME NEW data, Plain(data), SdkHidden \cap TypedField = {}
    PROVE  SdkRedacted(data, SdkHidden) = data
<1>1. \A f \in DOMAIN data : f \notin SdkHidden
  BY DEF Plain
<1>2. SdkRedacted(data, SdkHidden) = [f \in DOMAIN data |-> data[f]]
  BY <1>1 DEF SdkRedacted
<1> QED
  BY <1>2 DEF Plain, IsFcn

\* What JobData and the records made from it hold.
LEMMA JobDataIs ==
    /\ Plain(JobData) /\ DOMAIN JobData = {"queueName", "jobId", "jobName", "attempt"}
    /\ JobData["queueName"] = "text" /\ JobData["jobId"] = "contact"
    /\ JobData["jobName"] = "text" /\ JobData["attempt"] = "int"
  BY DEF JobData, Plain, TypedField, IsFcn

\* What a failed attempt adds, and then a retry.
LEMMA FaultDataIs ==
    ASSUME NEW fault
    PROVE  LET data == FaultData(fault)
           IN  /\ Plain(data) /\ DOMAIN data = DOMAIN JobData \cup {"maxAttempts", "error"}
               /\ data["maxAttempts"] = "int" /\ data["error"] = fault
               /\ \A f \in DOMAIN JobData : data[f] = JobData[f]
<1> DEFINE m == With(JobData, "maxAttempts", "int")
           d == FaultData(fault)
<1>1. Sets(m, JobData, "maxAttempts", "int") /\ Sets(d, m, "error", fault)
  BY WithIs DEF FaultData
<1> HIDE DEF m, d
<1>2. DOMAIN m = DOMAIN JobData \cup {"maxAttempts"} /\ m["maxAttempts"] = "int"
  BY <1>1 DEF Sets
<1>3. \A f \in DOMAIN JobData : f # "maxAttempts" /\ f # "error"
  BY JobDataIs
<1>4. \A f \in DOMAIN JobData : d[f] = JobData[f]
  BY <1>1, <1>2, <1>3 DEF Sets
<1>5. /\ DOMAIN d = DOMAIN JobData \cup {"maxAttempts", "error"} /\ IsFcn(d)
      /\ d["maxAttempts"] = "int" /\ d["error"] = fault
  BY <1>1, <1>2 DEF Sets
<1>6. Plain(d)
  BY <1>5, JobDataIs DEF Plain, TypedField
<1> QED
  BY <1>4, <1>5, <1>6 DEF d

LEMMA RetryDataIs ==
    ASSUME NEW fault
    PROVE  LET data == RetryData(fault)
           IN  /\ Plain(data) /\ DOMAIN data = DOMAIN FaultData(fault) \cup {"nextRetryAt"}
               /\ data["nextRetryAt"] = "time"
               /\ \A f \in DOMAIN FaultData(fault) : data[f] = FaultData(fault)[f]
<1> DEFINE d == FaultData(fault)
           r == RetryData(fault)
<1>1. Sets(r, d, "nextRetryAt", "time")
  BY WithIs DEF RetryData
<1>2. DOMAIN d = DOMAIN JobData \cup {"maxAttempts", "error"} /\ Plain(d)
  BY FaultDataIs
<1>3. \A f \in DOMAIN d : f # "nextRetryAt"
  BY <1>2, JobDataIs
<1> HIDE DEF d, r
<1>4. /\ DOMAIN r = DOMAIN d \cup {"nextRetryAt"} /\ IsFcn(r) /\ r["nextRetryAt"] = "time"
      /\ \A f \in DOMAIN d : r[f] = d[f]
  BY <1>1, <1>3 DEF Sets
<1>5. Plain(r)
  BY <1>2, <1>4 DEF Plain, TypedField
<1> QED
  BY <1>4, <1>5 DEF d, r

\* What the event of a request holds.
LEMMA HttpDataIs ==
    ASSUME NEW route, NEW fault
    PROVE  LET data == HttpData(route, fault)
           IN  /\ Plain(data)
               /\ DOMAIN data \subseteq {"method", "statusCode", "route", "error"}
               /\ "method" \in DOMAIN data /\ data["method"] = "text"
               /\ "statusCode" \in DOMAIN data /\ data["statusCode"] = "int"
               /\ "error" \in DOMAIN data <=> fault # "none"
<1> DEFINE base == [method |-> "text", statusCode |-> "int"]
           routed == IF route = "absent" THEN base ELSE With(base, "route", route)
           d == HttpData(route, fault)
<1>1. /\ DOMAIN base = {"method", "statusCode"} /\ base["method"] = "text"
      /\ base["statusCode"] = "int" /\ IsFcn(base)
  BY DEF IsFcn
<1>2. routed = base \/ Sets(routed, base, "route", route)
  BY WithIs
<1>3. IF fault = "none" THEN d = routed ELSE Sets(d, routed, "error", fault)
  <2>1. d = IF fault = "none" THEN routed ELSE With(routed, "error", fault)
    BY Zenon DEF HttpData
  <2> HIDE DEF base, routed, d
  <2> QED
    BY <2>1, WithIs
<1> HIDE DEF base, routed, d
<1>4. /\ DOMAIN routed \in {{"method", "statusCode"}, {"method", "statusCode", "route"}}
      /\ routed["method"] = "text" /\ routed["statusCode"] = "int" /\ IsFcn(routed)
  BY <1>1, <1>2 DEF Sets
<1>5. /\ DOMAIN d = DOMAIN routed \cup (IF fault = "none" THEN {} ELSE {"error"})
      /\ d["method"] = "text" /\ d["statusCode"] = "int" /\ IsFcn(d)
  BY <1>3, <1>4 DEF Sets
<1>6. Plain(d)
  BY <1>4, <1>5 DEF Plain, TypedField
<1> QED
  BY <1>4, <1>5, <1>6 DEF d

\* An event as client.emit() makes it.
Made(x, type, status, data, attempt) ==
    /\ EventFields \subseteq DOMAIN x /\ x.type = type /\ x.status = status /\ x.data = data
    /\ x.attempt = attempt /\ x.maxAttempts = MaxAttempts /\ x.wellFormed = TRUE

\* client.emit() with such data.
LEMMA EmitMakes ==
    ASSUME NEW id, NEW parent, NEW trace, NEW type, NEW status, NEW at, NEW data, NEW attempt,
           Plain(data), SdkHidden \cap TypedField = {},
           Emit(id, parent, trace, type, status, at, data, attempt)
    PROVE  \E x : emitted' = emitted \cup {x} /\ Made(x, type, status, data, attempt)
<1> DEFINE x == [id |-> id, parent |-> parent, trace |-> trace, type |-> type,
                 status |-> status, at |-> at, data |-> SdkRedacted(data, SdkHidden),
                 attempt |-> attempt, maxAttempts |-> MaxAttempts, wellFormed |-> TRUE]
<1>1. emitted' = emitted \cup {x}
  BY DEF Emit
<1>2. x.data = data
  BY SdkLeaves
<1>3. Made(x, type, status, data, attempt)
  BY <1>2 DEF Made, EventFields
<1> QED
  BY <1>1, <1>3

\* What is asked of every event.
LEMMA StatusesAre ==
    /\ AllowedStatuses["queue_job"] = {"pending", "processing", "success"}
    /\ AllowedStatuses["queue_retry"] = {"retrying"}
    /\ AllowedStatuses["queue_failed"] = {"failure"}
    /\ AllowedStatuses["http_request"] = {"success", "failure"}
  BY DEF AllowedStatuses

\* The pending, processing and success events of a job.
LEMMA JobSound ==
    ASSUME NEW x, NEW status \in {"pending", "processing", "success"}, NEW attempt,
           Made(x, "queue_job", status, JobData, attempt)
    PROVE  Sound(x)
<1>1. QueueBaseValid(JobData) /\ ErrorValid(JobData, FALSE)
  BY JobDataIs DEF QueueBaseValid, RequiredString, RequiredInteger, ErrorValid, Strings
<1>2. TypeDataValid(x)
  BY <1>1 DEF TypeDataValid, Made
<1>3. Fits(x) /\ SensitiveFree(x.data)
  BY JobDataIs DEF Fits, SensitiveFree, Made
<1> QED
  BY <1>2, <1>3, StatusesAre DEF Sound, ValidEvent, Made, EventType

\* The retry and failure events.
LEMMA FaultSound ==
    ASSUME NEW x, NEW fault, NEW attempt \in 1..MaxAttempts,
           \/ Made(x, "queue_retry", "retrying", RetryData(fault), attempt)
           \/ Made(x, "queue_failed", "failure", FaultData(fault), attempt)
    PROVE  Sound(x)
<1> SUFFICES ASSUME Sensible(x) PROVE ValidEvent(x)
  BY DEF Sound, Made
<1>1. /\ DOMAIN JobData \cup {"maxAttempts", "error"} \subseteq DOMAIN x.data
      /\ DOMAIN x.data \subseteq TypedField
      /\ x.data["maxAttempts"] = "int" /\ x.data["error"] = fault
      /\ \A f \in DOMAIN JobData : x.data[f] = JobData[f]
      /\ DOMAIN x.data \subseteq DOMAIN JobData \cup {"maxAttempts", "error", "nextRetryAt"}
      /\ "nextRetryAt" \in DOMAIN x.data => x.data["nextRetryAt"] = "time"
      /\ x.type = "queue_retry" => "nextRetryAt" \in DOMAIN x.data
  <2>1. CASE Made(x, "queue_retry", "retrying", RetryData(fault), attempt)
    <3> DEFINE d == FaultData(fault)
               r == RetryData(fault)
    <3>1. /\ DOMAIN d = DOMAIN JobData \cup {"maxAttempts", "error"}
          /\ d["maxAttempts"] = "int" /\ d["error"] = fault
          /\ \A f \in DOMAIN JobData : d[f] = JobData[f]
      BY FaultDataIs
    <3>2. /\ DOMAIN r = DOMAIN d \cup {"nextRetryAt"} /\ r["nextRetryAt"] = "time"
          /\ DOMAIN r \subseteq TypedField /\ \A f \in DOMAIN d : r[f] = d[f]
      BY RetryDataIs DEF Plain
    <3>3. x.data = r
      BY <2>1 DEF Made
    <3> HIDE DEF d, r
    <3> QED
      BY <3>1, <3>2, <3>3
  <2>2. CASE Made(x, "queue_failed", "failure", FaultData(fault), attempt)
    BY <2>2, FaultDataIs, JobDataIs DEF Made, Plain
  <2> QED
    BY <2>1, <2>2
<1>2. fault = "named"
  BY <1>1 DEF Sensible
<1>3. QueueBaseValid(x.data) /\ ErrorValid(x.data, TRUE)
  BY <1>1, <1>2, JobDataIs
  DEF QueueBaseValid, RequiredString, RequiredInteger, ErrorValid, Strings
<1>4. AttemptsValid(x)
  BY <1>1, Limits DEF AttemptsValid, RequiredInteger, Made
<1>5. TypeDataValid(x)
  BY <1>1, <1>3, <1>4 DEF TypeDataValid, Made
<1>6. Fits(x) /\ SensitiveFree(x.data)
  BY <1>1, <1>2, JobDataIs DEF Fits, SensitiveFree, TypedField
<1> QED
  BY <1>5, <1>6, StatusesAre DEF ValidEvent, Made, EventType

\* The event of a request.
LEMMA HttpSound ==
    ASSUME NEW x, NEW route, NEW fault, NEW attempt,
           Made(x, "http_request", IF fault = "none" THEN "success" ELSE "failure",
                HttpData(route, fault), attempt)
    PROVE  Sound(x)
<1> SUFFICES ASSUME Sensible(x) PROVE ValidEvent(x)
  BY DEF Sound, Made
<1>1. /\ x.type = "http_request" /\ x.status = IF fault = "none" THEN "success" ELSE "failure"
      /\ x.data = HttpData(route, fault) /\ x.wellFormed
  BY DEF Made
<1>2. /\ DOMAIN x.data \subseteq {"method", "statusCode", "route", "error"}
      /\ "method" \in DOMAIN x.data /\ x.data["method"] = "text"
      /\ "statusCode" \in DOMAIN x.data /\ x.data["statusCode"] = "int"
      /\ "error" \in DOMAIN x.data <=> fault # "none"
  BY <1>1, HttpDataIs
<1>3. /\ "route" \in DOMAIN x.data /\ x.data["route"] = "template"
      /\ "error" \in DOMAIN x.data => x.data["error"] = "named"
  BY <1>1 DEF Sensible
<1>4. HttpValid(x.data, x.status)
  BY <1>1, <1>2, <1>3 DEF HttpValid, RequiredString, RequiredInteger, ErrorValid, Strings
<1>5. TypeDataValid(x)
  BY <1>1, <1>4 DEF TypeDataValid
<1>6. Fits(x) /\ SensitiveFree(x.data)
  BY <1>2, <1>3 DEF Fits, SensitiveFree
<1> QED
  BY <1>1, <1>5, <1>6, StatusesAre DEF ValidEvent, EventType

\* No field that the validation reads is hidden by the SDK's redact option, and the events
\* of handlers are as good as those the SDK makes.
TypedShown == SdkHidden \cap TypedField = {}
HostSound == \A H \in HostEvents : \A e \in H : Sound(e)

AllSound == \A e \in emitted : Sound(e)

\* Every event that a step emits is as good.
LEMMA SoundNext ==
    ASSUME TypedShown, Lifecycle, AllSound, Next
    PROVE  AllSound'
<1>0. ASSUME emitted' = emitted \/ \E x : emitted' = emitted \cup {x} /\ Sound(x)
      PROVE  AllSound'
  BY <1>0 DEF AllSound
<1>1. ASSUME NEW route, NEW fault, Finish(route, fault)
      PROVE  AllSound'
  <2>1. Plain(HttpData(route, fault))
    BY HttpDataIs
  <2> DEFINE status == IF fault = "none" THEN "success" ELSE "failure"
  <2>2. PICK x : /\ emitted' = emitted \cup {x}
                 /\ Made(x, "http_request", status, HttpData(route, fault), 0)
    <3> HIDE DEF status
    <3>1. Emit(Http, NoParent, TraceId, "http_request", status, 0, HttpData(route, fault), 0)
      BY <1>1 DEF Finish, status
    <3> QED
      BY <2>1, <3>1, EmitMakes DEF TypedShown
  <2> QED
    BY <1>0, <2>2, HttpSound
<1>2. CASE AddReturns
  <2>1. PICK x : /\ emitted' = emitted \cup {x} /\ Made(x, "queue_job", "pending", JobData, 0)
    BY <1>2, JobDataIs, EmitMakes DEF AddReturns, TypedShown
  <2> QED
    BY <1>0, <2>1, JobSound
<1>3. CASE Abort \/ Land \/ AddRejects \/ Lapse
  BY <1>0, <1>3 DEF Abort, Land, AddRejects, Lapse, Stall, Postpone
<1>4. ASSUME NEW w \in Worker, PickUp(w)
      PROVE  AllSound'
  <2> DEFINE n == runs + 1
             trace == IF job.monitored THEN job.trace ELSE <<"trace", n>>
             parent == IF job.monitored THEN job.parent ELSE <<"lost", n>>
  <2>1. Emit(<<"run", n>>, parent, trace, "queue_job", "processing", Now(w), JobData,
             AttemptOf(job))
    BY <1>4 DEF PickUp
  <2> HIDE DEF trace, parent
  <2>2. PICK x : /\ emitted' = emitted \cup {x}
                 /\ Made(x, "queue_job", "processing", JobData, AttemptOf(job))
    BY <2>1, JobDataIs, EmitMakes DEF TypedShown
  <2> QED
    BY <1>0, <2>2, JobSound
<1>5. ASSUME NEW w \in Worker, NEW id, NEW type, NEW status, NEW data, NEW pc,
             Report(w, id, type, status, data, pc), Plain(data)
      PROVE  /\ run[w].attempt \in 1..MaxAttempts
             /\ \E x : /\ emitted' = emitted \cup {x}
                       /\ Made(x, type, status, data, run[w].attempt)
  <2>1. Emit(id, ActiveEvent(w), run[w].trace, type, status, Now(w), data, run[w].attempt)
    BY <1>5 DEF Report
  <2>2. run[w].attempt \in 1..MaxAttempts
    BY <1>5 DEF Report, Lifecycle, Busy
  <2> QED
    BY <1>5, <2>1, <2>2, EmitMakes DEF TypedShown
<1>6. ASSUME NEW w \in Worker, Succeed(w)
      PROVE  AllSound'
  <2>1. PICK x : /\ emitted' = emitted \cup {x}
                 /\ Made(x, "queue_job", "success", JobData, run[w].attempt)
    BY <1>5, <1>6, JobDataIs DEF Succeed
  <2> QED
    BY <1>0, <2>1, JobSound
<1>7. ASSUME NEW w \in Worker, NEW fault, ThrowRetry(w, fault)
      PROVE  AllSound'
  <2>1. Plain(RetryData(fault))
    BY RetryDataIs
  <2>2. /\ run[w].attempt \in 1..MaxAttempts
        /\ \E x : /\ emitted' = emitted \cup {x}
                  /\ Made(x, "queue_retry", "retrying", RetryData(fault), run[w].attempt)
    BY <1>5, <1>7, <2>1 DEF ThrowRetry
  <2> QED
    BY <1>0, <2>2, FaultSound
<1>8. ASSUME NEW w \in Worker, NEW fault, ThrowLast(w, fault)
      PROVE  AllSound'
  <2>1. Plain(FaultData(fault))
    BY FaultDataIs
  <2>2. /\ run[w].attempt \in 1..MaxAttempts
        /\ \E x : /\ emitted' = emitted \cup {x}
                  /\ Made(x, "queue_failed", "failure", FaultData(fault), run[w].attempt)
    BY <1>5, <1>8, <2>1 DEF ThrowLast
  <2> QED
    BY <1>0, <2>2, FaultSound
<1>9. ASSUME NEW w \in Worker, Update(w) \/ UpdateFails(w) \/ Settle(w) \/ Crash(w)
      PROVE  AllSound'
  <2>1. emitted' = emitted
    BY <1>9 DEF Update, UpdateFails, Settle, Crash
  <2> QED
    BY <1>0, <2>1
<1> QED
  BY <1>1, <1>2, <1>3, <1>4, <1>6, <1>7, <1>8, <1>9 DEF Next, Lapse

-----------------------------------------------------------------------------
(* The theorems. *)

\* The state keeps its types: only an active job is owned, no attempt has a number beyond
\* the last, and no two events of a trace have the same id.
THEOREM TypeCorrect == Spec => []TypeOK
<1>1. IInv => TypeOK
  BY Limits DEF IInv, Types, JobType, RunType, Lifecycle, Forms, TypeOK, Busy
<1> QED
  BY <1>1, SpecIInv, PTL

\* Whatever happens to locks, updates and workers, the parent of every event of a job has
\* been emitted before it, but for the two that the code sends later (bullmq.ts).
THEOREM ParentsFirst == Spec => []Causal
<1>1. IInv => Causal
  BY DEF IInv, Parents
<1> QED
  BY <1>1, SpecIInv, PTL

\* As long as no lock lapses, no attempt is postponed and no updateData() fails, the events
\* of a job form one chain through all its attempts, of any number of workers.
THEOREM OneChain == Spec => []Linear
<1>1. IInv => Linear
  BY DEF IInv, Undisturbed, Distinct, Linear
<1> QED
  BY <1>1, SpecIInv, PTL

\* What BullMQ decides about a job and what its events say, as the wrapper of bullmq.ts
\* emits them: a completed job has its success event; one that failed with its last attempt
\* has its queue_failed event, unless lapsed locks failed it; one that BullMQ gave up before
\* has a retry event and, undisturbed, no terminal event at all.
THEOREM OutcomeTold == Spec => []Told
<1>1. ASSUME IInv
      PROVE  Told
  <2>1. /\ job.state = "completed" => Succeeded # {}
        /\ job.state = "failed" => Failed # {} \/ stalls > MaxStalls
        /\ job.state = "givenUp" => Retried # {}
    BY <1>1 DEF IInv, Announced
  <2>2. ASSUME ~disturbed
        PROVE  /\ Cardinality(Succeeded \cup Failed) <= 1
               /\ job.state = "givenUp" => Succeeded \cup Failed = {}
               /\ {e.attempt : e \in Begun} = 1..Cardinality(Begun)
               /\ Cardinality(Retried) <= MaxAttempts - 1
    <3>1. EndedOnce /\ BegunCounted /\ RetriedCounted
      BY <1>1, <2>2 DEF IInv, Undisturbed, Counted
    <3>2. CASE Succeeded \cup Failed = {}
      <4>1. Cardinality(Succeeded \cup Failed) = 0
        BY <3>2, FS_EmptySet
      <4> QED
        BY <3>1, <3>2, <4>1 DEF BegunCounted, RetriedCounted
    <3>3. CASE Succeeded \cup Failed # {}
      <4>1. PICK t : Succeeded \cup Failed = {t}
        BY <3>1, <3>3 DEF EndedOnce
      <4>2. Cardinality(Succeeded \cup Failed) = 1
        BY <4>1, FS_Singleton, Zenon
      <4> QED
        BY <3>1, <3>3, <4>2 DEF BegunCounted, RetriedCounted, EndedOnce
    <3> QED
      BY <3>2, <3>3
  <2> QED
    BY <2>1, <2>2 DEF Told, Succeeded, Failed, Begun, Retried
<1> QED
  BY <1>1, SpecIInv, PTL

\* Whatever part of a trace was stored, with any parents, clocks and losses, getTrace() of
\* store.ts lists each event once, and after its parent if it descends from a root.
THEOREM TraceComplete == Spec => []Listed
<1>1. ASSUME IInv, Gathered
      PROVE  Listed
  <2>1. ASSUME NEW lost \in SUBSET emitted, NEW t
        PROVE  LET stored == {e \in emitted \ lost : e.trace = t}
               IN  IsFiniteSet(stored) /\ IdsUnique(stored)
    <3>1. {e \in emitted \ lost : e.trace = t} \subseteq emitted
      OBVIOUS
    <3> QED
      BY <1>1, <3>1, FS_Subset DEF IInv, Gathered, Forms, IdsUnique
  <2> QED
    BY <2>1, TraceListed DEF Listed, GetTrace
<1> QED
  BY <1>1, SpecGathered, PTL

\* When a job ran undisturbed and nothing was lost, getTrace() and the stricter validator
\* of the demo service (timeline.ts) give one and the same order.
THEOREM TraceOrdersAgree == Spec => []Agrees
<1>1. ASSUME IInv, Gathered, WholeJob
      PROVE  StrictOrder(emitted) # <<>> /\ GetTrace(emitted, TraceId) = StrictOrder(emitted)
  <2>1. \A e \in emitted : e.trace = TraceId
    BY <1>1 DEF Gathered, RequestTold, WholeJob, OneTrace
  <2>2. {e \in emitted : e.trace = TraceId} = emitted
    BY <2>1
  <2>3. GetTrace(emitted, TraceId) = OrderTraceByParent(emitted)
    BY <2>2 DEF GetTrace
  <2> QED
    BY <1>1, <2>3, JobUndivided, OrdersAgree DEF Gathered
<1>2. IInv /\ Gathered => Agrees
  BY <1>1 DEF Agrees, WholeJob
<1> QED
  BY <1>2, SpecGathered, PTL

\* The API takes every event the SDK made whose error and route have their form, under
\* every policy that hides no field the validation needs (validation.ts).
THEOREM GoodEventsTaken == ASSUME TypedShown, HostSound PROVE Spec => []Recorded
<1>1. Init => AllSound
  BY HostSound DEF Init, AllSound, HostSound
<1>2. IInv /\ AllSound /\ [Next]_vars => AllSound'
  <2>1. ASSUME Lifecycle, AllSound, Next
        PROVE  AllSound'
    BY <2>1, TypedShown, SoundNext
  <2>2. ASSUME AllSound, UNCHANGED vars
        PROVE  AllSound'
    BY <2>2 DEF vars, AllSound
  <2> QED
    BY <2>1, <2>2 DEF IInv
<1>3. ASSUME AllSound
      PROVE  Recorded
  <2>1. ASSUME NEW e \in emitted, NEW policy \in Policies, Sensible(e),
               policy.hidden \cap TypedField = {}
        PROVE  Accepts(e, policy)
    BY <1>3, <2>1, RedactionKeeps DEF AllSound, Sound
  <2> QED
    BY <2>1 DEF Recorded, Sensible
<1> QED
  BY <1>1, <1>2, <1>3, SpecIInv, PTL DEF Spec
=============================================================================
