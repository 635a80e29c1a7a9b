----------------------------- MODULE TraceView ------------------------------
(***************************************************************************)
(* What becomes of the events of TraceChain: which of them the API takes   *)
(* (EventRules), and the order in which getTrace() lists those it stored   *)
(* (orderTraceByParent() of apps/api/src/store.ts), against the stricter   *)
(* order of the demo service's validator (apps/demo-service/src/           *)
(* timeline.ts).  The SDK may lose any event, so that any part of what was *)
(* emitted may be what is stored.                                          *)
(***************************************************************************)
EXTENDS TraceChain, Sequences, SequencesExt

CONSTANTS
    Policies,        \* security policies: [hidden |-> set of fields, scrub |-> BOOLEAN]
    MaxLost          \* bound: events of a trace that are lost on the way

-----------------------------------------------------------------------------
\* ORDER BY occurred_at, received_at: equal stamps come in any order.
Chronological(events) ==
    LET Put(e, list) ==
            InsertAt(list, 1 + Cardinality({i \in DOMAIN list : list[i].at <= e.at}), e)
    IN  FoldSet(Put, <<>>, events)

Children(events, e) == {f \in events : f.parent = e.id}
BugRoots(events) == {e \in events : e.parent = NoParent}
Roots(events) == {e \in events : e.parent \notin {f.id : f \in events}}

BugStart(events) == Chronological(events)
\* The events are visited from the roots first, and then from all that are left: those
\* of a cycle have no root.
Start(events) == Chronological(Roots(events)) \o Chronological(events)

\* One call of visit(): an event that is listed already is passed over; another one is
\* listed, and its children are visited next.
Visit(events, s) ==
    LET e == Head(s.todo)
    IN  IF s.todo = <<>> THEN s
        ELSE IF Contains(s.listed, e) THEN [s EXCEPT !.todo = Tail(@)]
        ELSE [todo |-> Chronological(Children(events, e)) \o Tail(s.todo),
              listed |-> Append(s.listed, e)]

Visits(events) ==
    LET visits[n \in 0..3 * Cardinality(events)] ==
            IF n = 0 THEN [todo |-> Start(events), listed |-> <<>>]
            ELSE Visit(events, visits[n - 1])
    IN  visits

\* An event is visited as a root, as the child of another, and as one of all.
OrderTraceByParent(events) == Visits(events)[3 * Cardinality(events)].listed
GetTrace(stored, trace) == OrderTraceByParent({e \in stored : e.trace = trace})

\* Some events, their children, the children of those and so on.
Generations(events, first) ==
    LET generation[n \in 0..Cardinality(events)] ==
            IF n = 0 THEN first ELSE UNION {Children(events, e) : e \in generation[n - 1]}
    IN  generation

\* timeline.ts: one root, one child each; <<>> stands for the errors it throws.
StrictOrder(events) ==
    LET generation == Generations(events, {e \in events : e.parent = NoParent})
        size == Cardinality(events)
    IN  IF \A n \in 1..size : Cardinality(generation[n - 1]) = 1
        THEN [n \in 1..size |-> CHOOSE e \in generation[n - 1] : TRUE]
        ELSE <<>>

-----------------------------------------------------------------------------
\* No run is in progress, and nothing more comes from the request.
Quiet ==
    /\ request # "open" /\ call # "adding"
    /\ \A w \in Worker : run[w].pc = "idle"

Traces == {e.trace : e \in emitted}

\* An event that descends from one whose parent is not there.
Rooted(events, e) ==
    LET tops == {r \in events : \A p \in events : p.id # r.parent}
    IN  \E n \in 0..Cardinality(events) : e \in Generations(events, tops)[n]

\* Whatever part of a trace was stored, with lost events, clocks that differ, parents that
\* are missing, and parents in a circle, getTrace() lists each event once, and after its
\* parent, unless it is in a circle or descends from one.
Listed ==
    Quiet =>
        \A lost \in {l \in SUBSET emitted : Cardinality(l) <= MaxLost}, t \in Traces :
            LET stored == {e \in emitted \ lost : e.trace = t}
                list == GetTrace(emitted \ lost, t)
            IN  /\ Len(list) = Cardinality(stored)
                /\ ToSet(list) = stored
                /\ \A i, j \in DOMAIN list :
                      list[i].parent = list[j].id =>
                          j < i \/ ~Rooted(stored, list[i])

\* When a job ran undisturbed and nothing was lost, the two orders are one: the validator
\* accepts the trace, and the API shows it as the validator does, whatever the clocks of
\* the workers say.
Agrees ==
    Quiet /\ ~disturbed /\ request = "finished" /\ call = "returned" =>
        /\ StrictOrder(emitted) # <<>>
        /\ GetTrace(emitted, TraceId) = StrictOrder(emitted)

\* The API takes every event the SDK made whose error has a message of sensible size and
\* whose route is a template, under every policy that hides no field the validation needs:
\* redaction never turns a good event into one that is rejected.
Recorded ==
    \A e \in emitted, policy \in Policies :
        (/\ "error" \in DOMAIN e.data => e.data["error"] = "named"
         /\ e.type = "http_request" => "route" \in DOMAIN e.data /\ e.data["route"] = "template"
         /\ policy.hidden \cap TypedField = {})
        => Accepts(e, policy)
=============================================================================
