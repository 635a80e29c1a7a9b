------------------------------ MODULE MCTraces ------------------------------
(***************************************************************************)
(* Small instances of TraceView for TLC.                                   *)
(***************************************************************************)
EXTENDS TraceView

CONSTANTS w1, w2

\* The second worker's clock is far behind.
MCSkew == [w \in Worker |-> IF w = w2 THEN 0 - 2 ELSE 0]

Scrubbing(hidden) == [hidden |-> hidden, scrub |-> TRUE]
MCPolicies == {[hidden |-> {}, scrub |-> FALSE], Scrubbing({"customer"}), Scrubbing({"error"})}

\* Three events that a handler captures itself, with any parents: none, the request, one
\* that does not exist, each other or themselves.
HostId == {<<"host", k>> : k \in 1..3}
HostEvent(id, parent) ==
    [id |-> id, parent |-> parent, trace |-> TraceId, type |-> "webhook_received",
     status |-> "success", at |-> 0 - id[2], wellFormed |-> TRUE,
     data |-> [provider |-> "text", eventType |-> "text", providerEventId |-> "text",
               statusCode |-> "int"], attempt |-> 0, maxAttempts |-> 0]
MCHostEvents ==
    {{}} \cup {{HostEvent(id, parents[id]) : id \in HostId} :
                  parents \in [HostId -> HostId \cup {NoParent, Http}]}
=============================================================================
