--------------------------- MODULE SdkDelivery ---------------------------
(***************************************************************************)
(* The SDK client implements the promise of EventFate: the fate of an      *)
(* event is read off the client's buffers and its history.                 *)
(***************************************************************************)
EXTENDS SdkClient

FateOf(e) ==
    CASE e \in Elems(buffer) \cup Elems(batch) -> "held"
      [] e \in acked -> "sent"
      [] e \in discarded -> "dropped"
      [] OTHER -> "new"

Promise == INSTANCE EventFate WITH fate <- [e \in Event |-> FateOf(e)]

\* The refinement: every event that emit() was given is decided exactly once, and
\* no retry, overflow, rejection or shutdown revives it, loses it or counts it
\* twice.
PromiseKept == Promise!Spec

=============================================================================
