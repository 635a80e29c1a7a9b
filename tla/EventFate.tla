---------------------------- MODULE EventFate ----------------------------
(***************************************************************************)
(* What the SDK promises about telemetry events, whatever it does to       *)
(* deliver them: an event it accepts is held, then decided exactly once    *)
(* and for good.  It is "sent" only when it is stored, and otherwise it is *)
(* counted as dropped.  A dropped event may be stored all the same.        *)
(***************************************************************************)
EXTENDS Naturals

CONSTANT MaxEvents     \* bound: how many events there are

VARIABLES fate, stored

vars == <<fate, stored>>

Event == 1..MaxEvents
Fate == {"new", "held", "sent", "dropped"}
Held == {e \in Event : fate[e] = "held"}
Known == {e \in Event : fate[e] # "new"}

Init ==
    /\ fate = [e \in Event |-> "new"]
    /\ stored = {}

\* A new event is held, or dropped on the spot; holding it may cost one other.
Emit(e) ==
    /\ fate[e] = "new"
    /\ \/ fate' = [fate EXCEPT ![e] = "dropped"]
       \/ fate' = [fate EXCEPT ![e] = "held"]
       \/ \E old \in Held : fate' = [fate EXCEPT ![e] = "held", ![old] = "dropped"]
    /\ UNCHANGED stored

\* Some held events are decided together: each one is stored and sent, or dropped.
Decide ==
    /\ fate' \in [Event -> Fate]
    /\ \A e \in Event :
          \/ fate'[e] = fate[e]
          \/ e \in Held /\ fate'[e] \in {"sent", "dropped"}
    /\ stored' = stored \cup {e \in Held : fate'[e] = "sent"}

\* Known events are stored without the client learning of it.
StoreUnseen ==
    /\ stored \subseteq stored'
    /\ stored' \subseteq stored \cup Known
    /\ UNCHANGED fate

Next ==
    \/ \E e \in Event : Emit(e)
    \/ Decide
    \/ StoreUnseen

Spec == Init /\ [][Next]_vars

=============================================================================
