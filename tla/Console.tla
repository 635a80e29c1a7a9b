------------------------------ MODULE Console ------------------------------
(***************************************************************************)
(* What stands behind the dashboard of one user, put together: the user's  *)
(* sessions (Sessions), the tenants' resources (Tenancy) and the live view *)
(* of them (LiveRooms).  A request and a handshake need a session that     *)
(* Sessions keeps; subscriptions and fetches need the access that Tenancy  *)
(* keeps.                                                                  *)
(***************************************************************************)
EXTENDS LiveRooms

CONSTANT Load        \* what clients do: records [opened, mailed, callers, calls, slots,
                     \* requests, looks, chances]

ASSUME LoadAssumption ==
    \A l \in Load : /\ l.opened \in BOOLEAN /\ l.mailed \in Nat /\ l.looks \in BOOLEAN
                    /\ l.callers \subseteq Call /\ l.slots \subseteq Request
                    /\ l.calls \subseteq Operation /\ l.requests \subseteq Question

VARIABLE load        \* the one of this behaviour: it bounds what runs at once

vars == <<sessionsVars, tenancyVars, liveVars, load>>

Init ==
    /\ load \in Load
    /\ SessionsInit(load.opened, load.mailed) /\ TenancyInit /\ LiveInit

Chance(what) == what \in load.chances

SessionsMove ==
    /\ \/ \E c \in load.callers : \/ CallStep(c)
                                  \/ Chance("failures") /\ CallFails(c)
                                  \/ \E op \in load.calls : CallArrives(c, op)
       \/ Chance("sessionsExpire") /\ \E s \in Session : SessionExpires(s)
       \/ Chance("tokensExpire") /\ \E t \in Token : TokenExpires(t)
    /\ UNCHANGED <<tenancyVars, liveVars, load>>

TenancyMove ==
    /\ \/ \E r \in load.slots : \/ RequestStep(r)
                                \/ Chance("failures") /\ RequestFails(r)
                                \/ \E op \in load.requests : RequestArrives(r, op)
       \/ \E x \in Organizations : \/ Chance("demoted") /\ RoleChanges(x, "viewer")
                                   \/ Chance("removed") /\ RoleChanges(x, "none")
       \/ Chance("keysExpire") /\ \E x \in Row : KeyExpires(x)
    /\ UNCHANGED <<sessionsVars, liveVars, load>>

LiveMove == load.looks /\ LiveNext /\ UNCHANGED <<sessionsVars, tenancyVars, load>>

Next == SessionsMove \/ TenancyMove \/ LiveMove

\* Handlers go on by themselves, the interval of the page ticks, and a fetch is answered.
Fairness ==
    /\ \A f \in Fetch :
          /\ WF_vars(Ask(f) /\ LiveMove) /\ WF_vars(Answer(f) /\ LiveMove)
          /\ WF_vars(Show(f) /\ LiveMove)
    /\ \A h \in Subscription : WF_vars(Handler(h) /\ LiveMove)

Spec == Init /\ [][Next]_vars /\ Fairness

\* The type invariants of the parts.
TypeOK == SessionsTypeOK /\ TenancyTypeOK /\ LiveTypeOK

\* README.md: "the UI remains useful through polling even when real-time delivery is
\* unavailable".  Fetches overlap and late answers overwrite newer ones, the socket may sit in
\* the room of an environment left before: while the user keeps a session and access, the page
\* still comes to show the environment that is selected, with its latest events, for good.
MayLook == Access(selected) /\ \E s \in Session : Active(s)
UpToDate == view = [environment |-> selected, events |-> events[selected]]
EventuallyFresh == load.looks /\ <>[]MayLook => <>[]UpToDate
=============================================================================
