----------------------------- MODULE LiveRooms -----------------------------
(***************************************************************************)
(* The live push and the page that shows it: the Socket.IO server of       *)
(* apps/api/src/server.ts with one socket of the user, and the dashboard   *)
(* of apps/web/src (live.tsx, EventsPage.tsx) that selects environments,   *)
(* subscribes, polls, and shows what arrives.                              *)
(*                                                                         *)
(* Socket.IO's in-memory adapter leaves and joins rooms at once; only the  *)
(* awaits let other handlers run.                                          *)
(***************************************************************************)
EXTENDS Tenancy

CONSTANTS
    Subscription,    \* environment:subscribe handlers that may run at once (bound)
    Fetch,           \* GET requests of the page that may be on their way at once (bound)
    Shown, Selected, \* the environments that the user looks at, and the one looked at first
    MaxSelects, MaxEvents, MaxDrops                   \* bounds on what happens from outside

ASSUME LiveAssumption ==
    /\ Subscription \cup Fetch \subseteq Nat /\ Selected \in Shown
    /\ MaxSelects \in Nat /\ MaxEvents \in Nat /\ MaxDrops \in Nat

VARIABLES
    connected,       \* whether the socket is connected
    rooms,           \* socket.rooms: the environments among them
    subscribe,       \* the handlers: [pc, environment]
    granted,         \* history: the environments found accessible since the connection
    selected,        \* AuthContext.environment
    due,             \* an effect of the page has a fetch to do
    fetch,           \* its fetches: [pc, environment, events]
    view,            \* what the page shows: [environment, events]
    events,          \* the number of events of each environment
    selects, drops   \* how often the user and the network have acted

liveVars == <<connected, rooms, subscribe, granted, selected, due, fetch, view, events, selects,
              drops>>

Nowhere == "none"
Access(e) == RoleFor(e) # "none"             \* getEnvironmentAccess()
NoFetch == [pc |-> "idle", environment |-> Nowhere, events |-> 0]
Idle(slots) == {s \in DOMAIN slots : slots[s].pc = "idle"}
First(S) == {s \in S : \A t \in S : s <= t}

-----------------------------------------------------------------------------
(***************************************************************************)
(* Variants of definitions below, as a mistake in the code would make      *)
(* them; each one shows that a property would notice the mistake.          *)
(***************************************************************************)
BugAfterLeave == "joining"
BugPolls == due

-----------------------------------------------------------------------------
LiveInit ==
    /\ connected = FALSE /\ rooms = {} /\ granted = {}
    /\ subscribe = [h \in Subscription |-> [pc |-> "idle", environment |-> Nowhere]]
    /\ selected = Selected
    /\ due = TRUE
    /\ fetch = [f \in Fetch |-> NoFetch]
    /\ view = [environment |-> Nowhere, events |-> 0]
    /\ events = [e \in Shown |-> 0]
    /\ selects = 0 /\ drops = 0

\* socket.emit("environment:subscribe"): the server starts a handler.
Subscribed(e) ==
    \E h \in First(Idle(subscribe)) :
        subscribe' = [subscribe EXCEPT ![h] = [pc |-> "asked", environment |-> e]]

\* The handshake finds the session active; on connect the page subscribes.
Connect ==
    /\ ~connected
    /\ \E s \in Session : Active(s)
    /\ connected' = TRUE
    /\ Subscribed(selected)
    /\ UNCHANGED <<rooms, granted, selected, due, fetch, view, events, selects, drops>>

\* The connection is lost, and with it the rooms and what its handlers would do.
Disconnect ==
    /\ connected /\ drops < MaxDrops
    /\ connected' = FALSE /\ rooms' = {} /\ granted' = {}
    /\ subscribe' = [h \in Subscription |-> [pc |-> "idle", environment |-> Nowhere]]
    /\ drops' = drops + 1
    /\ UNCHANGED <<selected, due, fetch, view, events, selects>>

\* selectEnvironment(): effects subscribe and fetch.
Select(e) ==
    /\ e # selected /\ selects < MaxSelects
    /\ selected' = e /\ due' = TRUE
    /\ selects' = selects + 1
    /\ IF connected THEN Subscribed(e) ELSE UNCHANGED subscribe
    /\ UNCHANGED <<connected, rooms, granted, fetch, view, events, drops>>

-----------------------------------------------------------------------------
\* The handler of environment:subscribe: the access query is answered, in any order.
CheckAccess(h) ==
    LET e == subscribe[h].environment
    IN  /\ subscribe[h].pc = "asked"
        /\ IF Access(e)
           THEN /\ subscribe' = [subscribe EXCEPT ![h].pc = "leaving"]
                /\ granted' = granted \cup {e}
           ELSE /\ subscribe' = [subscribe EXCEPT ![h].pc = "idle"]
                /\ UNCHANGED granted
        /\ UNCHANGED <<connected, rooms, selected, due, fetch, view, events, selects, drops>>

\* The loop goes over the live set: it also comes to rooms joined while it awaits.
AfterLeave == "leaving"

Leave(h) ==
    /\ subscribe[h].pc = "leaving"
    /\ \E e \in rooms : rooms' = rooms \ {e}
    /\ subscribe' = [subscribe EXCEPT ![h].pc = AfterLeave]
    /\ UNCHANGED <<connected, granted, selected, due, fetch, view, events, selects, drops>>

Join(h) ==
    /\ \/ subscribe[h].pc = "leaving" /\ rooms = {}
       \/ subscribe[h].pc = "joining"
    /\ rooms' = rooms \cup {subscribe[h].environment}
    /\ subscribe' = [subscribe EXCEPT ![h].pc = "idle"]
    /\ UNCHANGED <<connected, granted, selected, due, fetch, view, events, selects, drops>>

\* publishAcceptedEvents(): a room's sockets get the events, and the page fetches again.
Publish(e) ==
    /\ There(e) /\ events[e] < MaxEvents
    /\ events' = [events EXCEPT ![e] = @ + 1]
    /\ due' = (due \/ e \in rooms)
    /\ UNCHANGED <<connected, rooms, subscribe, granted, selected, fetch, view, selects, drops>>

-----------------------------------------------------------------------------
\* The page fetches when an effect asks for it and at each tick of its interval.
Polls == TRUE

Ask(f) ==
    /\ Polls
    /\ f \in First(Idle(fetch))
    /\ fetch' = [fetch EXCEPT ![f] = [pc |-> "sent", environment |-> selected, events |-> 0]]
    /\ due' = FALSE
    /\ UNCHANGED <<connected, rooms, subscribe, granted, selected, view, events, selects, drops>>

\* GET /v1/events: requireEnvironment() and the query, or an error.
Answer(f) ==
    LET e == fetch[f].environment
    IN  /\ fetch[f].pc = "sent"
        /\ fetch' = IF Access(e) /\ \E s \in Session : Active(s)
                    THEN [fetch EXCEPT ![f] = [@ EXCEPT !.pc = "answered", !.events = events[e]]]
                    ELSE [fetch EXCEPT ![f] = NoFetch]
        /\ UNCHANGED <<connected, rooms, subscribe, granted, selected, due, view, events, selects,
                       drops>>

\* setData(): whichever answer arrives, it is shown.
Show(f) ==
    /\ fetch[f].pc = "answered"
    /\ view' = [environment |-> fetch[f].environment, events |-> fetch[f].events]
    /\ fetch' = [fetch EXCEPT ![f] = NoFetch]
    /\ UNCHANGED <<connected, rooms, subscribe, granted, selected, due, events, selects, drops>>

Handler(h) == CheckAccess(h) \/ Leave(h) \/ Join(h)

LiveNext ==
    \/ Connect \/ Disconnect
    \/ \E e \in Shown : Select(e) \/ Publish(e)
    \/ \E h \in Subscription : Handler(h)
    \/ \E f \in Fetch : Ask(f) \/ Answer(f) \/ Show(f)

-----------------------------------------------------------------------------
LiveTypeOK ==
    /\ connected \in BOOLEAN /\ due \in BOOLEAN /\ selected \in Shown
    /\ rooms \cup granted \subseteq Shown
    /\ ~connected => rooms = {} /\ Idle(subscribe) = Subscription
    /\ view.environment \in Shown \cup {Nowhere} /\ view.events \in 0..MaxEvents

\* However subscriptions overlap, the socket is in the room of one environment at most, and
\* of one that the user had access to after the handshake.
OneRoom == Cardinality(rooms) <= 1 /\ rooms \subseteq granted
=============================================================================
