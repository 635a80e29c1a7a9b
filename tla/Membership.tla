----------------------------- MODULE Membership -----------------------------
(***************************************************************************)
(* Members and invitations of one organization: the routes of              *)
(* apps/api/src/app.ts that change them and the transactions of            *)
(* apps/api/src/store.ts they run, for concurrent requests.                *)
(*                                                                         *)
(* PostgreSQL runs them READ COMMITTED: a plain SELECT sees what is        *)
(* committed when it starts; SELECT ... FOR UPDATE, UPDATE and DELETE wait *)
(* for the row's lock and then see its newest version; an uncommitted      *)
(* change is seen by nobody.  A transaction's writes and its COMMIT are    *)
(* therefore one step, which needs the locks.  PostgreSQL aborts a         *)
(* transaction of a deadlock.  Any call may fail, and the process may die. *)
(***************************************************************************)
EXTENDS Integers, FiniteSets

CONSTANTS
    User, Request, Invitation,
    InitialRole,     \* the members at the start, with their roles; "none" for others
    Inviter,         \* a member who may have sent an invitation before the start,
    Sent,            \* and that invitation
    Invitee,         \* the user whose address invitations are sent to
    Ops              \* what clients may ask: records [kind, by, on, role]

ASSUME MembershipAssumption ==
    /\ InitialRole \in [User -> {"owner", "admin", "developer", "viewer", "none"}]
    /\ \E u \in User : InitialRole[u] = "owner"
    /\ Inviter \in User /\ Invitee \in User
    /\ Sent \subseteq Invitation /\ \A i, j \in Sent : i = j
    /\ IsFiniteSet(User) /\ User \cap Invitation = {} /\ "free" \notin Request
    /\ \A op \in Ops :
          /\ op \in [kind : {"role", "remove", "account", "organization", "invite", "accept",
                             "revoke"},
                     by : User, on : User \cup Invitation \cup {"free"},
                     role : {"owner", "admin", "developer", "viewer", "none"}]
          /\ op.kind = "role" => op.role # "none"
          /\ op.kind \in {"role", "remove"} => op.on \in User
          /\ op.kind \in {"accept", "revoke"} => op.on \in Invitation

VARIABLES
    role,            \* memberships.role, "none" where there is no row
    account,         \* the users table
    organization,    \* whether the organization exists
    invitation,      \* the invitations table
    holder,          \* who holds the lock of a row: a request, or Free
    session,         \* users that have a session which is not revoked
    handler,         \* the requests: [pc, op]
    audited,         \* audit_logs: the requests with an entry
    stale,           \* history: changes of a member whose sessions from before still live
    withdrawn        \* history: owners that gave the role up themselves

tables == <<role, account, organization, invitation>>
vars == <<tables, holder, session, handler, audited, stale, withdrawn>>

Free == "free"
Managers == {"owner", "admin"}
NoInvitation == [open |-> FALSE, from |-> Free, accepted |-> FALSE, revoked |-> FALSE,
                 expired |-> FALSE]
NewInvitation(u) == [NoInvitation EXCEPT !.open = TRUE, !.from = u]
Deleted(i) == [invitation[i] EXCEPT !.open = FALSE]
NoOp == [kind |-> "none", by |-> Free, on |-> Free, role |-> "none"]

Op(r) == handler[r].op
At(r, kinds, pc) == Op(r).kind \in kinds /\ handler[r].pc = pc
Owners == {u \in User : role[u] = "owner"}
Pending(i) == invitation[i].open /\ ~invitation[i].accepted /\ ~invitation[i].revoked

-----------------------------------------------------------------------------
(***************************************************************************)
(* Variants of definitions below, as a mistake in the code would make      *)
(* them; each one shows that a property would notice the mistake.          *)
(***************************************************************************)
BugReleased(r) == holder
BugLocked(r, row) == holder
BugEndsSessions(kind) == kind = "remove"
BugRevocable(i) == invitation[i].open
BugLastOwner(r) == Cardinality(Owners) < 1

-----------------------------------------------------------------------------
\* PostgreSQL's row locks.  A row that does not exist is not locked.
Lockable(r, row) == holder[row] \in {Free, r}
Locked(r, row) ==
    IF row \in User /\ role[row] = "none" THEN holder ELSE [holder EXCEPT ![row] = r]
Released(r) == [row \in DOMAIN holder |-> IF holder[row] = r THEN Free ELSE holder[row]]

GoesTo(r, pc) == handler' = [handler EXCEPT ![r].pc = pc]

\* ROLLBACK, and a reply with an error status.
Refuse(r) ==
    /\ GoesTo(r, "refused")
    /\ holder' = Released(r)
    /\ UNCHANGED <<tables, session, audited, stale, withdrawn>>

\* The transaction takes the lock of a row and goes on.
TakeLock(r, row, pc) ==
    /\ holder' = Locked(r, row)
    /\ GoesTo(r, pc)
    /\ UNCHANGED <<tables, session, audited, stale, withdrawn>>

Init ==
    /\ role = InitialRole
    /\ account = User
    /\ organization = TRUE
    /\ \E sent \in SUBSET Sent :
          invitation = [i \in Invitation |->
              IF i \in sent THEN NewInvitation(Inviter) ELSE NoInvitation]
    /\ holder = [row \in User \cup Invitation |-> Free]
    /\ session = User
    /\ handler = [r \in Request |-> [pc |-> "none", op |-> NoOp]]
    /\ audited = {} /\ stale = {} /\ withdrawn = {}

\* The onRequest hook finds the session of the request active.
Arrive(r, op) ==
    /\ handler[r].pc = "none"
    /\ op.by \in session
    /\ handler' = [handler EXCEPT ![r] = [pc |-> "arrived", op |-> op]]
    /\ UNCHANGED <<tables, holder, session, audited, stale, withdrawn>>

-----------------------------------------------------------------------------
(***************************************************************************)
(* updateMemberRole(): first the requester's row, then the member's; the   *)
(* owners are counted without locks.                                       *)
(***************************************************************************)
LockRequester(r) ==
    /\ At(r, {"role"}, "arrived")
    /\ Lockable(r, Op(r).by)
    /\ IF role[Op(r).by] = "owner" THEN TakeLock(r, Op(r).by, "allowed") ELSE Refuse(r)

\* An owner ceases to be one.
Demotes(r) == role[Op(r).on] = "owner" /\ Op(r).role # "owner"

LockTarget(r) ==
    /\ At(r, {"role"}, "allowed")
    /\ Lockable(r, Op(r).on)
    /\ IF role[Op(r).on] = "none" THEN Refuse(r)
       ELSE TakeLock(r, Op(r).on, IF Demotes(r) THEN "counting" ELSE "writing")

LastOwner(r) == Cardinality(Owners) <= 1

CountOwners(r) ==
    /\ At(r, {"role", "remove"}, "counting")
    /\ IF LastOwner(r) THEN Refuse(r)
       ELSE /\ GoesTo(r, "writing")
            /\ UNCHANGED <<tables, holder, session, audited, stale, withdrawn>>

\* COMMIT of a change of members; the histories are brought up to date.
Commit(r, newRole) ==
    /\ role' = newRole
    /\ GoesTo(r, "committed")
    /\ holder' = Released(r)
    /\ stale' = IF Op(r).kind \in {"role", "remove"} /\ Op(r).on \in session
                THEN stale \cup {r} ELSE stale
    /\ withdrawn' = IF role[Op(r).by] = "owner" /\ newRole[Op(r).by] # "owner"
                    THEN withdrawn \cup {Op(r).by} ELSE withdrawn

WriteRole(r) ==
    /\ At(r, {"role"}, "writing")
    /\ Commit(r, [role EXCEPT ![Op(r).on] = IF @ = "none" THEN @ ELSE Op(r).role])
    /\ UNCHANGED <<account, organization, invitation, session, audited>>

-----------------------------------------------------------------------------
(***************************************************************************)
(* removeMember(): one statement locks both rows, in an order of its own,  *)
(* if both are there when it starts.                                       *)
(***************************************************************************)
LockFirst(r, row) ==
    /\ At(r, {"remove"}, "arrived")
    /\ row \in {Op(r).by, Op(r).on}
    /\ Lockable(r, row)
    /\ IF role[Op(r).by] = "none" \/ role[Op(r).on] = "none" THEN Refuse(r)
       ELSE TakeLock(r, row, IF row = Op(r).by THEN "second" ELSE "first")

MayRemove(requester, target) ==
    /\ requester \in Managers
    /\ target # "none"
    /\ requester = "admin" => target \notin Managers

LockBoth(r) ==
    LET row == IF handler[r].pc = "second" THEN Op(r).on ELSE Op(r).by
    IN  /\ At(r, {"remove"}, "first") \/ At(r, {"remove"}, "second")
        /\ Lockable(r, row)
        /\ IF ~MayRemove(role[Op(r).by], role[Op(r).on]) THEN Refuse(r)
           ELSE TakeLock(r, row, IF role[Op(r).on] = "owner" THEN "counting" ELSE "writing")

Remove(r) ==
    /\ At(r, {"remove"}, "writing")
    /\ Commit(r, [role EXCEPT ![Op(r).on] = "none"])
    /\ UNCHANGED <<account, organization, invitation, session, audited>>

-----------------------------------------------------------------------------
\* deleteUser(): its condition is evaluated on what is committed when the statement
\* starts; the cascade then waits for the membership's lock, and evaluates nothing again.
CheckAccount(r) ==
    /\ At(r, {"account"}, "arrived")
    /\ IF role[Op(r).by] = "owner" /\ Owners = {Op(r).by} THEN Refuse(r)
       ELSE /\ GoesTo(r, "writing")
            /\ UNCHANGED <<tables, holder, session, audited, stale, withdrawn>>

DeleteAccount(r) ==
    LET u == Op(r).by
        sent == {i \in Invitation : invitation[i].open /\ invitation[i].from = u}
    IN  /\ At(r, {"account"}, "writing")
        /\ IF u \notin account THEN Refuse(r)
           ELSE /\ \A row \in sent \cup {u} : Lockable(r, row)
                /\ Commit(r, [role EXCEPT ![u] = "none"])
                /\ account' = account \ {u}
                /\ session' = session \ {u}
                /\ invitation' = [i \in Invitation |->
                      IF i \in sent THEN Deleted(i) ELSE invitation[i]]
                /\ UNCHANGED <<organization, audited>>

\* deleteOrganization(): the requester's role is read, then the row is deleted with all
\* that hangs on it.
CheckOrganization(r) ==
    /\ At(r, {"organization"}, "arrived")
    /\ IF role[Op(r).by] # "owner" THEN Refuse(r)
       ELSE /\ GoesTo(r, "writing")
            /\ UNCHANGED <<tables, holder, session, audited, stale, withdrawn>>

DeleteOrganization(r) ==
    /\ At(r, {"organization"}, "writing")
    /\ IF ~organization THEN Refuse(r)
       ELSE /\ \A row \in DOMAIN holder : Lockable(r, row)
            /\ organization' = FALSE
            /\ invitation' = [i \in Invitation |-> Deleted(i)]
            /\ Commit(r, [u \in User |-> "none"])
            /\ UNCHANGED <<account, session, audited>>

-----------------------------------------------------------------------------
\* createInvitation(): one statement.  The unique index admits one pending invitation of
\* an address, expired or not.
MayInvite(r) == role[Op(r).by] \in Managers /\ \A i \in Invitation : ~Pending(i)

Invite(r, i) ==
    /\ At(r, {"invite"}, "arrived")
    /\ MayInvite(r) /\ invitation[i] = NoInvitation
    /\ invitation' = [invitation EXCEPT ![i] = NewInvitation(Op(r).by)]
    /\ Commit(r, role)
    /\ UNCHANGED <<account, organization, session, audited>>

RefuseInvite(r) == At(r, {"invite"}, "arrived") /\ ~MayInvite(r) /\ Refuse(r)

\* acceptInvitation(): the row is locked if it is still pending then.
Acceptable(r) ==
    LET i == Op(r).on IN Pending(i) /\ ~invitation[i].expired /\ Op(r).by = Invitee

LockInvitation(r) ==
    /\ At(r, {"accept"}, "arrived")
    /\ Lockable(r, Op(r).on)
    /\ IF Acceptable(r) THEN TakeLock(r, Op(r).on, "writing") ELSE Refuse(r)

Accept(r) ==
    /\ At(r, {"accept"}, "writing")
    /\ IF Op(r).by \notin account THEN Refuse(r)           \* the foreign key
       ELSE /\ Commit(r, [role EXCEPT ![Op(r).by] = IF @ = "none" THEN "developer" ELSE @])
            /\ invitation' = [invitation EXCEPT ![Op(r).on].accepted = TRUE]
            /\ UNCHANGED <<account, organization, session, audited>>

\* revokeInvitation(): the role is read, then one UPDATE.
CheckRevocation(r) ==
    /\ At(r, {"revoke"}, "arrived")
    /\ IF role[Op(r).by] \notin Managers THEN Refuse(r)
       ELSE /\ GoesTo(r, "writing")
            /\ UNCHANGED <<tables, holder, session, audited, stale, withdrawn>>

Revocable(i) == invitation[i].open /\ ~invitation[i].accepted

RevokeInvitation(r) ==
    LET i == Op(r).on
    IN  /\ At(r, {"revoke"}, "writing")
        /\ Lockable(r, i)
        /\ IF ~Revocable(i) THEN Refuse(r)
           ELSE /\ invitation' = [invitation EXCEPT ![i].revoked = TRUE]
                /\ Commit(r, role)
                /\ UNCHANGED <<account, organization, session, audited>>

-----------------------------------------------------------------------------
\* After a change of a member the route revokes that member's sessions.
EndsSessions(kind) == kind \in {"role", "remove"}

RevokeSessions(r) ==
    /\ handler[r].pc = "committed" /\ EndsSessions(Op(r).kind)
    /\ session' = session \ {Op(r).on}
    /\ stale' = {s \in stale : Op(s).on # Op(r).on}
    /\ GoesTo(r, "revoked")
    /\ UNCHANGED <<tables, holder, audited, withdrawn>>

\* Then the audit entry is written and the route replies.
Audit(r) ==
    /\ handler[r].pc = IF EndsSessions(Op(r).kind) THEN "revoked" ELSE "committed"
    /\ audited' = audited \cup {r}
    /\ GoesTo(r, "replied")
    /\ UNCHANGED <<tables, holder, session, stale, withdrawn>>

Ended(r) == handler[r].pc \in {"none", "replied", "refused", "failed"}

\* A call fails or the process dies: an open transaction is rolled back.
Fail(r) ==
    /\ ~Ended(r)
    /\ GoesTo(r, "failed")
    /\ holder' = Released(r)
    /\ UNCHANGED <<tables, session, audited, stale, withdrawn>>

\* The row that a transaction holding a lock asks for next.
Asks(r) ==
    IF At(r, {"role"}, "allowed") \/ At(r, {"remove"}, "second") THEN {Op(r).on}
    ELSE IF At(r, {"remove"}, "first") THEN {Op(r).by} ELSE {}

\* PostgreSQL finds transactions that wait for each other and aborts one.
AbortDeadlock(r) ==
    /\ \E S \in SUBSET Request :
          r \in S /\ \A s \in S : \E row \in Asks(s) : holder[row] \in S \ {s}
    /\ Fail(r)

\* The user signs in again; a session or an invitation expires.
Login(u) ==
    /\ u \in account /\ u \notin session
    /\ session' = session \cup {u}
    /\ UNCHANGED <<tables, holder, handler, audited, stale, withdrawn>>

Expire(i) ==
    /\ Pending(i) /\ ~invitation[i].expired
    /\ invitation' = [invitation EXCEPT ![i].expired = TRUE]
    /\ UNCHANGED <<role, account, organization, holder, session, handler, audited, stale,
                   withdrawn>>

\* What the handler of a request does by itself.
Step(r) ==
    \/ LockRequester(r) \/ LockTarget(r) \/ CountOwners(r) \/ WriteRole(r)
    \/ \E row \in User : LockFirst(r, row)
    \/ LockBoth(r) \/ Remove(r)
    \/ CheckAccount(r) \/ DeleteAccount(r) \/ CheckOrganization(r) \/ DeleteOrganization(r)
    \/ RefuseInvite(r) \/ \E i \in Invitation : Invite(r, i)
    \/ LockInvitation(r) \/ Accept(r) \/ CheckRevocation(r) \/ RevokeInvitation(r)
    \/ RevokeSessions(r) \/ Audit(r)
    \/ AbortDeadlock(r)

Next ==
    \/ \E r \in Request : Step(r) \/ Fail(r) \/ \E op \in Ops : Arrive(r, op)
    \/ \E u \in User : Login(u)
    \/ \E i \in Invitation : Expire(i)

\* A handler goes on by itself, PostgreSQL hands a lock on and breaks deadlocks.
Fairness == \A r \in Request : WF_vars(Step(r))

Spec == Init /\ [][Next]_vars /\ Fairness

-----------------------------------------------------------------------------
TypeOK ==
    /\ role \in [User -> Managers \cup {"developer", "viewer", "none"}]
    /\ account \subseteq User /\ session \subseteq account
    /\ organization \in BOOLEAN
    /\ \A i \in Invitation : invitation[i].from \in User \cup {Free}
    /\ \A r \in Request :
          /\ Op(r) \in Ops \cup {NoOp}
          /\ Ended(r) \/ handler[r].pc \in
                {"arrived", "allowed", "counting", "writing", "first", "second", "committed",
                 "revoked"}
    /\ \A row \in DOMAIN holder :
          /\ holder[row] \in Request \cup {Free}
          /\ holder[row] # Free => handler[holder[row]].pc \in
                {"allowed", "counting", "writing", "first", "second"}
    /\ audited \cup stale \subseteq Request /\ withdrawn \subseteq User

\* app.ts: "an organization must retain at least one owner"; docs/security.md: "This
\* prevents orphaned tenants".  The organization has an owner as long as it exists.
OwnerRemains == organization => Owners # {}

\* What the code does keep of that: owners taking the role from each other never leave the
\* organization without one.  It takes owners that withdraw themselves: two at a time, or
\* one that deletes the account while another owner is being demoted or removed.
OwnerKept ==
    organization /\ Owners = {} =>
        \/ Cardinality(withdrawn) >= 2
        \/ withdrawn # {} /\ withdrawn \ account # {}

\* When a change of another's membership is committed, the requester still has the role
\* that permits it, whatever other requests did since it was read: the row lock sees to it.
Authorised ==
    [][\A r \in Request :
          /\ WriteRole(r) => role[Op(r).by] = "owner"
          /\ Remove(r) => MayRemove(role[Op(r).by], role[Op(r).on])]_vars

\* An invitation is accepted or revoked, never both, and the replies tell which: a
\* revocation that was acknowledged lets nobody in, and one acceptance is acknowledged.
InvitationOnce ==
    /\ \A i \in Invitation : ~(invitation[i].accepted /\ invitation[i].revoked)
    /\ Cardinality({i \in Invitation : Pending(i)}) <= 1
    /\ \A r, s \in Request :
          /\ r # s /\ Op(r).on = Op(s).on
          /\ handler[r].pc = "replied" /\ handler[s].pc = "replied"
          /\ Op(r).kind = "accept"
          => Op(s).kind \notin {"accept", "revoke"}

\* docs/security.md: role changes and removals revoke the sessions.  When one has been
\* acknowledged, no session that the member had before it is alive.
AckedRevoked ==
    \A r \in Request : handler[r].pc = "replied" => r \notin stale

\* Every request ends: no lock is kept, and no wait goes on for ever.
RequestsEnd == \A r \in Request : handler[r].pc = "arrived" ~> Ended(r)
=============================================================================
