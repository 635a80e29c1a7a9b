-------------------------- MODULE MembershipProofs --------------------------
(***************************************************************************)
(* Membership keeps its invariants for any number of users, requests and   *)
(* invitations, whatever is asked and whatever fails.                      *)
(***************************************************************************)
EXTENDS Membership, FiniteSetTheorems, TLAPS

Roles == Managers \cup {"developer", "viewer", "none"}
Holding == {"allowed", "counting", "writing", "first", "second"}
Pc == Holding \cup {"none", "arrived", "committed", "revoked", "replied", "refused", "failed"}
Row == User \cup Invitation
Invitations == [open : BOOLEAN, from : User \cup {Free}, accepted : BOOLEAN,
                revoked : BOOLEAN, expired : BOOLEAN]

\* TypeOK, with the functions' domains and ranges.
Shape ==
    /\ role \in [User -> Roles]
    /\ account \subseteq User /\ session \subseteq account
    /\ organization \in BOOLEAN
    /\ invitation \in [Invitation -> Invitations]
    /\ holder \in [Row -> Request \cup {Free}]
    /\ handler \in [Request -> [pc : Pc, op : Ops \cup {NoOp}]]
    /\ \A r \in Request : handler[r].pc # "none" => Op(r) \in Ops
    /\ audited \subseteq Request /\ stale \subseteq Request /\ withdrawn \subseteq User

\* Only a request in the middle of its transaction holds a lock.
HolderInv == \A row \in Row : holder[row] # Free => handler[holder[row]].pc \in Holding

IndType == Shape /\ HolderInv

\* What a step makes of a request and its locks.
Moves(r, pc) == handler' = [handler EXCEPT ![r].pc = pc]

LEMMA MovesShape ==
    ASSUME Shape, NEW r \in Request, NEW pc \in Pc \ {"none"}, handler[r].pc # "none", Moves(r, pc)
    PROVE  /\ handler' \in [Request -> [pc : Pc, op : Ops \cup {NoOp}]]
           /\ handler'[r].pc = pc
           /\ \A s \in Request : handler'[s].op = handler[s].op
           /\ \A s \in Request \ {r} : handler'[s] = handler[s]
           /\ \A s \in Request : handler'[s].pc # "none" => handler'[s].op \in Ops
  BY DEF Shape, Moves, Op

LEMMA ReleasedShape ==
    ASSUME Shape, NEW r \in Request
    PROVE  /\ Released(r) \in [Row -> Request \cup {Free}]
           /\ \A row \in Row : Released(r)[row] = IF holder[row] = r THEN Free ELSE holder[row]
  BY DEF Shape, Released

LEMMA LockedShape ==
    ASSUME Shape, NEW r \in Request, NEW row \in Row
    PROVE  /\ Locked(r, row) \in [Row -> Request \cup {Free}]
           /\ \A x \in Row : Locked(r, row)[x] \in {holder[x], r}
           /\ \A x \in Row \ {row} : Locked(r, row)[x] = holder[x]
           /\ ~(row \in User /\ role[row] = "none") => Locked(r, row)[row] = r
  BY DEF Shape, Locked

\* A step of a request in progress goes to another point of its code, and keeps its locks
\* until it ends, takes one more, or releases them.
Proceeds(r) ==
    \E pc \in Pc \ {"none"} :
        /\ handler[r].pc # "none" /\ Moves(r, pc)
        /\ \/ holder' = holder /\ (pc \in Holding \/ handler[r].pc \notin Holding)
           \/ pc \in Holding /\ \E row \in Row : Lockable(r, row) /\ holder' = Locked(r, row)
           \/ holder' = Released(r)

\* A step that writes to no table.
Quiet(r) ==
    /\ UNCHANGED <<tables, session, audited, stale, withdrawn>>
    /\ handler'[r].pc \notin {"committed", "revoked", "replied"}

LEMMA TakeLockProceeds ==
    ASSUME Shape, NEW r \in Request, NEW row \in Row, NEW pc \in Holding,
           handler[r].pc # "none", Lockable(r, row), TakeLock(r, row, pc)
    PROVE  Proceeds(r) /\ Quiet(r)
  BY DEF Shape, TakeLock, GoesTo, Proceeds, Moves, Quiet, Pc, Holding

LEMMA RefuseProceeds ==
    ASSUME Shape, NEW r \in Request, handler[r].pc # "none", Refuse(r)
    PROVE  Proceeds(r) /\ Quiet(r)
  BY DEF Shape, Refuse, GoesTo, Proceeds, Moves, Quiet, Pc, Holding

LEMMA CommitProceeds ==
    ASSUME NEW r \in Request, NEW newRole, handler[r].pc # "none", Commit(r, newRole)
    PROVE  Proceeds(r)
  BY DEF Commit, GoesTo, Proceeds, Moves, Pc, Holding

\* The operands of a request are users or invitations.
LEMMA Operands ==
    ASSUME Shape, NEW r \in Request, handler[r].pc # "none"
    PROVE  /\ Op(r) \in Ops /\ Op(r).by \in User
           /\ Op(r).role \in Roles
           /\ Op(r).kind = "role" => Op(r).role # "none"
           /\ Op(r).kind \in {"role", "remove"} => Op(r).on \in User
           /\ Op(r).kind \in {"accept", "revoke"} => Op(r).on \in Invitation
  BY MembershipAssumption DEF Shape, Roles, Managers

-----------------------------------------------------------------------------
\* The steps that write to a table.
Writes(r) ==
    \/ WriteRole(r) \/ Remove(r) \/ RevokeSessions(r) \/ Audit(r)
    \/ DeleteAccount(r) /\ Op(r).by \in account
    \/ DeleteOrganization(r) /\ organization
    \/ \E i \in Invitation : Invite(r, i)
    \/ Accept(r) /\ Op(r).by \in account
    \/ RevokeInvitation(r) /\ Revocable(Op(r).on)

\* A handler's step goes on in its code, and writes or leaves the tables alone.
LEMMA StepKinds ==
    ASSUME Shape, NEW r \in Request, Step(r) \/ Fail(r)
    PROVE  handler[r].pc # "none" /\ Proceeds(r) /\ (Quiet(r) \/ Writes(r))
<1> USE DEF At, Op, Row
<1>0. handler[r].pc # "none"
  BY DEF Step, Fail, Ended, LockRequester, LockTarget, CountOwners, WriteRole, LockFirst,
         LockBoth, Remove, CheckAccount, DeleteAccount, CheckOrganization, DeleteOrganization,
         RefuseInvite, Invite, LockInvitation, Accept, CheckRevocation, RevokeInvitation,
         RevokeSessions, Audit, AbortDeadlock, EndsSessions
<1>1. CASE LockRequester(r)
  BY <1>0, <1>1, Operands, TakeLockProceeds, RefuseProceeds DEF LockRequester, Holding
<1>2. CASE LockTarget(r)
  BY <1>0, <1>2, Operands, TakeLockProceeds, RefuseProceeds DEF LockTarget, Holding
<1>3. CASE CountOwners(r)
  BY <1>0, <1>3, RefuseProceeds
  DEF Shape, CountOwners, GoesTo, Proceeds, Moves, Quiet, Holding, Pc
<1>4. CASE WriteRole(r)
  BY <1>0, <1>4, CommitProceeds DEF WriteRole, Writes
<1>5. ASSUME NEW row \in User, LockFirst(r, row)
      PROVE  Proceeds(r) /\ Quiet(r)
  BY <1>0, <1>5, TakeLockProceeds, RefuseProceeds DEF LockFirst, Holding
<1>6. CASE LockBoth(r)
  <2> DEFINE row == IF handler[r].pc = "second" THEN Op(r).on ELSE Op(r).by
  <2>1. row \in Row
    BY <1>0, <1>6, Operands DEF LockBoth
  <2>2. Refuse(r) \/ (Lockable(r, row) /\ \E pc \in Holding : TakeLock(r, row, pc))
    BY <1>6 DEF LockBoth, Holding
  <2>3. QED
    BY <1>0, <2>1, <2>2, TakeLockProceeds, RefuseProceeds
<1>7. CASE Remove(r)
  BY <1>0, <1>7, CommitProceeds DEF Remove, Writes
<1>8. CASE CheckAccount(r)
  BY <1>0, <1>8, RefuseProceeds
  DEF Shape, CheckAccount, GoesTo, Proceeds, Moves, Quiet, Holding, Pc
<1>9. CASE DeleteAccount(r)
  BY <1>0, <1>9, CommitProceeds, RefuseProceeds DEF DeleteAccount, Writes
<1>10. CASE CheckOrganization(r)
  BY <1>0, <1>10, RefuseProceeds
  DEF Shape, CheckOrganization, GoesTo, Proceeds, Moves, Quiet, Holding, Pc
<1>11. CASE DeleteOrganization(r)
  BY <1>0, <1>11, CommitProceeds, RefuseProceeds DEF DeleteOrganization, Writes
<1>12. CASE RefuseInvite(r)
  BY <1>0, <1>12, RefuseProceeds DEF RefuseInvite
<1>13. ASSUME NEW i \in Invitation, Invite(r, i)
       PROVE  Proceeds(r) /\ Writes(r)
  BY <1>0, <1>13, CommitProceeds DEF Invite, Writes
<1>14. CASE LockInvitation(r)
  BY <1>0, <1>14, Operands, TakeLockProceeds, RefuseProceeds DEF LockInvitation, Holding
<1>15. CASE Accept(r)
  BY <1>0, <1>15, CommitProceeds, RefuseProceeds DEF Accept, Writes
<1>16. CASE CheckRevocation(r)
  BY <1>0, <1>16, RefuseProceeds
  DEF Shape, CheckRevocation, GoesTo, Proceeds, Moves, Quiet, Holding, Pc
<1>17. CASE RevokeInvitation(r)
  BY <1>0, <1>17, CommitProceeds, RefuseProceeds DEF RevokeInvitation, Writes
<1>18. CASE RevokeSessions(r)
  BY <1>0, <1>18 DEF RevokeSessions, Writes, GoesTo, Proceeds, Moves, Holding, Pc
<1>19. CASE Audit(r)
  BY <1>0, <1>19 DEF Audit, Writes, GoesTo, Proceeds, Moves, Holding, Pc
<1>20. CASE Fail(r)
  BY <1>0, <1>20 DEF Shape, Fail, GoesTo, Proceeds, Moves, Quiet, Holding, Pc
<1>21. QED
  BY <1>0, <1>1, <1>2, <1>3, <1>4, <1>5, <1>6, <1>7, <1>8, <1>9, <1>10, <1>11, <1>12, <1>13,
     <1>14, <1>15, <1>16, <1>17, <1>18, <1>19, <1>20 DEF Step, AbortDeadlock

-----------------------------------------------------------------------------
(* Types. *)

\* A row of the table stays one when a column changes.
LEMMA Columns ==
    ASSUME NEW v \in Invitations
    PROVE  /\ [v EXCEPT !.open = FALSE] \in Invitations
           /\ [v EXCEPT !.accepted = TRUE] \in Invitations
           /\ [v EXCEPT !.revoked = TRUE] \in Invitations
           /\ [v EXCEPT !.expired = TRUE] \in Invitations
  BY DEF Invitations

LEMMA Changes ==
    ASSUME Shape, NEW i \in Invitation
    PROVE  /\ Deleted(i) \in Invitations
           /\ [invitation EXCEPT ![i].accepted = TRUE] \in [Invitation -> Invitations]
           /\ [invitation EXCEPT ![i].revoked = TRUE] \in [Invitation -> Invitations]
           /\ [invitation EXCEPT ![i].expired = TRUE] \in [Invitation -> Invitations]
<1>1. invitation \in [Invitation -> Invitations] /\ invitation[i] \in Invitations
  BY DEF Shape
<1>2. Deleted(i) \in Invitations
  BY <1>1, Columns DEF Deleted
<1>3. [invitation EXCEPT ![i].accepted = TRUE] \in [Invitation -> Invitations]
  <2>1. [invitation[i] EXCEPT !.accepted = TRUE] \in Invitations
    BY <1>1, Columns
  <2>2. QED
    BY <1>1, <2>1
<1>4. [invitation EXCEPT ![i].revoked = TRUE] \in [Invitation -> Invitations]
  <2>1. [invitation[i] EXCEPT !.revoked = TRUE] \in Invitations
    BY <1>1, Columns
  <2>2. QED
    BY <1>1, <2>1
<1>5. [invitation EXCEPT ![i].expired = TRUE] \in [Invitation -> Invitations]
  <2>1. [invitation[i] EXCEPT !.expired = TRUE] \in Invitations
    BY <1>1, Columns
  <2>2. QED
    BY <1>1, <2>1
<1>6. QED
  BY <1>2, <1>3, <1>4, <1>5

LEMMA NewRows ==
    NoInvitation \in Invitations /\ \A u \in User : NewInvitation(u) \in Invitations
  BY DEF Invitations, NoInvitation, NewInvitation

LEMMA InitType == Init => IndType
<1> SUFFICES ASSUME Init PROVE IndType
  OBVIOUS
<1>1. role \in [User -> Roles]
  BY MembershipAssumption DEF Init, Roles, Managers
<1>2. invitation \in [Invitation -> Invitations]
  BY MembershipAssumption, NewRows DEF Init
<1>3. /\ handler \in [Request -> [pc : Pc, op : Ops \cup {NoOp}]]
      /\ \A r \in Request : handler[r].pc = "none"
  BY DEF Init, Pc
<1>4. HolderInv /\ holder \in [Row -> Request \cup {Free}]
  BY DEF Init, HolderInv, Row
<1>5. QED
  BY <1>1, <1>2, <1>3, <1>4 DEF Init, IndType, Shape

\* The handlers and locks keep their types as a request proceeds.
LEMMA ProceedsType ==
    ASSUME IndType, NEW r \in Request, Proceeds(r)
    PROVE  /\ handler' \in [Request -> [pc : Pc, op : Ops \cup {NoOp}]]
           /\ \A s \in Request : handler'[s].pc # "none" => handler'[s].op \in Ops
           /\ \A s \in Request : handler'[s].op = handler[s].op
           /\ holder' \in [Row -> Request \cup {Free}]
           /\ HolderInv'
<1>1. PICK pc \in Pc \ {"none"} :
        /\ handler[r].pc # "none" /\ Moves(r, pc)
        /\ \/ holder' = holder /\ (pc \in Holding \/ handler[r].pc \notin Holding)
           \/ pc \in Holding /\ \E row \in Row : Lockable(r, row) /\ holder' = Locked(r, row)
           \/ holder' = Released(r)
  BY DEF Proceeds
<1>2. Shape
  BY DEF IndType
<1>3. /\ handler' \in [Request -> [pc : Pc, op : Ops \cup {NoOp}]]
      /\ handler'[r].pc = pc
      /\ \A s \in Request : handler'[s].op = handler[s].op
      /\ \A s \in Request \ {r} : handler'[s] = handler[s]
      /\ \A s \in Request : handler'[s].pc # "none" => handler'[s].op \in Ops
  BY <1>1, <1>2, MovesShape
<1>4. /\ holder' \in [Row -> Request \cup {Free}]
      /\ \A row \in Row :
            \/ /\ holder'[row] = holder[row]
               /\ holder[row] # r \/ pc \in Holding \/ handler[r].pc \notin Holding
            \/ holder'[row] = r /\ pc \in Holding
            \/ holder'[row] = Free
  BY <1>1, <1>2, ReleasedShape, LockedShape DEF Shape
<1>5. HolderInv'
  <2> SUFFICES ASSUME NEW row \in Row, holder'[row] # Free
               PROVE  handler'[holder'[row]].pc \in Holding
    BY DEF HolderInv
  <2>1. Free \notin Request
    BY MembershipAssumption DEF Free
  <2>2. holder[row] # Free => handler[holder[row]].pc \in Holding /\ holder[row] \in Request
    BY <1>2 DEF IndType, HolderInv, Shape
  <2>3. QED
    BY <1>3, <1>4, <2>1, <2>2
<1>6. QED
  BY <1>3, <1>4, <1>5

\* What is written has the type of its table.
LEMMA WritesType ==
    ASSUME IndType, NEW r \in Request, handler[r].pc # "none", Writes(r)
    PROVE  /\ role' \in [User -> Roles]
           /\ account' \subseteq User /\ session' \subseteq account'
           /\ organization' \in BOOLEAN
           /\ invitation' \in [Invitation -> Invitations]
           /\ audited' \subseteq Request /\ stale' \subseteq Request /\ withdrawn' \subseteq User
<1> USE DEF IndType, Shape, Op
<1>1. /\ Op(r).by \in User /\ Op(r).role \in Roles
      /\ Op(r).kind \in {"role", "remove"} => Op(r).on \in User
      /\ Op(r).kind \in {"accept", "revoke"} => Op(r).on \in Invitation
  BY Operands
<1>2. ASSUME NEW newRole, Commit(r, newRole)
      PROVE  stale' \subseteq Request /\ withdrawn' \subseteq User
  BY <1>1, <1>2 DEF Commit
<1>3. {"none", "developer"} \subseteq Roles
  BY DEF Roles
<1>4. CASE WriteRole(r)
  BY <1>1, <1>2, <1>4 DEF WriteRole, Commit
<1>5. CASE Remove(r)
  BY <1>1, <1>2, <1>3, <1>5 DEF Remove, Commit
<1>6. CASE RevokeSessions(r)
  BY <1>6 DEF RevokeSessions, tables
<1>7. CASE Audit(r)
  BY <1>7 DEF Audit, tables
<1>8. CASE DeleteAccount(r) /\ Op(r).by \in account
  <2> DEFINE sent == {i \in Invitation : invitation[i].open /\ invitation[i].from = Op(r).by}
  <2>1. invitation' \in [Invitation -> Invitations]
    <3>1. invitation' = [i \in Invitation |-> IF i \in sent THEN Deleted(i) ELSE invitation[i]]
      BY <1>8 DEF DeleteAccount
    <3>2. \A i \in Invitation : Deleted(i) \in Invitations /\ invitation[i] \in Invitations
      BY Changes
    <3> HIDE DEF sent
    <3>3. QED
      BY <3>1, <3>2
  <2>2. QED
    BY <1>1, <1>2, <1>3, <1>8, <2>1 DEF DeleteAccount, Commit
<1>9. CASE DeleteOrganization(r) /\ organization
  <2>1. invitation' \in [Invitation -> Invitations]
    BY <1>9, Changes DEF DeleteOrganization
  <2>2. QED
    BY <1>1, <1>2, <1>3, <1>9, <2>1 DEF DeleteOrganization, Commit
<1>10. ASSUME NEW i \in Invitation, Invite(r, i)
       PROVE  /\ role' = role /\ invitation' \in [Invitation -> Invitations]
              /\ UNCHANGED <<account, organization, session, audited>>
              /\ Commit(r, role)
  BY <1>1, <1>10, NewRows DEF Invite, Commit
<1>11. CASE Accept(r) /\ Op(r).by \in account
  <2>1. Op(r).on \in Invitation
    BY <1>1, <1>11 DEF Accept, At
  <2>2. invitation' \in [Invitation -> Invitations]
    BY <1>11, <2>1, Changes DEF Accept
  <2>3. QED
    BY <1>1, <1>2, <1>3, <1>11, <2>2 DEF Accept, Commit
<1>12. CASE RevokeInvitation(r) /\ Revocable(Op(r).on)
  <2>0. Op(r).on \in Invitation
    BY <1>1, <1>12 DEF RevokeInvitation, At
  <2>1. invitation' \in [Invitation -> Invitations]
    BY <1>12, <2>0, Changes DEF RevokeInvitation
  <2>2. QED
    BY <1>1, <1>2, <1>12, <2>1 DEF RevokeInvitation, Commit
<1>13. QED
  BY <1>2, <1>4, <1>5, <1>6, <1>7, <1>8, <1>9, <1>10, <1>11, <1>12 DEF Writes

LEMMA StepType ==
    ASSUME IndType, NEW r \in Request, Step(r) \/ Fail(r)
    PROVE  IndType'
<1>1. handler[r].pc # "none" /\ Proceeds(r) /\ (Quiet(r) \/ Writes(r))
  BY StepKinds DEF IndType
<1>2. CASE Quiet(r)
  BY <1>1, <1>2, ProceedsType DEF IndType, Shape, Quiet, tables, Op
<1>3. CASE Writes(r)
  BY <1>1, <1>3, ProceedsType, WritesType DEF IndType, Shape, Op
<1>4. QED
  BY <1>1, <1>2, <1>3

LEMMA NextType == IndType /\ [Next]_vars => IndType'
<1> SUFFICES ASSUME IndType, [Next]_vars PROVE IndType'
  OBVIOUS
<1>1. ASSUME NEW r \in Request, NEW op \in Ops, Arrive(r, op) PROVE IndType'
  <2>1. handler' \in [Request -> [pc : Pc, op : Ops \cup {NoOp}]]
    BY <1>1 DEF Arrive, IndType, Shape, Pc
  <2>2. /\ \A s \in Request \ {r} : handler'[s] = handler[s]
        /\ handler'[r].op = op /\ handler[r].pc = "none"
    BY <1>1 DEF Arrive, IndType, Shape
  <2>3. \A row \in Row : holder[row] # Free => holder[row] \in Request \ {r}
    BY <2>2 DEF IndType, Shape, HolderInv, Holding
  <2>4. QED
    BY <1>1, <2>1, <2>2, <2>3 DEF Arrive, IndType, Shape, HolderInv, tables, Op
<1>2. ASSUME NEW u \in User, Login(u) PROVE IndType'
  BY <1>2 DEF Login, IndType, Shape, HolderInv, tables, Op
<1>3. ASSUME NEW i \in Invitation, Expire(i) PROVE IndType'
  <2>1. invitation' \in [Invitation -> Invitations]
    BY <1>3, Changes DEF Expire, IndType
  <2>2. QED
    BY <1>3, <2>1 DEF Expire, IndType, Shape, HolderInv, Op
<1>4. CASE UNCHANGED vars
  BY <1>4 DEF vars, tables, IndType, Shape, HolderInv, Op
<1>5. QED
  BY <1>1, <1>2, <1>3, <1>4, StepType DEF Next

LEMMA TypeFollows == IndType => TypeOK
  BY DEF IndType, Shape, HolderInv, TypeOK, Roles, Pc, Holding, Row, Ended,
         Op, Invitations

\* Whatever happens, the state keeps its types: in particular the sessions are those of
\* accounts, and only a request in the middle of its transaction holds a lock.
THEOREM TypeCorrect == Spec => []TypeOK
<1>1. Spec => []IndType
  BY InitType, NextType, PTL DEF Spec
<1>2. QED
  BY <1>1, TypeFollows, PTL

-----------------------------------------------------------------------------
(***************************************************************************)
(* The locks: a request in the middle of its transaction holds those it    *)
(* has taken, and what it has read under them still holds.                 *)
(***************************************************************************)
Within(r, kind, pcs) == Op(r).kind = kind /\ handler[r].pc \in pcs

LocksOf(r) ==
    /\ Within(r, "role", {"allowed", "counting", "writing"}) =>
          holder[Op(r).by] = r /\ role[Op(r).by] = "owner"
    /\ Within(r, "role", {"counting", "writing"}) => holder[Op(r).on] = r
    /\ Within(r, "remove", {"first"}) => holder[Op(r).on] = r
    /\ Within(r, "remove", {"second"}) => holder[Op(r).by] = r
    /\ Within(r, "remove", {"counting", "writing"}) =>
          /\ holder[Op(r).by] = r /\ holder[Op(r).on] = r
          /\ MayRemove(role[Op(r).by], role[Op(r).on])
    /\ Within(r, "accept", {"writing"}) => holder[Op(r).on] = r /\ Pending(Op(r).on)

MembersHeld == \A u \in User : holder[u] # Free => role[u] # "none"

LockInv == MembersHeld /\ \A r \in Request : LocksOf(r)

\* Owners that withdraw themselves leave another one, or another that withdrew before.
Withdraws(r) ==
    /\ \/ Within(r, "remove", {"writing"})
       \/ Within(r, "role", {"writing"}) /\ Op(r).role # "owner"
    /\ Op(r).by = Op(r).on /\ role[Op(r).by] = "owner"

OwnerInv ==
    /\ \A r \in Request : Withdraws(r) =>
          \E x \in User \ {Op(r).by} : role[x] = "owner" \/ x \in withdrawn
    /\ organization /\ Owners = {} =>
          \/ \E x, y \in withdrawn : x # y
          \/ withdrawn \ account # {}

\* What has become of an invitation, and which requests did it.
InvitationInv ==
    /\ \A i \in Invitation : ~(invitation[i].accepted /\ invitation[i].revoked)
    /\ \A i, j \in Invitation : Pending(i) /\ Pending(j) => i = j
    /\ \A r \in Request :
          /\ Within(r, "accept", {"committed", "replied"}) => invitation[Op(r).on].accepted
          /\ Within(r, "revoke", {"committed", "replied"}) => invitation[Op(r).on].revoked
    /\ \A r, s \in Request :
          /\ Within(r, "accept", {"committed", "replied"})
          /\ Within(s, "accept", {"committed", "replied"})
          /\ Op(r).on = Op(s).on
          => r = s

StaleInv ==
    \A r \in stale :
        /\ handler[r].pc \in {"committed", "failed"}
        /\ Op(r).kind \in {"role", "remove"}

IInv == IndType /\ LockInv /\ OwnerInv /\ InvitationInv /\ StaleInv

LEMMA InitLocks == Init => LockInv
  BY MembershipAssumption DEF Init, LockInv, LocksOf, MembersHeld, Within, Op, NoOp

\* What a request's step does to locks: it touches no lock of another request.
LEMMA LocksKept ==
    ASSUME IndType, NEW s \in Request, Step(s) \/ Fail(s)
    PROVE  /\ \A r \in Request \ {s} : handler'[r] = handler[r]
           /\ handler'[s].op = handler[s].op
           /\ \A row \in Row : holder[row] \notin {Free, s} => holder'[row] = holder[row]
           /\ \A row \in Row : holder'[row] \in {holder[row], s, Free}
           /\ \A row \in User : holder'[row] = s => holder[row] = s \/ role[row] # "none"
<1>1. handler[s].pc # "none" /\ Proceeds(s) /\ Shape
  BY StepKinds DEF IndType
<1>2. PICK pc \in Pc \ {"none"} :
        /\ handler[s].pc # "none" /\ Moves(s, pc)
        /\ \/ holder' = holder
           \/ \E row \in Row : Lockable(s, row) /\ holder' = Locked(s, row)
           \/ holder' = Released(s)
  BY <1>1 DEF Proceeds
<1>3. /\ \A r \in Request \ {s} : handler'[r] = handler[r]
      /\ handler'[s].op = handler[s].op
  BY <1>1, <1>2, MovesShape
<1>4. CASE holder' = holder
  BY <1>3, <1>4
<1>5. ASSUME NEW row \in Row, Lockable(s, row), holder' = Locked(s, row)
      PROVE  /\ \A x \in Row : holder[x] \notin {Free, s} => holder'[x] = holder[x]
             /\ \A x \in Row : holder'[x] \in {holder[x], s, Free}
             /\ \A x \in User : holder'[x] = s => holder[x] = s \/ role[x] # "none"
  BY <1>1, <1>5 DEF Locked, Lockable, Shape, Row
<1>6. CASE holder' = Released(s)
  BY <1>1, <1>3, <1>6, ReleasedShape, MembershipAssumption DEF Row, Free
<1>7. QED
  BY <1>2, <1>3, <1>4, <1>5, <1>6

\* What a request's step does to roles: it leaves the rows that another one has locked.
LEMMA RolesKept ==
    ASSUME IndType, LockInv, NEW s \in Request, Step(s) \/ Fail(s), NEW u \in User
    PROVE  /\ holder[u] \notin {Free, s} => role'[u] = role[u]
           /\ role[u] # "none" /\ role'[u] = "none" => holder'[u] = Free
<1>1. handler[s].pc # "none" /\ (Quiet(s) \/ Writes(s))
  BY StepKinds DEF IndType
<1>2. /\ Op(s).by \in User
      /\ Op(s).kind = "role" => Op(s).role # "none"
      /\ Op(s).kind \in {"role", "remove"} => Op(s).on \in User
  BY <1>1, Operands DEF IndType
<1>3. LocksOf(s) /\ MembersHeld
  BY DEF LockInv
<1>4. /\ role \in [User -> Roles] /\ u \in Row
      /\ Released(s)[u] = IF holder[u] = s THEN Free ELSE holder[u]
  BY ReleasedShape DEF IndType, Shape, Row
<1>5. CASE Quiet(s)
  BY <1>5 DEF Quiet, tables
<1>6. CASE WriteRole(s)
  BY <1>2, <1>3, <1>4, <1>6 DEF WriteRole, Commit, At, LocksOf, Within
<1>7. CASE Remove(s)
  BY <1>2, <1>3, <1>4, <1>7 DEF Remove, Commit, At, LocksOf, Within
<1>8. CASE RevokeSessions(s) \/ Audit(s)
  BY <1>8 DEF RevokeSessions, Audit, tables
<1>9. CASE DeleteAccount(s) /\ Op(s).by \in account
  <2>1. Lockable(s, Op(s).by) /\ role' = [role EXCEPT ![Op(s).by] = "none"] /\ holder' = Released(s)
    BY <1>9 DEF DeleteAccount, Commit
  <2>2. QED
    BY <1>2, <1>4, <2>1 DEF Lockable
<1>10. CASE DeleteOrganization(s) /\ organization
  <2>1. Lockable(s, u) /\ holder' = Released(s)
    BY <1>4, <1>10 DEF DeleteOrganization, Commit, IndType, Shape
  <2>2. QED
    BY <1>4, <2>1 DEF Lockable
<1>11. ASSUME NEW i \in Invitation, Invite(s, i) PROVE role' = role
  BY <1>11 DEF Invite, Commit
<1>12. CASE Accept(s) /\ Op(s).by \in account
  BY <1>2, <1>3, <1>4, <1>12, MembershipAssumption DEF Accept, Commit, MembersHeld
<1>13. CASE RevokeInvitation(s) /\ Revocable(Op(s).on)
  BY <1>13 DEF RevokeInvitation, Commit
<1>14. QED
  BY <1>1, <1>5, <1>6, <1>7, <1>8, <1>9, <1>10, <1>11, <1>12, <1>13 DEF Writes

\* What a request's step does to invitations: one that another has locked stays pending.
LEMMA PendingKept ==
    ASSUME IndType, LockInv, NEW s \in Request, Step(s) \/ Fail(s),
           NEW i \in Invitation, holder[i] \notin {Free, s}, Pending(i)
    PROVE  Pending(i)'
<1>1. handler[s].pc # "none" /\ (Quiet(s) \/ Writes(s))
  BY StepKinds DEF IndType
<1>2. Op(s).kind \in {"accept", "revoke"} => Op(s).on \in Invitation
  BY <1>1, Operands DEF IndType
<1>3. LocksOf(s)
  BY DEF LockInv
<1>4. invitation \in [Invitation -> Invitations] /\ i \in Row /\ DOMAIN holder = Row
  BY DEF IndType, Shape, Row
<1>5. CASE invitation' = invitation
  BY <1>5 DEF Pending
<1>6. CASE DeleteAccount(s) /\ Op(s).by \in account
  <2> DEFINE sent == {j \in Invitation : invitation[j].open /\ invitation[j].from = Op(s).by}
  <2>1. /\ \A row \in sent : Lockable(s, row)
        /\ invitation' = [j \in Invitation |-> IF j \in sent THEN Deleted(j) ELSE invitation[j]]
    BY <1>6 DEF DeleteAccount
  <2>2. i \notin sent
    BY <2>1 DEF Lockable
  <2> HIDE DEF sent
  <2>3. QED
    BY <2>1, <2>2 DEF Pending
<1>7. CASE DeleteOrganization(s) /\ organization
  BY <1>4, <1>7 DEF DeleteOrganization, Lockable
<1>8. ASSUME NEW j \in Invitation, Invite(s, j) PROVE Pending(i)'
  <2>1. i # j
    BY <1>8 DEF Invite, MayInvite
  <2>2. QED
    BY <1>4, <1>8, <2>1 DEF Invite, Pending
<1>9. CASE Accept(s) /\ Op(s).by \in account
  BY <1>2, <1>3, <1>4, <1>9 DEF Accept, At, LocksOf, Within, Pending
<1>10. CASE RevokeInvitation(s) /\ Revocable(Op(s).on)
  BY <1>2, <1>4, <1>10 DEF RevokeInvitation, At, Lockable, Pending
<1>11. QED
  BY <1>1, <1>5, <1>6, <1>7, <1>8, <1>9, <1>10
  DEF Writes, Quiet, tables, WriteRole, Remove, RevokeSessions, Audit

\* The locks of the request that takes the step.
LEMMA OwnLocks ==
    ASSUME IndType, LockInv, NEW s \in Request, Step(s) \/ Fail(s)
    PROVE  LocksOf(s)'
<1>1. handler[s].pc # "none" /\ Proceeds(s) /\ LocksOf(s) /\ Shape
  BY StepKinds DEF IndType, LockInv
<1>2. /\ Op(s).by \in User
      /\ Op(s).kind \in {"role", "remove"} => Op(s).on \in User
      /\ Op(s).kind \in {"accept", "revoke"} => Op(s).on \in Invitation
  BY <1>1, Operands
<1>3. Op(s)' = Op(s)
  BY LocksKept DEF Op
<1>4. ASSUME NEW pc \in Pc, Moves(s, pc) PROVE handler'[s].pc = pc
  BY <1>1, <1>4 DEF Moves, Shape
<1>5. ASSUME NEW pc, GoesTo(s, pc), pc \in Pc \ Holding PROVE LocksOf(s)'
  <2>1. handler'[s].pc = pc
    BY <1>4, <1>5 DEF GoesTo, Moves
  <2>2. QED
    BY <1>5, <2>1 DEF LocksOf, Within, Holding
<1>6. ASSUME NEW row \in Row, NEW pc \in Holding, TakeLock(s, row, pc)
      PROVE  /\ handler'[s].pc = pc /\ UNCHANGED tables
             /\ ~(row \in User /\ role[row] = "none") => holder'[row] = s
             /\ \A x \in Row : holder[x] = s => holder'[x] = s
  <2>1. pc \in Pc
    BY DEF Pc
  <2>2. QED
    BY <1>1, <1>4, <1>6, <2>1, LockedShape DEF TakeLock, GoesTo, Moves
<1>7. CASE Refuse(s) \/ Fail(s)
  BY <1>5, <1>7 DEF Refuse, Fail, Pc, Holding
<1>8. CASE LockRequester(s)
  <2>1. Op(s).by \in Row /\ Op(s).kind = "role"
    BY <1>2, <1>8 DEF Row, LockRequester, At
  <2>2. CASE role[Op(s).by] = "owner" /\ TakeLock(s, Op(s).by, "allowed")
    BY <1>2, <1>3, <1>6, <2>1, <2>2 DEF LocksOf, Within, tables, Holding
  <2>3. QED
    BY <1>7, <1>8, <2>2 DEF LockRequester
<1>9. CASE LockTarget(s)
  <2>1. Op(s).on \in Row /\ Op(s).by \in Row /\ Op(s).kind = "role" /\ handler[s].pc = "allowed"
    BY <1>2, <1>9 DEF Row, LockTarget, At
  <2>2. ASSUME NEW pc \in {"counting", "writing"}, role[Op(s).on] # "none",
               TakeLock(s, Op(s).on, pc)
        PROVE  LocksOf(s)'
    BY <1>1, <1>2, <1>3, <1>6, <2>1, <2>2 DEF LocksOf, Within, tables, Holding
  <2>3. QED
    BY <1>7, <1>9, <2>2 DEF LockTarget
<1>10. CASE CountOwners(s)
  <2>1. CASE GoesTo(s, "writing") /\ UNCHANGED <<tables, holder>>
    <3>1. handler'[s].pc = "writing"
      BY <1>4, <2>1 DEF GoesTo, Moves, Pc, Holding
    <3>2. QED
      BY <1>1, <1>3, <1>10, <2>1, <3>1 DEF CountOwners, At, LocksOf, Within, tables
  <2>2. QED
    BY <1>7, <1>10, <2>1 DEF CountOwners
<1>11. ASSUME NEW row \in User, LockFirst(s, row) PROVE LocksOf(s)'
  <2>1. row \in Row /\ Op(s).kind = "remove" /\ row \in {Op(s).by, Op(s).on}
    BY <1>11 DEF Row, LockFirst, At
  <2>2. ASSUME role[row] # "none",
               TakeLock(s, row, IF row = Op(s).by THEN "second" ELSE "first")
        PROVE  LocksOf(s)'
    BY <1>2, <1>3, <1>6, <2>1, <2>2 DEF LocksOf, Within, tables, Holding
  <2>3. QED
    BY <1>7, <1>11, <2>1, <2>2 DEF LockFirst
<1>12. CASE LockBoth(s)
  <2> DEFINE row == IF handler[s].pc = "second" THEN Op(s).on ELSE Op(s).by
  <2>1. /\ Op(s).by \in Row /\ Op(s).on \in Row /\ Op(s).kind = "remove"
        /\ handler[s].pc \in {"first", "second"}
    BY <1>2, <1>12 DEF Row, LockBoth, At
  <2>2. ASSUME NEW pc \in {"counting", "writing"}, MayRemove(role[Op(s).by], role[Op(s).on]),
               TakeLock(s, row, pc)
        PROVE  LocksOf(s)'
    <3>1. role[Op(s).by] # "none" /\ role[Op(s).on] # "none"
      BY <2>2 DEF MayRemove, Managers
    <3>2. holder'[Op(s).by] = s /\ holder'[Op(s).on] = s /\ UNCHANGED tables
          /\ handler'[s].pc = pc
      BY <1>1, <1>6, <2>1, <2>2, <3>1 DEF LocksOf, Within, Holding
    <3>3. QED
      BY <1>3, <2>1, <2>2, <3>2 DEF LocksOf, Within, tables
  <2>3. QED
    BY <1>7, <1>12, <2>2 DEF LockBoth
<1>13. CASE LockInvitation(s)
  <2>1. Op(s).on \in Row /\ Op(s).on \notin User /\ Op(s).kind = "accept"
    BY <1>2, <1>13, MembershipAssumption DEF Row, LockInvitation, At
  <2>2. CASE Acceptable(s) /\ TakeLock(s, Op(s).on, "writing")
    BY <1>3, <1>6, <2>1, <2>2 DEF LocksOf, Within, tables, Holding, Acceptable, Pending
  <2>3. QED
    BY <1>7, <1>13, <2>2 DEF LockInvitation
<1>14. CASE CheckAccount(s) \/ CheckOrganization(s) \/ CheckRevocation(s)
  BY <1>3, <1>14 DEF CheckAccount, CheckOrganization, CheckRevocation, At, LocksOf, Within
<1>15. CASE Writes(s)
  <2>1. \E pc \in {"committed", "revoked", "replied"} : GoesTo(s, pc) \/ Refuse(s)
    BY <1>15 DEF Writes, WriteRole, Remove, RevokeSessions, Audit, DeleteAccount,
                 DeleteOrganization, Invite, Accept, RevokeInvitation, Commit
  <2>2. QED
    BY <1>5, <1>7, <2>1 DEF Pc, Holding
<1>16. CASE RefuseInvite(s) \/ AbortDeadlock(s)
  BY <1>7, <1>16 DEF RefuseInvite, AbortDeadlock
<1>17. CASE DeleteAccount(s) \/ DeleteOrganization(s) \/ Accept(s) \/ RevokeInvitation(s)
  BY <1>7, <1>15, <1>17 DEF DeleteAccount, DeleteOrganization, Accept, RevokeInvitation, Writes
<1>18. QED
  BY <1>7, <1>8, <1>9, <1>10, <1>11, <1>12, <1>13, <1>14, <1>15, <1>16, <1>17 DEF Step, Writes

LEMMA StepLocks ==
    ASSUME IndType, LockInv, NEW s \in Request, Step(s) \/ Fail(s)
    PROVE  LockInv'
<1>1. MembersHeld'
  <2> SUFFICES ASSUME NEW u \in User, holder'[u] # Free, role'[u] = "none" PROVE FALSE
    BY DEF MembersHeld
  <2>1. role[u] = "none"
    BY RolesKept
  <2>2. holder[u] = Free /\ u \in Row
    BY <2>1 DEF LockInv, MembersHeld, Row
  <2>3. holder'[u] = s
    BY <2>2, LocksKept
  <2>4. s # Free
    BY MembershipAssumption DEF Free
  <2>5. QED
    BY <2>1, <2>2, <2>3, <2>4, LocksKept
<1>2. ASSUME NEW r \in Request, r # s PROVE LocksOf(r)'
  <2>1. LocksOf(r) /\ r # Free /\ handler'[r] = handler[r]
    BY <1>2, LocksKept, MembershipAssumption DEF LockInv, Free
  <2>2. CASE handler[r].pc = "none"
    BY <2>1, <2>2 DEF LocksOf, Within, Op
  <2>3. CASE handler[r].pc # "none"
    <3>1. /\ Op(r).by \in User
          /\ Op(r).kind \in {"role", "remove"} => Op(r).on \in User
          /\ Op(r).kind \in {"accept", "revoke"} => Op(r).on \in Invitation
      BY <2>3, Operands DEF IndType
    <3>2. \A row \in User : holder[row] = r => holder'[row] = r /\ role'[row] = role[row]
      BY <1>2, <2>1, LocksKept, RolesKept DEF Row
    <3>3. \A i \in Invitation : holder[i] = r /\ Pending(i) => holder'[i] = r /\ Pending(i)'
      BY <1>2, <2>1, LocksKept, PendingKept DEF Row
    <3>4. QED
      BY <2>1, <3>1, <3>2, <3>3 DEF LocksOf, Within, Op
  <2>4. QED
    BY <2>2, <2>3
<1>3. QED
  BY <1>1, <1>2, OwnLocks DEF LockInv

LEMMA NextLocks == IndType /\ LockInv /\ [Next]_vars => LockInv'
<1> SUFFICES ASSUME IndType, LockInv, [Next]_vars PROVE LockInv'
  OBVIOUS
<1>1. ASSUME NEW r \in Request, NEW op \in Ops, Arrive(r, op) PROVE LockInv'
  <2>1. /\ \A s \in Request \ {r} : handler'[s] = handler[s]
        /\ handler'[r].pc = "arrived"
        /\ UNCHANGED <<role, invitation, holder>>
    BY <1>1 DEF Arrive, IndType, Shape, tables
  <2>2. LocksOf(r)' /\ MembersHeld'
    BY <2>1 DEF LocksOf, Within, LockInv, MembersHeld
  <2>3. \A s \in Request \ {r} : LocksOf(s)'
    BY <2>1 DEF LocksOf, Within, LockInv, Op, Pending
  <2>4. QED
    BY <2>2, <2>3 DEF LockInv
<1>2. ASSUME NEW u \in User, Login(u) PROVE LockInv'
  BY <1>2 DEF Login, LockInv, LocksOf, MembersHeld, Within, Op, Pending, tables
<1>3. ASSUME NEW i \in Invitation, Expire(i) PROVE LockInv'
  <2>1. \A j \in Invitation : Pending(j) => Pending(j)'
    BY <1>3 DEF Expire, Pending, IndType, Shape, Invitations
  <2>2. UNCHANGED <<role, holder, handler>>
    BY <1>3 DEF Expire
  <2>3. ASSUME NEW r \in Request PROVE LocksOf(r)'
    <3>1. Within(r, "accept", {"writing"}) => Op(r).on \in Invitation
      BY Operands DEF Within, IndType
    <3>2. QED
      BY <2>1, <2>2, <3>1 DEF LockInv, LocksOf, Within, Op
  <2>4. QED
    BY <2>2, <2>3 DEF LockInv, MembersHeld
<1>4. CASE UNCHANGED vars
  BY <1>4 DEF vars, tables, LockInv, LocksOf, MembersHeld, Within, Op, Pending
<1>5. QED
  BY <1>1, <1>2, <1>3, <1>4, StepLocks DEF Next

-----------------------------------------------------------------------------
(***************************************************************************)
(* The owners.  Whoever demotes or removes another owner is one, and stays *)
(* one under the lock; so the last owner can only go by withdrawing.       *)
(***************************************************************************)

\* More than one owner: there is one beside any user.
LEMMA Another ==
    ASSUME Shape, ~(Cardinality(Owners) <= 1), NEW w
    PROVE  \E x \in User \ {w} : role[x] = "owner"
<1> SUFFICES ASSUME Owners \subseteq {w} PROVE FALSE
  BY DEF Owners
<1>1. IsFiniteSet({w}) /\ Cardinality({w}) = 1
  BY FS_Singleton
<1>2. QED
  BY <1>1, FS_Subset

LEMMA InitOwners == Init => OwnerInv
<1> SUFFICES ASSUME Init PROVE OwnerInv
  OBVIOUS
<1>1. \A r \in Request : ~Withdraws(r)
  BY DEF Init, Withdraws, Within, Op
<1>2. Owners # {}
  BY MembershipAssumption DEF Init, Owners
<1>3. QED
  BY <1>1, <1>2 DEF OwnerInv

\* Withdrawals are remembered; accounts and the organization do not come back.
LEMMA NeverBack ==
    ASSUME IndType, NEW s \in Request, Step(s) \/ Fail(s)
    PROVE  withdrawn \subseteq withdrawn' /\ account' \subseteq account
           /\ (organization' => organization)
<1>1. Quiet(s) \/ Writes(s)
  BY StepKinds DEF IndType
<1>2. QED
  BY <1>1 DEF Quiet, tables, Writes, WriteRole, Remove, RevokeSessions, Audit, DeleteAccount,
              DeleteOrganization, Invite, Accept, RevokeInvitation, Commit

\* How an owner loses the role.
LEMMA OwnerLost ==
    ASSUME IndType, LockInv, NEW s \in Request, Step(s) \/ Fail(s),
           NEW x \in User, role[x] = "owner", role'[x] # "owner"
    PROVE  \/ /\ Withdraws(s) /\ Op(s).by = x /\ x \in withdrawn'
              /\ \A u \in User \ {x} : role'[u] = role[u]
           \/ x \in withdrawn' \ account'
           \/ \E y \in User \ {x} : holder[y] = s /\ role'[y] = "owner"
           \/ ~organization' /\ \A u \in User : Lockable(s, u)
<1>1. handler[s].pc # "none" /\ (Quiet(s) \/ Writes(s)) /\ LocksOf(s)
  BY StepKinds DEF IndType, LockInv
<1>2. /\ Op(s).by \in User
      /\ Op(s).kind \in {"role", "remove"} => Op(s).on \in User
  BY <1>1, Operands DEF IndType
<1>3. role \in [User -> Roles] /\ DOMAIN holder = Row
  BY DEF IndType, Shape
<1>4. ASSUME Commit(s, role'), holder[Op(s).by] = s, Op(s).on = x,
             role[Op(s).by] = "owner", \A u \in User \ {x} : role'[u] = role[u],
             Op(s).by = x => Withdraws(s)
      PROVE  \/ /\ Withdraws(s) /\ Op(s).by = x /\ x \in withdrawn'
                /\ \A u \in User \ {x} : role'[u] = role[u]
             \/ \E y \in User \ {x} : holder[y] = s /\ role'[y] = "owner"
  BY <1>2, <1>4 DEF Commit
<1>5. CASE WriteRole(s)
  <2>1. /\ Op(s).kind = "role" /\ handler[s].pc = "writing"
        /\ holder[Op(s).by] = s /\ role[Op(s).by] = "owner"
        /\ Commit(s, role')
        /\ role' = [role EXCEPT ![Op(s).on] = IF @ = "none" THEN @ ELSE Op(s).role]
    BY <1>1, <1>5 DEF WriteRole, Commit, At, LocksOf, Within
  <2>2. Op(s).on = x /\ Op(s).role # "owner"
    BY <1>2, <1>3, <2>1
  <2>3. Op(s).by = x => Withdraws(s)
    BY <2>1, <2>2 DEF Withdraws, Within
  <2>4. QED
    BY <1>2, <1>3, <1>4, <2>1, <2>2, <2>3
<1>6. CASE Remove(s)
  <2>1. /\ Op(s).kind = "remove" /\ handler[s].pc = "writing"
        /\ holder[Op(s).by] = s /\ MayRemove(role[Op(s).by], role[Op(s).on])
        /\ Commit(s, role')
        /\ role' = [role EXCEPT ![Op(s).on] = "none"]
    BY <1>1, <1>6 DEF Remove, Commit, At, LocksOf, Within
  <2>2. Op(s).on = x
    BY <1>2, <1>3, <2>1
  <2>3. role[Op(s).by] = "owner"
    BY <2>1, <2>2 DEF MayRemove, Managers
  <2>4. Op(s).by = x => Withdraws(s)
    BY <2>1, <2>2 DEF Withdraws, Within
  <2>5. QED
    BY <1>2, <1>3, <1>4, <2>1, <2>2, <2>3, <2>4
<1>7. CASE DeleteAccount(s) /\ Op(s).by \in account
  <2>1. /\ role' = [role EXCEPT ![Op(s).by] = "none"] /\ account' = account \ {Op(s).by}
        /\ Commit(s, [role EXCEPT ![Op(s).by] = "none"])
    BY <1>7 DEF DeleteAccount, Commit
  <2>2. Op(s).by = x
    BY <1>2, <1>3, <2>1
  <2>3. x \in withdrawn'
    BY <1>3, <2>1, <2>2 DEF Commit
  <2>4. QED
    BY <2>1, <2>2, <2>3
<1>8. CASE DeleteOrganization(s) /\ organization
  BY <1>3, <1>8 DEF DeleteOrganization, Row
<1>9. CASE Accept(s) /\ Op(s).by \in account
  BY <1>2, <1>3, <1>9 DEF Accept, Commit
<1>10. QED
  BY <1>1, <1>5, <1>6, <1>7, <1>8, <1>9
  DEF Quiet, tables, Writes, RevokeSessions, Audit, Invite, RevokeInvitation, Commit

\* A request that comes to withdraw its owner has counted another one.
LEMMA OwnWithdraws ==
    ASSUME IndType, LockInv, NEW s \in Request, Step(s) \/ Fail(s), Withdraws(s)'
    PROVE  \E x \in User \ {Op(s).by} : role'[x] = "owner"
<1>1. handler[s].pc # "none" /\ Proceeds(s) /\ (Quiet(s) \/ Writes(s)) /\ LocksOf(s) /\ Shape
  BY StepKinds DEF IndType, LockInv
<1>2. /\ Op(s).by \in User
      /\ Op(s).kind \in {"role", "remove"} => Op(s).on \in User
  BY <1>1, Operands
<1>3. /\ Op(s)' = Op(s) /\ handler'[s].pc = "writing" /\ Op(s).kind \in {"role", "remove"}
      /\ Op(s).by = Op(s).on /\ role'[Op(s).by] = "owner"
      /\ Op(s).kind = "role" => Op(s).role # "owner"
  BY LocksKept DEF Op, Withdraws, Within
<1>4. ASSUME NEW pc \in Pc, GoesTo(s, pc) PROVE pc = "writing"
  BY <1>1, <1>3, <1>4 DEF GoesTo, Shape
<1>5. ~Refuse(s) /\ ~Fail(s)
  BY <1>4 DEF Refuse, Fail, Pc
<1>6. \A row : ~TakeLock(s, row, "allowed") /\ ~TakeLock(s, row, "counting")
               /\ ~TakeLock(s, row, "first") /\ ~TakeLock(s, row, "second")
  BY <1>4 DEF TakeLock, Pc, Holding
<1>7. ~LockRequester(s) /\ \A row \in User : ~LockFirst(s, row)
  BY <1>5, <1>6 DEF LockRequester, LockFirst
<1>8. ~LockTarget(s)
  <2> SUFFICES ASSUME LockTarget(s) PROVE FALSE
    OBVIOUS
  <2>1. Op(s).kind = "role"
    BY DEF LockTarget, At
  <2>2. TakeLock(s, Op(s).on, IF Demotes(s) THEN "counting" ELSE "writing")
    BY <1>5 DEF LockTarget
  <2>3. role' = role
    BY <2>2 DEF TakeLock, tables
  <2>4. Demotes(s)
    BY <1>3, <2>1, <2>3 DEF Demotes
  <2>5. QED
    BY <1>6, <2>2, <2>4
<1>9. ~LockBoth(s)
  BY <1>3, <1>5, <1>6 DEF LockBoth, TakeLock, tables
<1>10. CASE CountOwners(s)
  <2>1. ~LastOwner(s) /\ role' = role
    BY <1>5, <1>10 DEF CountOwners, tables
  <2>2. QED
    BY <1>1, <2>1, Another DEF LastOwner
<1>11. ~Writes(s)
  <2>1. \A newRole : ~Commit(s, newRole)
    BY <1>4 DEF Commit, Pc
  <2>2. ~RevokeSessions(s) /\ ~Audit(s)
    BY <1>4 DEF RevokeSessions, Audit, Pc
  <2>3. QED
    BY <1>5, <2>1, <2>2 DEF Writes, WriteRole, Remove, DeleteAccount, DeleteOrganization, Invite,
                            Accept, RevokeInvitation
<1>12. QED
  BY <1>3, <1>5, <1>7, <1>8, <1>9, <1>10, <1>11
  DEF Step, At, Writes, CheckAccount, CheckOrganization, CheckRevocation, RefuseInvite,
      AbortDeadlock, LockInvitation, DeleteAccount, DeleteOrganization, Accept, RevokeInvitation

LEMMA StepOwners ==
    ASSUME IndType, LockInv, OwnerInv, NEW s \in Request, Step(s) \/ Fail(s)
    PROVE  OwnerInv'
<1>1. /\ withdrawn \subseteq withdrawn' /\ account' \subseteq account
      /\ organization' => organization
  BY NeverBack
<1>2. /\ role \in [User -> Roles] /\ role' \in [User -> Roles]
      /\ withdrawn \subseteq User
  BY StepType DEF IndType, Shape
<1>3. ASSUME NEW r \in Request, Withdraws(r)'
      PROVE  \E x \in User \ {Op(r)'.by} : role'[x] = "owner" \/ x \in withdrawn'
  <2>1. CASE r = s
    <3>1. Op(r)' = Op(r)
      BY <2>1, LocksKept DEF Op
    <3>2. QED
      BY <1>3, <2>1, <3>1, OwnWithdraws
  <2>2. CASE r # s
    <3> DEFINE w == Op(r).by
    <3>1. handler'[r] = handler[r] /\ Op(r)' = Op(r) /\ r # Free
      BY <2>2, LocksKept, MembershipAssumption DEF Op, Free
    <3>2. /\ handler[r].pc = "writing" /\ Op(r).kind \in {"role", "remove"} /\ Op(r).on = w
          /\ role'[w] = "owner" /\ (Op(r).kind = "role" => Op(r).role # "owner")
      BY <1>3, <3>1 DEF Withdraws, Within
    <3>3. holder[w] = r /\ w \in User
      BY <3>2, Operands DEF LockInv, LocksOf, Within, IndType
    <3>4. role[w] = "owner"
      BY <2>2, <3>1, <3>2, <3>3, RolesKept
    <3>5. PICK x \in User \ {w} : role[x] = "owner" \/ x \in withdrawn
      BY <3>2, <3>4 DEF OwnerInv, Withdraws, Within
    <3>6. CASE x \in withdrawn \/ role'[x] = "owner" \/ x \in withdrawn'
      BY <1>1, <3>1, <3>5, <3>6
    <3>7. CASE role[x] = "owner" /\ role'[x] # "owner" /\ x \notin withdrawn'
      <4>1. CASE \E y \in User \ {x} : holder[y] = s /\ role'[y] = "owner"
        BY <2>2, <3>1, <3>3, <4>1
      <4>2. CASE \A u \in User : Lockable(s, u)
        BY <2>2, <3>1, <3>3, <4>2 DEF Lockable
      <4>3. QED
        BY <3>5, <3>7, <4>1, <4>2, OwnerLost
    <3>8. QED
      BY <3>5, <3>6, <3>7
  <2>3. QED
    BY <2>1, <2>2
<1>4. ASSUME organization', Owners' = {}
      PROVE  (\E x, y \in withdrawn' : x # y) \/ withdrawn' \ account' # {}
  <2>1. CASE Owners = {}
    BY <1>1, <1>4, <2>1 DEF OwnerInv
  <2>2. ASSUME NEW z \in User, role[z] = "owner"
        PROVE  (\E x, y \in withdrawn' : x # y) \/ withdrawn' \ account' # {}
    <3>1. \A u \in User : role'[u] # "owner"
      BY <1>4 DEF Owners
    <3>2. CASE /\ Withdraws(s) /\ Op(s).by = z /\ z \in withdrawn'
               /\ \A u \in User \ {z} : role'[u] = role[u]
      <4>1. PICK x \in User \ {z} : role[x] = "owner" \/ x \in withdrawn
        BY <3>2 DEF OwnerInv
      <4>2. x \in withdrawn' /\ x # z
        BY <1>1, <3>1, <3>2, <4>1
      <4>3. QED
        BY <3>2, <4>2
    <3>3. QED
      BY <1>4, <2>2, <3>1, <3>2, OwnerLost
  <2>3. QED
    BY <2>1, <2>2 DEF Owners
<1>5. QED
  BY <1>3, <1>4 DEF OwnerInv

LEMMA NextOwners == IndType /\ LockInv /\ OwnerInv /\ [Next]_vars => OwnerInv'
<1> SUFFICES ASSUME IndType, LockInv, OwnerInv, [Next]_vars PROVE OwnerInv'
  OBVIOUS
<1>1. ASSUME NEW r \in Request, NEW op \in Ops, Arrive(r, op) PROVE OwnerInv'
  <2>1. /\ \A s \in Request \ {r} : handler'[s] = handler[s]
        /\ handler'[r].pc = "arrived"
        /\ UNCHANGED <<role, account, organization, withdrawn>>
    BY <1>1 DEF Arrive, IndType, Shape, tables
  <2>2. \A s \in Request : Withdraws(s)' => Withdraws(s) /\ Op(s)' = Op(s)
    BY <2>1 DEF Withdraws, Within, Op
  <2>3. QED
    BY <2>1, <2>2 DEF OwnerInv, Owners
<1>2. CASE (\E u \in User : Login(u)) \/ (\E i \in Invitation : Expire(i)) \/ UNCHANGED vars
  BY <1>2 DEF Login, Expire, vars, tables, OwnerInv, Owners, Withdraws, Within, Op
<1>3. QED
  BY <1>1, <1>2, StepOwners DEF Next

-----------------------------------------------------------------------------
(***************************************************************************)
(* The invitations: a row that is accepted or revoked stays so, and only   *)
(* the request that holds its lock accepts it.                             *)
(***************************************************************************)
LEMMA InitInvitations == Init => InvitationInv
<1> SUFFICES ASSUME Init PROVE InvitationInv
  OBVIOUS
<1>1. PICK sent \in SUBSET Sent :
        invitation = [i \in Invitation |->
            IF i \in sent THEN NewInvitation(Inviter) ELSE NoInvitation]
  BY DEF Init
<1>2. \A i \in Invitation : ~invitation[i].accepted /\ (invitation[i].open => i \in Sent)
  BY <1>1 DEF NewInvitation, NoInvitation
<1>3. \A i, j \in Sent : i = j
  BY MembershipAssumption
<1>4. \A r \in Request : handler[r].pc = "none"
  BY DEF Init
<1>5. QED
  BY <1>2, <1>3, <1>4 DEF InvitationInv, Pending, Within

\* What a request's step may make of an invitation.
LEMMA InvitationSteps ==
    ASSUME IndType, LockInv, NEW s \in Request, Step(s) \/ Fail(s)
    PROVE  \/ \A i \in Invitation : invitation'[i] \in {invitation[i], Deleted(i)}
           \/ \E i \in Invitation :
                 /\ invitation[i] = NoInvitation
                 /\ \A j \in Invitation : ~Pending(j)
                 /\ \E u \in User : invitation' = [invitation EXCEPT ![i] = NewInvitation(u)]
           \/ /\ Accept(s) /\ Op(s).on \in Invitation /\ Pending(Op(s).on)
              /\ invitation' = [invitation EXCEPT ![Op(s).on].accepted = TRUE]
           \/ /\ RevokeInvitation(s) /\ Op(s).on \in Invitation /\ Revocable(Op(s).on)
              /\ invitation' = [invitation EXCEPT ![Op(s).on].revoked = TRUE]
<1>1. handler[s].pc # "none" /\ (Quiet(s) \/ Writes(s)) /\ LocksOf(s)
  BY StepKinds DEF IndType, LockInv
<1>2. /\ Op(s).by \in User
      /\ Op(s).kind \in {"accept", "revoke"} => Op(s).on \in Invitation
  BY <1>1, Operands DEF IndType
<1>3. CASE Quiet(s) \/ WriteRole(s) \/ Remove(s) \/ RevokeSessions(s) \/ Audit(s)
  BY <1>3 DEF Quiet, tables, WriteRole, Remove, RevokeSessions, Audit
<1>4. CASE DeleteAccount(s) /\ Op(s).by \in account
  BY <1>4 DEF DeleteAccount
<1>5. CASE DeleteOrganization(s) /\ organization
  BY <1>5 DEF DeleteOrganization
<1>6. ASSUME NEW i \in Invitation, Invite(s, i)
      PROVE  /\ invitation[i] = NoInvitation
             /\ \A j \in Invitation : ~Pending(j)
             /\ \E u \in User : invitation' = [invitation EXCEPT ![i] = NewInvitation(u)]
  BY <1>2, <1>6 DEF Invite, MayInvite
<1>7. CASE Accept(s) /\ Op(s).by \in account
  BY <1>1, <1>2, <1>7 DEF Accept, At, LocksOf, Within
<1>8. CASE RevokeInvitation(s) /\ Revocable(Op(s).on)
  BY <1>2, <1>8 DEF RevokeInvitation, At
<1>9. QED
  BY <1>1, <1>3, <1>4, <1>5, <1>6, <1>7, <1>8 DEF Writes

\* Acceptances and revocations are kept; a row gets pending when no other one is.
LEMMA InvitationsKept ==
    ASSUME IndType, LockInv, NEW s \in Request, Step(s) \/ Fail(s), NEW i \in Invitation
    PROVE  /\ invitation[i].accepted => invitation'[i].accepted
           /\ invitation[i].revoked => invitation'[i].revoked
           /\ ~(invitation[i].accepted /\ invitation[i].revoked) =>
                 ~(invitation'[i].accepted /\ invitation'[i].revoked)
           /\ \/ Pending(i)' => Pending(i)
              \/ \A j \in Invitation \ {i} : ~Pending(j)'
<1>1. invitation \in [Invitation -> Invitations]
  BY DEF IndType, Shape
<1>2. CASE invitation'[i] \in {invitation[i], Deleted(i)}
  BY <1>1, <1>2 DEF Deleted, Pending, Invitations
<1>3. ASSUME NEW k \in Invitation, NEW u \in User, invitation[k] = NoInvitation,
             \A j \in Invitation : ~Pending(j),
             invitation' = [invitation EXCEPT ![k] = NewInvitation(u)]
      PROVE  /\ invitation[i].accepted => invitation'[i].accepted
             /\ invitation[i].revoked => invitation'[i].revoked
             /\ ~(invitation[i].accepted /\ invitation[i].revoked) =>
                   ~(invitation'[i].accepted /\ invitation'[i].revoked)
             /\ \/ Pending(i)' => Pending(i)
                \/ \A j \in Invitation \ {i} : ~Pending(j)'
  BY <1>1, <1>3 DEF Pending, NoInvitation, NewInvitation
<1>4. CASE /\ Op(s).on \in Invitation /\ Pending(Op(s).on)
           /\ invitation' = [invitation EXCEPT ![Op(s).on].accepted = TRUE]
  BY <1>1, <1>4 DEF Pending, Invitations
<1>5. CASE /\ Op(s).on \in Invitation /\ Revocable(Op(s).on)
           /\ invitation' = [invitation EXCEPT ![Op(s).on].revoked = TRUE]
  BY <1>1, <1>5 DEF Pending, Revocable, Invitations
<1>6. QED
  BY <1>2, <1>3, <1>4, <1>5, InvitationSteps

\* The request that takes the step has used its invitation before, or uses it now.
LEMMA OwnUse ==
    ASSUME IndType, LockInv, NEW s \in Request, Step(s) \/ Fail(s)
    PROVE  /\ Within(s, "accept", {"committed", "replied"})' =>
                 \/ Within(s, "accept", {"committed", "replied"})
                 \/ Accept(s) /\ Pending(Op(s).on) /\ invitation'[Op(s).on].accepted
           /\ Within(s, "revoke", {"committed", "replied"})' =>
                 \/ Within(s, "revoke", {"committed", "replied"})
                 \/ RevokeInvitation(s) /\ invitation'[Op(s).on].revoked
<1>1. handler[s].pc # "none" /\ (Quiet(s) \/ Writes(s)) /\ LocksOf(s)
  BY StepKinds DEF IndType, LockInv
<1>2. Op(s).kind \in {"accept", "revoke"} => Op(s).on \in Invitation
  BY <1>1, Operands DEF IndType
<1>3. Op(s)' = Op(s) /\ invitation \in [Invitation -> Invitations]
  BY LocksKept DEF Op, IndType, Shape
<1>4. CASE Quiet(s)
  BY <1>4 DEF Quiet, Within
<1>5. CASE Accept(s) /\ Op(s).by \in account
  <2>1. /\ Op(s).kind = "accept" /\ Pending(Op(s).on)
        /\ invitation' = [invitation EXCEPT ![Op(s).on].accepted = TRUE]
    BY <1>1, <1>5 DEF Accept, At, LocksOf, Within
  <2>2. invitation'[Op(s).on].accepted
    BY <1>2, <1>3, <2>1 DEF Invitations
  <2>3. QED
    BY <1>3, <1>5, <2>1, <2>2 DEF Within
<1>6. CASE RevokeInvitation(s) /\ Revocable(Op(s).on)
  <2>1. /\ Op(s).kind = "revoke"
        /\ invitation' = [invitation EXCEPT ![Op(s).on].revoked = TRUE]
    BY <1>6 DEF RevokeInvitation, At
  <2>2. invitation'[Op(s).on].revoked
    BY <1>2, <1>3, <2>1 DEF Invitations
  <2>3. QED
    BY <1>3, <1>6, <2>1, <2>2 DEF Within
<1>7. CASE Audit(s)
  BY <1>3, <1>7 DEF Audit, EndsSessions, Within
<1>8. CASE Writes(s) /\ Op(s).kind \notin {"accept", "revoke"}
  BY <1>3, <1>8 DEF Within
<1>9. QED
  BY <1>1, <1>4, <1>5, <1>6, <1>7, <1>8
  DEF Writes, WriteRole, Remove, RevokeSessions, EndsSessions, DeleteAccount, DeleteOrganization,
      Invite, At

LEMMA StepInvitations ==
    ASSUME IndType, LockInv, InvitationInv, NEW s \in Request, Step(s) \/ Fail(s)
    PROVE  InvitationInv'
<1>1. \A r \in Request : Op(r)' = Op(r)
  BY LocksKept DEF Op
<1>2. \A r \in Request \ {s} : \A kind, pcs : Within(r, kind, pcs)' = Within(r, kind, pcs)
  BY <1>1, LocksKept DEF Within
<1>3. \A r \in Request : \A kind \in {"accept", "revoke"} :
         Within(r, kind, {"committed", "replied"}) => Op(r).on \in Invitation
  BY Operands DEF IndType, Within
<1>4. ASSUME NEW r \in Request, Within(r, "accept", {"committed", "replied"})'
      PROVE  invitation'[Op(r).on].accepted
  BY <1>2, <1>3, <1>4, OwnUse, InvitationsKept DEF InvitationInv
<1>5. ASSUME NEW r \in Request, Within(r, "revoke", {"committed", "replied"})'
      PROVE  invitation'[Op(r).on].revoked
  BY <1>2, <1>3, <1>5, OwnUse, InvitationsKept DEF InvitationInv
<1>6. ASSUME NEW r \in Request,
             Within(r, "accept", {"committed", "replied"})',
             Within(s, "accept", {"committed", "replied"})',
             Op(r).on = Op(s).on, r # s
      PROVE  FALSE
  <2>1. Within(r, "accept", {"committed", "replied"}) /\ invitation[Op(r).on].accepted
    BY <1>2, <1>6 DEF InvitationInv
  <2>2. ~Within(s, "accept", {"committed", "replied"})
    BY <1>6, <2>1 DEF InvitationInv
  <2>3. Pending(Op(s).on)
    BY <1>6, <2>2, OwnUse
  <2>4. QED
    BY <1>6, <2>1, <2>3 DEF Pending
<1>7. ASSUME NEW i \in Invitation, NEW j \in Invitation, Pending(i)', Pending(j)', i # j
      PROVE  FALSE
  BY <1>7, InvitationsKept DEF InvitationInv
<1>8. \A i \in Invitation : ~(invitation'[i].accepted /\ invitation'[i].revoked)
  BY InvitationsKept DEF InvitationInv
<1>9. ASSUME NEW r \in Request, NEW t \in Request,
             Within(r, "accept", {"committed", "replied"})',
             Within(t, "accept", {"committed", "replied"})',
             Op(r).on = Op(t).on, r # t
      PROVE  FALSE
  BY <1>2, <1>6, <1>9 DEF InvitationInv
<1>10. QED
  BY <1>1, <1>4, <1>5, <1>7, <1>8, <1>9 DEF InvitationInv

LEMMA NextInvitations == IndType /\ LockInv /\ InvitationInv /\ [Next]_vars => InvitationInv'
<1> SUFFICES ASSUME IndType, LockInv, InvitationInv, [Next]_vars PROVE InvitationInv'
  OBVIOUS
<1>1. ASSUME NEW r \in Request, NEW op \in Ops, Arrive(r, op) PROVE InvitationInv'
  <2>1. /\ \A s \in Request \ {r} : handler'[s] = handler[s]
        /\ handler'[r].pc = "arrived" /\ invitation' = invitation
    BY <1>1 DEF Arrive, IndType, Shape, tables
  <2>2. \A s \in Request : \A kind \in {"accept", "revoke"} :
           Within(s, kind, {"committed", "replied"})' =>
              Within(s, kind, {"committed", "replied"}) /\ Op(s)' = Op(s)
    BY <2>1 DEF Within, Op
  <2>3. QED
    BY <2>1, <2>2 DEF InvitationInv, Pending
<1>2. ASSUME NEW i \in Invitation, Expire(i) PROVE InvitationInv'
  <2>1. \A j \in Invitation :
           /\ invitation'[j].accepted = invitation[j].accepted
           /\ invitation'[j].revoked = invitation[j].revoked
           /\ invitation'[j].open = invitation[j].open
    BY <1>2 DEF Expire, IndType, Shape, Invitations
  <2>2. \A r \in Request : \A kind \in {"accept", "revoke"} :
           Within(r, kind, {"committed", "replied"}) => Op(r).on \in Invitation
    BY Operands DEF IndType, Within
  <2>3. handler' = handler
    BY <1>2 DEF Expire
  <2>4. QED
    BY <2>1, <2>2, <2>3 DEF InvitationInv, Pending, Within, Op
<1>3. CASE (\E u \in User : Login(u)) \/ UNCHANGED vars
  BY <1>3 DEF Login, vars, tables, InvitationInv, Pending, Within, Op
<1>4. QED
  BY <1>1, <1>2, <1>3, StepInvitations DEF Next


-----------------------------------------------------------------------------
(***************************************************************************)
(* The sessions of a changed member: stale ones live while the change is   *)
(* committed and not yet followed up, or for good when that failed.        *)
(***************************************************************************)
LEMMA StepStale ==
    ASSUME IndType, StaleInv, NEW s \in Request, Step(s) \/ Fail(s)
    PROVE  StaleInv'
<1>1. handler[s].pc # "none" /\ (Quiet(s) \/ Writes(s)) /\ Shape
  BY StepKinds DEF IndType
<1>2. /\ \A r \in Request \ {s} : handler'[r] = handler[r]
      /\ \A r \in Request : Op(r)' = Op(r)
      /\ stale \subseteq Request
  BY <1>1, LocksKept DEF Op, Shape
<1>3. stale' \subseteq stale \cup {s}
  BY <1>1 DEF Quiet, Writes, WriteRole, Remove, RevokeSessions, Audit, DeleteAccount,
              DeleteOrganization, Invite, Accept, RevokeInvitation, Commit
<1>4. ASSUME s \in stale, s \in stale'
      PROVE  handler'[s].pc = "failed" /\ Op(s).kind \in {"role", "remove"}
  <2>1. handler[s].pc \in {"committed", "failed"} /\ Op(s).kind \in {"role", "remove"}
    BY <1>4 DEF StaleInv
  <2>2. ~RevokeSessions(s)
    BY <1>4 DEF RevokeSessions
  <2>3. Fail(s)
    BY <2>1, <2>2
    DEF Step, At, LockRequester, LockTarget, CountOwners, WriteRole, LockFirst, LockBoth, Remove,
        CheckAccount, DeleteAccount, CheckOrganization, DeleteOrganization, RefuseInvite, Invite,
        LockInvitation, Accept, CheckRevocation, RevokeInvitation, Audit, EndsSessions,
        AbortDeadlock
  <2>4. QED
    BY <1>1, <2>1, <2>3 DEF Fail, GoesTo, Shape
<1>5. ASSUME s \notin stale, s \in stale'
      PROVE  handler'[s].pc = "committed" /\ Op(s).kind \in {"role", "remove"}
  <2>1. \E newRole : Commit(s, newRole)
    BY <1>1, <1>5 DEF Quiet, Writes, WriteRole, Remove, RevokeSessions, Audit, DeleteAccount,
                      DeleteOrganization, Invite, Accept, RevokeInvitation
  <2>2. QED
    BY <1>1, <1>5, <2>1 DEF Commit, GoesTo, Shape
<1>6. QED
  BY <1>2, <1>3, <1>4, <1>5 DEF StaleInv

LEMMA NextStale == IndType /\ StaleInv /\ [Next]_vars => StaleInv'
<1> SUFFICES ASSUME IndType, StaleInv, [Next]_vars PROVE StaleInv'
  OBVIOUS
<1>1. ASSUME NEW r \in Request, NEW op \in Ops, Arrive(r, op) PROVE StaleInv'
  <2>1. r \notin stale
    BY <1>1 DEF Arrive, StaleInv
  <2>2. /\ \A s \in Request \ {r} : handler'[s] = handler[s]
        /\ stale' = stale /\ stale \subseteq Request
    BY <1>1 DEF Arrive, IndType, Shape
  <2>3. QED
    BY <2>1, <2>2 DEF StaleInv, Op
<1>2. CASE (\E u \in User : Login(u)) \/ (\E i \in Invitation : Expire(i)) \/ UNCHANGED vars
  BY <1>2 DEF Login, Expire, vars, StaleInv, Op
<1>3. QED
  BY <1>1, <1>2, StepStale DEF Next

-----------------------------------------------------------------------------
LEMMA SpecIInv == Spec => []IInv
<1>1. Init => IInv
  BY InitType, InitLocks, InitOwners, InitInvitations DEF IInv, StaleInv, Init
<1>2. IInv /\ [Next]_vars => IInv'
  BY NextType, NextLocks, NextOwners, NextInvitations, NextStale DEF IInv
<1>3. QED
  BY <1>1, <1>2, PTL DEF Spec

LEMMA OwnerFollows == IInv => OwnerKept
<1> SUFFICES ASSUME IInv, organization, Owners = {}
             PROVE  Cardinality(withdrawn) >= 2 \/ (withdrawn # {} /\ withdrawn \ account # {})
  BY DEF OwnerKept
<1>1. withdrawn \subseteq User /\ IsFiniteSet(User)
  BY MembershipAssumption DEF IInv, IndType, Shape
<1>2. IsFiniteSet(withdrawn) /\ Cardinality(withdrawn) \in Nat
  BY <1>1, FS_Subset, FS_CardinalityType
<1>3. CASE \E x, y \in withdrawn : x # y
  <2>1. PICK x \in withdrawn, y \in withdrawn : x # y
    BY <1>3
  <2>2. IsFiniteSet({x}) /\ Cardinality({x}) = 1 /\ Cardinality({x}) <= Cardinality(withdrawn)
    BY <1>2, <2>1, FS_Singleton, FS_Subset
  <2>3. Cardinality(withdrawn) # 1
    BY <1>2, <2>1, FS_Singleton
  <2>4. QED
    BY <1>2, <2>2, <2>3
<1>4. QED
  BY <1>3 DEF IInv, OwnerInv

\* Owners that only demote and remove each other, in whatever interleaving, never leave an
\* organization without an owner: it takes two that withdraw themselves, or one that deletes
\* the account.  The row locks of updateMemberRole() and removeMember() are what it rests on.
THEOREM OwnerStays == Spec => []OwnerKept
  BY SpecIInv, OwnerFollows, PTL

LEMMA InvitationFollows == IInv => InvitationOnce
<1> SUFFICES ASSUME IInv PROVE InvitationOnce
  OBVIOUS
<1>1. /\ \A i \in Invitation : ~(invitation[i].accepted /\ invitation[i].revoked)
      /\ \A i, j \in Invitation : Pending(i) /\ Pending(j) => i = j
  BY DEF IInv, InvitationInv
<1>2. Cardinality({i \in Invitation : Pending(i)}) <= 1
  <2> DEFINE P == {i \in Invitation : Pending(i)}
  <2>1. P = {} \/ \E x : P = {x}
    BY <1>1
  <2> HIDE DEF P
  <2>2. Cardinality(P) = 0 \/ Cardinality(P) = 1
    BY <2>1, FS_EmptySet, FS_Singleton, Zenon
  <2>3. QED
    BY <2>2 DEF P
<1>3. ASSUME NEW r \in Request, NEW s \in Request, r # s, Op(r).on = Op(s).on,
             handler[r].pc = "replied", handler[s].pc = "replied", Op(r).kind = "accept"
      PROVE  Op(s).kind \notin {"accept", "revoke"}
  <2>1. Op(r).on \in Invitation
    BY <1>3, Operands DEF IInv, IndType
  <2>2. Within(r, "accept", {"committed", "replied"}) /\ invitation[Op(r).on].accepted
    BY <1>3 DEF IInv, InvitationInv, Within
  <2>3. QED
    BY <1>1, <1>3, <2>1, <2>2 DEF IInv, InvitationInv, Within
<1>4. QED
  BY <1>1, <1>2, <1>3 DEF InvitationOnce

\* An invitation is accepted once or revoked, never both, whichever requests race for it,
\* and no two replies say otherwise; one address has one pending invitation.
THEOREM InvitationUsedOnce == Spec => []InvitationOnce
  BY SpecIInv, InvitationFollows, PTL

LEMMA StaleFollows == IInv => AckedRevoked
  BY DEF IInv, StaleInv, AckedRevoked

\* When a change of a member's role or a removal has been acknowledged, no session of that
\* member from before the change is alive: the routes revoke them before they reply.
THEOREM AcknowledgedRevoked == Spec => []AckedRevoked
  BY SpecIInv, StaleFollows, PTL

\* The role that permits a change of another's membership is still held when the change is
\* committed, whatever other requests did since it was read.
THEOREM RoleStillHeld == Spec => Authorised
<1>1. IInv /\ [Next]_vars =>
        [\A r \in Request :
            /\ WriteRole(r) => role[Op(r).by] = "owner"
            /\ Remove(r) => MayRemove(role[Op(r).by], role[Op(r).on])]_vars
  BY DEF IInv, LockInv, LocksOf, Within, WriteRole, Remove, At
<1>2. QED
  BY <1>1, SpecIInv, PTL DEF Spec, Authorised

=============================================================================
