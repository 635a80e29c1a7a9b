--------------------------- MODULE SessionsProofs ---------------------------
(***************************************************************************)
(* What the transactions of module Sessions keep, for any number of calls, *)
(* sessions and reset links.  Sessions has no specification of its own:    *)
(* ConsoleProofs cites this module's lemmas about its initial states and   *)
(* its steps for the specification of Console.                             *)
(***************************************************************************)
EXTENDS Sessions, FiniteSetTheorems, TLAPS

SessionsStep ==
    \/ \E c \in Call : \/ CallStep(c) \/ CallFails(c)
                       \/ \E op \in Operation : CallArrives(c, op)
    \/ \E s \in Session : SessionExpires(s)
    \/ \E t \in Token : TokenExpires(t)

-----------------------------------------------------------------------------
(* The inductive invariant. *)

CallPc == {"none", "arrived", "known", "locked", "changed", "spending", "spent", "ended", "done",
           "replied", "refused", "failed"}
CallType == [pc : CallPc, op : Operation \cup {[kind |-> "none"]}, password : Nat,
             marks : SUBSET Token, ends : SUBSET Session, saw : SUBSET Token]

STypes ==
    /\ password \in Nat
    /\ session \in [Session -> [state : {"none", "active", "revoked", "expired"}, password : Nat]]
    /\ token \in [Token -> {"none", "open", "expired", "used"}]
    /\ lock \in [Token \cup {UserRow} -> Call \cup {Free}]
    /\ call \in [Call -> CallType]
    /\ late \subseteq Session

\* What a reset has locked at each of its points.
HasToken(c) == call[c].pc \in {"locked", "changed", "spending", "spent", "ended"}
HasUser(c) == call[c].pc \in {"changed", "spending", "spent", "ended"}
HasMarks(c) == call[c].pc \in {"spent", "ended"}
HasSeen(c) == call[c].pc \in {"spending", "spent", "ended"}

\* A lock is held by a reset in the middle of its transaction, and such a reset holds the
\* locks of its point; so its own token stays unused.
Locks ==
    /\ \A w \in Token \cup {UserRow} : lock[w] # Free => HasToken(lock[w])
    /\ \A c \in Call :
          /\ HasToken(c) => /\ Kind(c) = "reset" /\ lock[call[c].op.token] = c
                            /\ token[call[c].op.token] \in {"open", "expired"}
          /\ HasUser(c) => lock[UserRow] = c
          /\ HasMarks(c) => \A t \in call[c].marks : lock[t] = c

\* While a reset waits for the tokens it has seen, no other reset is done with one of them:
\* it holds the user's row.  When it is done, they are used.
Spending ==
    \A c \in Call :
        /\ HasSeen(c) => /\ call[c].marks = call[c].saw /\ call[c].op.token \in call[c].saw
                         /\ \A d \in Resets : call[d].op.token \notin call[c].saw
        /\ c \in Resets => /\ call[c].op.token \in call[c].saw
                           /\ \A t \in call[c].saw : token[t] = "used"

\* No password is ahead of the account's, and a session has one.
Passwords ==
    /\ \A s \in Session : /\ session[s].password <= password
                          /\ Active(s) => session[s].password > 0
    /\ \A c \in Call : call[c].pc = "known" => call[c].password \in 1..password

\* A session that a reset does not see when it ends the sessions is late.
Ending ==
    \A c \in Call : call[c].pc = "ended" =>
        \A s \in Session : Active(s) => s \in call[c].ends \cup late

\* Each change of the password takes a call of its own.
Over == {c \in Call : call[c].pc \in {"done", "replied", "refused", "failed"}}
Counted == password <= 1 + Cardinality(Over)

SInv == STypes /\ Locks /\ Spending /\ TokenOnce /\ Passwords /\ Ending /\ ResetRevokes /\ Counted

-----------------------------------------------------------------------------
(* Operations and single changes of a call. *)

LEMMA OpParts ==
    \A op \in Operation \cup {[kind |-> "none"]} :
        /\ op.kind = "reset" => op.token \in Token
        /\ op.kind \in {"logout", "revoke", "logoutAll"} =>
              {op.session, op.target} \subseteq Session
        /\ op.kind = "login" => op.password \in Nat \ {0}
  BY DEF Operation

LEMMA Numbers == 1 \in Session /\ Session \subseteq Nat \ {0} /\ Token \subseteq Nat \ {0}
                 /\ Call \subseteq Nat \ {0} /\ IsFiniteSet(Call)
  BY SessionsAssumption DEF Session, Token

\* The point of c is pc now, and nothing else of the calls has changed.
Moved(c, pc) ==
    /\ call' \in [Call -> CallType]
    /\ \A d \in Call : d # c => call'[d] = call[d]
    /\ call'[c].pc = pc /\ call'[c].op = call[c].op
    /\ call'[c].marks = call[c].marks /\ call'[c].ends = call[c].ends /\ call'[c].saw = call[c].saw
    /\ call'[c].password = call[c].password

LEMMA Goes ==
    ASSUME call \in [Call -> CallType], NEW c \in Call, NEW pc \in CallPc, CallGoes(c, pc)
    PROVE  Moved(c, pc)
<1>1. call[c] \in CallType
  OBVIOUS
<1>2. [call[c] EXCEPT !.pc = pc] \in CallType
  BY <1>1 DEF CallType
<1>3. call' = [call EXCEPT ![c] = [call[c] EXCEPT !.pc = pc]]
  BY DEF CallGoes
<1>4. call' \in [Call -> CallType]
  BY <1>2, <1>3
<1>5. call'[c] = [call[c] EXCEPT !.pc = pc]
  BY <1>3
<1> QED
  BY <1>1, <1>3, <1>4, <1>5 DEF Moved, CallType

\* What a lock is after c has taken rows, and after it has let go of all.
LEMMA LockedRows ==
    ASSUME lock \in [Token \cup {UserRow} -> Call \cup {Free}], NEW c \in Call,
           NEW rows \in SUBSET (Token \cup {UserRow})
    PROVE  /\ Locked(c, rows) \in [Token \cup {UserRow} -> Call \cup {Free}]
           /\ \A w \in Token \cup {UserRow} : Locked(c, rows)[w] = IF w \in rows THEN c ELSE lock[w]
  BY DEF Locked

LEMMA ReleasedRows ==
    ASSUME lock \in [Token \cup {UserRow} -> Call \cup {Free}], NEW c \in Call
    PROVE  /\ Released(c) \in [Token \cup {UserRow} -> Call \cup {Free}]
           /\ \A w \in Token \cup {UserRow} : Released(c)[w] = IF lock[w] = c THEN Free ELSE lock[w]
  BY DEF Released

\* A call that holds no lock keeps the locks as they are when it lets go of all.
LEMMA NothingHeld ==
    ASSUME STypes, Locks, NEW c \in Call, ~HasToken(c)
    PROVE  Released(c) = lock
<1>1. \A w \in Token \cup {UserRow} : lock[w] # c
  BY Numbers DEF STypes, Locks, Free
<1> QED
  BY <1>1 DEF STypes, Released

-----------------------------------------------------------------------------
(* The step of a call: which point it comes to, and what it changes. *)

LEMMA RefuseMoves ==
    ASSUME STypes, Locks, NEW c \in Call, ~HasToken(c), RefuseCall(c)
    PROVE  Moved(c, "refused") /\ UNCHANGED <<password, session, token, lock, late>>
  BY Goes, NothingHeld DEF RefuseCall, STypes, CallPc

\* The call c goes on with what it found of the user.
Known(c, p) ==
    /\ call' \in [Call -> CallType]
    /\ \A d \in Call : d # c => call'[d] = call[d]
    /\ call'[c].pc = "known" /\ call'[c].op = call[c].op /\ call'[c].password = p
    /\ call'[c].marks = call[c].marks /\ call'[c].ends = call[c].ends
    /\ call'[c].saw = call[c].saw

LEMMA KnownMoves ==
    ASSUME STypes, NEW c \in Call, NEW p \in Nat,
           call' = [call EXCEPT ![c] = [@ EXCEPT !.pc = "known", !.password = p]]
    PROVE  Known(c, p)
<1>1. call[c] \in CallType
  BY DEF STypes
<1>2. [call[c] EXCEPT !.pc = "known", !.password = p] \in CallType
  BY <1>1 DEF CallType, CallPc
<1> QED
  BY <1>1, <1>2 DEF STypes, CallType, Known

LEMMA AuthenticateMoves ==
    ASSUME STypes, Locks, NEW c \in Call, Authenticate(c)
    PROVE  /\ UNCHANGED <<password, session, token, lock, late>>
           /\ call[c].pc = "arrived" /\ Kind(c) = "login"
           /\ \/ Moved(c, "refused")
              \/ password > 0 /\ Known(c, password)
<1>1. call[c].pc = "arrived" /\ Kind(c) = "login" /\ ~HasToken(c)
  BY DEF Authenticate, CallAt, HasToken
<1>2. call[c].op.password > 0
  BY <1>1, OpParts DEF STypes, CallType, Kind
<1>3. CASE call[c].op.password # password
  BY <1>1, <1>3, RefuseMoves DEF Authenticate
<1>4. CASE call[c].op.password = password
  BY <1>1, <1>2, <1>4, KnownMoves DEF Authenticate, STypes
<1> QED
  BY <1>3, <1>4

LEMMA CreateUserMoves ==
    ASSUME STypes, Locks, NEW c \in Call, CreateUser(c)
    PROVE  /\ UNCHANGED <<session, token, lock, late>>
           /\ call[c].pc = "arrived" /\ Kind(c) = "signup"
           /\ \/ Moved(c, "refused") /\ UNCHANGED password
              \/ password = 0 /\ password' = 1 /\ Known(c, 1)
<1>1. call[c].pc = "arrived" /\ Kind(c) = "signup" /\ ~HasToken(c)
  BY DEF CreateUser, CallAt, HasToken
<1>2. CASE password # 0
  BY <1>1, <1>2, RefuseMoves DEF CreateUser
<1>3. CASE password = 0
  <2>1. /\ call' = [call EXCEPT ![c] = [@ EXCEPT !.pc = "known", !.password = 1]]
        /\ password' = 1 /\ UNCHANGED <<session, token, lock, late>>
    BY <1>3 DEF CreateUser
  <2>2. Known(c, 1)
    BY <2>1, KnownMoves
  <2> QED
    BY <1>1, <1>3, <2>1, <2>2
<1> QED
  BY <1>2, <1>3

LEMMA CreateSessionMoves ==
    ASSUME STypes, NEW c \in Call, CreateSession(c)
    PROVE  /\ UNCHANGED <<password, token, lock>>
           /\ call[c].pc = "known" /\ Kind(c) \in {"login", "signup"} /\ Moved(c, "done")
           /\ \E s \in Session :
                 /\ session' = [session EXCEPT ![s] = [state |-> "active",
                                                       password |-> call[c].password]]
                 /\ late' = IF call[c].password # password \/ \E d \in Call : call[d].pc = "ended"
                            THEN late \cup {s} ELSE late
  BY Goes DEF CreateSession, CallAt, STypes, CallPc, NewSession

LEMMA CreatePasswordResetMoves ==
    ASSUME STypes, NEW c \in Call, CreatePasswordReset(c)
    PROVE  /\ UNCHANGED <<password, session, lock, late>>
           /\ call[c].pc = "arrived" /\ Kind(c) = "forgot" /\ Moved(c, "done")
           /\ \/ UNCHANGED token
              \/ \E t \in Token : token[t] = "none" /\ token' = [token EXCEPT ![t] = "open"]
<1>1. \A t \in NewToken : t \in Token /\ token[t] = "none"
  BY DEF NewToken, Token
<1> QED
  BY <1>1, Goes DEF CreatePasswordReset, CallAt, STypes, CallPc

LEMMA LockTokenMoves ==
    ASSUME STypes, Locks, NEW c \in Call, LockToken(c)
    PROVE  LET t == call[c].op.token
           IN  /\ UNCHANGED <<password, session, late>>
               /\ call[c].pc = "arrived" /\ Kind(c) = "reset" /\ t \in Token
               /\ lock[t] \in {Free, c}
               /\ \/ Moved(c, "refused") /\ UNCHANGED <<token, lock>>
                  \/ /\ token[t] = "expired" /\ token' = [token EXCEPT ![t] = "used"]
                     /\ Moved(c, "refused") /\ UNCHANGED lock
                  \/ /\ token[t] = "open" /\ lock' = Locked(c, {t})
                     /\ Moved(c, "locked") /\ UNCHANGED token
<1>1. call[c].pc = "arrived" /\ Kind(c) = "reset" /\ ~HasToken(c)
  BY DEF LockToken, CallAt, HasToken
<1>2. call[c].op.token \in Token
  BY <1>1, OpParts DEF STypes, CallType, Kind
<1> QED
  BY <1>1, <1>2, Goes, RefuseMoves DEF LockToken, STypes, CallPc, Lockable

LEMMA ChangePasswordMoves ==
    ASSUME STypes, NEW c \in Call, ChangePassword(c)
    PROVE  /\ UNCHANGED <<password, session, token, late>>
           /\ call[c].pc = "locked" /\ Kind(c) = "reset" /\ Moved(c, "changed")
           /\ lock[UserRow] \in {Free, c} /\ lock' = Locked(c, {UserRow})
  BY Goes DEF ChangePassword, CallAt, STypes, CallPc, Lockable

LEMMA SpendTokensMoves ==
    ASSUME STypes, NEW c \in Call, SpendTokens(c)
    PROVE  /\ UNCHANGED <<password, session, token, late>>
           /\ call[c].pc = "spending" /\ Kind(c) = "reset" /\ Moved(c, "spent")
           /\ \A t \in call[c].marks : lock[t] \in {Free, c}
           /\ lock' = Locked(c, call[c].marks) /\ call[c].marks \subseteq Token
  BY Goes DEF SpendTokens, CallAt, STypes, CallPc, Lockable, CallType

LEMMA CommitMoves ==
    ASSUME STypes, NEW c \in Call, CommitReset(c)
    PROVE  /\ call[c].pc = "ended" /\ Kind(c) = "reset" /\ Moved(c, "done")
           /\ password' = password + 1 /\ lock' = Released(c) /\ UNCHANGED late
           /\ token' = [t \in Token |-> IF t \in call[c].marks THEN "used" ELSE token[t]]
           /\ session' = [s \in Session |-> IF s \in call[c].ends
                                            THEN [session[s] EXCEPT !.state = "revoked"]
                                            ELSE session[s]]
  BY Goes DEF CommitReset, CallAt, STypes, CallPc

\* Logging out changes the state of sessions that there are, and never makes one active.
Weaker ==
    /\ session' \in [Session -> [state : {"none", "active", "revoked", "expired"}, password : Nat]]
    /\ \A s \in Session : /\ session'[s].password = session[s].password
                          /\ session'[s].state = "active" => Active(s)

LEMMA RevokeMoves ==
    ASSUME STypes, Locks, NEW c \in Call, RevokeSession(c) \/ RevokeAllSessions(c)
    PROVE  /\ UNCHANGED <<password, token, lock, late>> /\ Weaker
           /\ call[c].pc = "arrived" /\ Kind(c) \in {"logout", "revoke", "logoutAll"}
           /\ Moved(c, "done") \/ Moved(c, "refused")
<1>1. CASE RevokeSession(c)
  <2> DEFINE s == IF Kind(c) = "revoke" THEN call[c].op.target ELSE call[c].op.session
  <2>1. call[c].pc = "arrived" /\ Kind(c) \in {"logout", "revoke"} /\ ~HasToken(c)
    BY <1>1 DEF RevokeSession, CallAt, HasToken
  <2>2. s \in Session
    BY <2>1, OpParts DEF STypes, CallType, Kind
  <2>3. CASE session[s].state = "none"
    BY <1>1, <2>1, <2>3, RefuseMoves DEF RevokeSession, STypes, Weaker, Active
  <2>4. CASE session[s].state # "none"
    <3>1. session' = [session EXCEPT ![s] = [session[s] EXCEPT !.state = "revoked"]]
      BY <1>1, <2>4 DEF RevokeSession
    <3>2. Weaker
      BY <2>2, <3>1 DEF STypes, Weaker, Active
    <3> QED
      BY <1>1, <2>1, <2>4, <3>2, Goes DEF RevokeSession, STypes, CallPc
  <2> QED
    BY <2>3, <2>4
<1>2. CASE RevokeAllSessions(c)
  BY <1>2, Goes DEF RevokeAllSessions, CallAt, STypes, CallPc, Weaker, Active
<1> QED
  BY <1>1, <1>2

LEMMA ReplyMoves ==
    ASSUME STypes, NEW c \in Call, CallReplies(c)
    PROVE  /\ UNCHANGED <<password, session, token, lock, late>>
           /\ call[c].pc = "done" /\ Moved(c, "replied")
  BY Goes DEF CallReplies, STypes, CallPc

LEMMA FailMoves ==
    ASSUME STypes, NEW c \in Call, CallFails(c) \/ BreakDeadlock(c)
    PROVE  /\ UNCHANGED <<password, session, token, late>> /\ lock' = Released(c)
           /\ ~CallEnded(c) /\ Moved(c, "failed")
  BY Goes DEF CallFails, BreakDeadlock, STypes, CallPc

LEMMA ExpiryMoves ==
    ASSUME STypes, NEW s \in Session, SessionExpires(s)
    PROVE  UNCHANGED <<password, token, lock, call, late>> /\ Weaker
<1>1. session' = [session EXCEPT ![s] = [session[s] EXCEPT !.state = "expired"]]
  BY DEF SessionExpires
<1> QED
  BY <1>1 DEF SessionExpires, STypes, Weaker, Active

-----------------------------------------------------------------------------
(* The conjuncts of the invariant, one after the other. *)

LEMMA SeeMoves ==
    ASSUME STypes, NEW c \in Call, SeeTokens(c)
    PROVE  /\ UNCHANGED <<password, session, token, lock, late>>
           /\ call[c].pc = "changed" /\ Kind(c) = "reset"
           /\ call' \in [Call -> CallType]
           /\ \A d \in Call : d # c => call'[d] = call[d]
           /\ call'[c].pc = "spending" /\ call'[c].op = call[c].op
           /\ call'[c].password = call[c].password /\ call'[c].ends = call[c].ends
           /\ call'[c].marks = Unused /\ call'[c].saw = Unused
<1>1. call[c] \in CallType
  BY DEF STypes
<1>2. Unused \subseteq Token
  BY DEF Unused
<1>3. [call[c] EXCEPT !.pc = "spending", !.marks = Unused, !.saw = Unused] \in CallType
  BY <1>1, <1>2 DEF CallType, CallPc
<1>4. call' = [call EXCEPT ![c] = [call[c] EXCEPT !.pc = "spending", !.marks = Unused,
                                                  !.saw = Unused]]
  BY DEF SeeTokens, Spends
<1>5. call' \in [Call -> CallType] /\ \A d \in Call : d # c => call'[d] = call[d]
  BY <1>3, <1>4 DEF STypes
<1>6. call'[c] = [call[c] EXCEPT !.pc = "spending", !.marks = Unused, !.saw = Unused]
  BY <1>4 DEF STypes
<1> QED
  BY <1>1, <1>5, <1>6 DEF SeeTokens, CallAt, CallType

LEMMA EndMoves ==
    ASSUME STypes, NEW c \in Call, EndSessions(c)
    PROVE  /\ UNCHANGED <<password, session, token, lock, late>>
           /\ call[c].pc = "spent" /\ Kind(c) = "reset"
           /\ call' \in [Call -> CallType]
           /\ \A d \in Call : d # c => call'[d] = call[d]
           /\ call'[c].pc = "ended" /\ call'[c].op = call[c].op
           /\ call'[c].password = call[c].password /\ call'[c].marks = call[c].marks
           /\ call'[c].saw = call[c].saw
           /\ call'[c].ends = {s \in Session : session[s].state # "none"}
<1>1. call[c] \in CallType
  BY DEF STypes
<1>2. Ends(c) \subseteq Session
  BY DEF Ends
<1>3. [call[c] EXCEPT !.pc = "ended", !.ends = Ends(c)] \in CallType
  BY <1>1, <1>2 DEF CallType, CallPc
<1>4. call' = [call EXCEPT ![c] = [call[c] EXCEPT !.pc = "ended", !.ends = Ends(c)]]
  BY DEF EndSessions
<1>5. call' \in [Call -> CallType] /\ \A d \in Call : d # c => call'[d] = call[d]
  BY <1>3, <1>4 DEF STypes
<1>6. call'[c] = [call[c] EXCEPT !.pc = "ended", !.ends = Ends(c)]
  BY <1>4 DEF STypes
<1> QED
  BY <1>1, <1>5, <1>6 DEF EndSessions, CallAt, CallType, Ends

LEMMA ArrivalMoves ==
    ASSUME STypes, NEW c \in Call, NEW op \in Operation, CallArrives(c, op)
    PROVE  /\ UNCHANGED <<password, session, token, lock, late>>
           /\ call[c].pc = "none"
           /\ call' \in [Call -> CallType]
           /\ \A d \in Call : d # c => call'[d] = call[d]
           /\ call'[c].pc = "arrived"
<1>1. CallAs("arrived", op) \in CallType /\ CallAs("arrived", op).pc = "arrived"
  BY DEF CallType, CallPc, CallAs
<1>2. call' = [call EXCEPT ![c] = CallAs("arrived", op)]
  BY DEF CallArrives
<1>3. call[c].pc = "none"
  BY Numbers DEF CallArrives
<1> QED
  BY <1>1, <1>2, <1>3 DEF CallArrives, STypes

LEMMA TokenMoves ==
    ASSUME STypes, NEW t \in Token, TokenExpires(t)
    PROVE  UNCHANGED <<password, session, lock, call, late>>
           /\ token[t] = "open" /\ token' = [token EXCEPT ![t] = "expired"]
  BY DEF TokenExpires

LEMMA TypesNext == ASSUME STypes, Locks, SessionsStep PROVE STypes'
<1> USE DEF Moved
<1>1. ASSUME NEW c \in Call, Authenticate(c) PROVE STypes'
  BY <1>1, AuthenticateMoves DEF STypes, Known
<1>2. ASSUME NEW c \in Call, CreateUser(c) PROVE STypes'
  BY <1>2, CreateUserMoves DEF STypes, Known
<1>3. ASSUME NEW c \in Call, CreateSession(c) PROVE STypes'
  <2>1. call[c].password \in Nat
    BY DEF STypes, CallType
  <2> QED
    BY <1>3, <2>1, CreateSessionMoves DEF STypes
<1>4. ASSUME NEW c \in Call, CreatePasswordReset(c) PROVE STypes'
  BY <1>4, CreatePasswordResetMoves DEF STypes
<1>5. ASSUME NEW c \in Call, LockToken(c) PROVE STypes'
  <2> DEFINE t == call[c].op.token
  <2>1. t \in Token
    BY <1>5, LockTokenMoves
  <2>2. Locked(c, {t}) \in [Token \cup {UserRow} -> Call \cup {Free}]
    BY <2>1, LockedRows DEF STypes
  <2> HIDE DEF t
  <2>3. /\ UNCHANGED <<password, session, late>> /\ call' \in [Call -> CallType]
        /\ lock' \in {lock, Locked(c, {t})}
        /\ UNCHANGED token \/ token' = [token EXCEPT ![t] = "used"]
    BY <1>5, LockTokenMoves DEF t
  <2> QED
    BY <2>1, <2>2, <2>3 DEF STypes
<1>6. ASSUME NEW c \in Call, ChangePassword(c) PROVE STypes'
  BY <1>6, ChangePasswordMoves, LockedRows DEF STypes
<1>7. ASSUME NEW c \in Call, SeeTokens(c) PROVE STypes'
  BY <1>7, SeeMoves DEF STypes
<1>8. ASSUME NEW c \in Call, SpendTokens(c) PROVE STypes'
  BY <1>8, SpendTokensMoves, LockedRows DEF STypes
<1>9. ASSUME NEW c \in Call, EndSessions(c) PROVE STypes'
  BY <1>9, EndMoves DEF STypes
<1>10. ASSUME NEW c \in Call, CommitReset(c) PROVE STypes'
  <2>1. \A s \in Session : [session[s] EXCEPT !.state = "revoked"]
                              \in [state : {"none", "active", "revoked", "expired"}, password : Nat]
    BY DEF STypes
  <2>2. session' \in [Session -> [state : {"none", "active", "revoked", "expired"}, password : Nat]]
    BY <1>10, <2>1, CommitMoves DEF STypes
  <2>3. token' \in [Token -> {"none", "open", "expired", "used"}]
    BY <1>10, CommitMoves DEF STypes
  <2>4. UNCHANGED late /\ password' = password + 1 /\ call' \in [Call -> CallType]
        /\ lock' \in [Token \cup {UserRow} -> Call \cup {Free}]
    BY <1>10, CommitMoves, ReleasedRows DEF STypes
  <2> QED
    BY <2>2, <2>3, <2>4 DEF STypes
<1>11. ASSUME NEW c \in Call, RevokeSession(c) \/ RevokeAllSessions(c) PROVE STypes'
  BY <1>11, RevokeMoves DEF STypes, Weaker
<1>12. ASSUME NEW c \in Call, CallReplies(c) PROVE STypes'
  BY <1>12, ReplyMoves DEF STypes
<1>13. ASSUME NEW c \in Call, CallFails(c) \/ BreakDeadlock(c) PROVE STypes'
  BY <1>13, FailMoves, ReleasedRows DEF STypes
<1>14. ASSUME NEW c \in Call, NEW op \in Operation, CallArrives(c, op) PROVE STypes'
  BY <1>14, ArrivalMoves DEF STypes
<1>15. ASSUME NEW s \in Session, SessionExpires(s) PROVE STypes'
  BY <1>15, ExpiryMoves DEF STypes, Weaker
<1>16. ASSUME NEW t \in Token, TokenExpires(t) PROVE STypes'
  BY <1>16, TokenMoves DEF STypes
<1> QED
  BY <1>1, <1>2, <1>3, <1>4, <1>5, <1>6, <1>7, <1>8, <1>9, <1>10, <1>11, <1>12, <1>13, <1>14,
     <1>15, <1>16 DEF SessionsStep, CallStep

\* A step of a call that is not in a reset's transaction leaves the locks as they are.
LEMMA QuietLocks ==
    ASSUME STypes, STypes', Locks, NEW c \in Call, ~HasToken(c), ~HasToken(c)',
           \A d \in Call : d # c => call'[d] = call[d],
           UNCHANGED lock,
           \A t \in Token : \/ token'[t] = token[t] \/ lock[t] = Free
                           \/ token[t] \notin {"open", "expired"}
    PROVE  Locks'
<1>1. \A w \in Token \cup {UserRow} : lock[w] # Free => lock[w] \in Call /\ lock[w] # c
  BY DEF STypes, Locks
<1>2. \A w \in Token \cup {UserRow} : lock'[w] # Free => HasToken(lock[w])'
  BY <1>1 DEF Locks, HasToken
<1>3. \A d \in Call : HasToken(d)' => d # c /\ HasToken(d) /\ call'[d] = call[d]
  BY DEF HasToken
<1>4. \A d \in Call : HasToken(d) => call[d].op.token \in Token
  BY OpParts DEF Locks, STypes, CallType, Kind
<1>5. \A d \in Call : HasUser(d)' \/ HasMarks(d)' => HasToken(d)'
  BY DEF HasUser, HasMarks, HasToken
<1>6. \A d \in Call : HasToken(d)' => /\ Kind(d)' = "reset" /\ lock'[call'[d].op.token] = d
                                      /\ token'[call'[d].op.token] \in {"open", "expired"}
  <2> SUFFICES ASSUME NEW d \in Call, HasToken(d)'
               PROVE  /\ Kind(d)' = "reset" /\ lock'[call'[d].op.token] = d
                      /\ token'[call'[d].op.token] \in {"open", "expired"}
    OBVIOUS
  <2> DEFINE t == call[d].op.token
  <2>1. d # c /\ call'[d] = call[d] /\ t \in Token /\ d # Free
    BY <1>3, <1>4, Numbers DEF Free
  <2>2. Kind(d) = "reset" /\ lock[t] = d /\ token[t] \in {"open", "expired"}
    BY <1>3 DEF Locks
  <2>3. lock'[t] = d /\ token'[t] \in {"open", "expired"}
    BY <2>1, <2>2
  <2> QED
    BY <2>1, <2>2, <2>3 DEF Kind
<1>7. \A d \in Call : HasUser(d)' => lock'[UserRow] = d
  BY <1>3, <1>5 DEF Locks, HasUser
<1>8. \A d \in Call : HasMarks(d)' => \A t \in call'[d].marks : lock'[t] = d
  BY <1>3, <1>5 DEF Locks, HasMarks
<1> QED
  BY <1>2, <1>6, <1>7, <1>8 DEF Locks

\* A reset takes the locks of more rows, which no other call has, and comes to a later point.
LEMMA MoreLocks ==
    ASSUME STypes, STypes', Locks, NEW c \in Call, Kind(c) = "reset",
           NEW rows \in SUBSET (Token \cup {UserRow}),
           HasToken(c) \/ call[c].op.token \in rows,
           \A w \in rows : lock[w] \in {Free, c},
           lock' = Locked(c, rows), UNCHANGED token,
           \A d \in Call : d # c => call'[d] = call[d],
           call'[c].op = call[c].op, HasToken(c)', token[call[c].op.token] \in {"open", "expired"},
           HasUser(c)' => HasUser(c) \/ UserRow \in rows,
           HasMarks(c)' => \/ HasMarks(c) /\ call'[c].marks = call[c].marks
                           \/ call'[c].marks \subseteq rows
    PROVE  Locks'
<1> DEFINE t == call[c].op.token
<1>1. t \in Token
  BY OpParts DEF STypes, CallType, Kind
<1>2. \A w \in Token \cup {UserRow} : lock'[w] = IF w \in rows THEN c ELSE lock[w]
  BY LockedRows DEF STypes
<1>3. \A w \in Token \cup {UserRow} : lock'[w] # Free => HasToken(lock[w])'
  <2> SUFFICES ASSUME NEW w \in Token \cup {UserRow}, lock'[w] # Free PROVE HasToken(lock[w])'
    OBVIOUS
  <2>1. CASE w \in rows
    BY <1>2, <2>1
  <2>2. CASE w \notin rows
    <3>1. lock'[w] = lock[w] /\ lock[w] \in Call /\ HasToken(lock[w])
      BY <1>2, <2>2 DEF Locks, STypes
    <3>2. CASE lock[w] = c
      BY <3>1, <3>2
    <3>3. CASE lock[w] # c
      BY <3>1, <3>3 DEF HasToken
    <3> QED
      BY <3>2, <3>3
  <2> QED
    BY <2>1, <2>2
<1>4. \A d \in Call : d # c => \A w \in Token \cup {UserRow} : lock[w] = d => lock'[w] = d
  BY <1>2, Numbers DEF Free
<1>5. \A d \in Call : HasToken(d) => call[d].op.token \in Token
  BY OpParts DEF Locks, STypes, CallType, Kind
<1>6. \A d \in Call : call[d].marks \subseteq Token
  BY DEF STypes, CallType
<1>7. ASSUME NEW d \in Call, d # c
      PROVE  /\ HasToken(d)' => /\ Kind(d)' = "reset" /\ lock'[call'[d].op.token] = d
                                /\ token'[call'[d].op.token] \in {"open", "expired"}
             /\ HasUser(d)' => lock'[UserRow] = d
             /\ HasMarks(d)' => \A u \in call'[d].marks : lock'[u] = d
  <2>1. call'[d] = call[d]
    BY <1>7
  <2>2. HasToken(d)' => /\ Kind(d)' = "reset" /\ lock'[call'[d].op.token] = d
                        /\ token'[call'[d].op.token] \in {"open", "expired"}
    BY <1>4, <1>5, <1>7, <2>1 DEF Locks, HasToken, Kind
  <2>3. HasUser(d)' => lock'[UserRow] = d
    BY <1>4, <1>7, <2>1 DEF Locks, HasUser
  <2>4. HasMarks(d)' => \A u \in call'[d].marks : lock'[u] = d
    BY <1>4, <1>6, <1>7, <2>1 DEF Locks, HasMarks
  <2> QED
    BY <2>2, <2>3, <2>4
<1>8. /\ HasToken(c)' => /\ Kind(c)' = "reset" /\ lock'[call'[c].op.token] = c
                         /\ token'[call'[c].op.token] \in {"open", "expired"}
      /\ HasUser(c)' => lock'[UserRow] = c
      /\ HasMarks(c)' => \A u \in call'[c].marks : lock'[u] = c
  <2>1. lock'[t] = c
    BY <1>1, <1>2 DEF Locks
  <2>2. HasUser(c)' => lock'[UserRow] = c
    BY <1>2 DEF Locks
  <2>3. HasMarks(c)' => \A u \in call'[c].marks : lock'[u] = c
    BY <1>2, <1>6 DEF Locks, STypes
  <2> QED
    BY <2>1, <2>2, <2>3 DEF Kind
<1> QED
  BY <1>3, <1>7, <1>8 DEF Locks

\* A call that ends lets go of its locks, and spends no token that another has locked.
LEMMA NoLocks ==
    ASSUME STypes, STypes', Locks, NEW c \in Call, ~HasToken(c)', lock' = Released(c),
           \A d \in Call : d # c => call'[d] = call[d],
           \A t \in Token : token'[t] = token[t] \/ lock[t] \in {Free, c}
    PROVE  Locks'
<1>1. \A w \in Token \cup {UserRow} : lock'[w] = IF lock[w] = c THEN Free ELSE lock[w]
  BY ReleasedRows DEF STypes
<1>2. \A w \in Token \cup {UserRow} : lock'[w] # Free => HasToken(lock[w])'
  <2> SUFFICES ASSUME NEW w \in Token \cup {UserRow}, lock'[w] # Free PROVE HasToken(lock[w])'
    OBVIOUS
  <2>1. lock'[w] = lock[w] /\ lock[w] # c /\ lock[w] \in Call /\ HasToken(lock[w])
    BY <1>1 DEF Locks, STypes
  <2> QED
    BY <2>1 DEF HasToken
<1>3. \A d \in Call : HasToken(d)' => d # c /\ HasToken(d) /\ call'[d] = call[d]
  BY DEF HasToken
<1>4. \A d \in Call : HasToken(d) => call[d].op.token \in Token
  BY OpParts DEF Locks, STypes, CallType, Kind
<1>5. \A d \in Call : HasUser(d)' \/ HasMarks(d)' => HasToken(d)'
  BY DEF HasUser, HasMarks, HasToken
<1>6. \A d \in Call : call[d].marks \subseteq Token
  BY DEF STypes, CallType
<1>7. \A d \in Call : HasToken(d)' => /\ Kind(d)' = "reset" /\ lock'[call'[d].op.token] = d
                                      /\ token'[call'[d].op.token] \in {"open", "expired"}
  <2> SUFFICES ASSUME NEW d \in Call, HasToken(d)'
               PROVE  /\ Kind(d)' = "reset" /\ lock'[call'[d].op.token] = d
                      /\ token'[call'[d].op.token] \in {"open", "expired"}
    OBVIOUS
  <2> DEFINE t == call[d].op.token
  <2>1. d # c /\ call'[d] = call[d] /\ t \in Token /\ d # Free
    BY <1>3, <1>4, Numbers DEF Free
  <2>2. Kind(d) = "reset" /\ lock[t] = d /\ token[t] \in {"open", "expired"}
    BY <1>3 DEF Locks
  <2>3. lock'[t] = d /\ token'[t] \in {"open", "expired"}
    BY <1>1, <2>1, <2>2
  <2> QED
    BY <2>1, <2>2, <2>3 DEF Kind
<1>8. \A d \in Call : HasUser(d)' => lock'[UserRow] = d
  BY <1>1, <1>3, <1>5 DEF Locks, HasUser
<1>9. \A d \in Call : HasMarks(d)' => \A t \in call'[d].marks : lock'[t] = d
  BY <1>1, <1>3, <1>5, <1>6 DEF Locks, HasMarks
<1> QED
  BY <1>2, <1>7, <1>8, <1>9 DEF Locks

LEMMA LocksNext == ASSUME STypes, STypes', Locks, SessionsStep PROVE Locks'
<1>1. ASSUME NEW c \in Call, Authenticate(c) PROVE Locks'
  <2>1. /\ UNCHANGED <<token, lock>> /\ call[c].pc = "arrived"
        /\ call'[c].pc \in {"refused", "known"}
        /\ \A d \in Call : d # c => call'[d] = call[d]
    BY <1>1, AuthenticateMoves DEF Moved, Known
  <2>2. ~HasToken(c) /\ ~HasToken(c)'
    BY <2>1 DEF HasToken
  <2> QED
    BY <2>1, <2>2, QuietLocks
<1>2. ASSUME NEW c \in Call, CreateUser(c) PROVE Locks'
  <2>1. /\ UNCHANGED <<token, lock>> /\ call[c].pc = "arrived"
        /\ call'[c].pc \in {"refused", "known"}
        /\ \A d \in Call : d # c => call'[d] = call[d]
    BY <1>2, CreateUserMoves DEF Moved, Known
  <2>2. ~HasToken(c) /\ ~HasToken(c)'
    BY <2>1 DEF HasToken
  <2> QED
    BY <2>1, <2>2, QuietLocks
<1>3. ASSUME NEW c \in Call, CreateSession(c) PROVE Locks'
  <2>1. ~HasToken(c) /\ ~HasToken(c)'
    BY <1>3, CreateSessionMoves DEF HasToken, Moved
  <2> QED
    BY <1>3, <2>1, CreateSessionMoves, QuietLocks DEF Moved
<1>4. ASSUME NEW c \in Call, CreatePasswordReset(c) PROVE Locks'
  <2>1. \A t \in Token : token'[t] = token[t] \/ token[t] \notin {"open", "expired"}
    BY <1>4, CreatePasswordResetMoves DEF STypes
  <2>2. ~HasToken(c) /\ ~HasToken(c)'
    BY <1>4, CreatePasswordResetMoves DEF HasToken, Moved
  <2> QED
    BY <1>4, <2>1, <2>2, CreatePasswordResetMoves, QuietLocks DEF Moved
<1>5. ASSUME NEW c \in Call, LockToken(c) PROVE Locks'
  <2> DEFINE t == call[c].op.token
  <2>1. /\ call[c].pc = "arrived" /\ Kind(c) = "reset" /\ t \in Token /\ lock[t] \in {Free, c}
        /\ \A d \in Call : d # c => call'[d] = call[d]
        /\ call'[c].op = call[c].op /\ call'[c].pc \in {"refused", "locked"}
    BY <1>5, LockTokenMoves DEF Moved
  <2>2. ~HasToken(c) /\ lock[t] = Free
    BY <2>1, Numbers DEF HasToken, Locks, Free
  <2>3. CASE call'[c].pc = "refused"
    <3>1. UNCHANGED lock /\ (UNCHANGED token \/ token' = [token EXCEPT ![t] = "used"])
      BY <1>5, <2>3, LockTokenMoves DEF Moved
    <3>2. \A u \in Token : token'[u] = token[u] \/ lock[u] = Free
      BY <2>2, <3>1 DEF STypes
    <3>3. ~HasToken(c)'
      BY <2>3 DEF HasToken
    <3> QED
      BY <2>1, <2>2, <3>1, <3>2, <3>3, QuietLocks
  <2>4. CASE call'[c].pc = "locked"
    <3>1. lock' = Locked(c, {t}) /\ UNCHANGED token /\ token[t] = "open"
      BY <1>5, <2>4, LockTokenMoves DEF Moved
    <3>2. {t} \in SUBSET (Token \cup {UserRow})
      BY <2>1
    <3>3. HasToken(c)' /\ ~HasUser(c)' /\ ~HasMarks(c)'
      BY <2>4 DEF HasToken, HasUser, HasMarks
    <3> QED
      BY <2>1, <3>1, <3>2, <3>3, MoreLocks
  <2> QED
    BY <2>1, <2>3, <2>4
<1>6. ASSUME NEW c \in Call, ChangePassword(c) PROVE Locks'
  <2>1. /\ UNCHANGED token /\ call[c].pc = "locked" /\ Kind(c) = "reset"
        /\ call'[c].pc = "changed" /\ call'[c].op = call[c].op
        /\ \A d \in Call : d # c => call'[d] = call[d]
        /\ lock[UserRow] \in {Free, c} /\ lock' = Locked(c, {UserRow})
    BY <1>6, ChangePasswordMoves DEF Moved
  <2>2. HasToken(c) /\ HasToken(c)' /\ ~HasMarks(c)'
    BY <2>1 DEF HasToken, HasMarks
  <2>3. /\ {UserRow} \in SUBSET (Token \cup {UserRow})
        /\ token[call[c].op.token] \in {"open", "expired"}
    BY <2>2 DEF Locks
  <2> QED
    BY <2>1, <2>2, <2>3, MoreLocks
<1>7. ASSUME NEW c \in Call, SeeTokens(c) PROVE Locks'
  <2>1. HasToken(c) /\ HasUser(c) /\ HasToken(c)' /\ ~HasMarks(c)'
    BY <1>7, SeeMoves DEF HasToken, HasUser, HasMarks
  <2>2. {} \in SUBSET (Token \cup {UserRow}) /\ token[call[c].op.token] \in {"open", "expired"}
    BY <2>1 DEF Locks
  <2>3. Locked(c, {}) = lock
    BY DEF Locked, STypes
  <2> QED
    BY <1>7, <2>1, <2>2, <2>3, SeeMoves, MoreLocks
<1>8. ASSUME NEW c \in Call, SpendTokens(c) PROVE Locks'
  <2>1. HasToken(c) /\ HasUser(c) /\ HasToken(c)'
    BY <1>8, SpendTokensMoves DEF HasToken, HasUser, Moved
  <2>2. token[call[c].op.token] \in {"open", "expired"}
    BY <2>1 DEF Locks
  <2> QED
    BY <1>8, <2>1, <2>2, SpendTokensMoves, MoreLocks DEF Moved
<1>9. ASSUME NEW c \in Call, EndSessions(c) PROVE Locks'
  <2>1. HasToken(c) /\ HasUser(c) /\ HasMarks(c) /\ HasToken(c)'
    BY <1>9, EndMoves DEF HasToken, HasUser, HasMarks
  <2>2. {} \in SUBSET (Token \cup {UserRow}) /\ token[call[c].op.token] \in {"open", "expired"}
    BY <2>1 DEF Locks
  <2>3. Locked(c, {}) = lock
    BY DEF Locked, STypes
  <2> QED
    BY <1>9, <2>1, <2>2, <2>3, EndMoves, MoreLocks
<1>10. ASSUME NEW c \in Call, CommitReset(c) PROVE Locks'
  <2>1. HasMarks(c) /\ ~HasToken(c)'
    BY <1>10, CommitMoves DEF HasToken, HasMarks, Moved
  <2>2. \A t \in Token : token'[t] = token[t] \/ lock[t] \in {Free, c}
    BY <1>10, <2>1, CommitMoves DEF Locks
  <2> QED
    BY <1>10, <2>1, <2>2, CommitMoves, NoLocks DEF Moved
<1>11. ASSUME NEW c \in Call, RevokeSession(c) \/ RevokeAllSessions(c) PROVE Locks'
  <2>1. ~HasToken(c) /\ ~HasToken(c)'
    BY <1>11, RevokeMoves DEF HasToken, Moved
  <2> QED
    BY <1>11, <2>1, RevokeMoves, QuietLocks DEF Moved
<1>12. ASSUME NEW c \in Call, CallReplies(c) PROVE Locks'
  <2>1. ~HasToken(c) /\ ~HasToken(c)'
    BY <1>12, ReplyMoves DEF HasToken, Moved
  <2> QED
    BY <1>12, <2>1, ReplyMoves, QuietLocks DEF Moved
<1>13. ASSUME NEW c \in Call, CallFails(c) \/ BreakDeadlock(c) PROVE Locks'
  <2>1. ~HasToken(c)'
    BY <1>13, FailMoves DEF HasToken, Moved
  <2> QED
    BY <1>13, <2>1, FailMoves, NoLocks DEF Moved
<1>14. ASSUME NEW c \in Call, NEW op \in Operation, CallArrives(c, op) PROVE Locks'
  <2>1. ~HasToken(c) /\ ~HasToken(c)'
    BY <1>14, ArrivalMoves DEF HasToken
  <2> QED
    BY <1>14, <2>1, ArrivalMoves, QuietLocks
<1>15. ASSUME NEW s \in Session, SessionExpires(s) PROVE Locks'
  BY <1>15, ExpiryMoves DEF Locks, HasToken, HasUser, HasMarks, Kind
<1>16. ASSUME NEW t \in Token, TokenExpires(t) PROVE Locks'
  <2>1. \A u \in Token : token[u] \in {"open", "expired"} => token'[u] \in {"open", "expired"}
    BY <1>16, TokenMoves DEF STypes
  <2>2. \A c \in Call : HasToken(c) => call[c].op.token \in Token
    BY OpParts DEF Locks, STypes, CallType, Kind
  <2>3. UNCHANGED <<call, lock>>
    BY <1>16, TokenMoves
  <2> QED
    BY <2>1, <2>2, <2>3 DEF Locks, HasToken, HasUser, HasMarks, Kind
<1> QED
  BY <1>1, <1>2, <1>3, <1>4, <1>5, <1>6, <1>7, <1>8, <1>9, <1>10, <1>11, <1>12, <1>13, <1>14,
     <1>15, <1>16 DEF SessionsStep, CallStep

\* No step but a commit adds a reset that is done, and no step makes a used token unused.
LEMMA KeepSpending ==
    ASSUME Spending, TokenOnce, NEW c \in Call,
           \A d \in Call : d # c => call'[d] = call[d],
           HasSeen(c)' => /\ HasSeen(c) /\ call'[c].op = call[c].op
                          /\ call'[c].marks = call[c].marks /\ call'[c].saw = call[c].saw,
           (c \in Resets)' => /\ c \in Resets /\ call'[c].op = call[c].op
                              /\ call'[c].saw = call[c].saw,
           \A e \in Call : \A t \in call[e].saw : token[t] = "used" => token'[t] = "used"
    PROVE  Spending' /\ TokenOnce'
<1>1. \A d \in Call : (d \in Resets)' => /\ d \in Resets /\ call'[d].op = call[d].op
                                         /\ call'[d].saw = call[d].saw
  BY DEF Resets, CallAt, Kind
<1>2. \A d \in Call : HasSeen(d)' => /\ HasSeen(d) /\ call'[d].op = call[d].op
                                     /\ call'[d].marks = call[d].marks /\ call'[d].saw = call[d].saw
  BY DEF HasSeen
<1>3. Resets' \subseteq Call
  BY DEF Resets
<1>4. Spending'
  BY <1>1, <1>2, <1>3 DEF Spending
<1>5. TokenOnce'
  BY <1>1, <1>3 DEF TokenOnce
<1> QED
  BY <1>4, <1>5

\* A call of another kind is not among the resets.
LEMMA OtherKind == ASSUME NEW c \in Call, Kind(c)' # "reset" PROVE ~(c \in Resets)'
  BY DEF Resets, CallAt, Kind

LEMMA OtherPc ==
    ASSUME NEW c \in Call, call'[c].pc \notin {"done", "replied"} PROVE ~(c \in Resets)'
  BY DEF Resets, CallAt

LEMMA SpendingNext ==
    ASSUME STypes, Locks, Spending, TokenOnce, SessionsStep PROVE Spending' /\ TokenOnce'
<1> DEFINE Inv == Spending /\ TokenOnce
<1>1. ASSUME NEW c \in Call, Authenticate(c) PROVE Inv'
  <2>1. /\ UNCHANGED token /\ call'[c].pc \in {"refused", "known"}
        /\ \A d \in Call : d # c => call'[d] = call[d]
    BY <1>1, AuthenticateMoves DEF Moved, Known
  <2>2. ~HasSeen(c)' /\ ~(c \in Resets)'
    BY <2>1, OtherPc DEF HasSeen
  <2> QED
    BY <2>1, <2>2, KeepSpending
<1>2. ASSUME NEW c \in Call, CreateUser(c) PROVE Inv'
  <2>1. /\ UNCHANGED token /\ call'[c].pc \in {"refused", "known"}
        /\ \A d \in Call : d # c => call'[d] = call[d]
    BY <1>2, CreateUserMoves DEF Moved, Known
  <2>2. ~HasSeen(c)' /\ ~(c \in Resets)'
    BY <2>1, OtherPc DEF HasSeen
  <2> QED
    BY <2>1, <2>2, KeepSpending
<1>3. ASSUME NEW c \in Call, CreateSession(c) PROVE Inv'
  <2>1. ~HasSeen(c)' /\ ~(c \in Resets)'
    BY <1>3, CreateSessionMoves, OtherKind DEF HasSeen, Moved, Kind
  <2> QED
    BY <1>3, <2>1, CreateSessionMoves, KeepSpending DEF Moved
<1>4. ASSUME NEW c \in Call, CreatePasswordReset(c) PROVE Inv'
  <2>1. ~HasSeen(c)' /\ ~(c \in Resets)'
    BY <1>4, CreatePasswordResetMoves, OtherKind DEF HasSeen, Moved, Kind
  <2>2. \A t \in Token : token[t] = "used" => token'[t] = "used"
    BY <1>4, CreatePasswordResetMoves DEF STypes
  <2>3. \A e \in Call : call[e].saw \subseteq Token
    BY DEF STypes, CallType
  <2> QED
    BY <1>4, <2>1, <2>2, <2>3, CreatePasswordResetMoves, KeepSpending DEF Moved
<1>5. ASSUME NEW c \in Call, LockToken(c) PROVE Inv'
  <2>1. call'[c].pc \in {"refused", "locked"} /\ \A d \in Call : d # c => call'[d] = call[d]
    BY <1>5, LockTokenMoves DEF Moved
  <2>2. ~HasSeen(c)' /\ ~(c \in Resets)'
    BY <2>1, OtherPc DEF HasSeen
  <2>3. UNCHANGED token \/ token' = [token EXCEPT ![call[c].op.token] = "used"]
    BY <1>5, LockTokenMoves
  <2>4. \A t \in Token : token[t] = "used" => token'[t] = "used"
    BY <2>3 DEF STypes
  <2>5. \A e \in Call : call[e].saw \subseteq Token
    BY DEF STypes, CallType
  <2> QED
    BY <2>1, <2>2, <2>4, <2>5, KeepSpending
<1>6. ASSUME NEW c \in Call, ChangePassword(c) PROVE Inv'
  <2>1. ~HasSeen(c)' /\ ~(c \in Resets)'
    BY <1>6, ChangePasswordMoves, OtherPc DEF HasSeen, Moved
  <2> QED
    BY <1>6, <2>1, ChangePasswordMoves, KeepSpending DEF Moved
<1>7. ASSUME NEW c \in Call, SeeTokens(c) PROVE Inv'
  <2>1. /\ UNCHANGED token /\ call'[c].pc = "spending" /\ call[c].pc = "changed"
        /\ call'[c].op = call[c].op /\ call'[c].marks = Unused /\ call'[c].saw = Unused
        /\ \A d \in Call : d # c => call'[d] = call[d]
    BY <1>7, SeeMoves
  <2>2. \A d \in Call : (d \in Resets)' => d # c /\ d \in Resets
    BY <2>1 DEF Resets, CallAt, Kind
  <2>3. Resets' \subseteq Call
    BY DEF Resets
  <2>4. \A d \in Resets : token[call[d].op.token] = "used"
    BY DEF Spending, Resets
  <2>5. call[c].op.token \in Unused
    BY <2>1, OpParts DEF Locks, HasToken, Unused, STypes, CallType, Kind
  <2>6. \A d \in Resets : call[d].op.token \notin Unused
    BY <2>4 DEF Unused
  <2>7. \A d \in Call : d # c /\ HasSeen(d)' => HasSeen(d)
    BY <2>1 DEF HasSeen
  <2>8. Spending'
    BY <2>1, <2>2, <2>3, <2>5, <2>6, <2>7 DEF Spending
  <2>9. TokenOnce'
    BY <2>1, <2>2, <2>3 DEF TokenOnce
  <2> QED
    BY <2>8, <2>9
<1>8. ASSUME NEW c \in Call, SpendTokens(c) PROVE Inv'
  <2>1. HasSeen(c) /\ ~(c \in Resets)'
    BY <1>8, SpendTokensMoves, OtherPc DEF HasSeen, Moved
  <2> QED
    BY <1>8, <2>1, SpendTokensMoves, KeepSpending DEF Moved
<1>9. ASSUME NEW c \in Call, EndSessions(c) PROVE Inv'
  <2>1. HasSeen(c) /\ ~(c \in Resets)'
    BY <1>9, EndMoves, OtherPc DEF HasSeen
  <2> QED
    BY <1>9, <2>1, EndMoves, KeepSpending
<1>10. ASSUME NEW c \in Call, CommitReset(c) PROVE Inv'
  <2>1. /\ call[c].pc = "ended" /\ Kind(c) = "reset" /\ call'[c].pc = "done"
        /\ call'[c].op = call[c].op /\ call'[c].saw = call[c].saw
        /\ \A d \in Call : d # c => call'[d] = call[d]
    BY <1>10, CommitMoves DEF Moved
  <2>2. HasSeen(c) /\ HasUser(c) /\ HasToken(c)
    BY <2>1 DEF HasSeen, HasUser, HasToken
  <2>3. \A e \in Call : ~HasSeen(e)'
    <3>1. ASSUME NEW e \in Call, HasSeen(e)' PROVE FALSE
      <4>1. e # c
        BY <2>1, <3>1 DEF HasSeen
      <4>2. HasUser(e)
        BY <2>1, <3>1, <4>1 DEF HasSeen, HasUser
      <4> QED
        BY <2>2, <4>1, <4>2 DEF Locks
    <3> QED
      BY <3>1
  <2>4. /\ call[c].marks = call[c].saw /\ call[c].op.token \in call[c].saw
        /\ \A d \in Resets : call[d].op.token \notin call[c].saw
    BY <2>2 DEF Spending
  <2>5. /\ \A t \in Token : token[t] = "used" => token'[t] = "used"
        /\ \A t \in call[c].saw : token'[t] = "used"
        /\ \A e \in Call : call[e].saw \subseteq Token
    BY <1>10, <2>4, CommitMoves DEF STypes, CallType
  <2>6. \A d \in Call : (d \in Resets)' /\ d # c => d \in Resets /\ call'[d] = call[d]
    BY <2>1 DEF Resets, CallAt, Kind
  <2>7. Resets' \subseteq Call
    BY DEF Resets
  <2>8. Spending'
    BY <2>1, <2>3, <2>4, <2>5, <2>6 DEF Spending
  <2>9. \A d \in Resets : call[c].op.token \notin call[d].saw
    BY <2>2 DEF Spending, Locks, Resets
  <2>10. TokenOnce'
    BY <2>1, <2>4, <2>6, <2>7, <2>9 DEF TokenOnce
  <2> QED
    BY <2>8, <2>10
<1>11. ASSUME NEW c \in Call, RevokeSession(c) \/ RevokeAllSessions(c) PROVE Inv'
  <2>1. /\ Kind(c) \in {"logout", "revoke", "logoutAll"} /\ UNCHANGED token
        /\ call'[c].pc \in {"done", "refused"} /\ call'[c].op = call[c].op
        /\ \A d \in Call : d # c => call'[d] = call[d]
    BY <1>11, RevokeMoves DEF Moved
  <2>2. ~HasSeen(c)' /\ ~(c \in Resets)'
    BY <2>1, OtherKind DEF HasSeen, Kind
  <2> QED
    BY <2>1, <2>2, KeepSpending
<1>12. ASSUME NEW c \in Call, CallReplies(c) PROVE Inv'
  <2>1. /\ call[c].pc = "done" /\ call'[c].pc = "replied" /\ UNCHANGED token
        /\ call'[c].op = call[c].op /\ call'[c].saw = call[c].saw
        /\ \A d \in Call : d # c => call'[d] = call[d]
    BY <1>12, ReplyMoves DEF Moved
  <2>2. ~HasSeen(c)' /\ ((c \in Resets)' => c \in Resets)
    BY <2>1 DEF HasSeen, Resets, CallAt, Kind
  <2> QED
    BY <2>1, <2>2, KeepSpending
<1>13. ASSUME NEW c \in Call, CallFails(c) \/ BreakDeadlock(c) PROVE Inv'
  <2>1. ~HasSeen(c)' /\ ~(c \in Resets)'
    BY <1>13, FailMoves, OtherPc DEF HasSeen, Moved
  <2> QED
    BY <1>13, <2>1, FailMoves, KeepSpending DEF Moved
<1>14. ASSUME NEW c \in Call, NEW op \in Operation, CallArrives(c, op) PROVE Inv'
  <2>1. ~HasSeen(c)' /\ ~(c \in Resets)'
    BY <1>14, ArrivalMoves, OtherPc DEF HasSeen
  <2> QED
    BY <1>14, <2>1, ArrivalMoves, KeepSpending
<1>15. ASSUME NEW s \in Session, SessionExpires(s) PROVE Inv'
  BY <1>15, ExpiryMoves DEF Spending, TokenOnce, Resets, HasSeen, CallAt, Kind
<1>16. ASSUME NEW t \in Token, TokenExpires(t) PROVE Inv'
  <2>1. UNCHANGED call /\ \A u \in Token : token[u] = "used" => token'[u] = "used"
    BY <1>16, TokenMoves DEF STypes
  <2>2. \A e \in Call : call[e].saw \subseteq Token
    BY DEF STypes, CallType
  <2> QED
    BY <2>1, <2>2 DEF Spending, TokenOnce, Resets, HasSeen, CallAt, Kind
<1> QED
  BY <1>1, <1>2, <1>3, <1>4, <1>5, <1>6, <1>7, <1>8, <1>9, <1>10, <1>11, <1>12, <1>13, <1>14,
     <1>15, <1>16 DEF SessionsStep, CallStep

\* What becomes of passwords and sessions: the steps that matter are those of logging in,
\* signing up and committing a reset, and those that end sessions.
SessionsKept == Passwords /\ Ending /\ ResetRevokes

\* A step that makes no session active and no call known, and changes no password.
LEMMA KeepSessions ==
    ASSUME STypes, SessionsKept, UNCHANGED <<password, late>>,
           Weaker \/ UNCHANGED session,
           \A d \in Call :
              /\ call'[d].pc = "known" =>
                    call[d].pc = "known" /\ call'[d].password = call[d].password
              /\ call'[d].pc = "ended" => call[d].pc = "ended" /\ call'[d].ends = call[d].ends
    PROVE  SessionsKept'
<1>1. \A s \in Session : /\ session'[s].password = session[s].password
                         /\ session'[s].state = "active" => Active(s)
  BY DEF Weaker, Active
<1>2. Passwords'
  BY <1>1 DEF SessionsKept, Passwords, Active
<1>3. Ending'
  BY <1>1 DEF SessionsKept, Ending, Active
<1>4. ResetRevokes'
  BY <1>1 DEF SessionsKept, ResetRevokes, Active
<1> QED
  BY <1>2, <1>3, <1>4 DEF SessionsKept

LEMMA KeepSessionsOf ==
    ASSUME STypes, SessionsKept, UNCHANGED <<password, late>>,
           Weaker \/ UNCHANGED session,
           NEW c \in Call, \A d \in Call : d # c => call'[d] = call[d],
           call'[c].pc \notin {"known", "ended"}
    PROVE  SessionsKept'
  BY KeepSessions

LEMMA SessionsKeptNext ==
    ASSUME STypes, STypes', Locks, SessionsKept, SessionsStep PROVE SessionsKept'
<1>1. ASSUME NEW c \in Call, Authenticate(c) PROVE SessionsKept'
  <2>1. /\ UNCHANGED <<password, session, late>> /\ \A d \in Call : d # c => call'[d] = call[d]
        /\ \/ call'[c].pc = "refused"
           \/ password > 0 /\ call'[c].pc = "known" /\ call'[c].password = password
    BY <1>1, AuthenticateMoves DEF Moved, Known
  <2>2. Passwords'
    BY <2>1 DEF SessionsKept, Passwords, Active, STypes
  <2>3. Ending' /\ ResetRevokes'
    BY <2>1 DEF SessionsKept, Ending, ResetRevokes, Active
  <2> QED
    BY <2>2, <2>3 DEF SessionsKept
<1>2. ASSUME NEW c \in Call, CreateUser(c) PROVE SessionsKept'
  <2>1. CASE Moved(c, "refused") /\ UNCHANGED password
    BY <1>2, <2>1, CreateUserMoves, KeepSessionsOf DEF Moved
  <2>2. CASE password = 0 /\ password' = 1 /\ Known(c, 1)
    <3>1. /\ UNCHANGED <<session, late>> /\ \A d \in Call : d # c => call'[d] = call[d]
          /\ call'[c].pc = "known" /\ call'[c].password = 1
      BY <1>2, <2>2, CreateUserMoves DEF Known
    <3>2. \A s \in Session : session[s].password = 0 /\ ~Active(s)
      BY <2>2 DEF SessionsKept, Passwords, STypes
    <3>3. \A d \in Call : d # c => call'[d].pc # "known"
      BY <2>2, <3>1 DEF SessionsKept, Passwords, STypes
    <3>4. Passwords'
      BY <2>2, <3>1, <3>2, <3>3 DEF Passwords, Active
    <3>5. Ending' /\ ResetRevokes'
      BY <3>1, <3>2 DEF Ending, ResetRevokes, Active
    <3> QED
      BY <3>4, <3>5 DEF SessionsKept
  <2> QED
    BY <1>2, <2>1, <2>2, CreateUserMoves
<1>3. ASSUME NEW c \in Call, CreateSession(c) PROVE SessionsKept'
  <2>1. PICK s \in Session :
           /\ session' = [session EXCEPT ![s] = [state |-> "active", password |-> call[c].password]]
           /\ late' = IF call[c].password # password \/ \E d \in Call : call[d].pc = "ended"
                      THEN late \cup {s} ELSE late
    BY <1>3, CreateSessionMoves
  <2>2. /\ UNCHANGED password /\ call[c].pc = "known" /\ call'[c].pc = "done"
        /\ \A d \in Call : d # c => call'[d] = call[d]
    BY <1>3, CreateSessionMoves DEF Moved
  <2>3. call[c].password \in 1..password
    BY <2>2 DEF SessionsKept, Passwords
  <2>4. session'[s].password = call[c].password
    BY <2>1 DEF STypes
  <2>5. \A x \in Session : x # s => session'[x] = session[x]
    BY <2>1 DEF STypes
  <2>6. Passwords'
    <3>1. password \in Nat /\ call[c].password <= password /\ call[c].password > 0
      BY <2>3 DEF STypes
    <3>2. \A x \in Session : x # s => /\ session'[x].password <= password'
                                      /\ Active(x)' => session'[x].password > 0
      BY <2>2, <2>5 DEF SessionsKept, Passwords, Active
    <3>3. \A d \in Call : call'[d].pc = "known" => call'[d].password \in 1..password'
      BY <2>2 DEF SessionsKept, Passwords
    <3> QED
      BY <2>2, <2>4, <3>1, <3>2, <3>3 DEF Passwords
  <2>7. late \subseteq late'
    BY <2>1
  <2>8. Ending'
    BY <2>1, <2>2, <2>5, <2>7 DEF SessionsKept, Ending, Active
  <2>9. ResetRevokes'
    BY <2>1, <2>2, <2>4, <2>5, <2>7 DEF SessionsKept, ResetRevokes, Active
  <2> QED
    BY <2>6, <2>8, <2>9 DEF SessionsKept
<1>4. ASSUME NEW c \in Call, CreatePasswordReset(c) PROVE SessionsKept'
  BY <1>4, CreatePasswordResetMoves, KeepSessionsOf DEF Moved
<1>5. ASSUME NEW c \in Call, LockToken(c) PROVE SessionsKept'
  <2>1. /\ UNCHANGED <<password, session, late>> /\ \A d \in Call : d # c => call'[d] = call[d]
        /\ call'[c].pc \in {"refused", "locked"}
    BY <1>5, LockTokenMoves DEF Moved
  <2> QED
    BY <2>1, KeepSessionsOf
<1>6. ASSUME NEW c \in Call, ChangePassword(c) PROVE SessionsKept'
  BY <1>6, ChangePasswordMoves, KeepSessionsOf DEF Moved
<1>7. ASSUME NEW c \in Call, SeeTokens(c) PROVE SessionsKept'
  BY <1>7, SeeMoves, KeepSessionsOf
<1>8. ASSUME NEW c \in Call, SpendTokens(c) PROVE SessionsKept'
  BY <1>8, SpendTokensMoves, KeepSessionsOf DEF Moved
<1>9. ASSUME NEW c \in Call, EndSessions(c) PROVE SessionsKept'
  <2>1. /\ UNCHANGED <<password, session, late>> /\ \A d \in Call : d # c => call'[d] = call[d]
        /\ call'[c].pc = "ended"
        /\ call'[c].ends = {s \in Session : session[s].state # "none"}
    BY <1>9, EndMoves
  <2>2. Passwords'
    BY <2>1 DEF SessionsKept, Passwords, Active
  <2>3. Ending' /\ ResetRevokes'
    BY <2>1 DEF SessionsKept, Ending, ResetRevokes, Active
  <2> QED
    BY <2>2, <2>3 DEF SessionsKept
<1>10. ASSUME NEW c \in Call, CommitReset(c) PROVE SessionsKept'
  <2>1. /\ call[c].pc = "ended" /\ call'[c].pc = "done" /\ UNCHANGED late
        /\ \A d \in Call : d # c => call'[d] = call[d]
        /\ password' = password + 1
    BY <1>10, CommitMoves DEF Moved
  <2>2. \A s \in Session : /\ session'[s].password = session[s].password
                           /\ s \in call[c].ends => session'[s].state = "revoked"
                           /\ s \notin call[c].ends => session'[s].state = session[s].state
    BY <1>10, CommitMoves DEF STypes
  <2>3. \A d \in Call : d # c => call[d].pc # "ended"
    <3>1. \A d \in Call : call[d].pc = "ended" => lock[UserRow] = d
      BY DEF Locks, HasUser
    <3> QED
      BY <2>1, <3>1
  <2>4. \A s \in Session : session'[s].state = "active" => s \in late /\ Active(s)
    BY <2>1, <2>2 DEF SessionsKept, Ending, Active
  <2>5. Passwords'
    BY <2>1, <2>2, <2>4 DEF SessionsKept, Passwords, Active, STypes
  <2>6. Ending' /\ ResetRevokes'
    BY <2>1, <2>3, <2>4 DEF Ending, ResetRevokes, Active
  <2> QED
    BY <2>5, <2>6 DEF SessionsKept
<1>11. ASSUME NEW c \in Call, RevokeSession(c) \/ RevokeAllSessions(c) PROVE SessionsKept'
  <2>1. /\ UNCHANGED <<password, late>> /\ Weaker
        /\ call'[c].pc \in {"done", "refused"}
        /\ \A d \in Call : d # c => call'[d] = call[d]
    BY <1>11, RevokeMoves DEF Moved
  <2> QED
    BY <2>1, KeepSessionsOf
<1>12. ASSUME NEW c \in Call, CallReplies(c) PROVE SessionsKept'
  BY <1>12, ReplyMoves, KeepSessionsOf DEF Moved
<1>13. ASSUME NEW c \in Call, CallFails(c) \/ BreakDeadlock(c) PROVE SessionsKept'
  BY <1>13, FailMoves, KeepSessionsOf DEF Moved
<1>14. ASSUME NEW c \in Call, NEW op \in Operation, CallArrives(c, op) PROVE SessionsKept'
  BY <1>14, ArrivalMoves, KeepSessionsOf
<1>15. ASSUME NEW s \in Session, SessionExpires(s) PROVE SessionsKept'
  BY <1>15, ExpiryMoves, KeepSessions
<1>16. ASSUME NEW t \in Token, TokenExpires(t) PROVE SessionsKept'
  BY <1>16, TokenMoves, KeepSessions
<1> QED
  BY <1>1, <1>2, <1>3, <1>4, <1>5, <1>6, <1>7, <1>8, <1>9, <1>10, <1>11, <1>12, <1>13, <1>14,
     <1>15, <1>16 DEF SessionsStep, CallStep

\* An unfinished call that ends, or goes on, keeps the count of those that have ended.
LEMMA OverGrows ==
    ASSUME Counted, NEW c \in Call, \A d \in Call : d # c => call'[d] = call[d],
           c \in Over => call'[c].pc \in {"done", "replied", "refused", "failed"},
           STypes, STypes', UNCHANGED password \/ password' = 1
    PROVE  Counted'
<1>1. Over \subseteq Over' /\ Over' \subseteq Call /\ IsFiniteSet(Call)
  BY Numbers DEF Over
<1>2. IsFiniteSet(Over') /\ Cardinality(Over) <= Cardinality(Over')
  BY <1>1, FS_Subset
<1>3. Cardinality(Over') \in Nat /\ Cardinality(Over) \in Nat
  BY <1>1, <1>2, FS_Subset, FS_CardinalityType
<1> QED
  BY <1>2, <1>3 DEF Counted, STypes

LEMMA CountedNext ==
    ASSUME STypes, STypes', Locks, Counted, SessionsStep PROVE Counted'
<1>1. ASSUME NEW c \in Call, Authenticate(c) PROVE Counted'
  <2>1. c \notin Over
    BY <1>1, AuthenticateMoves DEF Over
  <2> QED
    BY <1>1, <2>1, AuthenticateMoves, OverGrows DEF Moved, Known
<1>2. ASSUME NEW c \in Call, CreateUser(c) PROVE Counted'
  <2>1. c \notin Over
    BY <1>2, CreateUserMoves DEF Over
  <2> QED
    BY <1>2, <2>1, CreateUserMoves, OverGrows DEF Moved, Known
<1>3. ASSUME NEW c \in Call, CreateSession(c) PROVE Counted'
  BY <1>3, CreateSessionMoves, OverGrows DEF Moved
<1>4. ASSUME NEW c \in Call, CreatePasswordReset(c) PROVE Counted'
  BY <1>4, CreatePasswordResetMoves, OverGrows DEF Moved
<1>5. ASSUME NEW c \in Call, LockToken(c) PROVE Counted'
  <2>1. /\ UNCHANGED password /\ call[c].pc = "arrived"
        /\ \A d \in Call : d # c => call'[d] = call[d]
    BY <1>5, LockTokenMoves DEF Moved
  <2>2. c \notin Over
    BY <2>1 DEF Over
  <2> QED
    BY <2>1, <2>2, OverGrows
<1>6. ASSUME NEW c \in Call, ChangePassword(c) PROVE Counted'
  <2>1. c \notin Over
    BY <1>6, ChangePasswordMoves DEF Over
  <2> QED
    BY <1>6, <2>1, ChangePasswordMoves, OverGrows DEF Moved
<1>7. ASSUME NEW c \in Call, SeeTokens(c) PROVE Counted'
  <2>1. c \notin Over
    BY <1>7, SeeMoves DEF Over
  <2> QED
    BY <1>7, <2>1, SeeMoves, OverGrows
<1>8. ASSUME NEW c \in Call, SpendTokens(c) PROVE Counted'
  <2>1. c \notin Over
    BY <1>8, SpendTokensMoves DEF Over
  <2> QED
    BY <1>8, <2>1, SpendTokensMoves, OverGrows DEF Moved
<1>9. ASSUME NEW c \in Call, EndSessions(c) PROVE Counted'
  <2>1. c \notin Over
    BY <1>9, EndMoves DEF Over
  <2> QED
    BY <1>9, <2>1, EndMoves, OverGrows
<1>10. ASSUME NEW c \in Call, CommitReset(c) PROVE Counted'
  <2>1. /\ call[c].pc = "ended" /\ call'[c].pc = "done" /\ password' = password + 1
        /\ \A d \in Call : d # c => call'[d] = call[d]
    BY <1>10, CommitMoves DEF Moved
  <2>2. c \notin Over /\ Over' = Over \cup {c} /\ Over \subseteq Call
    BY <2>1 DEF Over
  <2>3. IsFiniteSet(Over)
    BY <2>2, Numbers, FS_Subset
  <2>4. Cardinality(Over') = Cardinality(Over) + 1 /\ Cardinality(Over) \in Nat
    BY <2>2, <2>3, FS_AddElement, FS_CardinalityType
  <2> QED
    BY <2>1, <2>4 DEF Counted, STypes
<1>11. ASSUME NEW c \in Call, RevokeSession(c) \/ RevokeAllSessions(c) PROVE Counted'
  <2>1. c \notin Over
    BY <1>11, RevokeMoves DEF Over
  <2> QED
    BY <1>11, <2>1, RevokeMoves, OverGrows DEF Moved
<1>12. ASSUME NEW c \in Call, CallReplies(c) PROVE Counted'
  BY <1>12, ReplyMoves, OverGrows DEF Moved
<1>13. ASSUME NEW c \in Call, CallFails(c) \/ BreakDeadlock(c) PROVE Counted'
  BY <1>13, FailMoves, OverGrows DEF Moved
<1>14. ASSUME NEW c \in Call, NEW op \in Operation, CallArrives(c, op) PROVE Counted'
  <2>1. c \notin Over
    BY <1>14, ArrivalMoves DEF Over
  <2> QED
    BY <1>14, <2>1, ArrivalMoves, OverGrows
<1>15. ASSUME NEW s \in Session, SessionExpires(s) PROVE Counted'
  BY <1>15, ExpiryMoves DEF Counted, Over
<1>16. ASSUME NEW t \in Token, TokenExpires(t) PROVE Counted'
  BY <1>16, TokenMoves DEF Counted, Over
<1> QED
  BY <1>1, <1>2, <1>3, <1>4, <1>5, <1>6, <1>7, <1>8, <1>9, <1>10, <1>11, <1>12, <1>13, <1>14,
     <1>15, <1>16 DEF SessionsStep, CallStep

-----------------------------------------------------------------------------
(* The invariant holds at the start, every step keeps it, and it implies the properties. *)

LEMMA SessionsStart ==
    ASSUME NEW opened \in BOOLEAN, NEW mailed \in Nat, SessionsInit(opened, mailed) PROVE SInv
<1>1. /\ password \in Nat
      /\ session \in [Session -> [state : {"none", "active", "revoked", "expired"}, password : Nat]]
      /\ \A s \in Session : /\ session[s].password <= password
                            /\ Active(s) =>
                                  session[s].password > 0 /\ session[s].password = password
  <2>1. CASE opened
    BY <2>1 DEF SessionsInit, Active
  <2>2. CASE ~opened
    BY <2>2 DEF SessionsInit, Active
  <2> QED
    BY <2>1, <2>2
<1>2. \A c \in Call : call[c] = NoCall
  BY DEF SessionsInit
<1>3. NoCall \in CallType /\ NoCall.pc = "none"
  BY DEF NoCall, CallAs, CallType, CallPc
<1>4. STypes
  <2>1. token \in [Token -> {"none", "open", "expired", "used"}]
    BY DEF SessionsInit
  <2>2. lock \in [Token \cup {UserRow} -> Call \cup {Free}]
    BY DEF SessionsInit
  <2>3. call \in [Call -> CallType]
    BY <1>3 DEF SessionsInit
  <2>4. late \subseteq Session
    BY DEF SessionsInit
  <2> QED
    BY <1>1, <2>1, <2>2, <2>3, <2>4 DEF STypes
<1>5. \A c \in Call : call[c].pc = "none"
  BY <1>2, <1>3
<1>6. Locks
  BY <1>5 DEF Locks, SessionsInit, HasToken, HasUser, HasMarks
<1>7. Resets = {} /\ Over = {}
  BY <1>5 DEF Resets, CallAt, Over
<1>8. Spending /\ TokenOnce
  BY <1>5, <1>7 DEF Spending, TokenOnce, HasSeen
<1>9. Passwords /\ Ending /\ ResetRevokes
  BY <1>1, <1>5 DEF Passwords, Ending, ResetRevokes
<1>10. Counted
  <2>1. password \in {0, 1}
    BY DEF SessionsInit
  <2>2. Cardinality(Over) = 0
    BY <1>7, FS_EmptySet
  <2> QED
    BY <2>1, <2>2 DEF Counted
<1> QED
  BY <1>4, <1>6, <1>8, <1>9, <1>10 DEF SInv

LEMMA SessionsNext == ASSUME SInv, SessionsStep PROVE SInv'
<1>1. STypes'
  BY TypesNext DEF SInv
<1> QED
  BY <1>1, LocksNext, SpendingNext, SessionsKeptNext, CountedNext DEF SInv, SessionsKept

LEMMA SessionsStutter == ASSUME SInv, UNCHANGED sessionsVars PROVE SInv'
  BY DEF SInv, sessionsVars, STypes, Locks, Spending, TokenOnce, Passwords, Ending, ResetRevokes,
         Counted, Over, HasToken, HasUser, HasMarks, HasSeen, Resets, CallAt, Kind, Active

LEMMA SessionsTyped == SInv => SessionsTypeOK
<1> SUFFICES ASSUME SInv PROVE SessionsTypeOK
  OBVIOUS
<1>1. password \in 0..Cardinality(Call) + 1
  <2>1. Over \subseteq Call /\ IsFiniteSet(Call)
    BY Numbers DEF Over
  <2>2. /\ Cardinality(Over) <= Cardinality(Call)
        /\ Cardinality(Over) \in Nat /\ Cardinality(Call) \in Nat
    BY <2>1, FS_Subset, FS_CardinalityType
  <2> QED
    BY <2>2 DEF SInv, STypes, Counted
<1>2. \A s \in Session : /\ session[s].state \in {"none", "active", "revoked", "expired"}
                         /\ session[s].password \in 0..password
  BY DEF SInv, STypes, Passwords
<1>3. \A t \in Token : token[t] \in {"none", "open", "expired", "used"}
  BY DEF SInv, STypes
<1>4. \A w \in DOMAIN lock :
         lock[w] # Free => Kind(lock[w]) = "reset" /\ ~CallEnded(lock[w])
  BY DEF SInv, STypes, Locks, HasToken, CallEnded
<1>5. \A c \in Call : call[c].marks \subseteq Token /\ call[c].ends \subseteq Session
  BY DEF SInv, STypes, CallType
<1>6. late \subseteq Session
  BY DEF SInv, STypes
<1> QED
  BY <1>1, <1>2, <1>3, <1>4, <1>5, <1>6 DEF SessionsTypeOK

=============================================================================
