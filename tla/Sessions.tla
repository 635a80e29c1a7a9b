------------------------------ MODULE Sessions ------------------------------
(***************************************************************************)
(* The sessions, password and reset tokens of one user: the routes under   *)
(* /v1/auth of apps/api/src/app.ts and the statements of                   *)
(* apps/api/src/store.ts they run, for concurrent calls.                   *)
(*                                                                         *)
(* Passwords are numbered in the order they are set.  A statement of       *)
(* PostgreSQL sees what is committed when it starts, takes the locks of    *)
(* the rows it writes, and what it writes is visible from the COMMIT on.   *)
(***************************************************************************)
EXTENDS Integers, FiniteSets

CONSTANTS
    Call,            \* calls of the authentication routes, numbered as they come
    MaxSessions, MaxTokens                   \* bounds on the rows of the two tables

ASSUME SessionsAssumption ==
    /\ Call \subseteq Nat \ {0} /\ IsFiniteSet(Call)
    /\ MaxSessions \in Nat \ {0} /\ MaxTokens \in Nat

VARIABLES
    password,        \* users.password_hash; 0 while there is no account
    session,         \* sessions: [state, password]
    token,           \* password_reset_tokens, and whether they are past expires_at
    lock,            \* the locks of the token rows and of the user's row
    call,            \* the calls: [pc, op, password, marks, ends], and as
                     \* history saw, the tokens unused when a reset changed the password
    late             \* history: sessions written when a reset had passed them by

sessionsVars == <<password, session, token, lock, call, late>>

Session == 1..MaxSessions
Token == 1..MaxTokens
UserRow == 0
Free == 0

\* What a call may ask for, past the validation of its body and its cookie.
Operation ==
    [kind : {"signup", "forgot"}] \cup [kind : {"login"}, password : Nat \ {0}]
        \cup [kind : {"reset"}, token : Token]
        \cup [kind : {"logout", "revoke", "logoutAll"}, session : Session, target : Session]

CallAs(pc, op) == [pc |-> pc, op |-> op, password |-> 0, marks |-> {}, ends |-> {}, saw |-> {}]
NoCall == CallAs("none", [kind |-> "none"])

Active(s) == session[s].state = "active"
NewSession == {s \in Session : \A t \in Session : session[t].state = "none" <=> t >= s}
NewToken == {t \in Token : \A u \in Token : token[u] = "none" <=> u >= t}
Unused == {t \in Token : token[t] \in {"open", "expired"}}
Kind(c) == call[c].op.kind
CallAt(c, kinds, pc) == Kind(c) \in kinds /\ call[c].pc = pc
CallEnded(c) == call[c].pc \in {"none", "replied", "refused", "failed"}

-----------------------------------------------------------------------------
(***************************************************************************)
(* Variants of definitions below, as a mistake in the code would make      *)
(* them; each one shows that a property would notice the mistake.          *)
(***************************************************************************)
BugSpends(c) == {call[c].op.token}
BugEnds(c) == {1}
BugReleased(c) == lock

-----------------------------------------------------------------------------
Lockable(c, rows) == \A row \in rows : lock[row] \in {Free, c}
Locked(c, rows) == [row \in DOMAIN lock |-> IF row \in rows THEN c ELSE lock[row]]
Released(c) == [row \in DOMAIN lock |-> IF lock[row] = c THEN Free ELSE lock[row]]

CallGoes(c, pc) == call' = [call EXCEPT ![c].pc = pc]

RefuseCall(c) ==
    /\ CallGoes(c, "refused")
    /\ lock' = Released(c)
    /\ UNCHANGED <<password, session, token, late>>

\* At the start the user may have an account and a session, and reset links by mail.
SessionsInit(opened, mailed) ==
    /\ password = IF opened THEN 1 ELSE 0
    /\ session = [s \in Session |-> IF opened /\ s = 1 THEN [state |-> "active", password |-> 1]
                                    ELSE [state |-> "none", password |-> 0]]
    /\ token = [t \in Token |-> IF t <= mailed THEN "open" ELSE "none"]
    /\ lock = [row \in Token \cup {UserRow} |-> Free]
    /\ call = [c \in Call |-> NoCall]
    /\ late = {}

\* A call comes in; one with a cookie finds its session active.
CallArrives(c, op) ==
    /\ \A d \in Call : call[d].pc = "none" <=> d >= c
    /\ op.kind \in {"logout", "revoke", "logoutAll"} => Active(op.session)
    /\ op.kind = "reset" => token[op.token] # "none"       \* the link was mailed
    /\ call' = [call EXCEPT ![c] = CallAs("arrived", op)]
    /\ UNCHANGED <<password, session, token, lock, late>>

\* authenticateUser() and createUser(): from then on the call is the user's.
Authenticate(c) ==
    /\ CallAt(c, {"login"}, "arrived")
    /\ IF call[c].op.password # password THEN RefuseCall(c)
       ELSE /\ call' = [call EXCEPT ![c] = [@ EXCEPT !.pc = "known", !.password = password]]
            /\ UNCHANGED <<password, session, token, lock, late>>

CreateUser(c) ==
    /\ CallAt(c, {"signup"}, "arrived")
    /\ IF password # 0 THEN RefuseCall(c)                  \* the e-mail address is unique
       ELSE /\ password' = 1
            /\ call' = [call EXCEPT ![c] = [@ EXCEPT !.pc = "known", !.password = 1]]
            /\ UNCHANGED <<session, token, lock, late>>

\* createLoginSession() writes the session, whatever became of the password meanwhile.
CreateSession(c) ==
    /\ CallAt(c, {"login", "signup"}, "known")
    /\ \E s \in NewSession :
          /\ session' = [session EXCEPT ![s] = [state |-> "active", password |-> call[c].password]]
          /\ late' = IF call[c].password # password \/ \E d \in Call : call[d].pc = "ended"
                     THEN late \cup {s} ELSE late
    /\ CallGoes(c, "done")
    /\ UNCHANGED <<password, token, lock>>

\* createPasswordReset(); older tokens stay as they are.
CreatePasswordReset(c) ==
    /\ CallAt(c, {"forgot"}, "arrived")
    /\ IF password = 0 THEN UNCHANGED token
       ELSE \E t \in NewToken : token' = [token EXCEPT ![t] = "open"]
    /\ CallGoes(c, "done")
    /\ UNCHANGED <<password, session, lock, late>>

-----------------------------------------------------------------------------
(***************************************************************************)
(* resetPassword(): a transaction that locks the token, changes the        *)
(* password, marks every unused token used and ends every session.         *)
(***************************************************************************)
LockToken(c) ==
    LET t == call[c].op.token
    IN  /\ CallAt(c, {"reset"}, "arrived")
        /\ Lockable(c, {t})
        /\ \/ token[t] = "used" /\ RefuseCall(c)
           \/ /\ token[t] = "expired"
              /\ token' = [token EXCEPT ![t] = "used"]
              /\ CallGoes(c, "refused")
              /\ UNCHANGED <<password, session, lock, late>>
           \/ /\ token[t] = "open"
              /\ lock' = Locked(c, {t})
              /\ CallGoes(c, "locked")
              /\ UNCHANGED <<password, session, token, late>>

ChangePassword(c) ==
    /\ CallAt(c, {"reset"}, "locked")
    /\ Lockable(c, {UserRow})
    /\ lock' = Locked(c, {UserRow})
    /\ CallGoes(c, "changed")
    /\ UNCHANGED <<password, session, token, late>>

\* The tokens that the statement sees unused; then it waits for the locks of their rows.
Spends(c) == Unused

SeeTokens(c) ==
    /\ CallAt(c, {"reset"}, "changed")
    /\ call' = [call EXCEPT ![c] = [@ EXCEPT !.pc = "spending", !.marks = Spends(c),
                                           !.saw = Unused]]
    /\ UNCHANGED <<password, session, token, lock, late>>

SpendTokens(c) ==
    /\ CallAt(c, {"reset"}, "spending")
    /\ Lockable(c, call[c].marks)
    /\ lock' = Locked(c, call[c].marks)
    /\ CallGoes(c, "spent")
    /\ UNCHANGED <<password, session, token, late>>

\* The sessions that the statement sees.
Ends(c) == {s \in Session : session[s].state # "none"}

EndSessions(c) ==
    /\ CallAt(c, {"reset"}, "spent")
    /\ call' = [call EXCEPT ![c] = [@ EXCEPT !.pc = "ended", !.ends = Ends(c)]]
    /\ UNCHANGED <<password, session, token, lock, late>>

CommitReset(c) ==
    /\ CallAt(c, {"reset"}, "ended")
    /\ password' = password + 1
    /\ token' = [t \in Token |-> IF t \in call[c].marks THEN "used" ELSE token[t]]
    /\ session' = [s \in Session |->
                      IF s \in call[c].ends THEN [session[s] EXCEPT !.state = "revoked"]
                      ELSE session[s]]
    /\ lock' = Released(c)
    /\ CallGoes(c, "done")
    /\ UNCHANGED late

\* Calls that wait for each other's rows: PostgreSQL aborts one, and the route fails.
Wants(c) ==
    CASE CallAt(c, {"reset"}, "locked") -> {UserRow}
      [] CallAt(c, {"reset"}, "spending") -> call[c].marks
      [] OTHER -> {}

-----------------------------------------------------------------------------
\* revokeSession(), for logging out and for a session of the list; revokeAllSessions().
RevokeSession(c) ==
    LET s == IF Kind(c) = "revoke" THEN call[c].op.target ELSE call[c].op.session
    IN  /\ CallAt(c, {"logout", "revoke"}, "arrived")
        /\ IF session[s].state = "none" THEN RefuseCall(c)
           ELSE /\ session' = [session EXCEPT ![s].state = "revoked"]
                /\ CallGoes(c, "done")
                /\ UNCHANGED <<password, token, lock, late>>

RevokeAllSessions(c) ==
    /\ CallAt(c, {"logoutAll"}, "arrived")
    /\ session' = [s \in Session |-> IF session[s].state = "none" THEN session[s]
                                     ELSE [session[s] EXCEPT !.state = "revoked"]]
    /\ CallGoes(c, "done")
    /\ UNCHANGED <<password, token, lock, late>>

\* The audit entry is written and the route replies.
CallReplies(c) ==
    /\ call[c].pc = "done"
    /\ CallGoes(c, "replied")
    /\ UNCHANGED <<password, session, token, lock, late>>

\* A call fails, the process dies, or PostgreSQL breaks a deadlock: ROLLBACK.
CallFails(c) ==
    /\ ~CallEnded(c)
    /\ CallGoes(c, "failed")
    /\ lock' = Released(c)
    /\ UNCHANGED <<password, session, token, late>>

BreakDeadlock(c) ==
    /\ \E D \in SUBSET Call :
          c \in D /\ \A d \in D : \E row \in Wants(d) : lock[row] \in D \ {d}
    /\ CallFails(c)

\* expires_at passes.
SessionExpires(s) ==
    /\ Active(s)
    /\ session' = [session EXCEPT ![s].state = "expired"]
    /\ UNCHANGED <<password, token, lock, call, late>>

TokenExpires(t) ==
    /\ token[t] = "open"
    /\ token' = [token EXCEPT ![t] = "expired"]
    /\ UNCHANGED <<password, session, lock, call, late>>

CallStep(c) ==
    \/ Authenticate(c) \/ CreateUser(c) \/ CreateSession(c) \/ CreatePasswordReset(c)
    \/ LockToken(c) \/ ChangePassword(c) \/ SeeTokens(c) \/ SpendTokens(c)
    \/ EndSessions(c) \/ CommitReset(c)
    \/ RevokeSession(c) \/ RevokeAllSessions(c) \/ CallReplies(c) \/ BreakDeadlock(c)

-----------------------------------------------------------------------------
SessionsTypeOK ==
    /\ password \in 0..Cardinality(Call) + 1
    /\ \A s \in Session : /\ session[s].state \in {"none", "active", "revoked", "expired"}
                          /\ session[s].password \in 0..password
    /\ \A t \in Token : token[t] \in {"none", "open", "expired", "used"}
    /\ \A row \in DOMAIN lock :
          lock[row] # Free => Kind(lock[row]) = "reset" /\ ~CallEnded(lock[row])
    /\ \A c \in Call : call[c].marks \subseteq Token /\ call[c].ends \subseteq Session
    /\ late \subseteq Session

Resets == {c \in Call : CallAt(c, {"reset"}, "done") \/ CallAt(c, {"reset"}, "replied")}

\* docs/security.md: "Password-reset tokens are [...] single-use".  Whatever resets run
\* at once, none is done with a token that another one found unused: also a second link,
\* mailed before the reset, is dead.
TokenOnce == \A c, d \in Resets : c # d => call[d].op.token \notin call[c].saw

\* docs/security.md: "password resets revoke all affected sessions".  The one session of an
\* older password that can be alive is that of a login that had shown the password before
\* the reset committed, and was written after the reset had ended the sessions it saw.
ResetRevokes == \A s \in Session : Active(s) /\ session[s].password # password => s \in late
=============================================================================
