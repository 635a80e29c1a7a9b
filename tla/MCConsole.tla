----------------------------- MODULE MCConsole -----------------------------
(***************************************************************************)
(* Small instances of Console for TLC.                                     *)
(***************************************************************************)
EXTENDS Console, TLC

CONSTANTS org, org2, project, project2, env1, env2, env3, key1, key2

MCParent == (org :> org) @@ (org2 :> org2) @@ (project :> org) @@ (project2 :> org)
            @@ (env1 :> project) @@ (env2 :> project) @@ (env3 :> project)
            @@ (key1 :> env1) @@ (key2 :> env1)

Login(p) == [kind |-> "login", password |-> p]
Reset(t) == [kind |-> "reset", token |-> t]
With(kind, s) == [kind |-> kind, session |-> s, target |-> s]
Asked(route, x) == [route |-> route, row |-> x]

Quiet == [opened |-> TRUE, mailed |-> 0, callers |-> {}, calls |-> {}, slots |-> {},
          requests |-> {}, looks |-> FALSE, chances |-> {}]

\* Resets with two links, beside logins with the old and the new password.
Resetting ==
    [Quiet EXCEPT !.mailed = 2, !.callers = 1..3, !.chances = {"failures", "tokensExpire"},
                  !.calls = {[kind |-> "forgot"], Login(1), Login(2), Reset(1), Reset(2)}]

\* Signing up twice, logging in and out, and forgetting the password.
Joining ==
    [Quiet EXCEPT !.opened = FALSE, !.callers = 1..3, !.chances = {"sessionsExpire"},
                  !.calls = {[kind |-> "signup"], [kind |-> "forgot"], Reset(1), Login(1),
                             With("logout", 1), With("revoke", 1), With("logoutAll", 1)}]

\* Requests that change resources, requests that show them, and requests that use a key.
Changing ==
    [Quiet EXCEPT !.slots = 1..2, !.chances = {"demoted", "removed"}, !.requests =
        {Asked("createOrganization", org2), Asked("createProject", project2),
         Asked("createEnvironment", env3), Asked("createKey", key2), Asked("revokeKey", key1),
         Asked("deleteProject", project), Asked("deleteEnvironment", env1),
         Asked("deleteOrganization", org), Asked("deleteTelemetry", org),
         Asked("updateSecurity", org), Asked("updateSecurity", org2),
         Asked("updateAllowlist", env1)}]

Showing ==
    [Quiet EXCEPT !.slots = 1..2, !.chances = {"demoted", "removed", "sessionsExpire"}, !.requests =
        {Asked("security", org), Asked("export", org), Asked("onboarding", org),
         Asked("environments", project), Asked("keys", env1), Asked("members", org),
         Asked("invitations", org), Asked("auditLogs", org), Asked("usage", org),
         Asked("deleteOrganization", org), Asked("deleteProject", project)}]

Ingesting ==
    [Quiet EXCEPT !.slots = 1..3, !.chances = {"keysExpire", "failures"}, !.requests =
        {Asked("ingest", key1), Asked("revokeKey", key1), Asked("deleteEnvironment", env1)}]

\* The dashboard, while the user may lose the session or the access.
Looking ==
    [Quiet EXCEPT !.looks = TRUE, !.chances = {"removed"}]

MCLoad == {Resetting, Joining, Changing, Showing, Ingesting, Looking}
=============================================================================
