------------------------------- MODULE Tenancy -------------------------------
(***************************************************************************)
(* Organizations, projects, environments and API keys: the routes of       *)
(* apps/api/src/app.ts as sequences of the statements that the functions   *)
(* of apps/api/src/store.ts run, for concurrent requests of one user, with *)
(* the ingestion requests that the keys authenticate.  Other members may   *)
(* change the user's roles at any time (module Membership).                *)
(*                                                                         *)
(* Each statement runs by itself.  The database cascades deletions, and a  *)
(* row is inserted only under one that exists.                             *)
(***************************************************************************)
EXTENDS Sessions, Sequences

CONSTANTS
    Request,         \* numbered as they come
    Row, Parent,     \* resources, and what each is created under; an organization's is itself
    Kept,            \* the rows there are at the start
    InitialRole      \* the user's role in an organization there is at the start

VARIABLES
    row,             \* whether a row exists, and whether a key is in force
    role,            \* memberships.role of the user, by organization
    request,         \* the requests: [pc, op, left, found, environment], and as history
                     \* dead (its key had ended), held (the user's roles), cut, did
    audited,         \* audit_logs: the request, and whether organization_id is set
    stored,          \* the ingestion requests whose events are stored
    acked            \* history: the rows whose end has been acknowledged

tenancyVars == <<row, role, request, audited, stored, acked>>

Managers == {"owner", "admin"}
Developers == Managers \cup {"developer"}
Members == Developers \cup {"viewer"}

Above(x) == {x, Parent[x], Parent[Parent[x]], Parent[Parent[Parent[x]]]}
Organization(x) == Parent[Parent[Parent[x]]]
Organizations == {x \in Row : Parent[x] = x}
Keys == {x \in Row : Parent[Parent[x]] # Organization(x)}

\* A key is in an environment, that in a project, and that in an organization, at most.
ASSUME TenancyAssumption ==
    /\ Request \subseteq Nat \ {0} /\ InitialRole \in Members \cup {"none"}
    /\ Parent \in [Row -> Row] /\ \A x \in Row : Organization(x) \in Organizations
    /\ Kept \subseteq Row /\ \A x \in Kept : Parent[x] \in Kept

There(x) == row[x] \in {"live", "revoked", "expired"}
RoleFor(x) == IF There(x) THEN role[Organization(x)] ELSE "none"
Target(r) == request[r].op.row
Running(r) == request[r].pc = "running"
NoRequest == [pc |-> "none", op |-> [route |-> "none"], left |-> <<>>, found |-> FALSE,
              environment |-> {}, dead |-> FALSE, held |-> {}, cut |-> FALSE, did |-> FALSE]

-----------------------------------------------------------------------------
(***************************************************************************)
(* Statements: what one does, and the roles for which it does it.          *)
(***************************************************************************)
Statement(does, for) == [does |-> does, for |-> for]
Check(for) == Statement("check", for)        \* SELECT role: anyone else is refused
Choose(for) == Statement("choose", for)      \* the same, with an environment to go on with
Insert(for) == Statement("insert", for)      \* INSERT ... SELECT FROM memberships
Update(for) == Statement("update", for)      \* UPDATE ... FROM memberships
Found == Statement("found", {})              \* INSERT of an organization and its owner
Delete == Statement("delete", {})            \* DELETE by id
Revoke == Statement("revoke", {})            \* UPDATE ... SET revoked_at by id
Wipe == Statement("wipe", {})                \* DELETE of the organization's events
Find == Statement("find", {})                \* SELECT the organization, for the audit entry
Read == Statement("read", {})                \* SELECT what is shown
Policy == Statement("policy", {})            \* SELECT, and throw where there is no row
Tick == Statement("tick", {})                \* UPDATE of a row found before, and throw likewise
Key == Statement("key", {})                  \* SELECT of the API key that is in force
Store == Statement("store", {})              \* INSERT of events
AuditIn == Statement("audit", {"known"})     \* organization_id is in the request
AuditFound == Statement("audit", {})         \* organization_id as found

\* Mistakes in the routes and statements below.
BugRouteDeleteEnvironment == <<Find, Check(Managers), Delete>>
BugFindActiveApiKey(x) == There(x)

\* The functions of PostgresEventStore.
GetEnvironmentAccess == <<Find>>
ListUserProjects == <<Find>>
ListOrganizations == <<Check(Members)>>
CreateOrganization == <<Found>>
CreateProject == <<Insert(Managers)>>
CreateEnvironment == <<Insert(Managers)>>
CreateApiKey == <<Insert(Developers)>>
ListEnvironments == <<Check(Members), Read>>
ListApiKeys == <<Check(Developers), Read>>
ListMembers == <<Check(Members), Read>>
ListInvitations == <<Check(Managers), Read>>
ListAuditLogs == <<Check(Managers), Read>>
GetUsage == <<Check(Members), Read>>
ExportOrganization == <<Check(Managers), Read>>
GetOnboarding == <<Check(Members)>>
CompleteOnboardingStep == GetOnboarding \o <<Tick>>
GetSecurityPolicy == <<Policy>>
UpdateOrganizationSecurity == <<Update(Managers)>> \o GetSecurityPolicy
UpdateEnvironmentAllowlist == <<Update(Managers)>> \o GetSecurityPolicy
RevokeApiKey == <<Check(Developers), Revoke>>
DeleteProject == <<Check(Managers), Delete>>
DeleteEnvironment == <<Check(Managers), Delete>>
DeleteOrganization == <<Check({"owner"}), Delete>>
DeleteOrganizationTelemetry == <<Check(Managers), Wipe>>

\* The routes.
RouteCreateOrganization == CreateOrganization \o <<AuditIn>>
RouteCreateProject == CreateProject \o <<AuditIn>>
RouteCreateEnvironment == CreateEnvironment \o GetEnvironmentAccess \o <<AuditFound>>
RouteCreateApiKey == CreateApiKey \o GetEnvironmentAccess \o <<AuditFound>>
RouteRevokeApiKey == RevokeApiKey \o GetEnvironmentAccess \o <<AuditFound>>
RouteDeleteProject == ListUserProjects \o DeleteProject \o <<AuditFound>>
RouteDeleteEnvironment == GetEnvironmentAccess \o DeleteEnvironment \o <<AuditFound>>
RouteDeleteOrganization == ListOrganizations \o DeleteOrganization \o <<AuditIn>>
RouteDeleteTelemetry == DeleteOrganizationTelemetry \o <<AuditIn>>
RouteUpdateSecurity == UpdateOrganizationSecurity \o <<AuditIn>>
RouteUpdateAllowlist == UpdateEnvironmentAllowlist \o GetEnvironmentAccess \o <<AuditFound>>
RouteSecurity == <<Choose(Managers)>> \o GetSecurityPolicy \o <<Read>>
RouteExport == ExportOrganization \o <<AuditIn>>
RouteOnboarding == CompleteOnboardingStep
RouteIngest == <<Key>> \o GetSecurityPolicy \o <<Store>>

Calls(route) ==
    CASE route = "createOrganization" -> RouteCreateOrganization
      [] route = "createProject" -> RouteCreateProject
      [] route = "createEnvironment" -> RouteCreateEnvironment
      [] route = "createKey" -> RouteCreateApiKey
      [] route = "revokeKey" -> RouteRevokeApiKey
      [] route = "deleteProject" -> RouteDeleteProject
      [] route = "deleteEnvironment" -> RouteDeleteEnvironment
      [] route = "deleteOrganization" -> RouteDeleteOrganization
      [] route = "deleteTelemetry" -> RouteDeleteTelemetry
      [] route = "updateSecurity" -> RouteUpdateSecurity
      [] route = "updateAllowlist" -> RouteUpdateAllowlist
      [] route = "security" -> RouteSecurity
      [] route = "export" -> RouteExport
      [] route = "onboarding" -> RouteOnboarding
      [] route = "environments" -> ListEnvironments
      [] route = "keys" -> ListApiKeys
      [] route = "members" -> ListMembers
      [] route = "invitations" -> ListInvitations
      [] route = "auditLogs" -> ListAuditLogs
      [] route = "usage" -> GetUsage
      [] route = "ingest" -> RouteIngest

Makes == {"createOrganization", "createProject", "createEnvironment", "createKey"}
Routes == Makes \cup {"revokeKey", "deleteProject", "deleteEnvironment", "deleteOrganization",
                     "deleteTelemetry", "updateSecurity", "updateAllowlist", "security",
                     "export", "onboarding", "environments", "keys", "members", "invitations",
                     "auditLogs", "usage", "ingest"}

\* What a request may ask: the row is one of its route's kind, where that matters.
Question ==
    {op \in [route : Routes, row : Row] :
        /\ op.route = "createOrganization" => op.row \in Organizations
        /\ op.route \in {"revokeKey", "ingest"} => op.row \in Keys
        /\ op.route = "updateAllowlist" => op.row \notin Organizations}

-----------------------------------------------------------------------------
TenancyInit ==
    /\ row = [x \in Row |-> IF x \in Kept THEN "live" ELSE "none"]
    /\ role = [x \in Organizations |-> IF x \in Kept THEN InitialRole ELSE "none"]
    /\ request = [r \in Request |-> NoRequest]
    /\ audited = {} /\ stored = {} /\ acked = {}

\* The onRequest hook finds a session active; an ingestion request has no cookie.  The ids of
\* rows are the server's: a client knows that of a row it has been shown.
RequestArrives(r, op) ==
    /\ \A q \in Request : request[q].pc = "none" <=> q >= r
    /\ op.route # "ingest" => \E s \in Session : Active(s)
    /\ op.route \notin Makes => row[op.row] # "none"
    /\ request' = [request EXCEPT ![r] =
          [pc |-> "running", op |-> op, left |-> Calls(op.route), found |-> FALSE,
           environment |-> {}, dead |-> row[op.row] = "expired" \/ Above(op.row) \cap acked # {},
           held |-> {role[Organization(op.row)]}, cut |-> FALSE, did |-> FALSE]]
    /\ UNCHANGED <<row, role, audited, stored, acked>>

Is(r, does) == Running(r) /\ request[r].left # <<>> /\ Head(request[r].left).does = does
For(r) == Head(request[r].left).for
Passed(r) == [request[r] EXCEPT !.left = Tail(@)]
Onward(r) == [request EXCEPT ![r] = Passed(r)]
In(r, e) == [request EXCEPT ![r] = [Passed(r) EXCEPT !.environment = {e}]]
Done(r) == [Passed(r) EXCEPT !.did = TRUE]
Did(r) == [request EXCEPT ![r] = Done(r)]
Ended(r, pc) == [request EXCEPT ![r].pc = pc]

\* The history of the requests that run when a role changes or rows go.
Noted(requests, by, newRole, gone) ==
    [r \in Request |->
        LET x == requests[r].op.row
            now == newRole[Organization(x)]
        IN  IF r = by \/ requests[r].pc # "running" THEN requests[r]
            ELSE [requests[r] EXCEPT !.held = @ \cup {now},
                                     !.cut = @ \/ now = "none" \/ Above(x) \cap gone # {}]]

StatementCheck(r) ==
    /\ Is(r, "check")
    /\ request' = IF RoleFor(Target(r)) \in For(r) THEN Onward(r) ELSE Ended(r, "refused")
    /\ UNCHANGED <<row, role, audited, stored, acked>>

Environments(x) == {e \in Row : There(e) /\ Parent[e] # x /\ Parent[Parent[e]] = x}

\* The first project of the organization that the list shows is taken, with its first
\* environment; the order of the list is that of the names.
StatementChoose(r) ==
    LET x == Target(r)
        projects == {p \in Row : There(p) /\ Parent[p] = x /\ p # x}
        environments(p) == {e \in Environments(x) : Parent[e] = p}
    IN  /\ Is(r, "choose")
        /\ \/ /\ \/ RoleFor(x) \notin For(r)
                 \/ projects = {} \/ \E p \in projects : environments(p) = {}
              /\ request' = Ended(r, "refused")
           \/ /\ RoleFor(x) \in For(r)
              /\ \E e \in Environments(x) : request' = In(r, e)
        /\ UNCHANGED <<row, role, audited, stored, acked>>

StatementInsert(r) ==
    /\ Is(r, "insert")
    /\ IF row[Target(r)] = "none" /\ RoleFor(Parent[Target(r)]) \in For(r)
       THEN row' = [row EXCEPT ![Target(r)] = "live"] /\ request' = Did(r)
       ELSE request' = Ended(r, "refused") /\ UNCHANGED row
    /\ UNCHANGED <<role, audited, stored, acked>>

StatementFound(r) ==
    /\ Is(r, "found")
    /\ IF row[Target(r)] = "none"
       THEN /\ row' = [row EXCEPT ![Target(r)] = "live"]
            /\ role' = [role EXCEPT ![Target(r)] = "owner"]
            /\ request' = Noted(Did(r), r, role', {})
       ELSE request' = Ended(r, "refused") /\ UNCHANGED <<row, role>>
    /\ UNCHANGED <<audited, stored, acked>>

\* The settings of an organization without environments are changed, yet the reply is 403.
StatementUpdate(r) ==
    LET x == Target(r)
        of == IF x \in Organizations THEN Environments(x) ELSE {x}
    IN  /\ Is(r, "update")
        /\ \/ RoleFor(x) \notin For(r) /\ request' = Ended(r, "refused")
           \/ /\ RoleFor(x) \in For(r) /\ of = {}
              /\ request' = [request EXCEPT ![r] = [Done(r) EXCEPT !.pc = "refused"]]
           \/ /\ RoleFor(x) \in For(r)
              /\ \E e \in of :
                    request' = [request EXCEPT ![r] = [Done(r) EXCEPT !.environment = {e}]]
        /\ UNCHANGED <<row, role, audited, stored, acked>>

StatementDelete(r) ==
    LET x == Target(r)
    IN  /\ Is(r, "delete")
        /\ IF ~There(x) THEN request' = Ended(r, "refused") /\ UNCHANGED <<row, role, stored>>
           ELSE /\ row' = [y \in Row |-> IF x \in Above(y) /\ There(y) THEN "deleted" ELSE row[y]]
                /\ role' = [o \in Organizations |-> IF o = x THEN "none" ELSE role[o]]
                /\ stored' = {s \in stored : x \notin Above(Parent[Target(s)])}
                /\ request' = Noted(Did(r), r, role', {x})
        /\ UNCHANGED <<audited, acked>>

StatementRevoke(r) ==
    /\ Is(r, "revoke")
    /\ IF There(Target(r))
       THEN row' = [row EXCEPT ![Target(r)] = "revoked"] /\ request' = Did(r)
       ELSE request' = Ended(r, "refused") /\ UNCHANGED row
    /\ UNCHANGED <<role, audited, stored, acked>>

StatementWipe(r) ==
    /\ Is(r, "wipe")
    /\ stored' = {s \in stored : Organization(Target(s)) # Target(r)}
    /\ request' = Did(r)
    /\ UNCHANGED <<row, role, audited, acked>>

StatementFind(r) ==
    /\ Is(r, "find")
    /\ request' = [request EXCEPT ![r] = [Passed(r) EXCEPT !.found = RoleFor(Target(r)) # "none"]]
    /\ UNCHANGED <<row, role, audited, stored, acked>>

StatementRead(r) ==
    /\ Is(r, "read")
    /\ request' = Did(r)
    /\ UNCHANGED <<row, role, audited, stored, acked>>

StatementPolicy(r) ==
    /\ Is(r, "policy")
    /\ request' = IF \A e \in request[r].environment : There(e) THEN Onward(r)
                  ELSE Ended(r, "failed")
    /\ UNCHANGED <<row, role, audited, stored, acked>>

\* onboarding_progress goes with the organization; the function then reads a row it has not.
StatementTick(r) ==
    /\ Is(r, "tick")
    /\ request' = IF There(Target(r)) THEN Did(r) ELSE Ended(r, "failed")
    /\ UNCHANGED <<row, role, audited, stored, acked>>

FindActiveApiKey(x) == row[x] = "live"

StatementKey(r) ==
    /\ Is(r, "key")
    /\ request' = IF FindActiveApiKey(Target(r))
                  THEN In(r, Parent[Target(r)])
                  ELSE Ended(r, "refused")
    /\ UNCHANGED <<row, role, audited, stored, acked>>

\* insertEvents() for a key found before; the foreign key needs the environment.
StatementStore(r) ==
    /\ Is(r, "store")
    /\ IF There(Parent[Target(r)])
       THEN stored' = stored \cup {r} /\ request' = Did(r)
       ELSE request' = Ended(r, "failed") /\ UNCHANGED stored
    /\ UNCHANGED <<row, role, audited, acked>>

RecordAudit(r) ==
    /\ Is(r, "audit")
    /\ audited' = audited \cup {[by |-> r, known |-> For(r) # {} \/ request[r].found]}
    /\ request' = Onward(r)
    /\ UNCHANGED <<row, role, stored, acked>>

Endings == {"revokeKey", "deleteEnvironment", "deleteProject", "deleteOrganization"}

Replies(r) ==
    /\ Running(r) /\ request[r].left = <<>>
    /\ request' = Ended(r, "replied")
    /\ acked' = IF request[r].op.route \in Endings THEN acked \cup {Target(r)} ELSE acked
    /\ UNCHANGED <<row, role, audited, stored>>

\* A statement fails, or the process dies.
RequestFails(r) ==
    /\ Running(r)
    /\ request' = Ended(r, "failed")
    /\ UNCHANGED <<row, role, audited, stored, acked>>

\* Another owner changes the user's role or removes the user (updateMemberRole, removeMember);
\* a key reaches its expires_at.
RoleChanges(x, newRole) ==
    /\ role[x] # "none" /\ role[x] # newRole
    /\ role' = [role EXCEPT ![x] = newRole]
    /\ request' = Noted(request, Free, role', {})
    /\ UNCHANGED <<row, audited, stored, acked>>

KeyExpires(x) ==
    /\ row[x] = "live" /\ x \in Keys
    /\ row' = [row EXCEPT ![x] = "expired"]
    /\ UNCHANGED <<role, request, audited, stored, acked>>

RequestStep(r) ==
    \/ StatementCheck(r) \/ StatementChoose(r) \/ StatementInsert(r) \/ StatementFound(r)
    \/ StatementUpdate(r) \/ StatementDelete(r) \/ StatementRevoke(r) \/ StatementWipe(r)
    \/ StatementFind(r) \/ StatementRead(r) \/ StatementPolicy(r) \/ StatementTick(r)
    \/ StatementKey(r) \/ StatementStore(r) \/ RecordAudit(r) \/ Replies(r)

-----------------------------------------------------------------------------
TenancyTypeOK ==
    /\ \A x \in Row : /\ row[x] \in {"none", "live", "revoked", "expired", "deleted"}
                      /\ There(x) => \A y \in Above(x) : There(y)
    /\ \A x \in Organizations : role[x] \in Members \cup {"none"}
    /\ \A r \in Request : request[r].pc \in {"none", "running", "replied", "refused", "failed"}
    /\ stored \subseteq Request /\ acked \subseteq Row

\* docs/security.md: keys "can expire and are revocable immediately".  Once a key has expired,
\* or its revocation or the deletion of what it belongs to is acknowledged, no request that
\* comes in afterwards stores events; one that had begun before may.
KeyDead == \A r \in stored : ~request[r].dead

\* README.md: "Owners/admins manage projects and environments; owners/admins/developers manage
\* API keys; viewers are read-only."
Entitled(route) ==
    CASE route = "deleteOrganization" -> {"owner"}
      [] route \in {"createKey", "revokeKey", "keys"} -> Developers
      [] route \in {"environments", "members", "usage", "onboarding"} -> Members
      [] OTHER -> Managers

Unguarded == {"createOrganization", "ingest"}

\* docs/security.md: "`audit_logs` records ... for ... organization/project/environment creation,
\* ... API-key lifecycle, security settings, exports, and deletions."
Auditable == {"createOrganization", "createProject", "createEnvironment", "createKey", "revokeKey",
              "updateSecurity", "updateAllowlist", "export", "deleteTelemetry",
              "deleteEnvironment", "deleteProject", "deleteOrganization"}

\* What a request did or showed, its user had the role for while it ran; what is refused has
\* changed nothing, but for the settings of an organization without environments; a request
\* that is to be audited has its entry once it is acknowledged; and an entry is of something
\* that was done, in the organization it belongs to, unless the user was cut off meanwhile.  A
\* request that fails between its change and recordAudit() has changed what no entry tells of.
Accounted ==
    \A r \in Request :
        LET route == request[r].op.route
        IN  /\ request[r].did /\ route \notin Unguarded => request[r].held \cap Entitled(route) # {}
            /\ request[r].pc = "refused" /\ request[r].did => route = "updateSecurity"
            /\ request[r].pc = "replied" /\ route \in Auditable =>
                  \E entry \in audited : entry.by = r
            /\ \A entry \in audited :
                  entry.by = r => request[r].did /\ (entry.known \/ request[r].cut)
=============================================================================
