---------------------------- MODULE ConsoleProofs ----------------------------
(***************************************************************************)
(* What stands behind the dashboard keeps its promises for every load: the *)
(* invariants of SessionsProofs, one of the tenants' requests, and one of  *)
(* the live rooms, put together for the specification of Console.          *)
(***************************************************************************)
EXTENDS Console, SessionsProofs, SequenceTheorems

-----------------------------------------------------------------------------
(* What is always true of the routes' statements. *)

Does == {"check", "choose", "insert", "update", "found", "delete", "revoke", "wipe", "find", "read",
         "policy", "tick", "key", "store", "audit"}
StatementType == [does : Does, for : SUBSET (Members \cup {"known"})]

\* Statements that ask for a role, those that change or show something, and those that do
\* neither and never refuse.
Guards == {"check", "choose", "insert", "update"}
Doing == {"insert", "update", "found", "delete", "revoke", "wipe", "read", "tick", "store"}
Calm == {"find", "audit", "policy"}

\* Of the statements of a route, and of those that are left of them: one that does something
\* is followed by calm ones, the audit entry is the last, and some are of one route only.
WellOrdered(route, s) ==
    \A i \in 1..Len(s) :
        /\ s[i].does \in Doing => \A j \in i + 1 .. Len(s) : s[j].does \in Calm
        /\ s[i].does \in Guards => s[i].for \subseteq Members
        /\ s[i].does = "audit" => i = Len(s)
        /\ s[i].does = "update" => route \in {"updateSecurity", "updateAllowlist"}
        /\ s[i].does = "revoke" => route = "revokeKey"
        /\ s[i].does = "found" => route = "createOrganization"
        /\ s[i].does = "store" => route = "ingest"
        /\ s[i].does = "delete" => \A j \in i + 1 .. Len(s) : s[j].does # "find"

\* Whatever is done is done by a statement that asks for an entitled role, or comes after one
\* that does.
AsksFirst(route, s) ==
    \A i \in 1..Len(s) : s[i].does \in Doing =>
        \/ s[i].does \in {"insert", "update"} /\ s[i].for \subseteq Entitled(route)
        \/ \E j \in 1..i - 1 : /\ s[j].does \in {"check", "choose"}
                               /\ s[j].for \subseteq Entitled(route)

\* A route that is to be audited has an entry written, and an entry comes after what was done.
Logs(route, s) ==
    /\ route \in Auditable => \E i \in 1..Len(s) : s[i].does = "audit"
    /\ \A i \in 1..Len(s) : s[i].does = "audit" => \E j \in 1..i - 1 : s[j].does \in Doing

\* All that a route's statements keep to.
WellMade(route, s) ==
    /\ s \in Seq(StatementType)
    /\ WellOrdered(route, s) /\ Logs(route, s)
    /\ route \notin Unguarded => AsksFirst(route, s)
    /\ \A i \in 1..Len(s) :
          /\ s[i].does = "audit" /\ s[i].for = {} => \E j \in 1..i - 1 : s[j].does = "find"
          /\ s[i].does = "find" =>
                \/ \E j \in 1..i - 1 : s[j].does \in {"check", "insert", "update"}
                \/ route \notin Makes /\ \E j \in i + 1 .. Len(s) : s[j].does = "check"
          /\ s[i].does = "store" => s[1].does = "key" /\ route \notin Makes
    /\ route \in Endings => \E i \in 1..Len(s) : s[i].does \in {"delete", "revoke"}

-----------------------------------------------------------------------------
(* The invariant of the tenants' requests. *)

Asked == Question \cup {[route |-> "none"]}
RequestType ==
    [pc : {"none", "running", "replied", "refused", "failed"}, op : Asked,
     left : Seq(StatementType), found : BOOLEAN,
     environment : SUBSET Row, dead : BOOLEAN, held : SUBSET (Members \cup {"none"}),
     cut : BOOLEAN, did : BOOLEAN]

TTypes ==
    /\ row \in [Row -> {"none", "live", "revoked", "expired", "deleted"}]
    /\ role \in [Organizations -> Members \cup {"none"}]
    /\ request \in [Request -> RequestType]
    /\ \A r \in Request : request[r].pc # "none" => request[r].op \in Question
    /\ audited \subseteq [by : Request, known : BOOLEAN]
    /\ stored \subseteq Request /\ acked \subseteq Row

\* A row lives under rows that live, and one whose end is acknowledged is gone for good.
Gone(x) == row[x] = "deleted" \/ (x \in Keys /\ row[x] = "revoked")
Rows ==
    /\ \A x \in Row : There(x) => There(Parent[x])
    /\ \A x \in acked : Gone(x)

\* The user will never have a role for x again.
Hopeless(x) ==
    \/ row[x] = "deleted"
    \/ role[Organization(x)] = "none" /\ row[Organization(x)] # "none"

Left(r) == request[r].left
Route(r) == request[r].op.route
HeldEntitled(r) == request[r].held \cap Entitled(Route(r)) # {}

\* What a request that runs may still do is permitted, unless it has to ask first.
Permitted(r) ==
    /\ WellOrdered(Route(r), Left(r))
    /\ request[r].did => \A i \in 1..Len(Left(r)) : Left(r)[i].does \in Calm
    /\ ~request[r].did => role[Organization(Target(r))] \in request[r].held
    /\ Route(r) \notin Unguarded => HeldEntitled(r) \/ AsksFirst(Route(r), Left(r))

\* The organization is found for the audit entry, or the user was cut off: what comes before
\* the query that finds it shows that the user has a role, or else what comes after it is refused.
Traced(r) ==
    \A i \in 1..Len(Left(r)) :
        /\ Left(r)[i].does = "audit" /\ Left(r)[i].for = {} =>
              \/ request[r].found \/ request[r].cut
              \/ \E j \in 1..i - 1 : Left(r)[j].does = "find"
              \/ Hopeless(Target(r)) /\ \E j \in 1..i - 1 : Left(r)[j].does = "check"
        /\ Left(r)[i].does = "find" =>
              \/ request[r].cut \/ RoleFor(Target(r)) # "none"
              \/ \E j \in 1..i - 1 : Left(r)[j].does \in {"check", "insert", "update"}
              \/ /\ row[Target(r)] # "none"
                 /\ \E j \in i + 1 .. Len(Left(r)) : Left(r)[j].does = "check"

\* A request whose key had ended will not find it, and one that is to end a row has done so
\* or has still to do it.
Doomed(r) ==
    request[r].dead =>
        \A i \in 1..Len(Left(r)) : Left(r)[i].does = "store" =>
            Left(r)[1].does = "key" /\ row[Target(r)] \notin {"none", "live"}
ToEnd(r) ==
    Route(r) \in Endings =>
        Gone(Target(r)) \/ \E i \in 1..Len(Left(r)) : Left(r)[i].does \in {"delete", "revoke"}

InHand(r) == Permitted(r) /\ Traced(r) /\ Doomed(r) /\ ToEnd(r)

\* What is said of the requests that have ended, too.
Answerable(r) ==
    /\ request[r].did /\ Route(r) \notin Unguarded => HeldEntitled(r)
    /\ request[r].pc = "refused" /\ request[r].did => Route(r) = "updateSecurity"

Entries ==
    /\ \A entry \in audited : /\ request[entry.by].pc # "none"
                              /\ ~entry.known => request[entry.by].cut
    /\ \A r \in stored : request[r].pc # "none" /\ ~request[r].dead

TInv ==
    /\ TTypes /\ Rows /\ Entries
    /\ \A r \in Request : Answerable(r) /\ (Running(r) => InHand(r))

-----------------------------------------------------------------------------
(* The routes, statement by statement. *)

LEMMA Joined ==
    ASSUME NEW S, NEW s \in Seq(S), NEW t \in Seq(S), NEW u \in Seq(S), Len(u) = Len(s) + Len(t),
           \A i \in 1..Len(u) : u[i] = IF i <= Len(s) THEN s[i] ELSE t[i - Len(s)]
    PROVE  s \o t = u
<1>1. s \o t \in Seq(S) /\ Len(s \o t) = Len(u)
  BY ConcatProperties
<1>2. \A i \in 1..Len(u) : (s \o t)[i] = u[i]
  BY ConcatProperties
<1> QED
  BY <1>1, <1>2, SeqEqual

LEMMA Join11 ==
    ASSUME NEW a \in StatementType, NEW b \in StatementType PROVE <<a>> \o <<b>> = <<a, b>>
<1> DEFINE s == <<a>>
           t == <<b>>
           u == <<a, b>>
<1>1. s \in Seq(StatementType) /\ t \in Seq(StatementType) /\ u \in Seq(StatementType)
  OBVIOUS
<1>2. Len(u) = Len(s) + Len(t)
  OBVIOUS
<1>3. \A i \in 1..Len(u) : u[i] = IF i <= Len(s) THEN s[i] ELSE t[i - Len(s)]
  OBVIOUS
<1> QED
  BY <1>1, <1>2, <1>3, Joined

LEMMA Join12 ==
    ASSUME NEW a \in StatementType, NEW b \in StatementType, NEW c \in StatementType
    PROVE  <<a>> \o <<b, c>> = <<a, b, c>>
<1> DEFINE s == <<a>>
           t == <<b, c>>
           u == <<a, b, c>>
<1>1. s \in Seq(StatementType) /\ t \in Seq(StatementType) /\ u \in Seq(StatementType)
  OBVIOUS
<1>2. Len(u) = Len(s) + Len(t)
  OBVIOUS
<1>3. \A i \in 1..Len(u) : u[i] = IF i <= Len(s) THEN s[i] ELSE t[i - Len(s)]
  OBVIOUS
<1> QED
  BY <1>1, <1>2, <1>3, Joined

LEMMA Join21 ==
    ASSUME NEW a \in StatementType, NEW b \in StatementType, NEW c \in StatementType
    PROVE  <<a, b>> \o <<c>> = <<a, b, c>>
<1> DEFINE s == <<a, b>>
           t == <<c>>
           u == <<a, b, c>>
<1>1. s \in Seq(StatementType) /\ t \in Seq(StatementType) /\ u \in Seq(StatementType)
  OBVIOUS
<1>2. Len(u) = Len(s) + Len(t)
  OBVIOUS
<1>3. \A i \in 1..Len(u) : u[i] = IF i <= Len(s) THEN s[i] ELSE t[i - Len(s)]
  OBVIOUS
<1> QED
  BY <1>1, <1>2, <1>3, Joined

LEMMA Join31 ==
    ASSUME NEW a \in StatementType, NEW b \in StatementType, NEW c \in StatementType,
           NEW d \in StatementType
    PROVE  <<a, b, c>> \o <<d>> = <<a, b, c, d>>
<1> DEFINE s == <<a, b, c>>
           t == <<d>>
           u == <<a, b, c, d>>
<1>1. s \in Seq(StatementType) /\ t \in Seq(StatementType) /\ u \in Seq(StatementType)
  OBVIOUS
<1>2. Len(u) = Len(s) + Len(t)
  OBVIOUS
<1>3. \A i \in 1..Len(u) : u[i] = IF i <= Len(s) THEN s[i] ELSE t[i - Len(s)]
  OBVIOUS
<1> QED
  BY <1>1, <1>2, <1>3, Joined

LEMMA Statements ==
    /\ \A for \in SUBSET (Members \cup {"known"}) :
          /\ Check(for) \in StatementType /\ Check(for).does = "check" /\ Check(for).for = for
          /\ Choose(for) \in StatementType /\ Choose(for).does = "choose" /\ Choose(for).for = for
          /\ Insert(for) \in StatementType /\ Insert(for).does = "insert" /\ Insert(for).for = for
          /\ Update(for) \in StatementType /\ Update(for).does = "update" /\ Update(for).for = for
    /\ Found \in StatementType /\ Found.does = "found"
    /\ Delete \in StatementType /\ Delete.does = "delete"
    /\ Revoke \in StatementType /\ Revoke.does = "revoke"
    /\ Wipe \in StatementType /\ Wipe.does = "wipe"
    /\ Find \in StatementType /\ Find.does = "find"
    /\ Read \in StatementType /\ Read.does = "read"
    /\ Policy \in StatementType /\ Policy.does = "policy"
    /\ Tick \in StatementType /\ Tick.does = "tick"
    /\ Key \in StatementType /\ Key.does = "key"
    /\ Store \in StatementType /\ Store.does = "store"
    /\ AuditIn \in StatementType /\ AuditIn.does = "audit" /\ AuditIn.for = {"known"}
    /\ AuditFound \in StatementType /\ AuditFound.does = "audit" /\ AuditFound.for = {}
  BY DEF StatementType, Does, Statement, Check, Choose, Insert, Update, Found, Delete, Revoke, Wipe,
         Find, Read, Policy, Tick, Key, Store, AuditIn, AuditFound

LEMMA Roles ==
    /\ Managers = {"owner", "admin"} /\ Developers = {"owner", "admin", "developer"}
    /\ Members = {"owner", "admin", "developer", "viewer"}
  BY DEF Managers, Developers, Members

LEMMA RoleSets == \A for \in {Members, Developers, Managers, {"owner"}} :
                      for \in SUBSET (Members \cup {"known"})
  BY Roles

LEMMA Sequenced ==
    /\ RouteCreateOrganization = <<Found, AuditIn>>
    /\ RouteCreateProject = <<Insert(Managers), AuditIn>>
    /\ RouteCreateEnvironment = <<Insert(Managers), Find, AuditFound>>
    /\ RouteCreateApiKey = <<Insert(Developers), Find, AuditFound>>
    /\ RouteRevokeApiKey = <<Check(Developers), Revoke, Find, AuditFound>>
    /\ RouteDeleteProject = <<Find, Check(Managers), Delete, AuditFound>>
    /\ RouteDeleteEnvironment = <<Find, Check(Managers), Delete, AuditFound>>
    /\ RouteDeleteOrganization = <<Check(Members), Check({"owner"}), Delete, AuditIn>>
    /\ RouteDeleteTelemetry = <<Check(Managers), Wipe, AuditIn>>
    /\ RouteUpdateSecurity = <<Update(Managers), Policy, AuditIn>>
    /\ RouteUpdateAllowlist = <<Update(Managers), Policy, Find, AuditFound>>
    /\ RouteSecurity = <<Choose(Managers), Policy, Read>>
    /\ RouteExport = <<Check(Managers), Read, AuditIn>>
    /\ RouteOnboarding = <<Check(Members), Tick>>
    /\ RouteIngest = <<Key, Policy, Store>>
<1>1. RouteCreateOrganization = <<Found, AuditIn>>
  <2>1. <<Found>> \o <<AuditIn>> = <<Found, AuditIn>>
    BY Statements, RoleSets, Join11
  <2> QED
    BY <2>1, Zenon DEF RouteCreateOrganization, CreateOrganization
<1>2. RouteCreateProject = <<Insert(Managers), AuditIn>>
  <2>1. <<Insert(Managers)>> \o <<AuditIn>> = <<Insert(Managers), AuditIn>>
    BY Statements, RoleSets, Join11
  <2> QED
    BY <2>1, Zenon DEF RouteCreateProject, CreateProject
<1>3. RouteCreateEnvironment = <<Insert(Managers), Find, AuditFound>>
  <2>1. <<Insert(Managers)>> \o <<Find>> = <<Insert(Managers), Find>>
    BY Statements, RoleSets, Join11
  <2>2. <<Insert(Managers), Find>> \o <<AuditFound>> = <<Insert(Managers), Find, AuditFound>>
    BY Statements, RoleSets, Join21
  <2> QED
    BY <2>1, <2>2, Zenon DEF RouteCreateEnvironment, CreateEnvironment, GetEnvironmentAccess
<1>4. RouteCreateApiKey = <<Insert(Developers), Find, AuditFound>>
  <2>1. <<Insert(Developers)>> \o <<Find>> = <<Insert(Developers), Find>>
    BY Statements, RoleSets, Join11
  <2>2. <<Insert(Developers), Find>> \o <<AuditFound>> = <<Insert(Developers), Find, AuditFound>>
    BY Statements, RoleSets, Join21
  <2> QED
    BY <2>1, <2>2, Zenon DEF RouteCreateApiKey, CreateApiKey, GetEnvironmentAccess
<1>5. RouteRevokeApiKey = <<Check(Developers), Revoke, Find, AuditFound>>
  <2>1. <<Check(Developers), Revoke>> \o <<Find>> = <<Check(Developers), Revoke, Find>>
    BY Statements, RoleSets, Join21
  <2>2. <<Check(Developers), Revoke, Find>> \o <<AuditFound>> =
            <<Check(Developers), Revoke, Find, AuditFound>>
    BY Statements, RoleSets, Join31
  <2> QED
    BY <2>1, <2>2, Zenon DEF RouteRevokeApiKey, RevokeApiKey, GetEnvironmentAccess
<1>6. RouteDeleteProject = <<Find, Check(Managers), Delete, AuditFound>>
  <2>1. <<Find>> \o <<Check(Managers), Delete>> = <<Find, Check(Managers), Delete>>
    BY Statements, RoleSets, Join12
  <2>2. <<Find, Check(Managers), Delete>> \o <<AuditFound>> =
            <<Find, Check(Managers), Delete, AuditFound>>
    BY Statements, RoleSets, Join31
  <2> QED
    BY <2>1, <2>2, Zenon DEF RouteDeleteProject, ListUserProjects, DeleteProject
<1>7. RouteDeleteEnvironment = <<Find, Check(Managers), Delete, AuditFound>>
  <2>1. <<Find>> \o <<Check(Managers), Delete>> = <<Find, Check(Managers), Delete>>
    BY Statements, RoleSets, Join12
  <2>2. <<Find, Check(Managers), Delete>> \o <<AuditFound>> =
            <<Find, Check(Managers), Delete, AuditFound>>
    BY Statements, RoleSets, Join31
  <2> QED
    BY <2>1, <2>2, Zenon DEF RouteDeleteEnvironment, GetEnvironmentAccess, DeleteEnvironment
<1>8. RouteDeleteOrganization = <<Check(Members), Check({"owner"}), Delete, AuditIn>>
  <2>1. <<Check(Members)>> \o <<Check({"owner"}), Delete>> =
            <<Check(Members), Check({"owner"}), Delete>>
    BY Statements, RoleSets, Join12
  <2>2. <<Check(Members), Check({"owner"}), Delete>> \o <<AuditIn>> =
            <<Check(Members), Check({"owner"}), Delete, AuditIn>>
    BY Statements, RoleSets, Join31
  <2> QED
    BY <2>1, <2>2, Zenon DEF RouteDeleteOrganization, ListOrganizations, DeleteOrganization
<1>9. RouteDeleteTelemetry = <<Check(Managers), Wipe, AuditIn>>
  <2>1. <<Check(Managers), Wipe>> \o <<AuditIn>> = <<Check(Managers), Wipe, AuditIn>>
    BY Statements, RoleSets, Join21
  <2> QED
    BY <2>1, Zenon DEF RouteDeleteTelemetry, DeleteOrganizationTelemetry
<1>10. RouteUpdateSecurity = <<Update(Managers), Policy, AuditIn>>
  <2>1. <<Update(Managers)>> \o <<Policy>> = <<Update(Managers), Policy>>
    BY Statements, RoleSets, Join11
  <2>2. <<Update(Managers), Policy>> \o <<AuditIn>> = <<Update(Managers), Policy, AuditIn>>
    BY Statements, RoleSets, Join21
  <2> QED
    BY <2>1, <2>2, Zenon DEF RouteUpdateSecurity, UpdateOrganizationSecurity, GetSecurityPolicy
<1>11. RouteUpdateAllowlist = <<Update(Managers), Policy, Find, AuditFound>>
  <2>1. <<Update(Managers)>> \o <<Policy>> = <<Update(Managers), Policy>>
    BY Statements, RoleSets, Join11
  <2>2. <<Update(Managers), Policy>> \o <<Find>> = <<Update(Managers), Policy, Find>>
    BY Statements, RoleSets, Join21
  <2>3. <<Update(Managers), Policy, Find>> \o <<AuditFound>> =
            <<Update(Managers), Policy, Find, AuditFound>>
    BY Statements, RoleSets, Join31
  <2> QED
    BY <2>1, <2>2, <2>3, Zenon DEF RouteUpdateAllowlist, UpdateEnvironmentAllowlist,
         GetSecurityPolicy, GetEnvironmentAccess
<1>12. RouteSecurity = <<Choose(Managers), Policy, Read>>
  <2>1. <<Choose(Managers)>> \o <<Policy>> = <<Choose(Managers), Policy>>
    BY Statements, RoleSets, Join11
  <2>2. <<Choose(Managers), Policy>> \o <<Read>> = <<Choose(Managers), Policy, Read>>
    BY Statements, RoleSets, Join21
  <2> QED
    BY <2>1, <2>2, Zenon DEF RouteSecurity, GetSecurityPolicy
<1>13. RouteExport = <<Check(Managers), Read, AuditIn>>
  <2>1. <<Check(Managers), Read>> \o <<AuditIn>> = <<Check(Managers), Read, AuditIn>>
    BY Statements, RoleSets, Join21
  <2> QED
    BY <2>1, Zenon DEF RouteExport, ExportOrganization
<1>14. RouteOnboarding = <<Check(Members), Tick>>
  <2>1. <<Check(Members)>> \o <<Tick>> = <<Check(Members), Tick>>
    BY Statements, RoleSets, Join11
  <2> QED
    BY <2>1, Zenon DEF RouteOnboarding, CompleteOnboardingStep, GetOnboarding
<1>15. RouteIngest = <<Key, Policy, Store>>
  <2>1. <<Key>> \o <<Policy>> = <<Key, Policy>>
    BY Statements, RoleSets, Join11
  <2>2. <<Key, Policy>> \o <<Store>> = <<Key, Policy, Store>>
    BY Statements, RoleSets, Join21
  <2> QED
    BY <2>1, <2>2, Zenon DEF RouteIngest, GetSecurityPolicy
<1> QED
  BY <1>1, <1>2, <1>3, <1>4, <1>5, <1>6, <1>7, <1>8, <1>9, <1>10, <1>11, <1>12, <1>13, <1>14, <1>15

\* Every route's statements keep to WellMade.
LEMMA Planned == \A route \in Routes : WellMade(route, Calls(route))
<1>1. \A route \in {"createOrganization"} :
        WellMade(route, Calls(route))
  <2> SUFFICES ASSUME NEW route \in {"createOrganization"}
               PROVE  WellMade(route, Calls(route))
    OBVIOUS
  <2> DEFINE s == <<Found, AuditIn>>
  <2>1. Entitled(route) \in SUBSET (Members \cup {"known"}) /\ Entitled(route) \subseteq Members
    BY RoleSets, Roles DEF Entitled
  <2>2. s = Calls(route)
    BY Sequenced DEF Calls
  <2>3. s \in Seq(StatementType) /\ Len(s) = 2
    BY <2>1, Statements, RoleSets
  <2>4. /\ s[1].does = "found"
        /\ s[2].does = "audit" /\ s[2].for = {"known"}
    BY <2>1, Statements, RoleSets
  <2> HIDE DEF s
  <2>5. WellOrdered(route, s)
    BY <2>1, <2>3, <2>4, Roles DEF WellOrdered, Doing, Calm, Guards
  <2>6. route \in Unguarded
    BY DEF Unguarded
  <2>7. \A i \in 1..Len(s) : ~(s[i].does = "audit" /\ s[i].for = {}) /\ s[i].does # "find"
    <3> SUFFICES ASSUME NEW i \in 1..Len(s), s[i].does \in {"audit", "find"}
                 PROVE  s[i].does = "audit" /\ s[i].for # {}
      OBVIOUS
    <3>1. i = 2
      BY <2>3, <2>4
    <3> QED
      BY <3>1, <2>4
  <2>9. \A i \in 1..Len(s) : s[i].does # "store"
    BY <2>3, <2>4
  <2>10. route \notin Endings
    BY DEF Endings
  <2>11. s[1].does # "key"
    BY <2>4 DEF Makes
  <2>12. Logs(route, s)
    <3>1. \A i \in 1..Len(s) : s[i].does = "audit" => i = 2
      BY <2>3, <2>4
    <3>2. /\ s[2].does = "audit" /\ 2 \in 1..Len(s)
          /\ s[1].does \in Doing /\ 1 \in 1..2 - 1
      BY <2>3, <2>4 DEF Doing
    <3> QED
      BY <3>1, <3>2 DEF Logs
  <2> QED
    BY <2>2, <2>3, <2>5, <2>6, <2>7, <2>9, <2>10, <2>11, <2>12 DEF WellMade
<1>2. \A route \in {"createProject"} :
        WellMade(route, Calls(route))
  <2> SUFFICES ASSUME NEW route \in {"createProject"}
               PROVE  WellMade(route, Calls(route))
    OBVIOUS
  <2> DEFINE s == <<Insert(Entitled(route)), AuditIn>>
  <2>1. Entitled(route) \in SUBSET (Members \cup {"known"}) /\ Entitled(route) \subseteq Members
    BY RoleSets, Roles DEF Entitled
  <2>2. s = Calls(route)
    BY Sequenced DEF Calls, Entitled
  <2>3. s \in Seq(StatementType) /\ Len(s) = 2
    BY <2>1, Statements, RoleSets
  <2>4. /\ s[1].does = "insert" /\ s[1].for = Entitled(route)
        /\ s[2].does = "audit" /\ s[2].for = {"known"}
    BY <2>1, Statements, RoleSets
  <2> HIDE DEF s
  <2>5. WellOrdered(route, s)
    BY <2>1, <2>3, <2>4, Roles DEF WellOrdered, Doing, Calm, Guards
  <2>6. AsksFirst(route, s)
    <3> SUFFICES ASSUME NEW i \in 1..Len(s), s[i].does \in Doing
                 PROVE  \/ s[i].does \in {"insert", "update"} /\ s[i].for \subseteq Entitled(route)
                        \/ \E j \in 1..i - 1 : /\ s[j].does \in {"check", "choose"}
                                               /\ s[j].for \subseteq Entitled(route)
      BY DEF AsksFirst
    <3>1. i = 1
      BY <2>3, <2>4 DEF Doing
    <3> QED
      BY <3>1, <2>4
  <2>7. \A i \in 1..Len(s) : ~(s[i].does = "audit" /\ s[i].for = {}) /\ s[i].does # "find"
    <3> SUFFICES ASSUME NEW i \in 1..Len(s), s[i].does \in {"audit", "find"}
                 PROVE  s[i].does = "audit" /\ s[i].for # {}
      OBVIOUS
    <3>1. i = 2
      BY <2>3, <2>4
    <3> QED
      BY <3>1, <2>4
  <2>9. \A i \in 1..Len(s) : s[i].does # "store"
    BY <2>3, <2>4
  <2>10. route \notin Endings
    BY DEF Endings
  <2>11. s[1].does # "key"
    BY <2>4 DEF Makes
  <2>12. Logs(route, s)
    <3>1. \A i \in 1..Len(s) : s[i].does = "audit" => i = 2
      BY <2>3, <2>4
    <3>2. /\ s[2].does = "audit" /\ 2 \in 1..Len(s)
          /\ s[1].does \in Doing /\ 1 \in 1..2 - 1
      BY <2>3, <2>4 DEF Doing
    <3> QED
      BY <3>1, <3>2 DEF Logs
  <2> QED
    BY <2>2, <2>3, <2>5, <2>6, <2>7, <2>9, <2>10, <2>11, <2>12 DEF WellMade
<1>3. \A route \in {"createEnvironment", "createKey"} :
        WellMade(route, Calls(route))
  <2> SUFFICES ASSUME NEW route \in {"createEnvironment", "createKey"}
               PROVE  WellMade(route, Calls(route))
    OBVIOUS
  <2> DEFINE s == <<Insert(Entitled(route)), Find, AuditFound>>
  <2>1. Entitled(route) \in SUBSET (Members \cup {"known"}) /\ Entitled(route) \subseteq Members
    BY RoleSets, Roles DEF Entitled
  <2>2. s = Calls(route)
    BY Sequenced DEF Calls, Entitled
  <2>3. s \in Seq(StatementType) /\ Len(s) = 3
    BY <2>1, Statements, RoleSets
  <2>4. /\ s[1].does = "insert" /\ s[1].for = Entitled(route)
        /\ s[2].does = "find"
        /\ s[3].does = "audit" /\ s[3].for = {}
    BY <2>1, Statements, RoleSets
  <2> HIDE DEF s
  <2>5. WellOrdered(route, s)
    BY <2>1, <2>3, <2>4, Roles DEF WellOrdered, Doing, Calm, Guards
  <2>6. AsksFirst(route, s)
    <3> SUFFICES ASSUME NEW i \in 1..Len(s), s[i].does \in Doing
                 PROVE  \/ s[i].does \in {"insert", "update"} /\ s[i].for \subseteq Entitled(route)
                        \/ \E j \in 1..i - 1 : /\ s[j].does \in {"check", "choose"}
                                               /\ s[j].for \subseteq Entitled(route)
      BY DEF AsksFirst
    <3>1. i = 1
      BY <2>3, <2>4 DEF Doing
    <3> QED
      BY <3>1, <2>4
  <2>7. \A i \in 1..Len(s) : s[i].does = "audit" => \E j \in 1..i - 1 : s[j].does = "find"
    <3> SUFFICES ASSUME NEW i \in 1..Len(s), s[i].does = "audit"
                 PROVE  \E j \in 1..i - 1 : s[j].does = "find"
      OBVIOUS
    <3>1. i = 3 /\ 2 \in 1..i - 1
      BY <2>3, <2>4
    <3> QED
      BY <3>1, <2>4
  <2>8. \A i \in 1..Len(s) : s[i].does = "find" =>
            \E j \in 1..i - 1 : s[j].does \in {"check", "insert", "update"}
    <3> SUFFICES ASSUME NEW i \in 1..Len(s), s[i].does = "find"
                 PROVE  \E j \in 1..i - 1 : s[j].does \in {"check", "insert", "update"}
      OBVIOUS
    <3>1. i = 2 /\ 1 \in 1..i - 1
      BY <2>3, <2>4
    <3> QED
      BY <3>1, <2>4
  <2>9. \A i \in 1..Len(s) : s[i].does # "store"
    BY <2>3, <2>4
  <2>10. route \notin Endings
    BY DEF Endings
  <2>11. s[1].does # "key"
    BY <2>4 DEF Makes
  <2>12. Logs(route, s)
    <3>1. \A i \in 1..Len(s) : s[i].does = "audit" => i = 3
      BY <2>3, <2>4
    <3>2. /\ s[3].does = "audit" /\ 3 \in 1..Len(s)
          /\ s[1].does \in Doing /\ 1 \in 1..3 - 1
      BY <2>3, <2>4 DEF Doing
    <3> QED
      BY <3>1, <3>2 DEF Logs
  <2> QED
    BY <2>2, <2>3, <2>5, <2>6, <2>7, <2>8, <2>9, <2>10, <2>11, <2>12 DEF WellMade
<1>4. \A route \in {"revokeKey"} :
        WellMade(route, Calls(route))
  <2> SUFFICES ASSUME NEW route \in {"revokeKey"}
               PROVE  WellMade(route, Calls(route))
    OBVIOUS
  <2> DEFINE s == <<Check(Entitled(route)), Revoke, Find, AuditFound>>
  <2>1. Entitled(route) \in SUBSET (Members \cup {"known"}) /\ Entitled(route) \subseteq Members
    BY RoleSets, Roles DEF Entitled
  <2>2. s = Calls(route)
    BY Sequenced DEF Calls, Entitled
  <2>3. s \in Seq(StatementType) /\ Len(s) = 4
    BY <2>1, Statements, RoleSets
  <2>4. /\ s[1].does = "check" /\ s[1].for = Entitled(route)
        /\ s[2].does = "revoke"
        /\ s[3].does = "find"
        /\ s[4].does = "audit" /\ s[4].for = {}
    BY <2>1, Statements, RoleSets
  <2> HIDE DEF s
  <2>5. WellOrdered(route, s)
    BY <2>1, <2>3, <2>4, Roles DEF WellOrdered, Doing, Calm, Guards
  <2>6. AsksFirst(route, s)
    <3> SUFFICES ASSUME NEW i \in 1..Len(s), s[i].does \in Doing
                 PROVE  \/ s[i].does \in {"insert", "update"} /\ s[i].for \subseteq Entitled(route)
                        \/ \E j \in 1..i - 1 : /\ s[j].does \in {"check", "choose"}
                                               /\ s[j].for \subseteq Entitled(route)
      BY DEF AsksFirst
    <3>1. i = 2 /\ 1 \in 1..i - 1
      BY <2>3, <2>4 DEF Doing
    <3> QED
      BY <3>1, <2>4
  <2>7. \A i \in 1..Len(s) : s[i].does = "audit" => \E j \in 1..i - 1 : s[j].does = "find"
    <3> SUFFICES ASSUME NEW i \in 1..Len(s), s[i].does = "audit"
                 PROVE  \E j \in 1..i - 1 : s[j].does = "find"
      OBVIOUS
    <3>1. i = 4 /\ 3 \in 1..i - 1
      BY <2>3, <2>4
    <3> QED
      BY <3>1, <2>4
  <2>8. \A i \in 1..Len(s) : s[i].does = "find" =>
            \E j \in 1..i - 1 : s[j].does \in {"check", "insert", "update"}
    <3> SUFFICES ASSUME NEW i \in 1..Len(s), s[i].does = "find"
                 PROVE  \E j \in 1..i - 1 : s[j].does \in {"check", "insert", "update"}
      OBVIOUS
    <3>1. i = 3 /\ 1 \in 1..i - 1
      BY <2>3, <2>4
    <3> QED
      BY <3>1, <2>4
  <2>9. \A i \in 1..Len(s) : s[i].does # "store"
    BY <2>3, <2>4
  <2>10. \E i \in 1..Len(s) : s[i].does \in {"delete", "revoke"}
    <3>1. 2 \in 1..Len(s)
      BY <2>3
    <3> QED
      BY <3>1, <2>4
  <2>11. route \notin Makes
    BY <2>4 DEF Makes
  <2>12. Logs(route, s)
    <3>1. \A i \in 1..Len(s) : s[i].does = "audit" => i = 4
      BY <2>3, <2>4
    <3>2. /\ s[4].does = "audit" /\ 4 \in 1..Len(s)
          /\ s[2].does \in Doing /\ 2 \in 1..4 - 1
      BY <2>3, <2>4 DEF Doing
    <3> QED
      BY <3>1, <3>2 DEF Logs
  <2> QED
    BY <2>2, <2>3, <2>5, <2>6, <2>7, <2>8, <2>9, <2>10, <2>11, <2>12 DEF WellMade
<1>5. \A route \in {"deleteProject", "deleteEnvironment"} :
        WellMade(route, Calls(route))
  <2> SUFFICES ASSUME NEW route \in {"deleteProject", "deleteEnvironment"}
               PROVE  WellMade(route, Calls(route))
    OBVIOUS
  <2> DEFINE s == <<Find, Check(Entitled(route)), Delete, AuditFound>>
  <2>1. Entitled(route) \in SUBSET (Members \cup {"known"}) /\ Entitled(route) \subseteq Members
    BY RoleSets, Roles DEF Entitled
  <2>2. s = Calls(route)
    BY Sequenced DEF Calls, Entitled
  <2>3. s \in Seq(StatementType) /\ Len(s) = 4
    BY <2>1, Statements, RoleSets
  <2>4. /\ s[1].does = "find"
        /\ s[2].does = "check" /\ s[2].for = Entitled(route)
        /\ s[3].does = "delete"
        /\ s[4].does = "audit" /\ s[4].for = {}
    BY <2>1, Statements, RoleSets
  <2> HIDE DEF s
  <2>5. WellOrdered(route, s)
    BY <2>1, <2>3, <2>4, Roles DEF WellOrdered, Doing, Calm, Guards
  <2>6. AsksFirst(route, s)
    <3> SUFFICES ASSUME NEW i \in 1..Len(s), s[i].does \in Doing
                 PROVE  \/ s[i].does \in {"insert", "update"} /\ s[i].for \subseteq Entitled(route)
                        \/ \E j \in 1..i - 1 : /\ s[j].does \in {"check", "choose"}
                                               /\ s[j].for \subseteq Entitled(route)
      BY DEF AsksFirst
    <3>1. i = 3 /\ 2 \in 1..i - 1
      BY <2>3, <2>4 DEF Doing
    <3> QED
      BY <3>1, <2>4
  <2>7. \A i \in 1..Len(s) : s[i].does = "audit" => \E j \in 1..i - 1 : s[j].does = "find"
    <3> SUFFICES ASSUME NEW i \in 1..Len(s), s[i].does = "audit"
                 PROVE  \E j \in 1..i - 1 : s[j].does = "find"
      OBVIOUS
    <3>1. i = 4 /\ 1 \in 1..i - 1
      BY <2>3, <2>4
    <3> QED
      BY <3>1, <2>4
  <2>8. \A i \in 1..Len(s) : s[i].does = "find" =>
            \E j \in i + 1 .. Len(s) : s[j].does = "check"
    <3> SUFFICES ASSUME NEW i \in 1..Len(s), s[i].does = "find"
                 PROVE  \E j \in i + 1 .. Len(s) : s[j].does = "check"
      OBVIOUS
    <3>1. i = 1 /\ 2 \in i + 1 .. Len(s)
      BY <2>3, <2>4
    <3> QED
      BY <3>1, <2>4
  <2>9. \A i \in 1..Len(s) : s[i].does # "store"
    BY <2>3, <2>4
  <2>10. \E i \in 1..Len(s) : s[i].does \in {"delete", "revoke"}
    <3>1. 3 \in 1..Len(s)
      BY <2>3
    <3> QED
      BY <3>1, <2>4
  <2>11. route \notin Makes
    BY <2>4 DEF Makes
  <2>12. Logs(route, s)
    <3>1. \A i \in 1..Len(s) : s[i].does = "audit" => i = 4
      BY <2>3, <2>4
    <3>2. /\ s[4].does = "audit" /\ 4 \in 1..Len(s)
          /\ s[3].does \in Doing /\ 3 \in 1..4 - 1
      BY <2>3, <2>4 DEF Doing
    <3> QED
      BY <3>1, <3>2 DEF Logs
  <2> QED
    BY <2>2, <2>3, <2>5, <2>6, <2>7, <2>8, <2>9, <2>10, <2>11, <2>12 DEF WellMade
<1>6. \A route \in {"deleteOrganization"} :
        WellMade(route, Calls(route))
  <2> SUFFICES ASSUME NEW route \in {"deleteOrganization"}
               PROVE  WellMade(route, Calls(route))
    OBVIOUS
  <2> DEFINE s == <<Check(Members), Check(Entitled(route)), Delete, AuditIn>>
  <2>1. Entitled(route) \in SUBSET (Members \cup {"known"}) /\ Entitled(route) \subseteq Members
    BY RoleSets, Roles DEF Entitled
  <2>2. s = Calls(route)
    BY Sequenced DEF Calls, Entitled
  <2>3. s \in Seq(StatementType) /\ Len(s) = 4
    BY <2>1, Statements, RoleSets
  <2>4. /\ s[1].does = "check" /\ s[1].for = Members
        /\ s[2].does = "check" /\ s[2].for = Entitled(route)
        /\ s[3].does = "delete"
        /\ s[4].does = "audit" /\ s[4].for = {"known"}
    BY <2>1, Statements, RoleSets
  <2> HIDE DEF s
  <2>5. WellOrdered(route, s)
    BY <2>1, <2>3, <2>4, Roles DEF WellOrdered, Doing, Calm, Guards
  <2>6. AsksFirst(route, s)
    <3> SUFFICES ASSUME NEW i \in 1..Len(s), s[i].does \in Doing
                 PROVE  \/ s[i].does \in {"insert", "update"} /\ s[i].for \subseteq Entitled(route)
                        \/ \E j \in 1..i - 1 : /\ s[j].does \in {"check", "choose"}
                                               /\ s[j].for \subseteq Entitled(route)
      BY DEF AsksFirst
    <3>1. i = 3 /\ 2 \in 1..i - 1
      BY <2>3, <2>4 DEF Doing
    <3> QED
      BY <3>1, <2>4
  <2>7. \A i \in 1..Len(s) : ~(s[i].does = "audit" /\ s[i].for = {}) /\ s[i].does # "find"
    <3> SUFFICES ASSUME NEW i \in 1..Len(s), s[i].does \in {"audit", "find"}
                 PROVE  s[i].does = "audit" /\ s[i].for # {}
      OBVIOUS
    <3>1. i = 4
      BY <2>3, <2>4
    <3> QED
      BY <3>1, <2>4
  <2>9. \A i \in 1..Len(s) : s[i].does # "store"
    BY <2>3, <2>4
  <2>10. \E i \in 1..Len(s) : s[i].does \in {"delete", "revoke"}
    <3>1. 3 \in 1..Len(s)
      BY <2>3
    <3> QED
      BY <3>1, <2>4
  <2>11. route \notin Makes
    BY <2>4 DEF Makes
  <2>12. Logs(route, s)
    <3>1. \A i \in 1..Len(s) : s[i].does = "audit" => i = 4
      BY <2>3, <2>4
    <3>2. /\ s[4].does = "audit" /\ 4 \in 1..Len(s)
          /\ s[3].does \in Doing /\ 3 \in 1..4 - 1
      BY <2>3, <2>4 DEF Doing
    <3> QED
      BY <3>1, <3>2 DEF Logs
  <2> QED
    BY <2>2, <2>3, <2>5, <2>6, <2>7, <2>9, <2>10, <2>11, <2>12 DEF WellMade
<1>7. \A route \in {"deleteTelemetry"} :
        WellMade(route, Calls(route))
  <2> SUFFICES ASSUME NEW route \in {"deleteTelemetry"}
               PROVE  WellMade(route, Calls(route))
    OBVIOUS
  <2> DEFINE s == <<Check(Entitled(route)), Wipe, AuditIn>>
  <2>1. Entitled(route) \in SUBSET (Members \cup {"known"}) /\ Entitled(route) \subseteq Members
    BY RoleSets, Roles DEF Entitled
  <2>2. s = Calls(route)
    BY Sequenced DEF Calls, Entitled
  <2>3. s \in Seq(StatementType) /\ Len(s) = 3
    BY <2>1, Statements, RoleSets
  <2>4. /\ s[1].does = "check" /\ s[1].for = Entitled(route)
        /\ s[2].does = "wipe"
        /\ s[3].does = "audit" /\ s[3].for = {"known"}
    BY <2>1, Statements, RoleSets
  <2> HIDE DEF s
  <2>5. WellOrdered(route, s)
    BY <2>1, <2>3, <2>4, Roles DEF WellOrdered, Doing, Calm, Guards
  <2>6. AsksFirst(route, s)
    <3> SUFFICES ASSUME NEW i \in 1..Len(s), s[i].does \in Doing
                 PROVE  \/ s[i].does \in {"insert", "update"} /\ s[i].for \subseteq Entitled(route)
                        \/ \E j \in 1..i - 1 : /\ s[j].does \in {"check", "choose"}
                                               /\ s[j].for \subseteq Entitled(route)
      BY DEF AsksFirst
    <3>1. i = 2 /\ 1 \in 1..i - 1
      BY <2>3, <2>4 DEF Doing
    <3> QED
      BY <3>1, <2>4
  <2>7. \A i \in 1..Len(s) : ~(s[i].does = "audit" /\ s[i].for = {}) /\ s[i].does # "find"
    <3> SUFFICES ASSUME NEW i \in 1..Len(s), s[i].does \in {"audit", "find"}
                 PROVE  s[i].does = "audit" /\ s[i].for # {}
      OBVIOUS
    <3>1. i = 3
      BY <2>3, <2>4
    <3> QED
      BY <3>1, <2>4
  <2>9. \A i \in 1..Len(s) : s[i].does # "store"
    BY <2>3, <2>4
  <2>10. route \notin Endings
    BY DEF Endings
  <2>11. route \notin Makes
    BY <2>4 DEF Makes
  <2>12. Logs(route, s)
    <3>1. \A i \in 1..Len(s) : s[i].does = "audit" => i = 3
      BY <2>3, <2>4
    <3>2. /\ s[3].does = "audit" /\ 3 \in 1..Len(s)
          /\ s[2].does \in Doing /\ 2 \in 1..3 - 1
      BY <2>3, <2>4 DEF Doing
    <3> QED
      BY <3>1, <3>2 DEF Logs
  <2> QED
    BY <2>2, <2>3, <2>5, <2>6, <2>7, <2>9, <2>10, <2>11, <2>12 DEF WellMade
<1>8. \A route \in {"updateSecurity"} :
        WellMade(route, Calls(route))
  <2> SUFFICES ASSUME NEW route \in {"updateSecurity"}
               PROVE  WellMade(route, Calls(route))
    OBVIOUS
  <2> DEFINE s == <<Update(Entitled(route)), Policy, AuditIn>>
  <2>1. Entitled(route) \in SUBSET (Members \cup {"known"}) /\ Entitled(route) \subseteq Members
    BY RoleSets, Roles DEF Entitled
  <2>2. s = Calls(route)
    BY Sequenced DEF Calls, Entitled
  <2>3. s \in Seq(StatementType) /\ Len(s) = 3
    BY <2>1, Statements, RoleSets
  <2>4. /\ s[1].does = "update" /\ s[1].for = Entitled(route)
        /\ s[2].does = "policy"
        /\ s[3].does = "audit" /\ s[3].for = {"known"}
    BY <2>1, Statements, RoleSets
  <2> HIDE DEF s
  <2>5. WellOrdered(route, s)
    BY <2>1, <2>3, <2>4, Roles DEF WellOrdered, Doing, Calm, Guards
  <2>6. AsksFirst(route, s)
    <3> SUFFICES ASSUME NEW i \in 1..Len(s), s[i].does \in Doing
                 PROVE  \/ s[i].does \in {"insert", "update"} /\ s[i].for \subseteq Entitled(route)
                        \/ \E j \in 1..i - 1 : /\ s[j].does \in {"check", "choose"}
                                               /\ s[j].for \subseteq Entitled(route)
      BY DEF AsksFirst
    <3>1. i = 1
      BY <2>3, <2>4 DEF Doing
    <3> QED
      BY <3>1, <2>4
  <2>7. \A i \in 1..Len(s) : ~(s[i].does = "audit" /\ s[i].for = {}) /\ s[i].does # "find"
    <3> SUFFICES ASSUME NEW i \in 1..Len(s), s[i].does \in {"audit", "find"}
                 PROVE  s[i].does = "audit" /\ s[i].for # {}
      OBVIOUS
    <3>1. i = 3
      BY <2>3, <2>4
    <3> QED
      BY <3>1, <2>4
  <2>9. \A i \in 1..Len(s) : s[i].does # "store"
    BY <2>3, <2>4
  <2>10. route \notin Endings
    BY DEF Endings
  <2>11. route \notin Makes
    BY <2>4 DEF Makes
  <2>12. Logs(route, s)
    <3>1. \A i \in 1..Len(s) : s[i].does = "audit" => i = 3
      BY <2>3, <2>4
    <3>2. /\ s[3].does = "audit" /\ 3 \in 1..Len(s)
          /\ s[1].does \in Doing /\ 1 \in 1..3 - 1
      BY <2>3, <2>4 DEF Doing
    <3> QED
      BY <3>1, <3>2 DEF Logs
  <2> QED
    BY <2>2, <2>3, <2>5, <2>6, <2>7, <2>9, <2>10, <2>11, <2>12 DEF WellMade
<1>9. \A route \in {"updateAllowlist"} :
        WellMade(route, Calls(route))
  <2> SUFFICES ASSUME NEW route \in {"updateAllowlist"}
               PROVE  WellMade(route, Calls(route))
    OBVIOUS
  <2> DEFINE s == <<Update(Entitled(route)), Policy, Find, AuditFound>>
  <2>1. Entitled(route) \in SUBSET (Members \cup {"known"}) /\ Entitled(route) \subseteq Members
    BY RoleSets, Roles DEF Entitled
  <2>2. s = Calls(route)
    BY Sequenced DEF Calls, Entitled
  <2>3. s \in Seq(StatementType) /\ Len(s) = 4
    BY <2>1, Statements, RoleSets
  <2>4. /\ s[1].does = "update" /\ s[1].for = Entitled(route)
        /\ s[2].does = "policy"
        /\ s[3].does = "find"
        /\ s[4].does = "audit" /\ s[4].for = {}
    BY <2>1, Statements, RoleSets
  <2> HIDE DEF s
  <2>5. WellOrdered(route, s)
    BY <2>1, <2>3, <2>4, Roles DEF WellOrdered, Doing, Calm, Guards
  <2>6. AsksFirst(route, s)
    <3> SUFFICES ASSUME NEW i \in 1..Len(s), s[i].does \in Doing
                 PROVE  \/ s[i].does \in {"insert", "update"} /\ s[i].for \subseteq Entitled(route)
                        \/ \E j \in 1..i - 1 : /\ s[j].does \in {"check", "choose"}
                                               /\ s[j].for \subseteq Entitled(route)
      BY DEF AsksFirst
    <3>1. i = 1
      BY <2>3, <2>4 DEF Doing
    <3> QED
      BY <3>1, <2>4
  <2>7. \A i \in 1..Len(s) : s[i].does = "audit" => \E j \in 1..i - 1 : s[j].does = "find"
    <3> SUFFICES ASSUME NEW i \in 1..Len(s), s[i].does = "audit"
                 PROVE  \E j \in 1..i - 1 : s[j].does = "find"
      OBVIOUS
    <3>1. i = 4 /\ 3 \in 1..i - 1
      BY <2>3, <2>4
    <3> QED
      BY <3>1, <2>4
  <2>8. \A i \in 1..Len(s) : s[i].does = "find" =>
            \E j \in 1..i - 1 : s[j].does \in {"check", "insert", "update"}
    <3> SUFFICES ASSUME NEW i \in 1..Len(s), s[i].does = "find"
                 PROVE  \E j \in 1..i - 1 : s[j].does \in {"check", "insert", "update"}
      OBVIOUS
    <3>1. i = 3 /\ 1 \in 1..i - 1
      BY <2>3, <2>4
    <3> QED
      BY <3>1, <2>4
  <2>9. \A i \in 1..Len(s) : s[i].does # "store"
    BY <2>3, <2>4
  <2>10. route \notin Endings
    BY DEF Endings
  <2>11. route \notin Makes
    BY <2>4 DEF Makes
  <2>12. Logs(route, s)
    <3>1. \A i \in 1..Len(s) : s[i].does = "audit" => i = 4
      BY <2>3, <2>4
    <3>2. /\ s[4].does = "audit" /\ 4 \in 1..Len(s)
          /\ s[1].does \in Doing /\ 1 \in 1..4 - 1
      BY <2>3, <2>4 DEF Doing
    <3> QED
      BY <3>1, <3>2 DEF Logs
  <2> QED
    BY <2>2, <2>3, <2>5, <2>6, <2>7, <2>8, <2>9, <2>10, <2>11, <2>12 DEF WellMade
<1>10. \A route \in {"security"} :
        WellMade(route, Calls(route))
  <2> SUFFICES ASSUME NEW route \in {"security"}
               PROVE  WellMade(route, Calls(route))
    OBVIOUS
  <2> DEFINE s == <<Choose(Entitled(route)), Policy, Read>>
  <2>1. Entitled(route) \in SUBSET (Members \cup {"known"}) /\ Entitled(route) \subseteq Members
    BY RoleSets, Roles DEF Entitled
  <2>2. s = Calls(route)
    BY Sequenced DEF Calls, Entitled
  <2>3. s \in Seq(StatementType) /\ Len(s) = 3
    BY <2>1, Statements, RoleSets
  <2>4. /\ s[1].does = "choose" /\ s[1].for = Entitled(route)
        /\ s[2].does = "policy"
        /\ s[3].does = "read"
    BY <2>1, Statements, RoleSets
  <2> HIDE DEF s
  <2>5. WellOrdered(route, s)
    BY <2>1, <2>3, <2>4, Roles DEF WellOrdered, Doing, Calm, Guards
  <2>6. AsksFirst(route, s)
    <3> SUFFICES ASSUME NEW i \in 1..Len(s), s[i].does \in Doing
                 PROVE  \/ s[i].does \in {"insert", "update"} /\ s[i].for \subseteq Entitled(route)
                        \/ \E j \in 1..i - 1 : /\ s[j].does \in {"check", "choose"}
                                               /\ s[j].for \subseteq Entitled(route)
      BY DEF AsksFirst
    <3>1. i = 3 /\ 1 \in 1..i - 1
      BY <2>3, <2>4 DEF Doing
    <3> QED
      BY <3>1, <2>4
  <2>7. \A i \in 1..Len(s) : ~(s[i].does = "audit" /\ s[i].for = {}) /\ s[i].does # "find"
    <3> SUFFICES ASSUME NEW i \in 1..Len(s), s[i].does \in {"audit", "find"}
                 PROVE  s[i].does = "audit" /\ s[i].for # {}
      OBVIOUS
    <3>1. FALSE
      BY <2>3, <2>4
    <3> QED
      BY <3>1, <2>4
  <2>9. \A i \in 1..Len(s) : s[i].does # "store"
    BY <2>3, <2>4
  <2>10. route \notin Endings
    BY DEF Endings
  <2>11. route \notin Makes
    BY <2>4 DEF Makes
  <2>12. Logs(route, s)
    <3>1. \A i \in 1..Len(s) : s[i].does # "audit"
      BY <2>3, <2>4
    <3>2. route \notin Auditable
      BY DEF Auditable
    <3> QED
      BY <3>1, <3>2 DEF Logs
  <2> QED
    BY <2>2, <2>3, <2>5, <2>6, <2>7, <2>9, <2>10, <2>11, <2>12 DEF WellMade
<1>11. \A route \in {"export"} :
        WellMade(route, Calls(route))
  <2> SUFFICES ASSUME NEW route \in {"export"}
               PROVE  WellMade(route, Calls(route))
    OBVIOUS
  <2> DEFINE s == <<Check(Entitled(route)), Read, AuditIn>>
  <2>1. Entitled(route) \in SUBSET (Members \cup {"known"}) /\ Entitled(route) \subseteq Members
    BY RoleSets, Roles DEF Entitled
  <2>2. s = Calls(route)
    BY Sequenced DEF Calls, Entitled
  <2>3. s \in Seq(StatementType) /\ Len(s) = 3
    BY <2>1, Statements, RoleSets
  <2>4. /\ s[1].does = "check" /\ s[1].for = Entitled(route)
        /\ s[2].does = "read"
        /\ s[3].does = "audit" /\ s[3].for = {"known"}
    BY <2>1, Statements, RoleSets
  <2> HIDE DEF s
  <2>5. WellOrdered(route, s)
    BY <2>1, <2>3, <2>4, Roles DEF WellOrdered, Doing, Calm, Guards
  <2>6. AsksFirst(route, s)
    <3> SUFFICES ASSUME NEW i \in 1..Len(s), s[i].does \in Doing
                 PROVE  \/ s[i].does \in {"insert", "update"} /\ s[i].for \subseteq Entitled(route)
                        \/ \E j \in 1..i - 1 : /\ s[j].does \in {"check", "choose"}
                                               /\ s[j].for \subseteq Entitled(route)
      BY DEF AsksFirst
    <3>1. i = 2 /\ 1 \in 1..i - 1
      BY <2>3, <2>4 DEF Doing
    <3> QED
      BY <3>1, <2>4
  <2>7. \A i \in 1..Len(s) : ~(s[i].does = "audit" /\ s[i].for = {}) /\ s[i].does # "find"
    <3> SUFFICES ASSUME NEW i \in 1..Len(s), s[i].does \in {"audit", "find"}
                 PROVE  s[i].does = "audit" /\ s[i].for # {}
      OBVIOUS
    <3>1. i = 3
      BY <2>3, <2>4
    <3> QED
      BY <3>1, <2>4
  <2>9. \A i \in 1..Len(s) : s[i].does # "store"
    BY <2>3, <2>4
  <2>10. route \notin Endings
    BY DEF Endings
  <2>11. route \notin Makes
    BY <2>4 DEF Makes
  <2>12. Logs(route, s)
    <3>1. \A i \in 1..Len(s) : s[i].does = "audit" => i = 3
      BY <2>3, <2>4
    <3>2. /\ s[3].does = "audit" /\ 3 \in 1..Len(s)
          /\ s[2].does \in Doing /\ 2 \in 1..3 - 1
      BY <2>3, <2>4 DEF Doing
    <3> QED
      BY <3>1, <3>2 DEF Logs
  <2> QED
    BY <2>2, <2>3, <2>5, <2>6, <2>7, <2>9, <2>10, <2>11, <2>12 DEF WellMade
<1>12. \A route \in {"onboarding"} :
        WellMade(route, Calls(route))
  <2> SUFFICES ASSUME NEW route \in {"onboarding"}
               PROVE  WellMade(route, Calls(route))
    OBVIOUS
  <2> DEFINE s == <<Check(Entitled(route)), Tick>>
  <2>1. Entitled(route) \in SUBSET (Members \cup {"known"}) /\ Entitled(route) \subseteq Members
    BY RoleSets, Roles DEF Entitled
  <2>2. s = Calls(route)
    BY Sequenced DEF Calls, Entitled
  <2>3. s \in Seq(StatementType) /\ Len(s) = 2
    BY <2>1, Statements, RoleSets
  <2>4. /\ s[1].does = "check" /\ s[1].for = Entitled(route)
        /\ s[2].does = "tick"
    BY <2>1, Statements, RoleSets
  <2> HIDE DEF s
  <2>5. WellOrdered(route, s)
    BY <2>1, <2>3, <2>4, Roles DEF WellOrdered, Doing, Calm, Guards
  <2>6. AsksFirst(route, s)
    <3> SUFFICES ASSUME NEW i \in 1..Len(s), s[i].does \in Doing
                 PROVE  \/ s[i].does \in {"insert", "update"} /\ s[i].for \subseteq Entitled(route)
                        \/ \E j \in 1..i - 1 : /\ s[j].does \in {"check", "choose"}
                                               /\ s[j].for \subseteq Entitled(route)
      BY DEF AsksFirst
    <3>1. i = 2 /\ 1 \in 1..i - 1
      BY <2>3, <2>4 DEF Doing
    <3> QED
      BY <3>1, <2>4
  <2>7. \A i \in 1..Len(s) : ~(s[i].does = "audit" /\ s[i].for = {}) /\ s[i].does # "find"
    <3> SUFFICES ASSUME NEW i \in 1..Len(s), s[i].does \in {"audit", "find"}
                 PROVE  s[i].does = "audit" /\ s[i].for # {}
      OBVIOUS
    <3>1. FALSE
      BY <2>3, <2>4
    <3> QED
      BY <3>1, <2>4
  <2>9. \A i \in 1..Len(s) : s[i].does # "store"
    BY <2>3, <2>4
  <2>10. route \notin Endings
    BY DEF Endings
  <2>11. route \notin Makes
    BY <2>4 DEF Makes
  <2>12. Logs(route, s)
    <3>1. \A i \in 1..Len(s) : s[i].does # "audit"
      BY <2>3, <2>4
    <3>2. route \notin Auditable
      BY DEF Auditable
    <3> QED
      BY <3>1, <3>2 DEF Logs
  <2> QED
    BY <2>2, <2>3, <2>5, <2>6, <2>7, <2>9, <2>10, <2>11, <2>12 DEF WellMade
<1>13. \A route \in {"environments", "keys", "members", "invitations", "auditLogs", "usage"} :
        WellMade(route, Calls(route))
  <2> SUFFICES ASSUME NEW route \in {"environments", "keys", "members", "invitations", "auditLogs",
                                      "usage"}
               PROVE  WellMade(route, Calls(route))
    OBVIOUS
  <2> DEFINE s == <<Check(Entitled(route)), Read>>
  <2>1. Entitled(route) \in SUBSET (Members \cup {"known"}) /\ Entitled(route) \subseteq Members
    BY RoleSets, Roles DEF Entitled
  <2>2. s = Calls(route)
    BY Sequenced DEF Calls, Entitled, ListEnvironments, ListApiKeys, ListMembers,
         ListInvitations, ListAuditLogs, GetUsage
  <2>3. s \in Seq(StatementType) /\ Len(s) = 2
    BY <2>1, Statements, RoleSets
  <2>4. /\ s[1].does = "check" /\ s[1].for = Entitled(route)
        /\ s[2].does = "read"
    BY <2>1, Statements, RoleSets
  <2> HIDE DEF s
  <2>5. WellOrdered(route, s)
    BY <2>1, <2>3, <2>4, Roles DEF WellOrdered, Doing, Calm, Guards
  <2>6. AsksFirst(route, s)
    <3> SUFFICES ASSUME NEW i \in 1..Len(s), s[i].does \in Doing
                 PROVE  \/ s[i].does \in {"insert", "update"} /\ s[i].for \subseteq Entitled(route)
                        \/ \E j \in 1..i - 1 : /\ s[j].does \in {"check", "choose"}
                                               /\ s[j].for \subseteq Entitled(route)
      BY DEF AsksFirst
    <3>1. i = 2 /\ 1 \in 1..i - 1
      BY <2>3, <2>4 DEF Doing
    <3> QED
      BY <3>1, <2>4
  <2>7. \A i \in 1..Len(s) : ~(s[i].does = "audit" /\ s[i].for = {}) /\ s[i].does # "find"
    <3> SUFFICES ASSUME NEW i \in 1..Len(s), s[i].does \in {"audit", "find"}
                 PROVE  s[i].does = "audit" /\ s[i].for # {}
      OBVIOUS
    <3>1. FALSE
      BY <2>3, <2>4
    <3> QED
      BY <3>1, <2>4
  <2>9. \A i \in 1..Len(s) : s[i].does # "store"
    BY <2>3, <2>4
  <2>10. route \notin Endings
    BY DEF Endings
  <2>11. route \notin Makes
    BY <2>4 DEF Makes
  <2>12. Logs(route, s)
    <3>1. \A i \in 1..Len(s) : s[i].does # "audit"
      BY <2>3, <2>4
    <3>2. route \notin Auditable
      BY DEF Auditable
    <3> QED
      BY <3>1, <3>2 DEF Logs
  <2> QED
    BY <2>2, <2>3, <2>5, <2>6, <2>7, <2>9, <2>10, <2>11, <2>12 DEF WellMade
<1>14. \A route \in {"ingest"} :
        WellMade(route, Calls(route))
  <2> SUFFICES ASSUME NEW route \in {"ingest"}
               PROVE  WellMade(route, Calls(route))
    OBVIOUS
  <2> DEFINE s == <<Key, Policy, Store>>
  <2>1. Entitled(route) \in SUBSET (Members \cup {"known"}) /\ Entitled(route) \subseteq Members
    BY RoleSets, Roles DEF Entitled
  <2>2. s = Calls(route)
    BY Sequenced DEF Calls
  <2>3. s \in Seq(StatementType) /\ Len(s) = 3
    BY <2>1, Statements, RoleSets
  <2>4. /\ s[1].does = "key"
        /\ s[2].does = "policy"
        /\ s[3].does = "store"
    BY <2>1, Statements, RoleSets
  <2> HIDE DEF s
  <2>5. WellOrdered(route, s)
    BY <2>1, <2>3, <2>4, Roles DEF WellOrdered, Doing, Calm, Guards
  <2>6. route \in Unguarded
    BY DEF Unguarded
  <2>7. \A i \in 1..Len(s) : ~(s[i].does = "audit" /\ s[i].for = {}) /\ s[i].does # "find"
    <3> SUFFICES ASSUME NEW i \in 1..Len(s), s[i].does \in {"audit", "find"}
                 PROVE  s[i].does = "audit" /\ s[i].for # {}
      OBVIOUS
    <3>1. FALSE
      BY <2>3, <2>4
    <3> QED
      BY <3>1, <2>4
  <2>9. \A i \in 1..Len(s) : s[i].does = "store" => s[1].does = "key"
    BY <2>3, <2>4
  <2>10. route \notin Endings
    BY DEF Endings
  <2>11. route \notin Makes
    BY <2>4 DEF Makes
  <2>12. Logs(route, s)
    <3>1. \A i \in 1..Len(s) : s[i].does # "audit"
      BY <2>3, <2>4
    <3>2. route \notin Auditable
      BY DEF Auditable
    <3> QED
      BY <3>1, <3>2 DEF Logs
  <2> QED
    BY <2>2, <2>3, <2>5, <2>6, <2>7, <2>9, <2>10, <2>11, <2>12 DEF WellMade
<1> QED
  BY <1>1, <1>2, <1>3, <1>4, <1>5, <1>6, <1>7, <1>8, <1>9, <1>10, <1>11, <1>12, <1>13, <1>14
     DEF Routes, Makes

-----------------------------------------------------------------------------
(* Rows and what is above them. *)

LEMMA AboveFacts ==
    ASSUME NEW x \in Row
    PROVE  /\ Parent[x] \in Row /\ Organization(x) \in Row /\ Organization(x) \in Organizations
           /\ x \in Above(x) /\ Parent[x] \in Above(x) /\ Organization(x) \in Above(x)
           /\ Above(x) \subseteq Row
           /\ Organization(Parent[x]) = Organization(x)
           /\ x \in Organizations => Organization(x) = x
           /\ \A y \in Above(x) : Organization(y) = Organization(x) /\ Above(y) \subseteq Above(x)
           /\ \A y \in Above(x) : Parent[y] \in Above(x)
<1>1. Parent[x] \in Row /\ Parent[Parent[x]] \in Row /\ Parent[Parent[Parent[x]]] \in Row
  BY TenancyAssumption
<1>2. Organization(x) \in Organizations
  BY TenancyAssumption
<1>3. Parent[Parent[Parent[Parent[x]]]] = Parent[Parent[Parent[x]]]
  BY <1>2 DEF Organization, Organizations
<1> QED
  BY <1>1, <1>2, <1>3 DEF Above, Organization, Organizations

\* What is above a row and is a key, or an organization.
LEMMA AboveKinds ==
    ASSUME NEW x \in Row, NEW y \in Above(x)
    PROVE  /\ y \in Keys => y = x
           /\ y \in Organizations => y = Organization(x)
<1>1. Parent[Parent[Parent[Parent[x]]]] = Parent[Parent[Parent[x]]]
  BY TenancyAssumption DEF Organization, Organizations
<1> QED
  BY <1>1 DEF Above, Keys, Organization, Organizations

\* Everything above a row that is there is there.
LEMMA AllThere ==
    ASSUME Rows, NEW x \in Row, There(x), NEW y \in Above(x)
    PROVE  There(y)
<1>1. Parent[x] \in Row /\ Parent[Parent[x]] \in Row
  BY TenancyAssumption
<1>2. There(Parent[x])
  BY DEF Rows
<1>3. There(Parent[Parent[x]])
  BY <1>1, <1>2 DEF Rows
<1>4. There(Parent[Parent[Parent[x]]])
  BY <1>1, <1>3 DEF Rows
<1> QED
  BY <1>2, <1>3, <1>4 DEF Above

-----------------------------------------------------------------------------
(* What the actions do to the requests. *)

\* A request goes on to its next statement: what it has done and found is known from the one
\* that it leaves.
GoesOn(r) ==
    /\ request'[r].pc = "running" /\ request'[r].op = request[r].op
    /\ request'[r].left = Tail(request[r].left) /\ request'[r].dead = request[r].dead
    /\ request'[r].held = request[r].held /\ request'[r].cut = request[r].cut
    /\ request'[r].did = (request[r].did \/ Head(request[r].left).does \in Doing)
    /\ request'[r].found = IF Head(request[r].left).does = "find" THEN RoleFor(Target(r)) # "none"
                           ELSE request[r].found

\* A request ends.
Stops(r, pc) ==
    /\ request'[r].pc = pc /\ request'[r].op = request[r].op /\ request'[r].dead = request[r].dead
    /\ request'[r].held = request[r].held /\ request'[r].cut = request[r].cut
    /\ request'[r].did = request[r].did

\* The other requests learn of it, at most.
Learns(q) ==
    /\ request'[q].pc = request[q].pc /\ request'[q].op = request[q].op
    /\ request'[q].left = request[q].left /\ request'[q].dead = request[q].dead
    /\ request'[q].found = request[q].found /\ request'[q].did = request[q].did
    /\ request[q].held \subseteq request'[q].held /\ (request[q].cut => request'[q].cut)

\* A request that has done nothing knows the role that the user has now; all know its loss.
Sees(q) ==
    Running(q) =>
        /\ ~request[q].did => role'[Organization(Target(q))] \in request'[q].held
        /\ RoleFor(Target(q)) # "none" => RoleFor(Target(q))' # "none" \/ request'[q].cut

Else(r) == \A q \in Request \ {r} : request'[q] = request[q]

LEMMA RequestParts ==
    ASSUME TTypes, NEW r \in Request, Running(r)
    PROVE  /\ Target(r) \in Row /\ Route(r) \in Routes /\ request[r].op \in Question
           /\ request[r].left \in Seq(StatementType)
           /\ request[r].held \subseteq Members \cup {"none"}
           /\ request[r].cut \in BOOLEAN /\ request[r].did \in BOOLEAN
           /\ request[r].found \in BOOLEAN /\ request[r].dead \in BOOLEAN
<1>1. request[r] \in RequestType /\ request[r].op \in Question
  BY DEF TTypes, Running
<1>2. request[r].op.row \in Row /\ request[r].op.route \in Routes
  BY <1>1 DEF Question
<1> QED
  BY <1>1, <1>2 DEF RequestType, Target, Route

\* The records that the statements write.
LEMMA Records ==
    ASSUME TTypes, NEW r \in Request, Running(r), request[r].left # <<>>
    PROVE  /\ Passed(r) \in RequestType /\ Done(r) \in RequestType
           /\ \A e \in Row : [Passed(r) EXCEPT !.environment = {e}] \in RequestType
           /\ \A e \in Row : [Done(r) EXCEPT !.environment = {e}] \in RequestType
           /\ \A b \in BOOLEAN : [Passed(r) EXCEPT !.found = b] \in RequestType
           /\ [Done(r) EXCEPT !.pc = "refused"] \in RequestType
           /\ \A pc \in {"replied", "refused", "failed"} :
                  [request[r] EXCEPT !.pc = pc] \in RequestType
<1>1. request[r] \in RequestType
  BY DEF TTypes
<1>2. Tail(request[r].left) \in Seq(StatementType)
  BY <1>1 DEF RequestType
<1>3. Passed(r) \in RequestType
  BY <1>1, <1>2 DEF RequestType, Passed
<1>4. Done(r) \in RequestType
  BY <1>3 DEF RequestType, Done
<1>5. \A e \in Row : [Passed(r) EXCEPT !.environment = {e}] \in RequestType
  BY <1>3 DEF RequestType
<1>6. \A e \in Row : [Done(r) EXCEPT !.environment = {e}] \in RequestType
  BY <1>4 DEF RequestType
<1>7. \A b \in BOOLEAN : [Passed(r) EXCEPT !.found = b] \in RequestType
  BY <1>3 DEF RequestType
<1>8. [Done(r) EXCEPT !.pc = "refused"] \in RequestType
  BY <1>4 DEF RequestType
<1>9. \A pc \in {"replied", "refused", "failed"} : [request[r] EXCEPT !.pc = pc] \in RequestType
  BY <1>1 DEF RequestType
<1> QED
  BY <1>3, <1>4, <1>5, <1>6, <1>7, <1>8, <1>9

-----------------------------------------------------------------------------
(* A request in hand, and what it does next. *)

LEMMA Tails ==
    ASSUME NEW s \in Seq(StatementType), s # <<>>
    PROVE  /\ Tail(s) \in Seq(StatementType) /\ Len(Tail(s)) = Len(s) - 1 /\ Len(s) \in Nat \ {0}
           /\ \A i \in 1..Len(Tail(s)) : Tail(s)[i] = s[i + 1] /\ i + 1 \in 1..Len(s)
           /\ Head(s) = s[1] /\ 1 \in 1..Len(s)
  OBVIOUS

\* What was to come before a statement is still to come, but for the one that is done.
LEMMA Shifts ==
    ASSUME NEW s \in Seq(StatementType), s # <<>>, NEW i \in 1..Len(Tail(s)), NEW D
    PROVE  /\ (\E j \in 1..i + 1 - 1 : s[j].does \in D) =>
                  Head(s).does \in D \/ \E j \in 1..i - 1 : Tail(s)[j].does \in D
           /\ (\E j \in i + 1 + 1 .. Len(s) : s[j].does \in D) =>
                  \E j \in i + 1 .. Len(Tail(s)) : Tail(s)[j].does \in D
<1>1. ASSUME NEW j \in 1..i + 1 - 1, s[j].does \in D
      PROVE  Head(s).does \in D \/ \E k \in 1..i - 1 : Tail(s)[k].does \in D
  <2>1. CASE j = 1
    BY <1>1, <2>1, Tails
  <2>2. CASE j # 1
    <3>1. j - 1 \in 1..i - 1 /\ j - 1 \in 1..Len(Tail(s)) /\ (j - 1) + 1 = j
      BY <2>2, Tails
    <3>2. Tail(s)[j - 1] = s[j]
      BY <3>1, Tails
    <3> QED
      BY <1>1, <3>1, <3>2
  <2> QED
    BY <2>1, <2>2
<1>2. ASSUME NEW j \in i + 1 + 1 .. Len(s), s[j].does \in D
      PROVE  \E k \in i + 1 .. Len(Tail(s)) : Tail(s)[k].does \in D
  <2>1. j - 1 \in i + 1 .. Len(Tail(s)) /\ j - 1 \in 1..Len(Tail(s)) /\ (j - 1) + 1 = j
    BY Tails
  <2>2. Tail(s)[j - 1] = s[j]
    BY <2>1, Tails
  <2> QED
    BY <1>2, <2>1, <2>2
<1> QED
  BY <1>1, <1>2

LEMMA TailOrdered ==
    ASSUME NEW route, NEW s \in Seq(StatementType), s # <<>>, WellOrdered(route, s)
    PROVE  /\ WellOrdered(route, Tail(s))
           /\ Head(s).does \in Doing => \A i \in 1..Len(Tail(s)) : Tail(s)[i].does \in Calm
<1> DEFINE t == Tail(s)
<1>1. Len(t) = Len(s) - 1 /\ Len(s) \in Nat \ {0} /\ Len(t) \in Nat
  BY Tails
<1>2. \A i \in 1..Len(t) : t[i] = s[i + 1] /\ i + 1 \in 1..Len(s)
  BY Tails
<1>3. Head(s) = s[1] /\ 1 \in 1..Len(s)
  BY Tails
<1> HIDE DEF t
<1>4. ASSUME NEW i \in 1..Len(t)
      PROVE  /\ t[i].does \in Doing => \A j \in i + 1 .. Len(t) : t[j].does \in Calm
             /\ t[i].does \in Guards => t[i].for \subseteq Members
             /\ t[i].does = "audit" => i = Len(t)
             /\ t[i].does = "update" => route \in {"updateSecurity", "updateAllowlist"}
             /\ t[i].does = "revoke" => route = "revokeKey"
             /\ t[i].does = "found" => route = "createOrganization"
             /\ t[i].does = "store" => route = "ingest"
             /\ t[i].does = "delete" => \A j \in i + 1 .. Len(t) : t[j].does # "find"
  <2>1. t[i] = s[i + 1] /\ i + 1 \in 1..Len(s)
    BY <1>2
  <2>2. \A j \in i + 1 .. Len(t) : j \in 1..Len(t) /\ j + 1 \in i + 1 + 1 .. Len(s)
    BY <1>1
  <2>3. \A j \in i + 1 .. Len(t) : t[j] = s[j + 1]
    BY <1>2, <2>2
  <2> QED
    BY <1>1, <2>1, <2>2, <2>3 DEF WellOrdered
<1>5. WellOrdered(route, t)
  BY <1>4 DEF WellOrdered
<1>6. Head(s).does \in Doing => \A i \in 1..Len(t) : t[i].does \in Calm
  <2>1. \A i \in 1..Len(t) : i + 1 \in 1 + 1 .. Len(s)
    BY <1>1
  <2> QED
    BY <1>2, <1>3, <2>1 DEF WellOrdered
<1> QED
  BY <1>5, <1>6 DEF t

LEMMA TailAsks ==
    ASSUME NEW route, NEW s \in Seq(StatementType), s # <<>>, AsksFirst(route, s)
    PROVE  /\ \/ AsksFirst(route, Tail(s))
              \/ Head(s).does \in {"check", "choose"} /\ Head(s).for \subseteq Entitled(route)
           /\ Head(s).does \in Doing =>
                 Head(s).does \in {"insert", "update"} /\ Head(s).for \subseteq Entitled(route)
<1> DEFINE t == Tail(s)
<1>1. Len(t) = Len(s) - 1 /\ Len(s) \in Nat \ {0} /\ Len(t) \in Nat
  BY Tails
<1>2. \A i \in 1..Len(t) : t[i] = s[i + 1] /\ i + 1 \in 1..Len(s)
  BY Tails
<1>3. Head(s) = s[1] /\ 1 \in 1..Len(s)
  BY Tails
<1> HIDE DEF t
<1>4. ASSUME ~(Head(s).does \in {"check", "choose"} /\ Head(s).for \subseteq Entitled(route)),
             NEW i \in 1..Len(t), t[i].does \in Doing
      PROVE  \/ t[i].does \in {"insert", "update"} /\ t[i].for \subseteq Entitled(route)
             \/ \E j \in 1..i - 1 : /\ t[j].does \in {"check", "choose"}
                                    /\ t[j].for \subseteq Entitled(route)
  <2>1. t[i] = s[i + 1] /\ i + 1 \in 1..Len(s)
    BY <1>2
  <2>2. CASE s[i + 1].does \in {"insert", "update"} /\ s[i + 1].for \subseteq Entitled(route)
    BY <2>1, <2>2
  <2>3. ASSUME NEW j \in 1..i + 1 - 1,
               s[j].does \in {"check", "choose"} /\ s[j].for \subseteq Entitled(route)
        PROVE  \E k \in 1..i - 1 : /\ t[k].does \in {"check", "choose"}
                                   /\ t[k].for \subseteq Entitled(route)
    <3>1. j # 1
      BY <1>3, <1>4, <2>3
    <3>2. j - 1 \in 1..i - 1 /\ j - 1 \in 1..Len(t) /\ (j - 1) + 1 = j
      BY <1>1, <3>1
    <3>3. t[j - 1] = s[j]
      BY <1>2, <3>2
    <3> QED
      BY <2>3, <3>2, <3>3
  <2> QED
    BY <1>4, <2>1, <2>2, <2>3 DEF AsksFirst
<1>5. \/ AsksFirst(route, t)
      \/ Head(s).does \in {"check", "choose"} /\ Head(s).for \subseteq Entitled(route)
  BY <1>4 DEF AsksFirst
<1>6. Head(s).does \in Doing =>
          Head(s).does \in {"insert", "update"} /\ Head(s).for \subseteq Entitled(route)
  <2>1. ~\E j \in 1..1 - 1 : TRUE
    OBVIOUS
  <2> QED
    BY <1>3, <2>1 DEF AsksFirst
<1> QED
  BY <1>5, <1>6 DEF t

\* What became of a row is not undone, and what the user has lost does not come back.
Onwards(x) ==
    /\ row[x] # "none" => row'[x] # "none"
    /\ row[x] \notin {"none", "live"} => row'[x] \notin {"none", "live"}
    /\ Gone(x) => Gone(x)'
    /\ Hopeless(x) => Hopeless(x)'

LEMMA Learned ==
    ASSUME TTypes, NEW q \in Request, Running(q), InHand(q), Answerable(q),
           Learns(q), Sees(q), Onwards(Target(q))
    PROVE  Running(q)' /\ InHand(q)' /\ Answerable(q)'
<1>1. /\ Running(q)' /\ Target(q)' = Target(q) /\ Left(q)' = Left(q) /\ Route(q)' = Route(q)
      /\ request[q].did' = request[q].did /\ request[q].found' = request[q].found
      /\ request[q].dead' = request[q].dead
      /\ request[q].held \subseteq request[q].held' /\ (request[q].cut => request[q].cut')
  BY DEF Learns, Running, Target, Left, Route
<1>2. HeldEntitled(q) => HeldEntitled(q)'
  BY <1>1 DEF HeldEntitled
<1>3. Permitted(q)'
  <2>1. ~request[q].did' => role[Organization(Target(q))]' \in request[q].held'
    BY <1>1 DEF Sees
  <2> QED
    BY <1>1, <1>2, <2>1 DEF InHand, Permitted
<1>4. Traced(q)'
  <2>1. /\ Hopeless(Target(q)) => Hopeless(Target(q))'
        /\ row[Target(q)] # "none" => row[Target(q)]' # "none"
    BY <1>1 DEF Onwards, Hopeless
  <2>2. RoleFor(Target(q)) # "none" => RoleFor(Target(q))' # "none" \/ request[q].cut'
    BY DEF Sees
  <2> QED
    BY <1>1, <2>1, <2>2 DEF InHand, Traced
<1>5. Doomed(q)'
  BY <1>1 DEF InHand, Doomed, Onwards
<1>6. ToEnd(q)'
  <2>1. Gone(Target(q)) => Gone(Target(q))'
    BY <1>1 DEF Onwards, Gone
  <2> QED
    BY <1>1, <2>1 DEF InHand, ToEnd
<1>7. Answerable(q)'
  <2>1. request[q].pc' # "refused"
    BY <1>1 DEF Running
  <2> QED
    BY <1>1, <1>2, <2>1 DEF Answerable
<1> QED
  BY <1>1, <1>3, <1>4, <1>5, <1>6, <1>7 DEF InHand

\* The statement that is done has found what it asks for.
Finds(r) ==
    LET h == Head(request[r].left)
    IN  /\ h.does \in Guards /\ h.for \subseteq Entitled(Route(r)) => HeldEntitled(r)
        /\ h.does \in {"check", "insert", "update"} => RoleFor(Target(r))' # "none"
        /\ h.does = "check" => ~Hopeless(Target(r))
        /\ h.does \notin {"delete", "found"} => role' = role
        /\ h.does # "delete" /\ RoleFor(Target(r)) # "none" => RoleFor(Target(r))' # "none"
        /\ h.does = "key" => row[Target(r)] = "live"
        /\ h.does \in {"delete", "revoke"} => Gone(Target(r))'

\* A request whose next statement does something is entitled to it.
LEMMA Due ==
    ASSUME TTypes, NEW r \in Request, Running(r), InHand(r), request[r].left # <<>>,
           LET h == Head(request[r].left)
           IN  h.does \in Guards /\ h.for \subseteq Entitled(Route(r)) => HeldEntitled(r),
           Head(request[r].left).does \in Doing, Route(r) \notin Unguarded
    PROVE  HeldEntitled(r)
<1> DEFINE s == request[r].left
<1>1. s \in Seq(StatementType)
  BY RequestParts
<1>2. HeldEntitled(r) \/ AsksFirst(Route(r), s)
  BY DEF InHand, Permitted, Left
<1> HIDE DEF s
<1>3. CASE AsksFirst(Route(r), s)
  <2>1. Head(s).does \in {"insert", "update"} /\ Head(s).for \subseteq Entitled(Route(r))
    BY <1>1, <1>3, TailAsks DEF s
  <2> QED
    BY <2>1 DEF s, Guards
<1> QED
  BY <1>2, <1>3

LEMMA HasGone ==
    ASSUME TTypes, NEW r \in Request, Running(r), InHand(r), Answerable(r),
           request[r].left # <<>>, GoesOn(r), Finds(r), Rows, Onwards(Target(r))
    PROVE  Running(r)' /\ InHand(r)' /\ Answerable(r)'
<1> DEFINE s == request[r].left
           t == Tail(s)
           x == Target(r)
<1>1. /\ s \in Seq(StatementType) /\ s # <<>> /\ x \in Row /\ Route(r) \in Routes
      /\ request[r].did \in BOOLEAN /\ request[r].found \in BOOLEAN
  BY RequestParts
<1>2. /\ t \in Seq(StatementType) /\ Len(t) = Len(s) - 1 /\ Len(s) \in Nat \ {0} /\ Len(t) \in Nat
      /\ Head(s) = s[1] /\ 1 \in 1..Len(s)
  BY <1>1, Tails
<1>3. \A i \in 1..Len(t) : t[i] = s[i + 1] /\ i + 1 \in 1..Len(s)
  BY <1>1, Tails
<1>4. /\ Running(r)' /\ Target(r)' = x /\ Left(r)' = t /\ Route(r)' = Route(r)
      /\ request[r].did' = (request[r].did \/ Head(s).does \in Doing)
      /\ request[r].dead' = request[r].dead
      /\ request[r].held' = request[r].held /\ request[r].cut' = request[r].cut
      /\ HeldEntitled(r)' = HeldEntitled(r)
  BY DEF GoesOn, Running, Target, Left, Route, HeldEntitled
<1>5. request[r].found' = IF Head(s).does = "find" THEN RoleFor(x) # "none" ELSE request[r].found
  BY DEF GoesOn
<1>6. Left(r) = s
  BY DEF Left
<1>7. /\ Hopeless(x) => Hopeless(x)'
      /\ Gone(x) => Gone(x)'
      /\ row[x] # "none" => row'[x] # "none"
  BY DEF Onwards
<1> HIDE DEF s, t, x
<1>8. Permitted(r)'
  <2>1. WellOrdered(Route(r), t)
    BY <1>1, <1>6, TailOrdered DEF InHand, Permitted, t
  <2>2. request[r].did' => \A i \in 1..Len(t) : t[i].does \in Calm
    <3>1. CASE request[r].did
      <4>1. \A i \in 1..Len(s) : s[i].does \in Calm
        BY <1>6, <3>1 DEF InHand, Permitted
      <4> QED
        BY <1>3, <4>1
    <3>2. CASE Head(s).does \in Doing
      BY <1>1, <1>6, <3>2, TailOrdered DEF InHand, Permitted, t
    <3> QED
      BY <1>4, <3>1, <3>2
  <2>3. ~request[r].did' => role[Organization(x)]' \in request[r].held'
    <3>1. SUFFICES ASSUME ~request[r].did'
                   PROVE  role'[Organization(x)] \in request[r].held'
      <4>1. x' = x
        BY <1>4 DEF x
      <4> QED
        BY <4>1 DEF Organization
    <3>2. ~request[r].did /\ Head(s).does \notin Doing
      BY <1>4, <3>1
    <3>3. role[Organization(x)] \in request[r].held
      BY <3>2 DEF InHand, Permitted, x
    <3>4. role' = role
      BY <3>2 DEF Finds, Doing, s
    <3> QED
      BY <1>4, <3>3, <3>4
  <2>4. Route(r) \notin Unguarded => HeldEntitled(r) \/ AsksFirst(Route(r), t)
    <3>1. SUFFICES ASSUME AsksFirst(Route(r), s), ~AsksFirst(Route(r), t)
                   PROVE  HeldEntitled(r)
      BY <1>6 DEF InHand, Permitted
    <3>2. Head(s).does \in {"check", "choose"} /\ Head(s).for \subseteq Entitled(Route(r))
      BY <1>1, <3>1, TailAsks DEF t
    <3> QED
      BY <3>2 DEF Finds, Guards, s
  <2>5. x' = x
    BY <1>4 DEF x
  <2> QED
    BY <1>4, <2>1, <2>2, <2>3, <2>4, <2>5 DEF Permitted, x
<1>9. Traced(r)'
  <2>1. ASSUME NEW i \in 1..Len(t), t[i].does = "audit", t[i].for = {}
        PROVE  \/ request[r].found' \/ request[r].cut'
               \/ \E j \in 1..i - 1 : t[j].does = "find"
               \/ Hopeless(x)' /\ \E j \in 1..i - 1 : t[j].does = "check"
    <3>1. i + 1 \in 1..Len(s) /\ s[i + 1].does = "audit" /\ s[i + 1].for = {}
      BY <1>3, <2>1
    <3>2. CASE Head(s).does = "find"
      <4>1. request[r].found' = (RoleFor(x) # "none")
        BY <1>5, <3>2
      <4>2. \/ request[r].cut \/ RoleFor(x) # "none"
            \/ \E j \in 1..1 - 1 : s[j].does \in {"check", "insert", "update"}
            \/ row[x] # "none" /\ \E j \in 1 + 1 .. Len(s) : s[j].does = "check"
        BY <1>2, <1>6, <3>2 DEF InHand, Traced, x
      <4>3. ASSUME RoleFor(x) = "none", row[x] # "none",
                   NEW j \in 1 + 1 .. Len(s), s[j].does = "check"
            PROVE  Hopeless(x)' /\ \E k \in 1..i - 1 : t[k].does = "check"
        <5>1. Hopeless(x)
          <6>1. CASE There(x)
            <7>1. There(Organization(x))
              BY <1>1, <6>1, AllThere, AboveFacts
            <7> QED
              BY <4>3, <6>1, <7>1 DEF Hopeless, RoleFor, There
          <6>2. CASE ~There(x)
            <7>1. row[x] \in {"none", "live", "revoked", "expired", "deleted"}
              BY <1>1 DEF TTypes
            <7> QED
              BY <4>3, <6>2, <7>1 DEF Hopeless, There
          <6> QED
            BY <6>1, <6>2
        <5>2. i + 1 = Len(s)
          BY <3>1, <1>6 DEF InHand, Permitted, WellOrdered
        <5>3. j # i + 1
          BY <3>1, <4>3
        <5>4. j - 1 \in 1..i - 1 /\ j - 1 \in 1..Len(t) /\ (j - 1) + 1 = j
          BY <1>2, <5>2, <5>3
        <5>5. t[j - 1].does = "check"
          BY <1>3, <4>3, <5>4
        <5> QED
          BY <1>7, <5>1, <5>4, <5>5
      <4>4. ~\E j \in 1..1 - 1 : TRUE
        OBVIOUS
      <4> QED
        BY <1>4, <4>1, <4>2, <4>3, <4>4
    <3>3. CASE Head(s).does # "find"
      <4>1. request[r].found' = request[r].found
        BY <1>5, <3>3
      <4>2. \/ request[r].found \/ request[r].cut
            \/ \E j \in 1..i + 1 - 1 : s[j].does \in {"find"}
            \/ Hopeless(x) /\ \E j \in 1..i + 1 - 1 : s[j].does \in {"check"}
        <5>1. \/ request[r].found \/ request[r].cut
              \/ \E j \in 1..i + 1 - 1 : s[j].does = "find"
              \/ Hopeless(x) /\ \E j \in 1..i + 1 - 1 : s[j].does = "check"
          <6>1. Traced(r)
            BY DEF InHand
          <6>2. \A k \in 1..Len(s) : s[k].does = "audit" /\ s[k].for = {} =>
                    \/ request[r].found \/ request[r].cut
                    \/ \E j \in 1..k - 1 : s[j].does = "find"
                    \/ Hopeless(x) /\ \E j \in 1..k - 1 : s[j].does = "check"
            BY <1>6, <6>1 DEF Traced, x
          <6> QED
            BY <3>1, <6>2
        <5> QED
          BY <5>1
      <4>3. (\E j \in 1..i + 1 - 1 : s[j].does \in {"find"}) =>
                Head(s).does \in {"find"} \/ \E j \in 1..i - 1 : t[j].does \in {"find"}
        BY <1>1, Shifts DEF t
      <4>4. (\E j \in 1..i + 1 - 1 : s[j].does \in {"check"}) =>
                Head(s).does \in {"check"} \/ \E j \in 1..i - 1 : t[j].does \in {"check"}
        BY <1>1, Shifts DEF t
      <4>5. Head(s).does = "check" => ~Hopeless(x)
        BY DEF Finds, s, x
      <4> QED
        BY <1>4, <1>7, <3>3, <4>1, <4>2, <4>3, <4>4, <4>5
    <3> QED
      BY <3>2, <3>3
  <2>2. ASSUME NEW i \in 1..Len(t), t[i].does = "find"
        PROVE  \/ request[r].cut' \/ RoleFor(x)' # "none"
               \/ \E j \in 1..i - 1 : t[j].does \in {"check", "insert", "update"}
               \/ row'[x] # "none" /\ \E j \in i + 1 .. Len(t) : t[j].does = "check"
    <3>1. i + 1 \in 1..Len(s) /\ s[i + 1].does = "find"
      BY <1>3, <2>2
    <3>2. \/ request[r].cut \/ RoleFor(x) # "none"
          \/ \E j \in 1..i + 1 - 1 : s[j].does \in {"check", "insert", "update"}
          \/ row[x] # "none" /\ \E j \in i + 1 + 1 .. Len(s) : s[j].does \in {"check"}
      BY <1>6, <3>1 DEF InHand, Traced, x
    <3>3. (\E j \in 1..i + 1 - 1 : s[j].does \in {"check", "insert", "update"}) =>
              \/ Head(s).does \in {"check", "insert", "update"}
              \/ \E j \in 1..i - 1 : t[j].does \in {"check", "insert", "update"}
      BY <1>1, Shifts DEF t
    <3>4. (\E j \in i + 1 + 1 .. Len(s) : s[j].does \in {"check"}) =>
              \E j \in i + 1 .. Len(t) : t[j].does \in {"check"}
      BY <1>1, Shifts DEF t
    <3>5. Head(s).does \in {"check", "insert", "update"} => RoleFor(x)' # "none"
      BY DEF Finds, s, x
    <3>6. RoleFor(x) # "none" => RoleFor(x)' # "none"
      <4>1. Head(s).does # "delete"
        <5>1. i + 1 \in 1 + 1 .. Len(s)
          BY <1>2
        <5> QED
          BY <1>2, <1>6, <3>1, <5>1 DEF InHand, Permitted, WellOrdered
      <4> QED
        BY <4>1 DEF Finds, s, x
    <3> QED
      BY <1>4, <1>7, <3>2, <3>3, <3>4, <3>5, <3>6
  <2>3. x' = x /\ row[x]' = row'[x]
    BY <1>4 DEF x
  <2> QED
    BY <1>4, <2>1, <2>2, <2>3 DEF Traced, x
<1>10. Doomed(r)'
  <2>1. SUFFICES ASSUME request[r].dead, NEW i \in 1..Len(t), t[i].does = "store"
                 PROVE  FALSE
    BY <1>4 DEF Doomed
  <2>2. s[1].does = "key" /\ row[x] \notin {"none", "live"}
    BY <1>3, <1>6, <2>1 DEF InHand, Doomed, x
  <2> QED
    BY <1>2, <2>2 DEF Finds, s, x
<1>11. ToEnd(r)'
  <2>1. SUFFICES ASSUME Route(r) \in Endings, ~Gone(x)'
                 PROVE  \E i \in 1..Len(t) : t[i].does \in {"delete", "revoke"}
    <3>1. x' = x
      BY <1>4 DEF x
    <3> QED
      BY <1>4, <3>1 DEF ToEnd, x
  <2>2. PICK i \in 1..Len(s) : s[i].does \in {"delete", "revoke"}
    BY <1>6, <1>7, <2>1 DEF InHand, ToEnd, x
  <2>3. i # 1
    BY <1>2, <2>1, <2>2 DEF Finds, s, x
  <2>4. i - 1 \in 1..Len(t) /\ (i - 1) + 1 = i
    BY <1>2, <2>3
  <2> QED
    BY <1>3, <2>2, <2>4
<1>12. Answerable(r)'
  <2>1. request[r].did' /\ Route(r) \notin Unguarded => HeldEntitled(r)
    <3>1. CASE request[r].did
      BY <3>1 DEF Answerable
    <3>2. CASE Head(s).does \in Doing
      BY <3>2, Due DEF Finds, s
    <3> QED
      BY <1>4, <3>1, <3>2
  <2>2. request[r].pc' # "refused"
    BY <1>4 DEF Running
  <2> QED
    BY <1>4, <2>1, <2>2 DEF Answerable
<1> QED
  BY <1>4, <1>8, <1>9, <1>10, <1>11, <1>12 DEF InHand

-----------------------------------------------------------------------------
(* What becomes of the requests in a step, and why the invariant is kept. *)

Proceeds(q) == Running(q) /\ request[q].left # <<>> /\ GoesOn(q) /\ Finds(q)
Settles(q) ==
    /\ Running(q) /\ ~Running(q)' /\ Answerable(q)'
    /\ request'[q].pc # "none" /\ request'[q].dead = request[q].dead
    /\ request[q].cut => request'[q].cut
Arrives(q) == request[q].pc = "none" /\ Running(q)' /\ InHand(q)' /\ Answerable(q)'
Fate(q) == (Learns(q) /\ Sees(q)) \/ Proceeds(q) \/ Settles(q) \/ Arrives(q)

LEMMA AllKept ==
    ASSUME TInv, TTypes',
           \A q \in Request : Fate(q),
           \A x \in Row : Onwards(x) /\ (There(x)' => There(Parent[x])'),
           \A x \in acked' : x \in acked \/ Gone(x)',
           \A entry \in audited' : \/ entry \in audited
                                   \/ /\ request'[entry.by].pc # "none"
                                      /\ ~entry.known => request'[entry.by].cut,
           \A q \in stored' : q \in stored \/ (request'[q].pc # "none" /\ ~request'[q].dead)
    PROVE  TInv'
<1>1. Rows'
  <2>1. \A x \in acked : Gone(x)'
    BY DEF TInv, TTypes, Rows, Onwards
  <2>2. \A x \in acked' : Gone(x)'
    BY <2>1
  <2> QED
    BY <2>2 DEF Rows
<1>2. ASSUME NEW q \in Request
      PROVE  Answerable(q)' /\ (Running(q)' => InHand(q)')
  <2>1. TTypes /\ Rows /\ Answerable(q) /\ (Running(q) => InHand(q))
    BY DEF TInv
  <2>2. CASE Learns(q) /\ Sees(q)
    <3>1. CASE Running(q)
      <4>1. Onwards(Target(q))
        BY <2>1, <3>1, RequestParts
      <4> QED
        BY <2>1, <2>2, <3>1, <4>1, Learned
    <3>2. CASE ~Running(q)
      <4>1. ~Running(q)'
        BY <2>2, <3>2 DEF Learns, Running
      <4>2. Answerable(q)'
        BY <2>1, <2>2 DEF Learns, Answerable, HeldEntitled, Route
      <4> QED
        BY <4>1, <4>2
    <3> QED
      BY <3>1, <3>2
  <2>3. CASE Proceeds(q)
    <3>1. Onwards(Target(q))
      BY <2>1, <2>3, RequestParts DEF Proceeds
    <3> QED
      BY <2>1, <2>3, <3>1, HasGone DEF Proceeds
  <2>4. CASE Settles(q) \/ Arrives(q)
    BY <2>4 DEF Settles, Arrives
  <2> QED
    BY <2>2, <2>3, <2>4 DEF Fate
<1>3. \A q \in Request : request[q].pc # "none" => /\ request'[q].pc # "none"
                                                   /\ request'[q].dead = request[q].dead
                                                   /\ request[q].cut => request'[q].cut
  BY DEF Fate, Learns, Proceeds, GoesOn, Settles, Arrives
<1>4. Entries'
  <2>1. ASSUME NEW entry \in audited
        PROVE  /\ request'[entry.by].pc # "none"
               /\ ~entry.known => request'[entry.by].cut
    <3>1. entry.by \in Request
      BY DEF TInv, TTypes
    <3>2. request[entry.by].pc # "none" /\ (~entry.known => request[entry.by].cut)
      BY DEF TInv, Entries
    <3> QED
      BY <1>3, <3>1, <3>2
  <2>2. ASSUME NEW q \in stored
        PROVE  request'[q].pc # "none" /\ ~request'[q].dead
    <3>1. q \in Request /\ request[q].pc # "none" /\ ~request[q].dead
      BY DEF TInv, TTypes, Entries
    <3> QED
      BY <1>3, <3>1
  <2>3. \A entry \in audited' : /\ request'[entry.by].pc # "none"
                                /\ ~entry.known => request'[entry.by].cut
    BY <2>1
  <2>4. \A q \in stored' : request'[q].pc # "none" /\ ~request'[q].dead
    BY <2>2
  <2> QED
    BY <2>3, <2>4 DEF Entries
<1> QED
  BY <1>1, <1>2, <1>4 DEF TInv

\* Where only one request steps, the others neither learn nor lose anything.
LEMMA OneKept ==
    ASSUME TInv, TTypes', NEW r \in Request, Else(r), Fate(r), row' = row, role' = role,
           \A x \in acked' : x \in acked \/ Gone(x)',
           \A entry \in audited' : \/ entry \in audited
                                   \/ /\ request'[entry.by].pc # "none"
                                      /\ ~entry.known => request'[entry.by].cut,
           \A q \in stored' : q \in stored \/ (request'[q].pc # "none" /\ ~request'[q].dead)
    PROVE  TInv'
<1>1. \A x \in Row : /\ There(x)' = There(x) /\ Gone(x)' = Gone(x) /\ Hopeless(x)' = Hopeless(x)
                     /\ RoleFor(x)' = RoleFor(x)
  BY DEF There, Gone, Hopeless, RoleFor
<1>2. \A x \in Row : Onwards(x)
  BY <1>1 DEF Onwards
<1>3. \A x \in Row : There(x)' => There(Parent[x])'
  BY DEF There, TInv, Rows
<1>4. ASSUME NEW q \in Request, q # r
      PROVE  Fate(q)
  <2>1. request'[q] = request[q]
    BY <1>4 DEF Else
  <2>2. Learns(q)
    BY <2>1 DEF Learns
  <2>3. Sees(q)
    <3>1. SUFFICES ASSUME Running(q)
                   PROVE  /\ ~request[q].did => role'[Organization(Target(q))] \in request'[q].held
                          /\ RoleFor(Target(q)) # "none" => RoleFor(Target(q))' # "none"
      BY DEF Sees
    <3>2. ~request[q].did => role[Organization(Target(q))] \in request[q].held
      BY <3>1 DEF TInv, InHand, Permitted
    <3>3. RoleFor(Target(q))' = RoleFor(Target(q))
      BY <2>1 DEF RoleFor, There, Target
    <3> QED
      BY <2>1, <3>2, <3>3
  <2> QED
    BY <2>2, <2>3 DEF Fate
<1> QED
  BY <1>2, <1>3, <1>4, AllKept

LEMMA PlainKept ==
    ASSUME TInv, TTypes', NEW r \in Request, Else(r), Fate(r), row' = row, role' = role,
           acked' = acked, audited' = audited, stored' \subseteq stored
    PROVE  TInv'
<1>1. \A x \in acked' : x \in acked \/ Gone(x)'
  OBVIOUS
<1>2. \A entry \in audited' : \/ entry \in audited
                              \/ /\ request'[entry.by].pc # "none"
                                 /\ ~entry.known => request'[entry.by].cut
  OBVIOUS
<1>3. \A q \in stored' : q \in stored \/ (request'[q].pc # "none" /\ ~request'[q].dead)
  BY Zenon
<1> QED
  BY <1>1, <1>2, <1>3, OneKept

-----------------------------------------------------------------------------
(* What the statements write. *)

Typed ==
    /\ request' \in [Request -> RequestType]
    /\ \A q \in Request : request'[q].pc # "none" => request'[q].op \in Question

LEMMA Writes ==
    ASSUME TTypes, NEW r \in Request, Running(r), NEW new \in RequestType,
           new.op = request[r].op, request' = [request EXCEPT ![r] = new]
    PROVE  Typed /\ Else(r) /\ request'[r] = new
<1>1. request \in [Request -> RequestType]
  BY DEF TTypes
<1>2. request' \in [Request -> RequestType] /\ Else(r) /\ request'[r] = new
  BY <1>1 DEF Else
<1>3. request[r].op \in Question
  BY RequestParts
<1>4. \A q \in Request : request'[q].pc # "none" => request'[q].op \in Question
  BY <1>2, <1>3 DEF Else, TTypes
<1> QED
  BY <1>2, <1>4 DEF Typed

LEMMA Written ==
    ASSUME TTypes, NEW r \in Request, Running(r), request[r].left # <<>>
    PROVE  LET h == Head(request[r].left).does
           IN  /\ request' = Onward(r) =>
                     Typed /\ Else(r) /\ (h \notin Doing \cup {"find"} => GoesOn(r))
               /\ \A e \in Row : request' = In(r, e) =>
                     Typed /\ Else(r) /\ (h \notin Doing \cup {"find"} => GoesOn(r))
               /\ request' = Did(r) => Typed /\ Else(r) /\ (h \in Doing => GoesOn(r))
               /\ \A e \in Row :
                     request' = [request EXCEPT ![r] = [Done(r) EXCEPT !.environment = {e}]] =>
                         Typed /\ Else(r) /\ (h \in Doing => GoesOn(r))
               /\ request' = [request EXCEPT ![r] = [Done(r) EXCEPT !.pc = "refused"]] =>
                     /\ Typed /\ Else(r) /\ request'[r].pc = "refused"
                     /\ request'[r].op = request[r].op /\ request'[r].dead = request[r].dead
                     /\ request'[r].held = request[r].held /\ request'[r].cut = request[r].cut
               /\ request' = [request EXCEPT ![r] =
                                 [Passed(r) EXCEPT !.found = RoleFor(Target(r)) # "none"]] =>
                     Typed /\ Else(r) /\ (h = "find" => GoesOn(r))
<1>1. request[r] \in RequestType /\ "find" \notin Doing /\ request[r].pc = "running"
  BY DEF TTypes, Doing, Running
<1> DEFINE h == Head(request[r].left).does
<1> HIDE DEF h
<1>2. ASSUME request' = Onward(r)
      PROVE  Typed /\ Else(r) /\ (h \notin Doing \cup {"find"} => GoesOn(r))
  <2>1. Passed(r) \in RequestType /\ Passed(r).op = request[r].op
    <3>1. Passed(r) \in RequestType
      BY Records
    <3>2. Passed(r).op = request[r].op
      BY <1>1 DEF Passed, RequestType
    <3> QED
      BY <3>1, <3>2
  <2>2. Typed /\ Else(r) /\ request'[r] = Passed(r)
    BY <1>2, <2>1, Writes DEF Onward
  <2> QED
    BY <1>1, <2>2 DEF GoesOn, Passed, RequestType, h
<1>3. ASSUME NEW e \in Row, request' = In(r, e)
      PROVE  Typed /\ Else(r) /\ (h \notin Doing \cup {"find"} => GoesOn(r))
  <2> DEFINE new == [Passed(r) EXCEPT !.environment = {e}]
  <2>1. new \in RequestType /\ new.op = request[r].op
    <3>1. new \in RequestType
      BY Records
    <3>2. new.op = request[r].op
      BY <1>1 DEF Passed, RequestType
    <3> QED
      BY <3>1, <3>2
  <2>2. Typed /\ Else(r) /\ request'[r] = new
    BY <1>3, <2>1, Writes DEF In
  <2> QED
    BY <1>1, <2>2 DEF GoesOn, Passed, RequestType, h
<1>4. ASSUME request' = Did(r)
      PROVE  Typed /\ Else(r) /\ (h \in Doing => GoesOn(r))
  <2>1. Done(r) \in RequestType /\ Done(r).op = request[r].op
    <3>1. Done(r) \in RequestType
      BY Records
    <3>2. Done(r).op = request[r].op
      BY <1>1 DEF Done, Passed, RequestType
    <3> QED
      BY <3>1, <3>2
  <2>2. Typed /\ Else(r) /\ request'[r] = Done(r)
    BY <1>4, <2>1, Writes DEF Did
  <2> QED
    BY <1>1, <2>2 DEF GoesOn, Done, Passed, RequestType, h
<1>5. ASSUME NEW e \in Row, request' = [request EXCEPT ![r] = [Done(r) EXCEPT !.environment = {e}]]
      PROVE  Typed /\ Else(r) /\ (h \in Doing => GoesOn(r))
  <2> DEFINE new == [Done(r) EXCEPT !.environment = {e}]
  <2>1. new \in RequestType /\ new.op = request[r].op
    <3>1. new \in RequestType
      BY Records
    <3>2. new.op = request[r].op
      BY <1>1 DEF Done, Passed, RequestType
    <3> QED
      BY <3>1, <3>2
  <2>2. Typed /\ Else(r) /\ request'[r] = new
    BY <1>5, <2>1, Writes
  <2> QED
    BY <1>1, <2>2 DEF GoesOn, Done, Passed, RequestType, h
<1>6. ASSUME request' = [request EXCEPT ![r] = [Done(r) EXCEPT !.pc = "refused"]]
      PROVE  /\ Typed /\ Else(r) /\ request'[r].pc = "refused"
             /\ request'[r].op = request[r].op /\ request'[r].dead = request[r].dead
             /\ request'[r].held = request[r].held /\ request'[r].cut = request[r].cut
  <2> DEFINE new == [Done(r) EXCEPT !.pc = "refused"]
  <2>1. new \in RequestType /\ new.op = request[r].op
    <3>1. new \in RequestType
      BY Records
    <3>2. new.op = request[r].op
      BY <1>1 DEF Done, Passed, RequestType
    <3> QED
      BY <3>1, <3>2
  <2>2. Typed /\ Else(r) /\ request'[r] = new
    BY <1>6, <2>1, Writes
  <2> QED
    BY <1>1, <2>2 DEF Done, Passed, RequestType
<1>7. ASSUME request' = [request EXCEPT ![r] =
                             [Passed(r) EXCEPT !.found = RoleFor(Target(r)) # "none"]]
      PROVE  Typed /\ Else(r) /\ (h = "find" => GoesOn(r))
  <2> DEFINE new == [Passed(r) EXCEPT !.found = RoleFor(Target(r)) # "none"]
  <2>1. new \in RequestType /\ new.op = request[r].op
    <3>1. new \in RequestType
      BY Records
    <3>2. new.op = request[r].op
      BY <1>1 DEF Passed, RequestType
    <3> QED
      BY <3>1, <3>2
  <2>2. Typed /\ Else(r) /\ request'[r] = new
    BY <1>7, <2>1, Writes
  <2> QED
    BY <1>1, <2>2 DEF GoesOn, Passed, RequestType, h
<1> QED
  BY <1>2, <1>3, <1>4, <1>5, <1>6, <1>7 DEF h

LEMMA Stopped ==
    ASSUME TTypes, NEW r \in Request, Running(r), NEW pc \in {"replied", "refused", "failed"},
           request' = Ended(r, pc)
    PROVE  Typed /\ Else(r) /\ Stops(r, pc)
<1>1. request \in [Request -> RequestType] /\ request[r] \in RequestType
  BY DEF TTypes
<1>2. [request[r] EXCEPT !.pc = pc] \in RequestType
  BY <1>1 DEF RequestType
<1>3. [request[r] EXCEPT !.pc = pc].op = request[r].op
  BY <1>1 DEF RequestType
<1>4. request' = [request EXCEPT ![r] = [request[r] EXCEPT !.pc = pc]]
  BY <1>1 DEF Ended
<1>5. Typed /\ Else(r) /\ request'[r] = [request[r] EXCEPT !.pc = pc]
  BY <1>2, <1>3, <1>4, Writes
<1> QED
  BY <1>1, <1>5 DEF Stops, RequestType

\* A request that stops has ended as it should, if it is not refused after it has done something.
LEMMA StopsWell ==
    ASSUME TTypes, NEW r \in Request, Running(r), Answerable(r),
           NEW pc \in {"replied", "refused", "failed"}, Stops(r, pc),
           pc = "refused" => ~request[r].did
    PROVE  Settles(r)
<1>1. /\ ~Running(r)' /\ request'[r].pc = pc /\ request[r].did' = request[r].did
      /\ Route(r)' = Route(r) /\ HeldEntitled(r)' = HeldEntitled(r)
  BY DEF Stops, Running, Route, HeldEntitled
<1>2. Answerable(r)'
  BY <1>1 DEF Answerable
<1> QED
  BY <1>1, <1>2 DEF Settles, Stops

\* A statement that may refuse is not one that comes after something was done.
LEMMA NothingDone ==
    ASSUME TTypes, NEW r \in Request, Running(r), InHand(r), request[r].left # <<>>,
           Head(request[r].left).does \notin Calm
    PROVE  ~request[r].did
<1>1. request[r].left \in Seq(StatementType)
  BY RequestParts
<1>2. Head(request[r].left) = request[r].left[1] /\ 1 \in 1..Len(request[r].left)
  BY <1>1, Tails
<1> QED
  BY <1>2 DEF InHand, Permitted, Left

\* What the user was found to have a role for: by a statement that asks for it, before anything
\* was done.
LEMMA Asked1 ==
    ASSUME TTypes, NEW r \in Request, Running(r), InHand(r), request[r].left # <<>>,
           LET h == Head(request[r].left)
           IN  h.does \in Guards /\ role[Organization(Target(r))] \in h.for
    PROVE  LET h == Head(request[r].left)
           IN  /\ role[Organization(Target(r))] # "none"
               /\ h.for \subseteq Entitled(Route(r)) => HeldEntitled(r)
<1> DEFINE h == Head(request[r].left)
           now == role[Organization(Target(r))]
<1>1. request[r].left \in Seq(StatementType)
  BY RequestParts
<1>2. h = request[r].left[1] /\ 1 \in 1..Len(request[r].left)
  BY <1>1, Tails
<1>3. h.for \subseteq Members
  BY <1>2 DEF InHand, Permitted, Left, WellOrdered
<1>4. ~request[r].did
  <2>1. h.does \notin Calm
    BY DEF Guards, Calm
  <2> QED
    BY <2>1, NothingDone
<1>5. now \in request[r].held
  BY <1>4 DEF InHand, Permitted
<1>6. now # "none"
  BY <1>3, Roles
<1> QED
  BY <1>5, <1>6 DEF HeldEntitled

\* The world as others change it: the requests that run take note.
LEMMA Notes ==
    ASSUME TTypes, NEW base \in [Request -> RequestType], NEW by, NEW gone \in SUBSET Row,
           \A q \in Request : q # by => base[q] = request[q],
           role' \in [Organizations -> Members \cup {"none"}],
           request' = Noted(base, by, role', gone)
    PROVE  /\ request' \in [Request -> RequestType]
           /\ by \in Request => request'[by] = base[by]
           /\ \A q \in Request : q # by =>
                 /\ Learns(q)
                 /\ Running(q) =>
                       /\ role'[Organization(Target(q))] \in request'[q].held
                       /\ \/ role'[Organization(Target(q))] = "none"
                          \/ Above(Target(q)) \cap gone # {}
                          => request'[q].cut
<1> DEFINE Now(q) == role'[Organization(base[q].op.row)]
           Lost(q) == Now(q) = "none" \/ Above(base[q].op.row) \cap gone # {}
           Note(q) == [base[q] EXCEPT !.held = @ \cup {Now(q)}, !.cut = @ \/ Lost(q)]
<1>1. request' = [q \in Request |-> IF q = by \/ base[q].pc # "running" THEN base[q] ELSE Note(q)]
  BY DEF Noted
<1>2. ASSUME NEW q \in Request, q # by, base[q].pc = "running"
      PROVE  /\ Note(q) \in RequestType
             /\ Now(q) \in Note(q).held /\ (Lost(q) => Note(q).cut)
             /\ Note(q).pc = base[q].pc /\ Note(q).op = base[q].op /\ Note(q).left = base[q].left
             /\ Note(q).dead = base[q].dead /\ Note(q).found = base[q].found
             /\ Note(q).did = base[q].did
             /\ base[q].held \subseteq Note(q).held /\ (base[q].cut => Note(q).cut)
  <2>1. base[q] \in RequestType
    OBVIOUS
  <2>2. Now(q) \in Members \cup {"none"}
    <3>1. base[q].op \in Question
      BY <1>2 DEF TTypes
    <3>2. base[q].op.row \in Row
      BY <3>1 DEF Question
    <3>3. Organization(base[q].op.row) \in Organizations
      BY <3>2, AboveFacts
    <3> QED
      BY <3>3
  <2>3. (base[q].cut \/ Lost(q)) \in BOOLEAN
    OBVIOUS
  <2> HIDE DEF Now, Lost
  <2> QED
    BY <2>1, <2>2, <2>3 DEF RequestType
<1>3. request' \in [Request -> RequestType]
  <2> HIDE DEF Note
  <2> QED
    BY <1>1, <1>2
<1>4. by \in Request => request'[by] = base[by]
  BY <1>1
<1>5. ASSUME NEW q \in Request, q # by
      PROVE  /\ Learns(q)
             /\ Running(q) =>
                   /\ role'[Organization(Target(q))] \in request'[q].held
                   /\ role'[Organization(Target(q))] = "none" \/ Above(Target(q)) \cap gone # {} =>
                         request'[q].cut
  <2>1. base[q] = request[q]
    BY <1>5
  <2>2. CASE request[q].pc # "running"
    <3>1. request'[q] = request[q] /\ ~Running(q)
      BY <1>1, <1>5, <2>1, <2>2 DEF Running
    <3> QED
      BY <3>1 DEF Learns
  <2>3. CASE request[q].pc = "running"
    <3>1. request'[q] = Note(q)
      BY <1>1, <1>5, <2>1, <2>3
    <3>2. Now(q) = role'[Organization(Target(q))]
      BY <2>1 DEF Target
    <3>3. Lost(q) = (Now(q) = "none" \/ Above(Target(q)) \cap gone # {})
      BY <2>1 DEF Target
    <3> HIDE DEF Note, Lost, Now
    <3>4. /\ Now(q) \in request'[q].held /\ (Lost(q) => request'[q].cut)
          /\ Learns(q)
      BY <1>2, <1>5, <2>1, <2>3, <3>1 DEF Learns
    <3> QED
      BY <3>2, <3>3, <3>4
  <2> QED
    BY <2>2, <2>3
<1> QED
  BY <1>3, <1>4, <1>5

-----------------------------------------------------------------------------
(* The statements keep the invariant. *)

LEMMA AtHand ==
    ASSUME TInv, NEW r \in Request, NEW does, Is(r, does)
    PROVE  /\ TTypes /\ Rows /\ Running(r) /\ InHand(r) /\ Answerable(r)
           /\ request[r].left # <<>> /\ Head(request[r].left).does = does
           /\ Target(r) \in Row /\ request[r].op \in Question
           /\ does \in Guards => For(r) \subseteq Members
           /\ does \notin Calm => ~request[r].did
<1>1. TTypes /\ Rows /\ Running(r) /\ InHand(r) /\ Answerable(r)
  BY DEF TInv, Is
<1>2. request[r].left # <<>> /\ Head(request[r].left).does = does
  BY DEF Is
<1>3. Target(r) \in Row /\ request[r].op \in Question /\ request[r].left \in Seq(StatementType)
  BY <1>1, RequestParts
<1>4. Head(request[r].left) = request[r].left[1] /\ 1 \in 1..Len(request[r].left)
  BY <1>2, <1>3, Tails
<1>5. does \in Guards => For(r) \subseteq Members
  BY <1>1, <1>2, <1>4 DEF InHand, Permitted, Left, WellOrdered, For
<1>6. does \notin Calm => ~request[r].did
  BY <1>1, <1>2, NothingDone
<1> QED
  BY <1>1, <1>2, <1>3, <1>5, <1>6

\* Types, where only the requests change.
LEMMA OnlyRequests ==
    ASSUME TInv, Typed, row' = row, role' = role,
           audited' \subseteq [by : Request, known : BOOLEAN],
           stored' \subseteq Request, acked' \subseteq Row
    PROVE  TTypes'
  BY DEF TInv, TTypes, Typed

\* What is refused, or fails, before anything was done, or fails then.
LEMMA Ending1 ==
    ASSUME TInv, NEW r \in Request, Running(r), NEW pc \in {"refused", "failed"},
           request' = Ended(r, pc), pc = "refused" => ~request[r].did,
           UNCHANGED <<row, role, audited, stored, acked>>
    PROVE  TInv'
<1>1. TTypes /\ Answerable(r)
  BY DEF TInv
<1>2. Typed /\ Else(r) /\ Stops(r, pc)
  BY <1>1, Stopped
<1>3. TTypes'
  BY <1>2, OnlyRequests DEF TInv, TTypes
<1>4. Settles(r)
  BY <1>1, <1>2, StopsWell
<1>5. Fate(r)
  BY <1>4 DEF Fate
<1> QED
  BY <1>2, <1>3, <1>5, PlainKept

\* A statement that neither asks for a role nor ends a row has nothing to find.
LEMMA FindsNothing ==
    ASSUME NEW r \in Request, GoesOn(r), row' = row, role' = role,
           Head(request[r].left).does \in
               {"wipe", "find", "read", "policy", "tick", "store", "audit"}
    PROVE  Finds(r)
<1>1. Target(r)' = Target(r)
  BY DEF GoesOn, Target
<1>2. RoleFor(Target(r))' = RoleFor(Target(r))
  BY <1>1 DEF RoleFor, There
<1> QED
  BY <1>2 DEF Finds, Guards

\* A statement that asks for a role, and finds it.
LEMMA FindsRole ==
    ASSUME TInv, NEW r \in Request, NEW does \in {"check", "choose", "update"}, Is(r, does),
           GoesOn(r), RoleFor(Target(r)) \in For(r), row' = row, role' = role
    PROVE  Finds(r)
<1> DEFINE x == Target(r)
<1>1. /\ TTypes /\ Running(r) /\ InHand(r) /\ request[r].left # <<>>
      /\ Head(request[r].left).does = does /\ For(r) \subseteq Members
  BY AtHand DEF Guards
<1>2. There(x) /\ RoleFor(x) = role[Organization(x)] /\ RoleFor(x) # "none"
  BY <1>1, Roles DEF RoleFor
<1>3. For(r) \subseteq Entitled(Route(r)) => HeldEntitled(r)
  BY <1>1, <1>2, Asked1 DEF For, Guards
<1>4. RoleFor(x)' = RoleFor(x)
  <2>1. x' = x
    BY DEF GoesOn, Target
  <2> QED
    BY <2>1 DEF RoleFor, There
<1>5. ~Hopeless(x)
  BY <1>2 DEF Hopeless, There
<1> QED
  BY <1>1, <1>2, <1>3, <1>4, <1>5 DEF Finds, For

LEMMA CheckKeeps ==
    ASSUME TInv, NEW r \in Request, StatementCheck(r)
    PROVE  TInv'
<1>1. Is(r, "check") /\ UNCHANGED <<row, role, audited, stored, acked>>
  BY DEF StatementCheck
<1>2. /\ TTypes /\ Running(r) /\ request[r].left # <<>> /\ Head(request[r].left).does = "check"
      /\ ~request[r].did
  BY <1>1, AtHand DEF Calm
<1>3. CASE RoleFor(Target(r)) \in For(r)
  <2>1. request' = Onward(r)
    BY <1>3 DEF StatementCheck
  <2>2. Typed /\ Else(r) /\ GoesOn(r)
    BY <1>2, <2>1, Written DEF Doing
  <2>3. TTypes'
    BY <1>1, <2>2, OnlyRequests DEF TInv, TTypes
  <2>4. Finds(r)
    BY <1>1, <1>3, <2>2, FindsRole
  <2>5. Fate(r)
    BY <1>2, <2>2, <2>4 DEF Fate, Proceeds
  <2> QED
    BY <1>1, <2>2, <2>3, <2>5, PlainKept
<1>4. CASE RoleFor(Target(r)) \notin For(r)
  <2>1. request' = Ended(r, "refused")
    BY <1>4 DEF StatementCheck
  <2> QED
    BY <1>1, <1>2, <2>1, Ending1
<1> QED
  BY <1>3, <1>4

LEMMA ChooseKeeps ==
    ASSUME TInv, NEW r \in Request, StatementChoose(r)
    PROVE  TInv'
<1>1. Is(r, "choose") /\ UNCHANGED <<row, role, audited, stored, acked>>
  BY DEF StatementChoose
<1>2. /\ TTypes /\ Running(r) /\ request[r].left # <<>> /\ Head(request[r].left).does = "choose"
      /\ ~request[r].did
  BY <1>1, AtHand DEF Calm
<1>3. ASSUME RoleFor(Target(r)) \in For(r), NEW e \in Row, request' = In(r, e)
      PROVE  TInv'
  <2>1. Typed /\ Else(r) /\ GoesOn(r)
    BY <1>2, <1>3, Written DEF Doing
  <2>2. TTypes'
    BY <1>1, <2>1, OnlyRequests DEF TInv, TTypes
  <2>3. Finds(r)
    BY <1>1, <1>3, <2>1, FindsRole
  <2>4. Fate(r)
    BY <1>2, <2>1, <2>3 DEF Fate, Proceeds
  <2> QED
    BY <1>1, <2>1, <2>2, <2>4, PlainKept
<1>4. CASE request' = Ended(r, "refused")
  BY <1>1, <1>2, <1>4, Ending1
<1> QED
  BY <1>3, <1>4 DEF StatementChoose, Environments

LEMMA UpdateKeeps ==
    ASSUME TInv, NEW r \in Request, StatementUpdate(r)
    PROVE  TInv'
<1>1. Is(r, "update") /\ UNCHANGED <<row, role, audited, stored, acked>>
  BY DEF StatementUpdate
<1>2. /\ TTypes /\ Rows /\ Running(r) /\ InHand(r) /\ Answerable(r) /\ request[r].left # <<>>
      /\ Head(request[r].left).does = "update"
      /\ ~request[r].did /\ Target(r) \in Row /\ request[r].op \in Question
      /\ For(r) \subseteq Members
  BY <1>1, AtHand DEF Calm, Guards
<1>3. ASSUME RoleFor(Target(r)) \in For(r), NEW e \in Row,
             request' = [request EXCEPT ![r] = [Done(r) EXCEPT !.environment = {e}]]
      PROVE  TInv'
  <2>1. Typed /\ Else(r) /\ GoesOn(r)
    BY <1>2, <1>3, Written DEF Doing
  <2>2. TTypes'
    BY <1>1, <2>1, OnlyRequests DEF TInv, TTypes
  <2>3. Finds(r)
    BY <1>1, <1>3, <2>1, FindsRole
  <2>4. Fate(r)
    BY <1>2, <2>1, <2>3 DEF Fate, Proceeds
  <2> QED
    BY <1>1, <2>1, <2>2, <2>4, PlainKept
<1>4. CASE request' = Ended(r, "refused")
  BY <1>1, <1>2, <1>4, Ending1
<1>5. ASSUME RoleFor(Target(r)) \in For(r), Target(r) \in Organizations,
             request' = [request EXCEPT ![r] = [Done(r) EXCEPT !.pc = "refused"]]
      PROVE  TInv'
  <2>1. /\ Typed /\ Else(r) /\ request'[r].pc = "refused"
        /\ request'[r].op = request[r].op /\ request'[r].dead = request[r].dead
        /\ request'[r].held = request[r].held /\ request'[r].cut = request[r].cut
    BY <1>2, <1>5, Written
  <2>2. TTypes'
    BY <1>1, <2>1, OnlyRequests DEF TInv, TTypes
  <2>3. Route(r) = "updateSecurity"
    <3>1. request[r].left \in Seq(StatementType)
      BY <1>2, RequestParts
    <3>2. Head(request[r].left) = request[r].left[1] /\ 1 \in 1..Len(request[r].left)
      BY <1>2, <3>1, Tails
    <3>3. Route(r) \in {"updateSecurity", "updateAllowlist"}
      BY <1>2, <3>2 DEF InHand, Permitted, Left, WellOrdered
    <3>4. Route(r) # "updateAllowlist"
      BY <1>2, <1>5 DEF Question, Route, Target
    <3> QED
      BY <3>3, <3>4
  <2>4. HeldEntitled(r)
    <3>1. RoleFor(Target(r)) = role[Organization(Target(r))]
      BY <1>2, <1>5, Roles DEF RoleFor
    <3>2. For(r) \subseteq Entitled(Route(r)) => HeldEntitled(r)
      BY <1>2, <1>5, <3>1, Asked1 DEF For, Guards
    <3>3. Route(r) \notin Unguarded
      BY <2>3 DEF Unguarded
    <3> QED
      BY <1>2, <3>2, <3>3, Due DEF For, Doing
  <2>5. Settles(r)
    <3>1. Route(r)' = Route(r) /\ HeldEntitled(r)' = HeldEntitled(r)
      BY <2>1 DEF Route, HeldEntitled
    <3>2. Answerable(r)'
      BY <2>3, <2>4, <3>1 DEF Answerable
    <3> QED
      BY <1>2, <2>1, <3>2 DEF Settles, Running
  <2>6. Fate(r)
    BY <2>5 DEF Fate
  <2> QED
    BY <1>1, <2>1, <2>2, <2>6, PlainKept
<1> QED
  <2> DEFINE of == IF Target(r) \in Organizations THEN Environments(Target(r)) ELSE {Target(r)}
  <2>1. \A e \in of : e \in Row
    BY <1>2 DEF Environments
  <2>2. of = {} => Target(r) \in Organizations
    OBVIOUS
  <2> QED
    BY <1>3, <1>4, <1>5, <2>1, <2>2 DEF StatementUpdate

\* The statements that change the requests alone, and ask for no role.
LEMMA SimpleKeeps ==
    ASSUME TInv, NEW r \in Request,
           \/ StatementWipe(r) \/ StatementFind(r) \/ StatementRead(r)
           \/ StatementPolicy(r) \/ StatementTick(r) \/ StatementKey(r)
    PROVE  TInv'
<1>1. ASSUME NEW does \in {"wipe", "find", "read", "policy", "tick", "key"}, Is(r, does)
      PROVE  /\ TTypes /\ Running(r) /\ request[r].left # <<>> /\ Target(r) \in Row
             /\ Head(request[r].left).does = does
             /\ does = "key" => ~request[r].did
  BY <1>1, AtHand DEF Calm
<1>2. ASSUME NEW does \in {"wipe", "find", "read", "policy", "tick", "key"}, Is(r, does),
             Typed, Else(r), GoesOn(r), Finds(r),
             stored' \subseteq stored, UNCHANGED <<row, role, audited, acked>>
      PROVE  TInv'
  <2>1. TTypes'
    BY <1>2, OnlyRequests DEF TInv, TTypes
  <2>2. Fate(r)
    BY <1>1, <1>2 DEF Fate, Proceeds
  <2> QED
    BY <1>2, <2>1, <2>2, PlainKept
<1>3. CASE StatementWipe(r)
  <2>1. /\ Is(r, "wipe") /\ request' = Did(r) /\ stored' \subseteq stored
        /\ UNCHANGED <<row, role, audited, acked>>
    BY <1>3 DEF StatementWipe
  <2>2. Typed /\ Else(r) /\ GoesOn(r)
    BY <1>1, <2>1, Written DEF Doing
  <2>3. Finds(r)
    BY <1>1, <2>1, <2>2, FindsNothing
  <2> QED
    BY <1>2, <2>1, <2>2, <2>3
<1>4. CASE StatementFind(r)
  <2>1. /\ Is(r, "find") /\ UNCHANGED <<row, role, audited, stored, acked>>
        /\ request' = [request EXCEPT ![r] =
                           [Passed(r) EXCEPT !.found = RoleFor(Target(r)) # "none"]]
    BY <1>4 DEF StatementFind
  <2>2. Typed /\ Else(r) /\ GoesOn(r)
    BY <1>1, <2>1, Written
  <2>3. Finds(r)
    BY <1>1, <2>1, <2>2, FindsNothing
  <2> QED
    BY <1>2, <2>1, <2>2, <2>3
<1>5. CASE StatementRead(r)
  <2>1. Is(r, "read") /\ request' = Did(r) /\ UNCHANGED <<row, role, audited, stored, acked>>
    BY <1>5 DEF StatementRead
  <2>2. Typed /\ Else(r) /\ GoesOn(r)
    BY <1>1, <2>1, Written DEF Doing
  <2>3. Finds(r)
    BY <1>1, <2>1, <2>2, FindsNothing
  <2> QED
    BY <1>2, <2>1, <2>2, <2>3
<1>6. CASE StatementPolicy(r)
  <2>1. Is(r, "policy") /\ UNCHANGED <<row, role, audited, stored, acked>>
    BY <1>6 DEF StatementPolicy
  <2>2. CASE request' = Onward(r)
    <3>1. Typed /\ Else(r) /\ GoesOn(r)
      BY <1>1, <2>1, <2>2, Written DEF Doing
    <3>2. Finds(r)
      BY <1>1, <2>1, <3>1, FindsNothing
    <3> QED
      BY <1>2, <2>1, <3>1, <3>2
  <2>3. CASE request' = Ended(r, "failed")
    BY <1>1, <2>1, <2>3, Ending1
  <2> QED
    BY <1>6, <2>2, <2>3 DEF StatementPolicy
<1>7. CASE StatementTick(r)
  <2>1. Is(r, "tick") /\ UNCHANGED <<row, role, audited, stored, acked>>
    BY <1>7 DEF StatementTick
  <2>2. CASE request' = Did(r)
    <3>1. Typed /\ Else(r) /\ GoesOn(r)
      BY <1>1, <2>1, <2>2, Written DEF Doing
    <3>2. Finds(r)
      BY <1>1, <2>1, <3>1, FindsNothing
    <3> QED
      BY <1>2, <2>1, <3>1, <3>2
  <2>3. CASE request' = Ended(r, "failed")
    BY <1>1, <2>1, <2>3, Ending1
  <2> QED
    BY <1>7, <2>2, <2>3 DEF StatementTick
<1>8. CASE StatementKey(r)
  <2>1. Is(r, "key") /\ UNCHANGED <<row, role, audited, stored, acked>>
    BY <1>8 DEF StatementKey
  <2>2. CASE row[Target(r)] = "live" /\ request' = In(r, Parent[Target(r)])
    <3>1. Parent[Target(r)] \in Row
      BY <1>1, <2>1, AboveFacts
    <3>2. Typed /\ Else(r) /\ GoesOn(r)
      BY <1>1, <2>1, <2>2, <3>1, Written DEF Doing
    <3>3. Finds(r)
      <4>1. Target(r)' = Target(r)
        BY <3>2 DEF GoesOn, Target
      <4>2. RoleFor(Target(r))' = RoleFor(Target(r))
        BY <2>1, <4>1 DEF RoleFor, There
      <4> QED
        BY <1>1, <2>1, <2>2, <4>2 DEF Finds, Guards
    <3> QED
      BY <1>2, <2>1, <3>2, <3>3
  <2>3. CASE request' = Ended(r, "refused")
    BY <1>1, <2>1, <2>3, Ending1
  <2> QED
    BY <1>8, <2>2, <2>3 DEF StatementKey, FindActiveApiKey
<1> QED
  BY <1>3, <1>4, <1>5, <1>6, <1>7, <1>8

LEMMA StoreKeeps ==
    ASSUME TInv, NEW r \in Request, StatementStore(r)
    PROVE  TInv'
<1>1. Is(r, "store") /\ UNCHANGED <<row, role, audited, acked>>
  BY DEF StatementStore
<1>2. /\ TTypes /\ Running(r) /\ InHand(r) /\ request[r].left # <<>>
      /\ Head(request[r].left).does = "store"
  BY <1>1, AtHand
<1>3. CASE request' = Ended(r, "failed") /\ stored' = stored
  BY <1>1, <1>2, <1>3, Ending1
<1>4. CASE request' = Did(r) /\ stored' = stored \cup {r}
  <2>1. Typed /\ Else(r) /\ GoesOn(r)
    BY <1>2, <1>4, Written DEF Doing
  <2>2. TTypes'
    BY <1>1, <1>4, <2>1, OnlyRequests DEF TInv, TTypes
  <2>3. Finds(r)
    BY <1>1, <1>2, <2>1, FindsNothing
  <2>4. Fate(r)
    BY <1>2, <2>1, <2>3 DEF Fate, Proceeds
  <2>5. ~request[r].dead
    <3>1. request[r].left \in Seq(StatementType)
      BY <1>2, RequestParts
    <3>2. Head(request[r].left) = request[r].left[1] /\ 1 \in 1..Len(request[r].left)
      BY <1>2, <3>1, Tails
    <3> QED
      BY <1>2, <3>2 DEF InHand, Doomed, Left
  <2>6. request'[r].pc # "none" /\ ~request'[r].dead
    BY <2>1, <2>5 DEF GoesOn
  <2>7. \A q \in stored' : q \in stored \/ (request'[q].pc # "none" /\ ~request'[q].dead)
    BY <1>4, <2>6
  <2>8. /\ \A x \in acked' : x \in acked \/ Gone(x)'
        /\ \A entry \in audited' : \/ entry \in audited
                                   \/ /\ request'[entry.by].pc # "none"
                                      /\ ~entry.known => request'[entry.by].cut
    BY <1>1
  <2> QED
    BY <1>1, <2>1, <2>2, <2>4, <2>7, <2>8, OneKept
<1> QED
  BY <1>3, <1>4 DEF StatementStore

LEMMA AuditKeeps ==
    ASSUME TInv, NEW r \in Request, RecordAudit(r)
    PROVE  TInv'
<1> DEFINE new == [by |-> r, known |-> For(r) # {} \/ request[r].found]
<1>1. /\ Is(r, "audit") /\ UNCHANGED <<row, role, stored, acked>>
      /\ request' = Onward(r) /\ audited' = audited \cup {new}
  BY DEF RecordAudit
<1>2. /\ TTypes /\ Running(r) /\ InHand(r) /\ request[r].left # <<>>
      /\ Head(request[r].left).does = "audit"
  BY <1>1, AtHand
<1>3. Typed /\ Else(r) /\ GoesOn(r)
  BY <1>1, <1>2, Written DEF Doing
<1>4. new.by = r /\ (~new.known => For(r) = {} /\ ~request[r].found)
      /\ new \in [by : Request, known : BOOLEAN]
  OBVIOUS
<1>5. ~new.known => request[r].cut
  <2>1. request[r].left \in Seq(StatementType)
    BY <1>2, RequestParts
  <2>2. Head(request[r].left) = request[r].left[1] /\ 1 \in 1..Len(request[r].left)
    BY <1>2, <2>1, Tails
  <2>3. ~\E j \in 1..1 - 1 : TRUE
    OBVIOUS
  <2> QED
    BY <1>2, <1>4, <2>2, <2>3 DEF InHand, Traced, Left, For
<1>6. request'[r].pc # "none" /\ (~new.known => request'[r].cut)
  BY <1>3, <1>5 DEF GoesOn
<1> HIDE DEF new
<1>7. TTypes'
  <2>1. audited' \subseteq [by : Request, known : BOOLEAN]
    BY <1>1, <1>4 DEF TInv, TTypes
  <2> QED
    BY <1>1, <1>3, <2>1, OnlyRequests DEF TInv, TTypes
<1>8. Finds(r)
  BY <1>1, <1>2, <1>3, FindsNothing
<1>9. Fate(r)
  BY <1>2, <1>3, <1>8 DEF Fate, Proceeds
<1>10. \A entry \in audited' : \/ entry \in audited
                               \/ /\ request'[entry.by].pc # "none"
                                  /\ ~entry.known => request'[entry.by].cut
  BY <1>1, <1>4, <1>6
<1>11. /\ \A x \in acked' : x \in acked \/ Gone(x)'
       /\ \A q \in stored' : q \in stored \/ (request'[q].pc # "none" /\ ~request'[q].dead)
  BY <1>1
<1> QED
  BY <1>1, <1>3, <1>7, <1>9, <1>10, <1>11, OneKept

LEMMA RepliesKeeps ==
    ASSUME TInv, NEW r \in Request, Replies(r)
    PROVE  TInv'
<1>1. /\ Running(r) /\ request[r].left = <<>> /\ request' = Ended(r, "replied")
      /\ UNCHANGED <<row, role, audited, stored>>
      /\ acked' = IF Route(r) \in Endings THEN acked \cup {Target(r)} ELSE acked
  BY DEF Replies, Route
<1>2. TTypes /\ Answerable(r) /\ InHand(r) /\ Target(r) \in Row
  BY <1>1, RequestParts DEF TInv
<1>3. Typed /\ Else(r) /\ Stops(r, "replied")
  BY <1>1, <1>2, Stopped
<1>4. Route(r) \in Endings => Gone(Target(r))
  <2>1. Left(r) = <<>>
    BY <1>1 DEF Left
  <2>2. ~\E i \in 1..Len(Left(r)) : TRUE
    BY <2>1
  <2> QED
    BY <1>2, <2>2 DEF InHand, ToEnd
<1>5. \A x \in acked' : x \in acked \/ Gone(x)'
  <2>1. \A x : Gone(x)' = Gone(x)
    BY <1>1 DEF Gone
  <2> QED
    BY <1>1, <1>4, <2>1
<1>6. TTypes'
  <2>1. acked' \subseteq Row
    BY <1>1, <1>2 DEF TInv, TTypes
  <2> QED
    BY <1>1, <1>3, <2>1, OnlyRequests DEF TInv, TTypes
<1>7. Fate(r)
  <2>1. Settles(r)
    BY <1>1, <1>2, <1>3, StopsWell
  <2> QED
    BY <2>1 DEF Fate
<1>8. /\ \A entry \in audited' : \/ entry \in audited
                                 \/ /\ request'[entry.by].pc # "none"
                                    /\ ~entry.known => request'[entry.by].cut
      /\ \A q \in stored' : q \in stored \/ (request'[q].pc # "none" /\ ~request'[q].dead)
  BY <1>1
<1> QED
  BY <1>1, <1>3, <1>5, <1>6, <1>7, <1>8, OneKept

LEMMA FailsKeeps ==
    ASSUME TInv, NEW r \in Request, RequestFails(r)
    PROVE  TInv'
<1>1. /\ Running(r) /\ request' = Ended(r, "failed")
      /\ UNCHANGED <<row, role, audited, stored, acked>>
  BY DEF RequestFails
<1> QED
  BY <1>1, Ending1

-----------------------------------------------------------------------------
(* The statements that make and end rows, and what others do. *)

LEMMA DoneGoes ==
    ASSUME TTypes, NEW r \in Request, Running(r), request[r].left # <<>>,
           Head(request[r].left).does \in Doing
    PROVE  /\ Did(r) \in [Request -> RequestType] /\ Did(r)[r] = Done(r)
           /\ \A q \in Request : q # r => Did(r)[q] = request[q]
           /\ request'[r] = Done(r) => GoesOn(r)
<1>1. /\ request \in [Request -> RequestType] /\ request[r] \in RequestType
      /\ request[r].pc = "running"
  BY DEF TTypes, Running
<1>2. Done(r) \in RequestType
  BY Records
<1>3. "find" \notin Doing
  BY DEF Doing
<1>4. request'[r] = Done(r) => GoesOn(r)
  BY <1>1, <1>3 DEF GoesOn, Done, Passed, RequestType
<1> QED
  BY <1>1, <1>2, <1>4 DEF Did

\* The audit log and the acknowledged ends stay as they are.
LEMMA WorldKept ==
    ASSUME TInv, TTypes', \A q \in Request : Fate(q),
           \A x \in Row : Onwards(x) /\ (There(x)' => There(Parent[x])'),
           acked' = acked, audited' = audited, stored' \subseteq stored
    PROVE  TInv'
<1>1. \A x \in acked' : x \in acked \/ Gone(x)'
  OBVIOUS
<1>2. \A entry \in audited' : \/ entry \in audited
                              \/ /\ request'[entry.by].pc # "none"
                                 /\ ~entry.known => request'[entry.by].cut
  OBVIOUS
<1>3. \A q \in stored' : q \in stored \/ (request'[q].pc # "none" /\ ~request'[q].dead)
  OBVIOUS
<1> QED
  BY <1>1, <1>2, <1>3, AllKept

\* The others lose nothing where rows only come, or stay as much there as they are.
LEMMA NothingLost ==
    ASSUME TInv, NEW q \in Request, request'[q] = request[q], role' = role,
           \A x \in Row : There(x) => There(x)'
    PROVE  Fate(q)
<1>1. Learns(q)
  BY DEF Learns
<1>2. Sees(q)
  <2>1. SUFFICES ASSUME Running(q)
                 PROVE  /\ ~request[q].did => role'[Organization(Target(q))] \in request'[q].held
                        /\ RoleFor(Target(q)) # "none" => RoleFor(Target(q))' # "none"
    BY DEF Sees
  <2>2. Target(q) \in Row /\ (~request[q].did => role[Organization(Target(q))] \in request[q].held)
    BY <2>1, RequestParts DEF TInv, InHand, Permitted
  <2>3. Target(q)' = Target(q)
    BY DEF Target
  <2>4. RoleFor(Target(q)) # "none" => RoleFor(Target(q))' # "none"
    <3>1. There(Target(q)) => There(Target(q))'
      BY <2>2, <2>3 DEF There
    <3> QED
      BY <2>3, <3>1 DEF RoleFor
  <2> QED
    BY <2>2, <2>4
<1> QED
  BY <1>1, <1>2 DEF Fate

LEMMA InsertKeeps ==
    ASSUME TInv, NEW r \in Request, StatementInsert(r)
    PROVE  TInv'
<1> DEFINE x == Target(r)
<1>1. Is(r, "insert") /\ UNCHANGED <<role, audited, stored, acked>>
  BY DEF StatementInsert
<1>2. /\ TTypes /\ Rows /\ Running(r) /\ InHand(r) /\ request[r].left # <<>>
      /\ Head(request[r].left).does = "insert"
      /\ ~request[r].did /\ x \in Row /\ For(r) \subseteq Members
  BY <1>1, AtHand DEF Calm, Guards
<1>3. CASE request' = Ended(r, "refused") /\ row' = row
  BY <1>1, <1>2, <1>3, Ending1
<1>4. CASE /\ row[x] = "none" /\ RoleFor(Parent[x]) \in For(r)
           /\ row' = [row EXCEPT ![x] = "live"] /\ request' = Did(r)
  <2>1. row \in [Row -> {"none", "live", "revoked", "expired", "deleted"}]
    BY <1>2 DEF TTypes
  <2>2. row'[x] = "live" /\ \A y \in Row : y # x => row'[y] = row[y]
    BY <1>2, <1>4, <2>1
  <2>3. Typed /\ Else(r) /\ GoesOn(r)
    BY <1>2, <1>4, Written DEF Doing
  <2>4. TTypes'
    BY <1>1, <1>4, <2>3 DEF TInv, TTypes, Typed
  <2>5. \A y \in Row : There(y) => There(y)'
    BY <1>4, <2>2 DEF There
  <2>6. There(Parent[x]) /\ RoleFor(Parent[x]) = role[Organization(x)] /\ x # Parent[x]
    <3>1. There(Parent[x]) /\ RoleFor(Parent[x]) = role[Organization(Parent[x])]
      BY <1>2, <1>4, Roles DEF RoleFor
    <3> QED
      BY <1>2, <1>4, <3>1, AboveFacts DEF There
  <2>7. Finds(r)
    <3>1. role[Organization(x)] # "none" /\ (For(r) \subseteq Entitled(Route(r)) => HeldEntitled(r))
      BY <1>2, <1>4, <2>6, Asked1 DEF For, Guards
    <3>2. RoleFor(x)' # "none"
      <4>1. x' = x
        BY <2>3 DEF GoesOn, Target
      <4>2. There(x)'
        BY <2>2, <4>1 DEF There
      <4> QED
        BY <1>1, <3>1, <4>1, <4>2 DEF RoleFor, Organization
    <3> QED
      BY <1>1, <1>2, <3>1, <3>2 DEF Finds, For
  <2>8. ASSUME NEW q \in Request
        PROVE  Fate(q)
    <3>1. CASE q = r
      BY <1>2, <2>3, <2>7, <3>1 DEF Fate, Proceeds
    <3>2. CASE q # r
      <4>1. request'[q] = request[q]
        BY <2>3, <3>2 DEF Else
      <4> QED
        BY <1>1, <2>5, <4>1, NothingLost
    <3> QED
      BY <3>1, <3>2
  <2>9. ASSUME NEW y \in Row
        PROVE  Onwards(y)
    <3>1. row[y] # "none" => row'[y] = row[y]
      BY <1>4, <2>2
    <3>2. /\ Organization(y) \in Row
          /\ row[Organization(y)] # "none" => row'[Organization(y)] # "none"
      BY <1>4, <2>2, AboveFacts
    <3> QED
      BY <1>1, <1>4, <2>2, <3>1, <3>2 DEF Onwards, Gone, Hopeless
  <2>10. ASSUME NEW y \in Row, There(y)'
         PROVE  There(Parent[y])'
    <3>1. Parent[y] \in Row
      BY AboveFacts
    <3>2. There(Parent[y])
      BY <1>2, <2>2, <2>6, <2>10 DEF There, Rows
    <3> QED
      BY <2>5, <3>1, <3>2
  <2> QED
    BY <1>1, <2>4, <2>8, <2>9, <2>10, WorldKept
<1> QED
  BY <1>1, <1>3, <1>4 DEF StatementInsert

LEMMA FoundKeeps ==
    ASSUME TInv, NEW r \in Request, StatementFound(r)
    PROVE  TInv'
<1> DEFINE x == Target(r)
<1>1. Is(r, "found") /\ UNCHANGED <<audited, stored, acked>>
  BY DEF StatementFound
<1>2. /\ TTypes /\ Rows /\ Running(r) /\ InHand(r) /\ request[r].left # <<>>
      /\ Head(request[r].left).does = "found"
      /\ ~request[r].did /\ x \in Row /\ request[r].op \in Question
  BY <1>1, AtHand DEF Calm
<1>3. CASE request' = Ended(r, "refused") /\ row' = row /\ role' = role
  BY <1>1, <1>2, <1>3, Ending1
<1>4. CASE /\ row[x] = "none" /\ row' = [row EXCEPT ![x] = "live"]
           /\ role' = [role EXCEPT ![x] = "owner"] /\ request' = Noted(Did(r), r, role', {})
  <2>1. /\ row \in [Row -> {"none", "live", "revoked", "expired", "deleted"}]
        /\ role \in [Organizations -> Members \cup {"none"}]
    BY <1>2 DEF TTypes
  <2>2. x \in Organizations
    <3>1. request[r].left \in Seq(StatementType)
      BY <1>2, RequestParts
    <3>2. Head(request[r].left) = request[r].left[1] /\ 1 \in 1..Len(request[r].left)
      BY <1>2, <3>1, Tails
    <3>3. Route(r) = "createOrganization"
      BY <1>2, <3>2 DEF InHand, Permitted, Left, WellOrdered
    <3> QED
      BY <1>2, <3>3 DEF Question, Route, Target
  <2>3. /\ row'[x] = "live" /\ \A y \in Row : y # x => row'[y] = row[y]
        /\ row' \in [Row -> {"none", "live", "revoked", "expired", "deleted"}]
    BY <1>2, <1>4, <2>1
  <2>4. /\ role'[x] = "owner" /\ \A o \in Organizations : o # x => role'[o] = role[o]
        /\ role' \in [Organizations -> Members \cup {"none"}]
    BY <1>4, <2>1, <2>2, Roles
  <2>5. /\ Did(r) \in [Request -> RequestType] /\ Did(r)[r] = Done(r)
        /\ \A q \in Request : q # r => Did(r)[q] = request[q]
        /\ request'[r] = Done(r) => GoesOn(r)
    BY <1>2, DoneGoes DEF Doing
  <2>6. /\ request' \in [Request -> RequestType] /\ request'[r] = Done(r)
        /\ \A q \in Request : q # r =>
              /\ Learns(q)
              /\ Running(q) => role'[Organization(Target(q))] \in request'[q].held
    <3> DEFINE base == Did(r)
               gone == {}
    <3>1. /\ base \in [Request -> RequestType] /\ gone \in SUBSET Row
          /\ \A q \in Request : q # r => base[q] = request[q]
          /\ request' = Noted(base, r, role', gone) /\ base[r] = Done(r)
      BY <1>4, <2>5
    <3> HIDE DEF base, gone
    <3>2. /\ request' \in [Request -> RequestType] /\ request'[r] = base[r]
          /\ \A q \in Request : q # r =>
                /\ Learns(q)
                /\ Running(q) => role'[Organization(Target(q))] \in request'[q].held
      BY <1>2, <2>4, <3>1, Notes
    <3> QED
      BY <3>1, <3>2
  <2>7. GoesOn(r)
    BY <2>5, <2>6
  <2>8. TTypes'
    <3>1. \A q \in Request : request'[q].pc # "none" => request'[q].op \in Question
      BY <1>2, <2>6, <2>7 DEF TTypes, Learns, GoesOn
    <3> QED
      BY <1>1, <2>3, <2>4, <2>6, <3>1 DEF TInv, TTypes
  <2>9. Finds(r)
    BY <1>2, <1>4 DEF Finds, Guards, RoleFor, There
  <2>10. ASSUME NEW q \in Request
         PROVE  Fate(q)
    <3>1. CASE q = r
      BY <1>2, <2>7, <2>9, <3>1 DEF Fate, Proceeds
    <3>2. CASE q # r
      <4>1. Learns(q) /\ (Running(q) => role'[Organization(Target(q))] \in request'[q].held)
        BY <2>6, <3>2
      <4>2. ASSUME Running(q), RoleFor(Target(q)) # "none"
            PROVE  RoleFor(Target(q))' # "none"
        <5>1. Target(q)' = Target(q) /\ Target(q) \in Row
          BY <1>2, <4>1, <4>2, RequestParts DEF Learns, Target
        <5>2. /\ There(Target(q)) /\ There(Organization(Target(q)))
              /\ Organization(Target(q)) \in Organizations
          BY <1>2, <4>2, <5>1, AllThere, AboveFacts DEF RoleFor
        <5>3. /\ role'[Organization(Target(q))] = role[Organization(Target(q))]
              /\ row'[Target(q)] = row[Target(q)]
          BY <1>4, <2>3, <2>4, <5>1, <5>2 DEF There
        <5> QED
          BY <4>2, <5>1, <5>2, <5>3 DEF RoleFor, There, Organization
      <4> QED
        BY <4>1, <4>2 DEF Fate, Sees
    <3> QED
      BY <3>1, <3>2
  <2>11. ASSUME NEW y \in Row
         PROVE  Onwards(y)
    <3>1. row[y] # "none" => row'[y] = row[y]
      BY <1>4, <2>3
    <3>2. /\ Organization(y) \in Row /\ Organization(y) \in Organizations
          /\ row[Organization(y)] # "none" =>
                /\ row'[Organization(y)] # "none"
                /\ role'[Organization(y)] = role[Organization(y)]
      BY <1>4, <2>3, <2>4, AboveFacts
    <3> QED
      BY <1>4, <2>3, <3>1, <3>2 DEF Onwards, Gone, Hopeless
  <2>12. ASSUME NEW y \in Row, There(y)'
         PROVE  There(Parent[y])'
    <3>1. Parent[y] \in Row
      BY AboveFacts
    <3>2. CASE y = x
      BY <2>2, <2>12, <3>2 DEF Organizations, There
    <3>3. CASE y # x
      BY <1>2, <1>4, <2>3, <2>12, <3>1, <3>3 DEF There, Rows
    <3> QED
      BY <3>2, <3>3
  <2> QED
    BY <1>1, <2>8, <2>10, <2>11, <2>12, WorldKept
<1> QED
  BY <1>1, <1>3, <1>4 DEF StatementFound

LEMMA DeleteKeeps ==
    ASSUME TInv, NEW r \in Request, StatementDelete(r)
    PROVE  TInv'
<1> DEFINE x == Target(r)
<1>1. Is(r, "delete") /\ UNCHANGED <<audited, acked>>
  BY DEF StatementDelete
<1>2. /\ TTypes /\ Rows /\ Running(r) /\ InHand(r) /\ request[r].left # <<>>
      /\ Head(request[r].left).does = "delete"
      /\ ~request[r].did /\ x \in Row
  BY <1>1, AtHand DEF Calm
<1>3. CASE request' = Ended(r, "refused") /\ row' = row /\ role' = role /\ stored' = stored
  BY <1>1, <1>2, <1>3, Ending1
<1>4. CASE /\ There(x)
           /\ row' = [y \in Row |-> IF x \in Above(y) /\ There(y) THEN "deleted" ELSE row[y]]
           /\ role' = [o \in Organizations |-> IF o = x THEN "none" ELSE role[o]]
           /\ stored' = {s \in stored : x \notin Above(Parent[Target(s)])}
           /\ request' = Noted(Did(r), r, role', {x})
  <2>1. /\ row \in [Row -> {"none", "live", "revoked", "expired", "deleted"}]
        /\ role \in [Organizations -> Members \cup {"none"}]
    BY <1>2 DEF TTypes
  <2>2. /\ \A y \in Row : row'[y] = IF x \in Above(y) /\ There(y) THEN "deleted" ELSE row[y]
        /\ row' \in [Row -> {"none", "live", "revoked", "expired", "deleted"}]
    BY <1>4, <2>1
  <2>3. /\ \A o \in Organizations : role'[o] = IF o = x THEN "none" ELSE role[o]
        /\ role' \in [Organizations -> Members \cup {"none"}]
    BY <1>4, <2>1
  <2>4. /\ Did(r) \in [Request -> RequestType] /\ Did(r)[r] = Done(r)
        /\ \A q \in Request : q # r => Did(r)[q] = request[q]
        /\ request'[r] = Done(r) => GoesOn(r)
    BY <1>2, DoneGoes DEF Doing
  <2>5. /\ request' \in [Request -> RequestType] /\ request'[r] = Done(r)
        /\ \A q \in Request : q # r =>
              /\ Learns(q)
              /\ Running(q) =>
                    /\ role'[Organization(Target(q))] \in request'[q].held
                    /\ role'[Organization(Target(q))] = "none" \/ x \in Above(Target(q)) =>
                          request'[q].cut
    <3> DEFINE base == Did(r)
               gone == {x}
    <3>1. /\ base \in [Request -> RequestType] /\ gone \in SUBSET Row
          /\ \A q \in Request : q # r => base[q] = request[q]
          /\ request' = Noted(base, r, role', gone) /\ base[r] = Done(r)
      BY <1>2, <1>4, <2>4
    <3>2. \A q : x \in Above(Target(q)) => Above(Target(q)) \cap gone # {}
      OBVIOUS
    <3> HIDE DEF base, gone
    <3>3. /\ request' \in [Request -> RequestType] /\ request'[r] = base[r]
          /\ \A q \in Request : q # r =>
                /\ Learns(q)
                /\ Running(q) =>
                      /\ role'[Organization(Target(q))] \in request'[q].held
                      /\ \/ role'[Organization(Target(q))] = "none"
                         \/ Above(Target(q)) \cap gone # {}
                         => request'[q].cut
      BY <1>2, <2>3, <3>1, Notes
    <3> QED
      BY <3>1, <3>2, <3>3
  <2>6. GoesOn(r)
    BY <2>4, <2>5
  <2>7. TTypes'
    <3>1. ASSUME NEW q \in Request, request'[q].pc # "none"
          PROVE  request'[q].op \in Question
      <4>1. request'[q].op = request[q].op /\ request[q].pc # "none"
        BY <1>2, <2>5, <2>6, <3>1 DEF Learns, GoesOn, Running
      <4> QED
        BY <1>2, <4>1 DEF TTypes
    <3>2. stored' \subseteq Request
      BY <1>2, <1>4 DEF TTypes
    <3> QED
      BY <1>1, <2>2, <2>3, <2>5, <3>1, <3>2 DEF TInv, TTypes
  <2>8. Finds(r)
    <3>1. Target(r)' = x /\ row'[x] = "deleted"
      BY <1>2, <1>4, <2>2, <2>6, AboveFacts DEF GoesOn, Target
    <3>2. Gone(Target(r))'
      BY <3>1 DEF Gone
    <3> QED
      BY <1>2, <3>2 DEF Finds, Guards
  <2>9. ASSUME NEW q \in Request
        PROVE  Fate(q)
    <3>1. CASE q = r
      BY <1>2, <2>6, <2>8, <3>1 DEF Fate, Proceeds
    <3>2. CASE q # r
      <4>1. /\ Learns(q)
            /\ Running(q) =>
                  /\ role'[Organization(Target(q))] \in request'[q].held
                  /\ role'[Organization(Target(q))] = "none" \/ x \in Above(Target(q)) =>
                        request'[q].cut
        BY <2>5, <3>2
      <4>2. ASSUME Running(q), RoleFor(Target(q)) # "none", ~request'[q].cut
            PROVE  RoleFor(Target(q))' # "none"
        <5>1. Target(q)' = Target(q) /\ Target(q) \in Row
          BY <1>2, <4>1, <4>2, RequestParts DEF Learns, Target
        <5>2. There(Target(q)) /\ x \notin Above(Target(q))
          BY <4>1, <4>2 DEF RoleFor
        <5>3. row'[Target(q)] = row[Target(q)]
          BY <2>2, <5>1, <5>2
        <5>4. role'[Organization(Target(q))] # "none"
          BY <4>1, <4>2
        <5> QED
          BY <5>1, <5>2, <5>3, <5>4 DEF RoleFor, There, Organization
      <4> QED
        BY <4>1, <4>2 DEF Fate, Sees
    <3> QED
      BY <3>1, <3>2
  <2>10. ASSUME NEW y \in Row
         PROVE  Onwards(y)
    <3>1. row'[y] = row[y] \/ (row'[y] = "deleted" /\ There(y))
      BY <2>2
    <3>2. /\ Organization(y) \in Row /\ Organization(y) \in Organizations
          /\ row[Organization(y)] # "none" => row'[Organization(y)] # "none"
          /\ role[Organization(y)] = "none" => role'[Organization(y)] = "none"
      BY <2>2, <2>3, AboveFacts
    <3> QED
      BY <3>1, <3>2 DEF Onwards, Gone, Hopeless, There
  <2>11. ASSUME NEW y \in Row, There(y)'
         PROVE  There(Parent[y])'
    <3>1. There(y) /\ x \notin Above(y)
      BY <2>2, <2>11 DEF There
    <3>2. Parent[y] \in Row /\ There(Parent[y]) /\ x \notin Above(Parent[y])
      BY <1>2, <3>1, AboveFacts DEF Rows
    <3> QED
      BY <2>2, <3>2 DEF There
  <2> QED
    BY <1>1, <1>4, <2>7, <2>9, <2>10, <2>11, WorldKept
<1> QED
  BY <1>1, <1>3, <1>4 DEF StatementDelete

LEMMA RevokeKeeps ==
    ASSUME TInv, NEW r \in Request, StatementRevoke(r)
    PROVE  TInv'
<1> DEFINE x == Target(r)
<1>1. Is(r, "revoke") /\ UNCHANGED <<role, audited, stored, acked>>
  BY DEF StatementRevoke
<1>2. /\ TTypes /\ Rows /\ Running(r) /\ InHand(r) /\ request[r].left # <<>>
      /\ Head(request[r].left).does = "revoke"
      /\ ~request[r].did /\ x \in Row /\ request[r].op \in Question
  BY <1>1, AtHand DEF Calm
<1>3. CASE request' = Ended(r, "refused") /\ row' = row
  BY <1>1, <1>2, <1>3, Ending1
<1>4. CASE There(x) /\ row' = [row EXCEPT ![x] = "revoked"] /\ request' = Did(r)
  <2>1. row \in [Row -> {"none", "live", "revoked", "expired", "deleted"}]
    BY <1>2 DEF TTypes
  <2>2. row'[x] = "revoked" /\ \A y \in Row : y # x => row'[y] = row[y]
    BY <1>2, <1>4, <2>1
  <2>3. Typed /\ Else(r) /\ GoesOn(r)
    BY <1>2, <1>4, Written DEF Doing
  <2>4. TTypes'
    BY <1>1, <1>4, <2>3 DEF TInv, TTypes, Typed
  <2>5. \A y \in Row : There(y)' = There(y)
    BY <1>4, <2>2 DEF There
  <2>6. x \in Keys
    <3>1. request[r].left \in Seq(StatementType)
      BY <1>2, RequestParts
    <3>2. Head(request[r].left) = request[r].left[1] /\ 1 \in 1..Len(request[r].left)
      BY <1>2, <3>1, Tails
    <3>3. Route(r) = "revokeKey"
      BY <1>2, <3>2 DEF InHand, Permitted, Left, WellOrdered
    <3> QED
      BY <1>2, <3>3 DEF Question, Route, Target
  <2>7. Finds(r)
    <3>1. Target(r)' = x
      BY <2>3 DEF GoesOn, Target
    <3>2. Gone(Target(r))'
      BY <2>2, <2>6, <3>1 DEF Gone
    <3>3. RoleFor(Target(r))' = RoleFor(Target(r))
      <4>1. There(x)' = There(x)
        BY <1>4, <2>2, <3>1 DEF There
      <4> QED
        BY <1>1, <3>1, <4>1 DEF RoleFor
    <3> QED
      BY <1>1, <1>2, <3>2, <3>3 DEF Finds, Guards
  <2>8. ASSUME NEW q \in Request
        PROVE  Fate(q)
    <3>1. CASE q = r
      BY <1>2, <2>3, <2>7, <3>1 DEF Fate, Proceeds
    <3>2. CASE q # r
      <4>1. request'[q] = request[q]
        BY <2>3, <3>2 DEF Else
      <4> QED
        BY <1>1, <2>5, <4>1, NothingLost
    <3> QED
      BY <3>1, <3>2
  <2>9. ASSUME NEW y \in Row
        PROVE  Onwards(y)
    <3>1. \A z \in Row : row'[z] = row[z] \/ (z = x /\ row'[z] = "revoked" /\ There(z))
      BY <1>4, <2>2
    <3>2. /\ Organization(y) \in Row
          /\ row[Organization(y)] # "none" => row'[Organization(y)] # "none"
      BY <3>1, AboveFacts
    <3>3. row[y] # "deleted" \/ row'[y] = row[y]
      BY <3>1 DEF There
    <3> QED
      BY <1>1, <2>6, <3>1, <3>2, <3>3 DEF Onwards, Gone, Hopeless
  <2>10. ASSUME NEW y \in Row, There(y)'
         PROVE  There(Parent[y])'
    <3>1. Parent[y] \in Row
      BY AboveFacts
    <3> QED
      BY <1>2, <2>5, <2>10, <3>1 DEF Rows
  <2> QED
    BY <1>1, <2>4, <2>8, <2>9, <2>10, WorldKept
<1> QED
  BY <1>1, <1>3, <1>4 DEF StatementRevoke

LEMMA ExpiryKeeps ==
    ASSUME TInv, NEW x \in Row, KeyExpires(x)
    PROVE  TInv'
<1>1. /\ row[x] = "live" /\ x \in Keys /\ row' = [row EXCEPT ![x] = "expired"]
      /\ UNCHANGED <<role, request, audited, stored, acked>>
  BY DEF KeyExpires
<1>2. row \in [Row -> {"none", "live", "revoked", "expired", "deleted"}]
  BY DEF TInv, TTypes
<1>3. row'[x] = "expired" /\ \A y \in Row : y # x => row'[y] = row[y]
  BY <1>1, <1>2
<1>4. TTypes'
  BY <1>1, <1>2 DEF TInv, TTypes
<1>5. \A y \in Row : There(y)' = There(y)
  BY <1>1, <1>3 DEF There
<1>6. \A q \in Request : Fate(q)
  BY <1>1, <1>5, NothingLost
<1>7. ASSUME NEW y \in Row
      PROVE  Onwards(y)
  <2>1. \A z \in Row : row'[z] = row[z] \/ (row[z] = "live" /\ row'[z] = "expired")
    BY <1>1, <1>3
  <2>2. Organization(y) \in Row /\ (row[Organization(y)] # "none" => row'[Organization(y)] # "none")
    BY <2>1, AboveFacts
  <2> QED
    BY <1>1, <2>1, <2>2 DEF Onwards, Gone, Hopeless
<1>8. ASSUME NEW y \in Row, There(y)'
      PROVE  There(Parent[y])'
  <2>1. Parent[y] \in Row
    BY AboveFacts
  <2> QED
    BY <1>5, <1>8, <2>1 DEF TInv, Rows
<1> QED
  BY <1>1, <1>4, <1>6, <1>7, <1>8, WorldKept

LEMMA RolesKeep ==
    ASSUME TInv, NEW x \in Organizations, NEW new \in Members \cup {"none"}, RoleChanges(x, new)
    PROVE  TInv'
<1>1. /\ role[x] # "none" /\ role' = [role EXCEPT ![x] = new]
      /\ request' = Noted(request, Free, role', {}) /\ UNCHANGED <<row, audited, stored, acked>>
  BY DEF RoleChanges
<1>2. TTypes
  BY DEF TInv
<1>3. /\ \A o \in Organizations : role'[o] = IF o = x THEN new ELSE role[o]
      /\ role' \in [Organizations -> Members \cup {"none"}]
  BY <1>1, <1>2 DEF TTypes
<1>4. /\ request' \in [Request -> RequestType]
      /\ \A q \in Request :
            /\ Learns(q)
            /\ Running(q) =>
                  /\ role'[Organization(Target(q))] \in request'[q].held
                  /\ role'[Organization(Target(q))] = "none" => request'[q].cut
  <2> DEFINE gone == {}
  <2>1. /\ request \in [Request -> RequestType] /\ gone \in SUBSET Row
        /\ \A q \in Request : q # Free
    BY <1>2, TenancyAssumption DEF TTypes, Free
  <2>2. request' = Noted(request, Free, role', gone)
    BY <1>1
  <2> HIDE DEF gone
  <2>3. /\ request' \in [Request -> RequestType]
        /\ \A q \in Request : q # Free =>
              /\ Learns(q)
              /\ Running(q) =>
                    /\ role'[Organization(Target(q))] \in request'[q].held
                    /\ role'[Organization(Target(q))] = "none" \/ Above(Target(q)) \cap gone # {} =>
                          request'[q].cut
    BY <1>2, <1>3, <2>1, <2>2, Notes
  <2> QED
    BY <2>1, <2>3
<1>5. TTypes'
  <2>1. \A q \in Request : request'[q].pc # "none" => request'[q].op \in Question
    BY <1>2, <1>4 DEF TTypes, Learns
  <2> QED
    BY <1>1, <1>2, <1>3, <1>4, <2>1 DEF TTypes
<1>6. ASSUME NEW q \in Request
      PROVE  Fate(q)
  <2>1. ASSUME Running(q), RoleFor(Target(q)) # "none", ~request'[q].cut
        PROVE  RoleFor(Target(q))' # "none"
    <3>1. Target(q)' = Target(q) /\ There(Target(q))
      BY <1>4, <2>1 DEF Learns, Target, RoleFor
    <3>2. role'[Organization(Target(q))] # "none"
      BY <1>4, <2>1
    <3> QED
      BY <1>1, <3>1, <3>2 DEF RoleFor, There, Organization
  <2> QED
    BY <1>4, <2>1 DEF Fate, Sees
<1>7. ASSUME NEW y \in Row
      PROVE  Onwards(y)
  <2>1. Organization(y) \in Organizations
    BY AboveFacts
  <2>2. role[Organization(y)] = "none" => role'[Organization(y)] = "none"
    BY <1>1, <1>3, <2>1
  <2> QED
    BY <1>1, <2>2 DEF Onwards, Gone, Hopeless
<1>8. ASSUME NEW y \in Row, There(y)'
      PROVE  There(Parent[y])'
  BY <1>1, <1>8 DEF TInv, Rows, There
<1> QED
  BY <1>1, <1>5, <1>6, <1>7, <1>8, WorldKept

LEMMA ArrivalKeeps ==
    ASSUME TInv, NEW r \in Request, NEW op \in Question, RequestArrives(r, op)
    PROVE  TInv'
<1> DEFINE x == op.row
           s == Calls(op.route)
           ended == row[x] = "expired" \/ Above(x) \cap acked # {}
           new == [pc |-> "running", op |-> op, left |-> s, found |-> FALSE, environment |-> {},
                   dead |-> ended, held |-> {role[Organization(x)]}, cut |-> FALSE, did |-> FALSE]
<1>1. /\ request[r].pc = "none" /\ (op.route \notin Makes => row[x] # "none")
      /\ request' = [request EXCEPT ![r] = new] /\ UNCHANGED <<row, role, audited, stored, acked>>
  <2>1. r >= r
    BY TenancyAssumption
  <2> QED
    BY <2>1 DEF RequestArrives
<1>2. TTypes /\ Rows
  BY DEF TInv
<1>3. x \in Row /\ op.route \in Routes /\ WellMade(op.route, s)
  BY Planned DEF Question
<1>4. role[Organization(x)] \in Members \cup {"none"}
  BY <1>2, <1>3, AboveFacts DEF TTypes
<1>5. new \in RequestType
  <2>1. op \in Asked /\ s \in Seq(StatementType) /\ ended \in BOOLEAN
    BY <1>3 DEF Asked, WellMade
  <2> HIDE DEF s, x, ended
  <2> QED
    BY <1>4, <2>1 DEF RequestType
<1>6. request' \in [Request -> RequestType] /\ request'[r] = new /\ Else(r)
  <2> HIDE DEF new
  <2> QED
    BY <1>1, <1>2, <1>5 DEF TTypes, Else
<1>7. TTypes'
  <2>1. ASSUME NEW q \in Request, request'[q].pc # "none"
        PROVE  request'[q].op \in Question
    <3>1. CASE q = r
      BY <1>6, <3>1
    <3>2. CASE q # r
      BY <1>2, <1>6, <2>1, <3>2 DEF Else, TTypes
    <3> QED
      BY <3>1, <3>2
  <2> QED
    BY <1>1, <1>2, <1>6, <2>1 DEF TTypes
<1>8. /\ Running(r)' /\ Target(r)' = x /\ Left(r)' = s /\ Route(r)' = op.route
      /\ request[r].did' = FALSE /\ request[r].dead' = ended
      /\ request[r].held' = {role[Organization(x)]} /\ request[r].pc' = "running"
  BY <1>6 DEF Running, Target, Left, Route
<1>9. Answerable(r)'
  BY <1>8 DEF Answerable
<1>10. Permitted(r)'
  <2>1. role[Organization(Target(r))]' = role[Organization(x)]
    BY <1>1, <1>8 DEF Organization
  <2>2. WellOrdered(op.route, s) /\ (op.route \notin Unguarded => AsksFirst(op.route, s))
    BY <1>3 DEF WellMade
  <2> HIDE DEF s, x, ended
  <2> QED
    BY <1>8, <2>1, <2>2 DEF Permitted
<1>11. Traced(r)'
  <2>1. ASSUME NEW i \in 1..Len(s)
        PROVE  /\ s[i].does = "audit" /\ s[i].for = {} => \E j \in 1..i - 1 : s[j].does = "find"
               /\ s[i].does = "find" =>
                     \/ \E j \in 1..i - 1 : s[j].does \in {"check", "insert", "update"}
                     \/ row[x] # "none" /\ \E j \in i + 1 .. Len(s) : s[j].does = "check"
    <3> HIDE DEF s, x, ended
    <3> QED
      BY <1>1, <1>3 DEF WellMade
  <2>2. row[Target(r)]' = row[x]
    BY <1>1, <1>8
  <2> HIDE DEF s, x, ended
  <2> QED
    BY <1>8, <2>1, <2>2 DEF Traced
<1>12. ended => row[x] # "live"
  <2>1. SUFFICES ASSUME row[x] = "live", NEW y \in Above(x), y \in acked
                 PROVE  FALSE
    OBVIOUS
  <2>2. There(x) /\ There(y) /\ Gone(y)
    <3>1. There(x)
      BY <2>1 DEF There
    <3> QED
      BY <1>2, <1>3, <2>1, <3>1, AllThere DEF Rows
  <2>3. y \in Keys /\ row[y] = "revoked"
    BY <2>2 DEF There, Gone
  <2>4. y = x
    BY <1>3, <2>1, <2>3, AboveKinds
  <2> QED
    BY <2>1, <2>3, <2>4
<1>13. Doomed(r)'
  <2>1. \A i \in 1..Len(s) : s[i].does = "store" => s[1].does = "key" /\ op.route \notin Makes
    BY <1>3 DEF WellMade
  <2>2. row[Target(r)]' = row[x]
    BY <1>1, <1>8
  <2> HIDE DEF s, x, ended
  <2> QED
    BY <1>1, <1>8, <1>12, <2>1, <2>2 DEF Doomed
<1>14. ToEnd(r)'
  <2>1. op.route \in Endings => \E i \in 1..Len(s) : s[i].does \in {"delete", "revoke"}
    BY <1>3 DEF WellMade
  <2> HIDE DEF s, x, ended
  <2> QED
    BY <1>8, <2>1 DEF ToEnd
<1>15. Fate(r)
  BY <1>1, <1>8, <1>9, <1>10, <1>11, <1>13, <1>14 DEF Fate, Arrives, InHand
<1>16. /\ row' = row /\ role' = role /\ acked' = acked
       /\ audited' = audited /\ stored' \subseteq stored
  BY <1>1
<1> QED
  BY <1>6, <1>7, <1>15, <1>16, PlainKept

-----------------------------------------------------------------------------
(* The invariant of the tenants' requests is kept. *)

TenancyStep ==
    \/ \E r \in Request : \/ RequestStep(r) \/ RequestFails(r)
                          \/ \E op \in Question : RequestArrives(r, op)
    \/ \E x \in Organizations : \E new \in Members \cup {"none"} : RoleChanges(x, new)
    \/ \E x \in Row : KeyExpires(x)

LEMMA TenancyStart ==
    ASSUME TenancyInit
    PROVE  TInv
<1>1. TTypes
  <2>1. NoRequest \in RequestType
    <3>1. NoRequest.op \in Asked /\ <<>> \in Seq(StatementType)
      BY DEF NoRequest, Asked
    <3> QED
      BY <3>1 DEF NoRequest, RequestType
  <2>2. row \in [Row -> {"none", "live", "revoked", "expired", "deleted"}]
    BY DEF TenancyInit
  <2>3. role \in [Organizations -> Members \cup {"none"}]
    BY TenancyAssumption DEF TenancyInit
  <2>4. request \in [Request -> RequestType] /\ \A r \in Request : request[r].pc = "none"
    <3>1. request = [r \in Request |-> NoRequest] /\ NoRequest.pc = "none"
      BY DEF TenancyInit, NoRequest
    <3> QED
      BY <2>1, <3>1
  <2> QED
    BY <2>2, <2>3, <2>4 DEF TTypes, TenancyInit
<1>2. Rows
  BY TenancyAssumption DEF TenancyInit, Rows, There
<1>3. Entries
  BY DEF TenancyInit, Entries
<1>4. ASSUME NEW r \in Request
      PROVE  Answerable(r) /\ ~Running(r)
  <2>1. request[r].pc = "none" /\ request[r].did = FALSE
    BY DEF TenancyInit, NoRequest
  <2> QED
    BY <2>1 DEF Answerable, Running
<1> QED
  BY <1>1, <1>2, <1>3, <1>4 DEF TInv

LEMMA TenancyNext ==
    ASSUME TInv, TenancyStep
    PROVE  TInv'
<1>1. ASSUME NEW r \in Request, RequestStep(r)
      PROVE  TInv'
  BY <1>1, CheckKeeps, ChooseKeeps, InsertKeeps, FoundKeeps, UpdateKeeps, DeleteKeeps, RevokeKeeps,
     SimpleKeeps, StoreKeeps, AuditKeeps, RepliesKeeps DEF RequestStep
<1>2. ASSUME NEW r \in Request, RequestFails(r)
      PROVE  TInv'
  BY <1>2, FailsKeeps
<1>3. ASSUME NEW r \in Request, NEW op \in Question, RequestArrives(r, op)
      PROVE  TInv'
  BY <1>3, ArrivalKeeps
<1>4. ASSUME NEW x \in Organizations, NEW new \in Members \cup {"none"}, RoleChanges(x, new)
      PROVE  TInv'
  BY <1>4, RolesKeep
<1>5. ASSUME NEW x \in Row, KeyExpires(x)
      PROVE  TInv'
  BY <1>5, ExpiryKeeps
<1> QED
  BY <1>1, <1>2, <1>3, <1>4, <1>5 DEF TenancyStep

LEMMA TenancyStutter ==
    ASSUME TInv, UNCHANGED tenancyVars
    PROVE  TInv'
<1>1. row' = row /\ role' = role /\ request' = request /\ audited' = audited /\ stored' = stored
      /\ acked' = acked
  BY DEF tenancyVars
<1>2. TTypes' /\ Rows' /\ Entries'
  BY <1>1 DEF TInv, TTypes, Rows, Entries, There, Gone
<1>3. ASSUME NEW r \in Request
      PROVE  Answerable(r)' /\ (Running(r)' => InHand(r)')
  <2>1. Answerable(r)' = Answerable(r) /\ Running(r)' = Running(r)
    BY <1>1 DEF Answerable, Running, Route, HeldEntitled
  <2>2. InHand(r)' = InHand(r)
    BY <1>1 DEF InHand, Permitted, Traced, Doomed, ToEnd, Left, Route, HeldEntitled, Target,
                Hopeless, RoleFor, There, Gone
  <2> QED
    BY <2>1, <2>2 DEF TInv
<1> QED
  BY <1>2, <1>3 DEF TInv

-----------------------------------------------------------------------------
(* What is audited. *)

HasEntry(r) == \E entry \in audited : entry.by = r

\* A request that is to be audited has its entry or has still to write it, and will not write
\* it before it has done something.
Logged(r) ==
    /\ Route(r) \in Auditable =>
          HasEntry(r) \/ \E i \in 1..Len(Left(r)) : Left(r)[i].does = "audit"
    /\ \A i \in 1..Len(Left(r)) : Left(r)[i].does = "audit" =>
          request[r].did \/ \E j \in 1..i - 1 : Left(r)[j].does \in Doing

AInv ==
    /\ \A r \in Request :
          /\ Running(r) => Logged(r)
          /\ request[r].pc = "replied" /\ Route(r) \in Auditable => HasEntry(r)
    /\ \A entry \in audited : request[entry.by].did

\* What a step makes of a request: the next statement of it is done, it ends without a reply, it
\* is answered, it comes in, or others do something.
Advances(q) ==
    /\ Running(q) /\ request[q].left # <<>> /\ GoesOn(q)
    /\ Head(request[q].left).does = "audit" => HasEntry(q)'
Breaks(q) == request'[q].pc \in {"refused", "failed"} /\ (request[q].did => request'[q].did)
Answered(q) == Running(q) /\ request[q].left = <<>> /\ Stops(q, "replied")
Comes(q) == request[q].pc = "none" /\ request'[q].pc = "running" /\ Logs(Route(q)', Left(q)')
Turn(q) == Learns(q) \/ Advances(q) \/ Breaks(q) \/ Answered(q) \/ Comes(q)

LEMMA TailLogs ==
    ASSUME TInv, NEW r \in Request, Logged(r), Advances(r), audited \subseteq audited'
    PROVE  Logged(r)'
<1> DEFINE s == request[r].left
           t == Tail(s)
<1>1. /\ s \in Seq(StatementType) /\ s # <<>>
      /\ Left(r) = s /\ Left(r)' = t /\ Route(r)' = Route(r)
  BY RequestParts DEF TInv, Advances, GoesOn, Left, Route
<1>2. request'[r].did = (request[r].did \/ Head(s).does \in Doing)
  BY DEF Advances, GoesOn
<1>3. Route(r) \in Auditable => HasEntry(r)' \/ \E i \in 1..Len(t) : t[i].does = "audit"
  <2>1. SUFFICES ASSUME ~HasEntry(r)', NEW i \in 1..Len(s), s[i].does = "audit"
                 PROVE  \E k \in 1..Len(t) : t[k].does = "audit"
    BY <1>1 DEF Logged, HasEntry
  <2>2. i # 1
    BY <1>1, <2>1, Tails DEF Advances
  <2>3. i - 1 \in 1..Len(t) /\ (i - 1) + 1 = i
    BY <1>1, <2>1, <2>2, Tails
  <2> QED
    BY <1>1, <2>1, <2>3, Tails
<1>4. ASSUME NEW i \in 1..Len(t), t[i].does = "audit"
      PROVE  request'[r].did \/ \E j \in 1..i - 1 : t[j].does \in Doing
  <2>1. t[i] = s[i + 1] /\ i + 1 \in 1..Len(s)
    BY <1>1, Tails
  <2>2. request[r].did \/ \E j \in 1..i + 1 - 1 : s[j].does \in Doing
    BY <1>1, <1>4, <2>1 DEF Logged
  <2>3. (\E j \in 1..i + 1 - 1 : s[j].does \in Doing) =>
            Head(s).does \in Doing \/ \E j \in 1..i - 1 : t[j].does \in Doing
    BY <1>1, Shifts
  <2> QED
    BY <1>2, <2>2, <2>3
<1> HIDE DEF s, t
<1> QED
  BY <1>1, <1>3, <1>4 DEF Logged

LEMMA TurnsKeep ==
    ASSUME TInv, AInv, \A q \in Request : Turn(q), audited \subseteq audited',
           \A entry \in audited' : entry \in audited \/ request'[entry.by].did
    PROVE  AInv'
<1>1. ASSUME NEW q \in Request, Running(q)'
      PROVE  Logged(q)'
  <2>1. CASE Learns(q)
    <3>1. /\ Running(q) /\ Route(q)' = Route(q) /\ Left(q)' = Left(q)
          /\ request'[q].did = request[q].did
      BY <1>1, <2>1 DEF Learns, Running, Route, Left
    <3>2. Logged(q) /\ (HasEntry(q) => HasEntry(q)')
      BY <3>1 DEF AInv, HasEntry
    <3> QED
      BY <3>1, <3>2 DEF Logged
  <2>2. CASE Advances(q)
    BY <2>2, TailLogs DEF AInv, Advances
  <2>3. CASE Breaks(q) \/ Answered(q)
    BY <1>1, <2>3 DEF Breaks, Answered, Stops, Running
  <2>4. CASE Comes(q)
    BY <2>4 DEF Comes, Logs, Logged
  <2> QED
    BY <2>1, <2>2, <2>3, <2>4 DEF Turn
<1>2. ASSUME NEW q \in Request, request'[q].pc = "replied", Route(q)' \in Auditable
      PROVE  HasEntry(q)'
  <2>1. HasEntry(q) => HasEntry(q)'
    BY DEF HasEntry
  <2>2. CASE Learns(q)
    BY <1>2, <2>1, <2>2 DEF Learns, AInv, Route
  <2>3. CASE Advances(q) \/ Breaks(q) \/ Comes(q)
    BY <1>2, <2>3 DEF Advances, GoesOn, Breaks, Comes
  <2>4. CASE Answered(q)
    <3>1. Running(q) /\ Left(q) = <<>> /\ Route(q)' = Route(q)
      BY <2>4 DEF Answered, Stops, Left, Route
    <3>2. Logged(q) /\ ~\E i \in 1..Len(Left(q)) : TRUE
      BY <3>1 DEF AInv
    <3> QED
      BY <1>2, <2>1, <3>1, <3>2 DEF Logged
  <2> QED
    BY <2>2, <2>3, <2>4 DEF Turn
<1>3. ASSUME NEW entry \in audited
      PROVE  request'[entry.by].did
  <2>1. entry.by \in Request /\ request[entry.by].did /\ request[entry.by].pc # "none"
    BY DEF TInv, TTypes, Entries, AInv
  <2>2. Turn(entry.by) /\ ~Comes(entry.by)
    BY <2>1 DEF Comes
  <2> QED
    BY <2>1, <2>2 DEF Turn, Learns, Advances, GoesOn, Breaks, Answered, Stops
<1> QED
  BY <1>1, <1>2, <1>3 DEF AInv

\* What one request does that writes no entry.
LEMMA TurnKeeps ==
    ASSUME TInv, AInv, NEW r \in Request, Turn(r), Else(r), audited' = audited
    PROVE  AInv'
<1>1. \A q \in Request : q # r => Learns(q)
  BY DEF Else, Learns
<1>2. \A q \in Request : Turn(q)
  BY <1>1 DEF Turn
<1> QED
  BY <1>2, TurnsKeep

LEMMA EndsUnanswered ==
    ASSUME TInv, AInv, NEW r \in Request, Running(r), NEW pc \in {"refused", "failed"},
           request' = Ended(r, pc), audited' = audited
    PROVE  AInv'
<1>1. Else(r) /\ Stops(r, pc)
  BY Stopped DEF TInv
<1>2. Turn(r)
  BY <1>1 DEF Stops, Turn, Breaks
<1> QED
  BY <1>1, <1>2, TurnKeeps

\* A statement that writes no entry, and goes on.
LEMMA GoesUnlogged ==
    ASSUME TInv, AInv, NEW r \in Request, NEW does, Is(r, does), does # "audit",
           Else(r), GoesOn(r), audited' = audited
    PROVE  AInv'
<1>1. Running(r) /\ request[r].left # <<>> /\ Head(request[r].left).does = does
  BY AtHand
<1>2. Turn(r)
  BY <1>1 DEF Turn, Advances
<1> QED
  BY <1>2, TurnKeeps

LEMMA StatementsLog ==
    ASSUME TInv, AInv, NEW r \in Request,
           \/ StatementCheck(r) \/ StatementChoose(r) \/ StatementInsert(r) \/ StatementUpdate(r)
           \/ StatementRevoke(r) \/ StatementWipe(r) \/ StatementFind(r) \/ StatementRead(r)
           \/ StatementPolicy(r) \/ StatementTick(r) \/ StatementKey(r) \/ StatementStore(r)
    PROVE  AInv'
<1> DEFINE Asking == {"check", "choose", "policy", "key"}
           Acting == {"insert", "update", "revoke", "wipe", "read", "tick", "store"}
<1>1. ASSUME NEW does \in Asking \cup Acting \cup {"find"}, Is(r, does), audited' = audited,
             request' = Ended(r, "refused") \/ request' = Ended(r, "failed")
      PROVE  AInv'
  BY <1>1, EndsUnanswered DEF Is
<1>2. ASSUME NEW does \in Asking, Is(r, does), audited' = audited,
             request' = Onward(r) \/ \E e \in Row : request' = In(r, e)
      PROVE  AInv'
  <2>1. TTypes /\ Running(r) /\ request[r].left # <<>> /\ Head(request[r].left).does = does
    BY <1>2, AtHand
  <2>2. does \notin Doing \cup {"find"} /\ does # "audit"
    BY DEF Doing
  <2>3. Else(r) /\ GoesOn(r)
    BY <1>2, <2>1, <2>2, Written
  <2> QED
    BY <1>2, <2>2, <2>3, GoesUnlogged
<1>3. ASSUME NEW does \in Acting, Is(r, does), audited' = audited,
             \/ request' = Did(r)
             \/ \E e \in Row :
                    request' = [request EXCEPT ![r] = [Done(r) EXCEPT !.environment = {e}]]
      PROVE  AInv'
  <2>1. TTypes /\ Running(r) /\ request[r].left # <<>> /\ Head(request[r].left).does = does
    BY <1>3, AtHand
  <2>2. does \in Doing /\ does # "audit"
    BY DEF Doing
  <2>3. Else(r) /\ GoesOn(r)
    BY <1>3, <2>1, <2>2, Written
  <2> QED
    BY <1>3, <2>2, <2>3, GoesUnlogged
<1>4. CASE StatementCheck(r)
  <2>1. Is(r, "check") /\ audited' = audited
        /\ (request' = Onward(r) \/ request' = Ended(r, "refused"))
    BY <1>4 DEF StatementCheck
  <2> QED
    BY <1>1, <1>2, <2>1
<1>5. CASE StatementChoose(r)
  <2>1. Is(r, "choose") /\ audited' = audited
        /\ ((\E e \in Row : request' = In(r, e)) \/ request' = Ended(r, "refused"))
    BY <1>5 DEF StatementChoose, Environments
  <2> QED
    BY <1>1, <1>2, <2>1
<1>6. CASE StatementInsert(r)
  <2>1. Is(r, "insert") /\ audited' = audited
        /\ (request' = Did(r) \/ request' = Ended(r, "refused"))
    BY <1>6 DEF StatementInsert
  <2> QED
    BY <1>1, <1>3, <2>1
<1>7. CASE StatementUpdate(r)
  <2>1. Is(r, "update") /\ audited' = audited
    BY <1>7 DEF StatementUpdate
  <2>2. TTypes /\ Running(r) /\ request[r].left # <<>> /\ Target(r) \in Row
    BY <2>1, AtHand
  <2>3. CASE request' = Ended(r, "refused")
    BY <1>1, <2>1, <2>3
  <2>4. CASE request' = [request EXCEPT ![r] = [Done(r) EXCEPT !.pc = "refused"]]
    <3>1. Else(r) /\ request'[r].pc = "refused"
      BY <2>2, <2>4, Written
    <3>2. Done(r).did /\ Done(r) \in RequestType
      <4>1. Passed(r) \in RequestType /\ Done(r) \in RequestType
        BY <2>2, Records
      <4> QED
        BY <4>1 DEF Done, RequestType
    <3>3. request'[r].did
      BY <2>2, <2>4, <3>2 DEF TTypes, RequestType
    <3>4. Turn(r)
      BY <3>1, <3>3 DEF Turn, Breaks
    <3> QED
      BY <2>1, <3>1, <3>4, TurnKeeps
  <2>5. CASE \E e \in Row :
                 request' = [request EXCEPT ![r] = [Done(r) EXCEPT !.environment = {e}]]
    BY <1>3, <2>1, <2>5
  <2> QED
    BY <1>7, <2>2, <2>3, <2>4, <2>5 DEF StatementUpdate, Environments
<1>8. CASE StatementRevoke(r)
  <2>1. Is(r, "revoke") /\ audited' = audited
        /\ (request' = Did(r) \/ request' = Ended(r, "refused"))
    BY <1>8 DEF StatementRevoke
  <2> QED
    BY <1>1, <1>3, <2>1
<1>9. CASE StatementWipe(r)
  <2>1. Is(r, "wipe") /\ audited' = audited /\ request' = Did(r)
    BY <1>9 DEF StatementWipe
  <2> QED
    BY <1>3, <2>1
<1>10. CASE StatementFind(r)
  <2>1. /\ Is(r, "find") /\ audited' = audited
        /\ request' = [request EXCEPT ![r] =
                           [Passed(r) EXCEPT !.found = RoleFor(Target(r)) # "none"]]
    BY <1>10 DEF StatementFind
  <2>2. TTypes /\ Running(r) /\ request[r].left # <<>> /\ Head(request[r].left).does = "find"
    BY <2>1, AtHand
  <2>3. Else(r) /\ GoesOn(r)
    BY <2>1, <2>2, Written
  <2> QED
    BY <2>1, <2>3, GoesUnlogged
<1>11. CASE StatementRead(r)
  <2>1. Is(r, "read") /\ audited' = audited /\ request' = Did(r)
    BY <1>11 DEF StatementRead
  <2> QED
    BY <1>3, <2>1
<1>12. CASE StatementPolicy(r)
  <2>1. Is(r, "policy") /\ audited' = audited
        /\ (request' = Onward(r) \/ request' = Ended(r, "failed"))
    BY <1>12 DEF StatementPolicy
  <2> QED
    BY <1>1, <1>2, <2>1
<1>13. CASE StatementTick(r)
  <2>1. Is(r, "tick") /\ audited' = audited
        /\ (request' = Did(r) \/ request' = Ended(r, "failed"))
    BY <1>13 DEF StatementTick
  <2> QED
    BY <1>1, <1>3, <2>1
<1>14. CASE StatementKey(r)
  <2>1. Is(r, "key") /\ audited' = audited
        /\ (request' = In(r, Parent[Target(r)]) \/ request' = Ended(r, "refused"))
    BY <1>14 DEF StatementKey
  <2>2. Parent[Target(r)] \in Row
    BY <2>1, AtHand, AboveFacts
  <2> QED
    BY <1>1, <1>2, <2>1, <2>2
<1>15. CASE StatementStore(r)
  <2>1. Is(r, "store") /\ audited' = audited
        /\ (request' = Did(r) \/ request' = Ended(r, "failed"))
    BY <1>15 DEF StatementStore
  <2> QED
    BY <1>1, <1>3, <2>1
<1> QED
  BY <1>4, <1>5, <1>6, <1>7, <1>8, <1>9, <1>10, <1>11, <1>12, <1>13, <1>14, <1>15

\* A statement that changes the user's roles, too: the other requests take note.
LEMMA NotedLog ==
    ASSUME TInv, AInv, NEW r \in Request, NEW does \in {"found", "delete"}, Is(r, does),
           NEW gone \in SUBSET Row, role' \in [Organizations -> Members \cup {"none"}],
           request' = Noted(Did(r), r, role', gone), audited' = audited
    PROVE  AInv'
<1>1. TTypes /\ Running(r) /\ request[r].left # <<>> /\ Head(request[r].left).does = does
  BY AtHand
<1>2. does \in Doing /\ does # "audit"
  BY DEF Doing
<1>3. /\ Did(r) \in [Request -> RequestType] /\ Did(r)[r] = Done(r)
      /\ \A q \in Request : q # r => Did(r)[q] = request[q]
      /\ request'[r] = Done(r) => GoesOn(r)
  BY <1>1, <1>2, DoneGoes
<1>4. request'[r] = Done(r) /\ \A q \in Request : q # r => Learns(q)
  <2> DEFINE base == Did(r)
  <2>1. /\ base \in [Request -> RequestType] /\ base[r] = Done(r)
        /\ \A q \in Request : q # r => base[q] = request[q]
        /\ request' = Noted(base, r, role', gone)
    BY <1>3
  <2> HIDE DEF base
  <2>2. request'[r] = base[r] /\ \A q \in Request : q # r => Learns(q)
    BY <1>1, <2>1, Notes
  <2> QED
    BY <2>1, <2>2
<1>5. Advances(r)
  BY <1>1, <1>2, <1>3, <1>4 DEF Advances
<1>6. \A q \in Request : Turn(q)
  BY <1>4, <1>5 DEF Turn
<1> QED
  BY <1>6, TurnsKeep

LEMMA RolesLog ==
    ASSUME TInv, AInv, NEW r \in Request, StatementFound(r) \/ StatementDelete(r)
    PROVE  AInv'
<1>1. role \in [Organizations -> Members \cup {"none"}]
  BY DEF TInv, TTypes
<1>2. CASE StatementFound(r)
  <2>1. Is(r, "found") /\ audited' = audited
    BY <1>2 DEF StatementFound
  <2>2. CASE request' = Ended(r, "refused")
    BY <2>1, <2>2, EndsUnanswered DEF Is
  <2>3. CASE role' = [role EXCEPT ![Target(r)] = "owner"] /\ request' = Noted(Did(r), r, role', {})
    <3>1. role' \in [Organizations -> Members \cup {"none"}]
      BY <1>1, <2>3, Roles
    <3> QED
      BY <2>1, <2>3, <3>1, NotedLog
  <2> QED
    BY <1>2, <2>2, <2>3 DEF StatementFound
<1>3. CASE StatementDelete(r)
  <2>1. Is(r, "delete") /\ audited' = audited
    BY <1>3 DEF StatementDelete
  <2>2. CASE request' = Ended(r, "refused")
    BY <2>1, <2>2, EndsUnanswered DEF Is
  <2>3. CASE /\ role' = [o \in Organizations |-> IF o = Target(r) THEN "none" ELSE role[o]]
             /\ request' = Noted(Did(r), r, role', {Target(r)})
    <3>1. role' \in [Organizations -> Members \cup {"none"}]
      BY <1>1, <2>3
    <3>2. {Target(r)} \in SUBSET Row
      BY <2>1, AtHand
    <3> QED
      BY <2>1, <2>3, <3>1, <3>2, NotedLog
  <2> QED
    BY <1>3, <2>2, <2>3 DEF StatementDelete
<1> QED
  BY <1>2, <1>3

LEMMA EntryLogs ==
    ASSUME TInv, AInv, NEW r \in Request, RecordAudit(r)
    PROVE  AInv'
<1> DEFINE new == [by |-> r, known |-> For(r) # {} \/ request[r].found]
<1>1. Is(r, "audit") /\ request' = Onward(r) /\ audited' = audited \cup {new} /\ new.by = r
  BY DEF RecordAudit
<1> HIDE DEF new
<1>2. TTypes /\ Running(r) /\ request[r].left # <<>> /\ Head(request[r].left).does = "audit"
  BY <1>1, AtHand
<1>3. Else(r) /\ GoesOn(r)
  BY <1>1, <1>2, Written DEF Doing
<1>4. request[r].did
  <2>1. request[r].left \in Seq(StatementType)
    BY <1>2, RequestParts
  <2>2. Left(r)[1].does = "audit" /\ 1 \in 1..Len(Left(r))
    BY <1>2, <2>1, Tails DEF Left
  <2>3. Logged(r) /\ ~\E j \in 1..1 - 1 : TRUE
    BY <1>2 DEF AInv
  <2> QED
    BY <2>2, <2>3 DEF Logged
<1>5. request'[r].did
  BY <1>3, <1>4 DEF GoesOn
<1>6. Advances(r)
  BY <1>1, <1>2, <1>3 DEF Advances, HasEntry
<1>7. \A q \in Request : Turn(q)
  <2>1. \A q \in Request : q # r => Learns(q)
    BY <1>3 DEF Else, Learns
  <2> QED
    BY <1>6, <2>1 DEF Turn
<1> QED
  BY <1>1, <1>5, <1>7, TurnsKeep

LEMMA ReplyLogs ==
    ASSUME TInv, AInv, NEW r \in Request, Replies(r)
    PROVE  AInv'
<1>1. /\ Running(r) /\ request[r].left = <<>> /\ request' = Ended(r, "replied")
      /\ audited' = audited
  BY DEF Replies
<1>2. Else(r) /\ Stops(r, "replied")
  BY <1>1, Stopped DEF TInv
<1>3. Turn(r)
  BY <1>1, <1>2 DEF Turn, Answered
<1> QED
  BY <1>1, <1>2, <1>3, TurnKeeps

LEMMA ArrivalLogs ==
    ASSUME TInv, AInv, NEW r \in Request, NEW op \in Question, RequestArrives(r, op)
    PROVE  AInv'
<1> DEFINE s == Calls(op.route)
           ended == row[op.row] = "expired" \/ Above(op.row) \cap acked # {}
           new == [pc |-> "running", op |-> op, left |-> s, found |-> FALSE, environment |-> {},
                   dead |-> ended, held |-> {role[Organization(op.row)]}, cut |-> FALSE,
                   did |-> FALSE]
<1>1. request[r].pc = "none" /\ request' = [request EXCEPT ![r] = new] /\ audited' = audited
  <2>1. r >= r
    BY TenancyAssumption
  <2> QED
    BY <2>1 DEF RequestArrives
<1>2. op.route \in Routes
  BY DEF Question
<1>3. Logs(op.route, s)
  BY <1>2, Planned DEF WellMade
<1>4. new.pc = "running" /\ new.op = op /\ new.left = s
  OBVIOUS
<1> HIDE DEF new, s
<1>5. request'[r] = new /\ Else(r)
  BY <1>1 DEF TInv, TTypes, Else
<1>6. Turn(r)
  BY <1>1, <1>3, <1>4, <1>5 DEF Turn, Comes, Route, Left
<1> QED
  BY <1>1, <1>5, <1>6, TurnKeeps

\* A role changes, or a key expires.
LEMMA OthersLog ==
    ASSUME TInv, AInv,
           \/ \E x \in Organizations : \E new \in Members \cup {"none"} : RoleChanges(x, new)
           \/ \E x \in Row : KeyExpires(x)
    PROVE  AInv'
<1>1. audited' = audited
  BY DEF RoleChanges, KeyExpires
<1>2. ASSUME NEW x \in Organizations, NEW new \in Members \cup {"none"}, RoleChanges(x, new)
      PROVE  \A q \in Request : Learns(q)
  <2> DEFINE gone == {}
  <2>1. role' = [role EXCEPT ![x] = new] /\ request' = Noted(request, Free, role', gone)
    BY <1>2 DEF RoleChanges
  <2>2. TTypes /\ role' \in [Organizations -> Members \cup {"none"}]
    BY <2>1 DEF TInv, TTypes
  <2>3. /\ request \in [Request -> RequestType] /\ gone \in SUBSET Row
        /\ \A q \in Request : q # Free
    BY <2>2, TenancyAssumption DEF TTypes, Free
  <2> HIDE DEF gone
  <2> QED
    BY <2>1, <2>2, <2>3, Notes
<1>3. ASSUME NEW x \in Row, KeyExpires(x)
      PROVE  \A q \in Request : Learns(q)
  BY <1>3 DEF KeyExpires, Learns
<1>4. \A q \in Request : Turn(q)
  BY <1>2, <1>3 DEF Turn
<1> QED
  BY <1>1, <1>4, TurnsKeep

LEMMA AuditStart ==
    ASSUME TenancyInit
    PROVE  AInv
<1>1. \A r \in Request : request[r].pc = "none"
  BY DEF TenancyInit, NoRequest
<1> QED
  BY <1>1 DEF TenancyInit, AInv, Running

LEMMA AuditNext ==
    ASSUME TInv, AInv, TenancyStep
    PROVE  AInv'
<1>1. ASSUME NEW r \in Request, RequestStep(r)
      PROVE  AInv'
  BY <1>1, StatementsLog, RolesLog, EntryLogs, ReplyLogs DEF RequestStep
<1>2. ASSUME NEW r \in Request, RequestFails(r)
      PROVE  AInv'
  BY <1>2, EndsUnanswered DEF RequestFails
<1>3. ASSUME NEW r \in Request, NEW op \in Question, RequestArrives(r, op)
      PROVE  AInv'
  BY <1>3, ArrivalLogs
<1> QED
  BY <1>1, <1>2, <1>3, OthersLog DEF TenancyStep

LEMMA AuditStutter ==
    ASSUME AInv, UNCHANGED tenancyVars
    PROVE  AInv'
<1>1. request' = request /\ audited' = audited
  BY DEF tenancyVars
<1>2. \A r : /\ Logged(r)' = Logged(r) /\ HasEntry(r)' = HasEntry(r)
             /\ Running(r)' = Running(r) /\ Route(r)' = Route(r)
  BY <1>1 DEF Logged, HasEntry, Running, Route, Left
<1> QED
  BY <1>1, <1>2 DEF AInv

-----------------------------------------------------------------------------
(* The live view. *)

HandlerType == [pc : {"idle", "asked", "leaving"}, environment : Shown \cup {Nowhere}]
FetchType == [pc : {"idle", "sent", "answered"}, environment : Shown \cup {Nowhere},
              events : 0..MaxEvents]

\* A handler that leaves rooms has found its environment accessible, and one that joins a room
\* finds the socket in none.
LInv ==
    /\ connected \in BOOLEAN /\ due \in BOOLEAN /\ selected \in Shown
    /\ subscribe \in [Subscription -> HandlerType] /\ fetch \in [Fetch -> FetchType]
    /\ events \in [Shown -> 0..MaxEvents]
    /\ view.environment \in Shown \cup {Nowhere} /\ view.events \in 0..MaxEvents
    /\ \A f \in Fetch : fetch[f].pc # "idle" => fetch[f].environment \in Shown
    /\ \A h \in Subscription :
          /\ subscribe[h].pc = "asked" => subscribe[h].environment \in Shown
          /\ subscribe[h].pc = "leaving" => subscribe[h].environment \in granted
    /\ granted \subseteq Shown /\ rooms \subseteq granted
    /\ rooms = {} \/ \E e \in Shown : rooms = {e}
    /\ ~connected => rooms = {} /\ \A h \in Subscription : subscribe[h].pc = "idle"

LEMMA LiveStart ==
    ASSUME LiveInit
    PROVE  LInv
<1>1. /\ connected = FALSE /\ rooms = {} /\ granted = {} /\ selected = Selected /\ due = TRUE
      /\ view = [environment |-> Nowhere, events |-> 0]
      /\ subscribe = [h \in Subscription |-> [pc |-> "idle", environment |-> Nowhere]]
      /\ fetch = [f \in Fetch |-> NoFetch] /\ events = [e \in Shown |-> 0]
  BY DEF LiveInit
<1>2. 0 \in 0..MaxEvents
  BY LiveAssumption
<1> QED
  BY <1>1, <1>2, LiveAssumption DEF LInv, HandlerType, FetchType, NoFetch

LEMMA FirstIdle ==
    \A slots : /\ First(Idle(slots)) \subseteq DOMAIN slots
               /\ \A s \in First(Idle(slots)) : slots[s].pc = "idle"
  BY DEF First, Idle

LEMMA LiveKeeps ==
    ASSUME LInv, LiveNext
    PROVE  LInv'
<1> USE LiveAssumption DEF LInv
<1>1. ASSUME NEW e \in Shown, Subscribed(e)
      PROVE  /\ subscribe' \in [Subscription -> HandlerType]
             /\ \A h \in Subscription :
                   /\ subscribe'[h].pc = "asked" => subscribe'[h].environment \in Shown
                   /\ subscribe'[h].pc = "leaving" => subscribe'[h].environment \in granted
  <2>1. PICK h \in Subscription :
            subscribe' = [subscribe EXCEPT ![h] = [pc |-> "asked", environment |-> e]]
    BY <1>1, FirstIdle DEF Subscribed
  <2>2. [pc |-> "asked", environment |-> e] \in HandlerType
    BY DEF HandlerType
  <2> QED
    BY <2>1, <2>2
<1>2. CASE Connect
  <2>1. /\ connected' = TRUE /\ Subscribed(selected)
        /\ UNCHANGED <<rooms, granted, selected, due, fetch, view, events>>
    BY <1>2 DEF Connect
  <2> QED
    BY <1>1, <2>1
<1>3. CASE Disconnect
  <2>1. /\ connected' = FALSE /\ rooms' = {} /\ granted' = {}
        /\ subscribe' = [h \in Subscription |-> [pc |-> "idle", environment |-> Nowhere]]
        /\ UNCHANGED <<selected, due, fetch, view, events>>
    BY <1>3 DEF Disconnect
  <2>2. [pc |-> "idle", environment |-> Nowhere] \in HandlerType
    BY DEF HandlerType
  <2> QED
    BY <2>1, <2>2
<1>4. ASSUME NEW e \in Shown, Select(e)
      PROVE  LInv'
  <2>1. /\ selected' = e /\ due' = TRUE /\ IF connected THEN Subscribed(e) ELSE UNCHANGED subscribe
        /\ UNCHANGED <<connected, rooms, granted, fetch, view, events>>
    BY <1>4 DEF Select
  <2>2. CASE connected
    BY <1>1, <2>1, <2>2
  <2>3. CASE ~connected
    BY <2>1, <2>3
  <2> QED
    BY <2>2, <2>3
<1>5. ASSUME NEW h \in Subscription, CheckAccess(h)
      PROVE  LInv'
  <2>1. /\ subscribe[h].pc = "asked" /\ subscribe[h].environment \in Shown /\ connected
        /\ UNCHANGED <<connected, rooms, selected, due, fetch, view, events>>
    BY <1>5 DEF CheckAccess
  <2>2. CASE /\ subscribe' = [subscribe EXCEPT ![h].pc = "leaving"]
             /\ granted' = granted \cup {subscribe[h].environment}
    <3>1. /\ subscribe' \in [Subscription -> HandlerType]
          /\ subscribe'[h].environment = subscribe[h].environment
          /\ \A g \in Subscription : g # h => subscribe'[g] = subscribe[g]
      BY <2>2 DEF HandlerType
    <3>2. /\ granted' \subseteq Shown /\ granted \subseteq granted'
          /\ subscribe'[h].environment \in granted'
      BY <2>1, <2>2, <3>1
    <3>3. subscribe'[h].pc = "leaving"
      BY <2>2 DEF HandlerType
    <3> QED
      BY <2>1, <3>1, <3>2, <3>3
  <2>3. CASE subscribe' = [subscribe EXCEPT ![h].pc = "idle"] /\ granted' = granted
    <3>1. /\ subscribe' \in [Subscription -> HandlerType] /\ subscribe'[h].pc = "idle"
          /\ \A g \in Subscription : g # h => subscribe'[g] = subscribe[g]
      BY <2>3 DEF HandlerType
    <3> QED
      BY <2>1, <2>3, <3>1
  <2> QED
    BY <1>5, <2>2, <2>3 DEF CheckAccess
<1>6. ASSUME NEW h \in Subscription, Leave(h)
      PROVE  LInv'
  <2>1. /\ subscribe[h].pc = "leaving" /\ connected
        /\ UNCHANGED <<connected, granted, selected, due, fetch, view, events>>
    BY <1>6 DEF Leave
  <2>2. rooms' = {}
    BY <1>6 DEF Leave
  <2>3. subscribe' = subscribe
    BY <1>6, <2>1 DEF Leave, AfterLeave, HandlerType
  <2> QED
    BY <2>1, <2>2, <2>3
<1>7. ASSUME NEW h \in Subscription, Join(h)
      PROVE  LInv'
  <2>1. /\ subscribe[h].pc = "leaving" /\ connected /\ rooms = {}
        /\ rooms' = rooms \cup {subscribe[h].environment}
        /\ subscribe' = [subscribe EXCEPT ![h].pc = "idle"]
        /\ UNCHANGED <<connected, granted, selected, due, fetch, view, events>>
    BY <1>7 DEF Join, HandlerType
  <2>2. /\ subscribe' \in [Subscription -> HandlerType] /\ subscribe'[h].pc = "idle"
        /\ \A g \in Subscription : g # h => subscribe'[g] = subscribe[g]
    BY <2>1 DEF HandlerType
  <2>3. rooms' = {subscribe[h].environment} /\ subscribe[h].environment \in granted
    BY <2>1
  <2> QED
    BY <2>1, <2>2, <2>3
<1>8. ASSUME NEW e \in Shown, Publish(e)
      PROVE  LInv'
  <2>1. /\ events[e] < MaxEvents /\ events' = [events EXCEPT ![e] = @ + 1]
        /\ due' = (due \/ e \in rooms)
        /\ UNCHANGED <<connected, rooms, subscribe, granted, selected, fetch, view>>
    BY <1>8 DEF Publish
  <2>2. events' \in [Shown -> 0..MaxEvents]
    BY <2>1
  <2> QED
    BY <2>1, <2>2
<1>9. ASSUME NEW f \in Fetch, Ask(f)
      PROVE  LInv'
  <2>1. /\ due' = FALSE
        /\ fetch' = [fetch EXCEPT ![f] = [pc |-> "sent", environment |-> selected, events |-> 0]]
        /\ UNCHANGED <<connected, rooms, subscribe, granted, selected, view, events>>
    BY <1>9 DEF Ask
  <2>2. [pc |-> "sent", environment |-> selected, events |-> 0] \in FetchType
    BY DEF FetchType
  <2>3. /\ fetch' \in [Fetch -> FetchType]
        /\ \A g \in Fetch : fetch'[g].pc # "idle" => fetch'[g].environment \in Shown
    BY <2>1, <2>2 DEF FetchType
  <2> QED
    BY <2>1, <2>3
<1>10. ASSUME NEW f \in Fetch, Answer(f)
       PROVE  LInv'
  <2>1. /\ fetch[f].pc = "sent" /\ fetch[f].environment \in Shown
        /\ UNCHANGED <<connected, rooms, subscribe, granted, selected, due, view, events>>
    BY <1>10 DEF Answer
  <2>2. events[fetch[f].environment] \in 0..MaxEvents
    BY <2>1
  <2>3. CASE fetch' = [fetch EXCEPT ![f] =
                           [@ EXCEPT !.pc = "answered", !.events = events[fetch[f].environment]]]
    <3>1. /\ fetch' \in [Fetch -> FetchType] /\ fetch'[f].environment = fetch[f].environment
          /\ \A g \in Fetch : g # f => fetch'[g] = fetch[g]
      BY <2>2, <2>3 DEF FetchType
    <3> QED
      BY <2>1, <3>1
  <2>4. CASE fetch' = [fetch EXCEPT ![f] = NoFetch]
    <3>1. NoFetch \in FetchType /\ NoFetch.pc = "idle"
      BY DEF NoFetch, FetchType
    <3>2. fetch' \in [Fetch -> FetchType] /\ fetch'[f].pc = "idle"
          /\ \A g \in Fetch : g # f => fetch'[g] = fetch[g]
      BY <2>4, <3>1
    <3> QED
      BY <2>1, <3>2
  <2> QED
    BY <1>10, <2>3, <2>4 DEF Answer
<1>11. ASSUME NEW f \in Fetch, Show(f)
       PROVE  LInv'
  <2>1. /\ fetch[f].pc = "answered" /\ fetch' = [fetch EXCEPT ![f] = NoFetch]
        /\ view' = [environment |-> fetch[f].environment, events |-> fetch[f].events]
        /\ UNCHANGED <<connected, rooms, subscribe, granted, selected, due, events>>
    BY <1>11 DEF Show
  <2>2. NoFetch \in FetchType /\ NoFetch.pc = "idle"
    BY DEF NoFetch, FetchType
  <2>3. fetch' \in [Fetch -> FetchType] /\ fetch'[f].pc = "idle"
        /\ \A g \in Fetch : g # f => fetch'[g] = fetch[g]
    BY <2>1, <2>2
  <2>4. view'.environment \in Shown \cup {Nowhere} /\ view'.events \in 0..MaxEvents
    BY <2>1 DEF FetchType
  <2> QED
    BY <2>1, <2>3, <2>4
<1> QED
  BY <1>2, <1>3, <1>4, <1>5, <1>6, <1>7, <1>8, <1>9, <1>10, <1>11 DEF LiveNext, Handler

LEMMA LiveStutter ==
    ASSUME LInv, UNCHANGED liveVars
    PROVE  LInv'
  BY DEF LInv, liveVars

-----------------------------------------------------------------------------
(***************************************************************************)
(* The theorems.                                                           *)
(***************************************************************************)

ConsoleInv == SInv /\ TInv /\ AInv /\ LInv /\ load \in Load

LEMMA ConsoleStart == Init => ConsoleInv
<1> SUFFICES ASSUME Init PROVE ConsoleInv
  OBVIOUS
<1>1. load \in Load /\ SessionsInit(load.opened, load.mailed) /\ TenancyInit /\ LiveInit
  BY DEF Init
<1>2. load.opened \in BOOLEAN /\ load.mailed \in Nat
  BY <1>1, LoadAssumption
<1>3. SInv
  BY <1>1, <1>2, SessionsStart
<1> QED
  BY <1>1, <1>3, TenancyStart, AuditStart, LiveStart DEF ConsoleInv

\* Each part of the specification moves by itself, and the load bounds what it does.
LEMMA ConsoleNext == ConsoleInv /\ [Next]_vars => ConsoleInv'
<1> SUFFICES ASSUME ConsoleInv, [Next]_vars PROVE ConsoleInv'
  OBVIOUS
<1>1. SInv /\ TInv /\ AInv /\ LInv /\ load \in Load
  BY DEF ConsoleInv
<1>2. CASE SessionsMove
  <2>1. SessionsStep
    BY <1>1, <1>2, LoadAssumption DEF SessionsMove, SessionsStep
  <2>2. UNCHANGED <<tenancyVars, liveVars, load>>
    BY <1>2 DEF SessionsMove
  <2> QED
    BY <1>1, <2>1, <2>2, SessionsNext, TenancyStutter, AuditStutter,
       LiveStutter DEF ConsoleInv
<1>3. CASE TenancyMove
  <2>1. TenancyStep
    BY <1>1, <1>3, LoadAssumption, Roles DEF TenancyMove, TenancyStep
  <2>2. UNCHANGED <<sessionsVars, liveVars, load>>
    BY <1>3 DEF TenancyMove
  <2> QED
    BY <1>1, <2>1, <2>2, SessionsStutter, TenancyNext, AuditNext,
       LiveStutter DEF ConsoleInv
<1>4. CASE LiveMove
  <2>1. LiveNext /\ UNCHANGED <<sessionsVars, tenancyVars, load>>
    BY <1>4 DEF LiveMove
  <2> QED
    BY <1>1, <2>1, SessionsStutter, TenancyStutter, AuditStutter,
       LiveKeeps DEF ConsoleInv
<1>5. CASE UNCHANGED vars
  <2>1. UNCHANGED sessionsVars /\ UNCHANGED tenancyVars /\ UNCHANGED liveVars /\ load' = load
    BY <1>5 DEF vars
  <2> QED
    BY <1>1, <2>1, SessionsStutter, TenancyStutter, AuditStutter,
       LiveStutter DEF ConsoleInv
<1> QED
  BY <1>2, <1>3, <1>4, <1>5 DEF Next

LEMMA ConsoleAlways == Spec => []ConsoleInv
  BY ConsoleStart, ConsoleNext, PTL DEF Spec

LEMMA TenancyTyped == TInv => TenancyTypeOK
<1> SUFFICES ASSUME TInv PROVE TenancyTypeOK
  OBVIOUS
<1>1. TTypes /\ Rows
  BY DEF TInv
<1>2. \A x \in Row : There(x) => \A y \in Above(x) : There(y)
  BY <1>1, AllThere
<1>3. \A r \in Request : request[r].pc \in {"none", "running", "replied", "refused", "failed"}
  BY <1>1 DEF TTypes, RequestType
<1> QED
  BY <1>1, <1>2, <1>3 DEF TenancyTypeOK, TTypes

LEMMA LiveTyped == LInv => LiveTypeOK
<1> SUFFICES ASSUME LInv PROVE LiveTypeOK
  OBVIOUS
<1>1. ~connected => Idle(subscribe) = Subscription
  BY DEF LInv, Idle
<1> QED
  BY <1>1 DEF LInv, LiveTypeOK

\* The types of the sessions, the tenants and the live view hold in every state: a lock is held
\* by a reset that runs (store.ts resetPassword), the cascades of the schema leave no row under
\* one that is gone, and a socket that is not connected is in no room (server.ts).
THEOREM TypeCorrect == Spec => []TypeOK
<1>1. ConsoleInv => TypeOK
  BY SessionsTyped, TenancyTyped, LiveTyped DEF ConsoleInv, TypeOK
<1> QED
  BY <1>1, ConsoleAlways, PTL

\* A password-reset token is spent once (store.ts resetPassword): of any number of resets that
\* run at once, none is done with a token that another one found unused.
THEOREM TokenSpentOnce == Spec => []TokenOnce
<1>1. ConsoleInv => TokenOnce
  BY DEF ConsoleInv, SInv
<1> QED
  BY <1>1, ConsoleAlways, PTL

\* A password reset ends the sessions of older passwords, but for that of a login that had shown
\* its password before and wrote its session after (store.ts resetPassword, authenticateUser).
THEOREM ResetEndsSessions == Spec => []ResetRevokes
<1>1. ConsoleInv => ResetRevokes
  BY DEF ConsoleInv, SInv
<1> QED
  BY <1>1, ConsoleAlways, PTL

\* No ingestion request stores events by a key that had expired, or whose end or the end of what
\* it belongs to had been acknowledged, when the request came in (store.ts findActiveApiKey).
THEOREM DeadKeysStoreNothing == Spec => []KeyDead
<1>1. ConsoleInv => KeyDead
  BY DEF ConsoleInv, TInv, Entries, KeyDead
<1> QED
  BY <1>1, ConsoleAlways, PTL

\* Whatever requests of a user overlap, with whatever changes of the user's roles: what a request
\* did or showed its user had a role for while it ran, what is refused has changed nothing, but
\* for the settings of an organization without environments; a request that is to be audited has
\* its entry when it is answered, and each entry is of something done, in its organization unless
\* the user was cut off meanwhile (the routes of app.ts, recordAudit()).
THEOREM EverythingAccounted == Spec => []Accounted
<1>1. TInv /\ AInv => Accounted
  <2>1. SUFFICES ASSUME TInv, AInv, NEW r \in Request
                 PROVE  /\ request[r].did /\ Route(r) \notin Unguarded =>
                              request[r].held \cap Entitled(Route(r)) # {}
                        /\ request[r].pc = "refused" /\ request[r].did =>
                              Route(r) = "updateSecurity"
                        /\ request[r].pc = "replied" /\ Route(r) \in Auditable =>
                              \E entry \in audited : entry.by = r
                        /\ \A entry \in audited :
                              entry.by = r => request[r].did /\ (entry.known \/ request[r].cut)
    BY DEF Accounted, Route
  <2>2. Answerable(r) /\ Entries
    BY <2>1 DEF TInv
  <2>3. \A entry \in audited : entry.by = r => request[r].did /\ (entry.known \/ request[r].cut)
    BY <2>1, <2>2 DEF Entries, AInv
  <2>4. request[r].pc = "replied" /\ Route(r) \in Auditable => \E entry \in audited : entry.by = r
    BY <2>1 DEF AInv, HasEntry
  <2> QED
    BY <2>2, <2>3, <2>4 DEF Answerable, HeldEntitled
<1> QED
  BY <1>1, ConsoleAlways, PTL DEF ConsoleInv

\* However subscriptions of a socket overlap, it is in the room of one environment at most, and of
\* one that the user had access to after the handshake (server.ts environment:subscribe).
THEOREM InOneRoom == Spec => []OneRoom
<1>1. LInv => OneRoom
  <2>1. SUFFICES ASSUME LInv PROVE Cardinality(rooms) <= 1
    BY DEF LInv, OneRoom
  <2>2. CASE rooms = {}
    <3>1. Cardinality({}) = 0
      BY FS_EmptySet
    <3> QED
      BY <2>2, <3>1
  <2>3. ASSUME NEW e \in Shown, rooms = {e}
        PROVE  Cardinality(rooms) <= 1
    <3>1. Cardinality({e}) = 1
      BY FS_Singleton, Zenon
    <3> QED
      BY <2>3, <3>1
  <2> QED
    BY <2>1, <2>2, <2>3 DEF LInv
<1> QED
  BY <1>1, ConsoleAlways, PTL DEF ConsoleInv

==============================================================================
