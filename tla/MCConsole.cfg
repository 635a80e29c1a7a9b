SPECIFICATION Spec
CONSTANTS
    org = org
    org2 = org2
    project = project
    project2 = project2
    env1 = env1
    env2 = env2
    env3 = env3
    key1 = key1
    key2 = key2
    Call = {1, 2, 3, 4}
    MaxSessions = 2
    MaxTokens = 2
    Request = {1, 2, 3}
    Row = {org, org2, project, project2, env1, env2, env3, key1, key2}
    Parent <- MCParent
    Kept = {org, project, env1, env2, key1}
    InitialRole = "owner"
    Subscription = {1, 2}
    Fetch = {1, 2}
    Shown = {env1, env2}
    Selected = env1
    MaxSelects = 2
    MaxEvents = 1
    MaxDrops = 1
    Load <- MCLoad
INVARIANTS TypeOK TokenOnce ResetRevokes KeyDead Accounted OneRoom
PROPERTIES EventuallyFresh
CHECK_DEADLOCK FALSE
