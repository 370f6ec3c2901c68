SPECIFICATION Spec
CONSTANTS
    r1 = r1
    g1 = g1
    s1 = s1
    s2 = s2
    Users = {u1}
    RoleNames = {r1, g1}
    Scopes = {s1, s2}
    UnknownScopes = {}
    NotFound = NotFound
    GlobalRoles <- MCGlobalRoles
    SaveFailures = TRUE
INVARIANTS TypeOK MasksCoherent RightsAccountedFor
PROPERTIES RevocationsNeverGrant RestartFollowsFile
