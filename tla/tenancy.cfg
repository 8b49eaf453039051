SPECIFICATION MCSpec
CONSTANTS
    o1 = o1
    u1 = u1
    s1 = s1
    Orgs = {o1, o2}
    Users = {u1, u2}
    Events = {e1, e2, e3}
    Slugs = {s1, s2}
    Requests = {r1, r2}
    PLAN_LIMITS <- MCPlanLimits
    Limits = {0, 3}
    Workloads <- MCWorkloads
    Sessions = {r1, r2}
    Links = {e1, e2, e3}
    Calls = {r1, r2}
    MaxPasswords = 3
    Tenants = {"t1", "t2"}
    Galas = {"g1", "g3"}
    TenantOf <- MCTenantOf
    Files = {"f1", "f2"}
    SizeOf <- MCSizeOf
    Videos = {"f2"}
    GalaOf <- MCGalaOf
    EXPIRY_WARNING_DAYS = 1
    LastDay = 1
SYMMETRY MCSymmetry
INVARIANTS TenancyInv AccountInv AnswersAgree
PROPERTIES LastOwnerLostToStaleRoster
CHECK_DEADLOCK FALSE
