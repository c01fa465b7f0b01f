\* Two tasks of one process, each with a connection for its session.
CONSTANTS
    None = None
    Unmatched = Unmatched
    NoConnection = NoConnection
    NoCursor = NoCursor
    NoTenant = NoTenant
    NoUser = NoUser
    Servers = {p1, p2, p3}
    CacheKeys <- MCCacheKeys
    TagGroups <- MCTagGroups
    CacheTtl = 1
    MaxVersion = 2
    MaxCacheTime = 2
    Requests = {t1, t2}
    Tenants = {acme, umbrella}
    TenantOf <- MCTenantOf
    MaxRows = 2
    Workers = {"t1", "t2"}
    ConnectionNames <- MCConnectionNames
    MaxRetries = 2
    MaxEngines = 3
    MaxOperations = 2
    p1 = p1
    p2 = p2
    t1 = t1
    t2 = t2
    t3 = t3
    c1 = c1
    c2 = c2
    acme = acme
    umbrella = umbrella
SPECIFICATION Spec
CHECK_DEADLOCK FALSE
CONSTANT Components = {"together"}
INVARIANT ReleasedIsFree
