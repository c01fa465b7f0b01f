\* Every component of the auth package, each over its whole state space.
CONSTANTS
    Users = {alice, bob}
    AccessTtl = 1
    RefreshTtl = 2
    ClaimsChecked = FALSE
    MaxPairs = 3
    MaxTime = 3
    None = None
    SessionTtl = 1
    MaxSessions = 3
    MaxSessionTime = 4
    Emails = {"ann", "Ann"}
    Lower <- MCLower
    Passwords = {"old", "new", "short"}
    Weak = {"short"}
    Hashers <- MCHashers
    Clients = {"c1", "c2"}
    ResetTtl = 1
    MaxResets = 2
    MaxResetTime = 2
    Drift = 1
    CodeCount = 2
    MaxGenerated = 3
    MaxStep = 2
    EventTypes = {"base", "login"}
    BaseEvent = "base"
    Listeners = {"l1", "l2"}
    Tasks = {"t1", "t2"}
    MaxDispatches = 2
    MaxRegistered = 1
    k1 = k1
    k2 = k2
    k3 = k3
    p1 = p1
    p2 = p2
    p3 = p3
SPECIFICATION MCSpec
SYMMETRY Symmetry
INVARIANTS
    TypesOK
    RevokeAllReachesEveryToken
    OnlyNewestPairLives
    LockedExactly
    AccessTokensAreExact
    SecretsHold
    ListenersHear
    
PROPERTY ImplementCredentials
CHECK_DEADLOCK FALSE
