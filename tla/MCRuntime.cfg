\* Every component; the instances are in MCRuntime and MCRequests.
CONSTANTS
    None = None
    Broken = Broken
    NoProvider = NoProvider
    NoThread = NoThread
    NoValue = NoValue
    Mask = Mask
    t1 = t1
    t2 = t2
    eager = eager
    lazy = lazy
    base = base
    http = http
    bot = bot
    page = page
    command = command
    timer = timer
    g1 = g1
    g2 = g2
    v1 = v1
    v2 = v2
    Callers = {"t1", "t2"}
    Services = {"x", "y"}
    MaxServices = 3
    Commands = {"deploy", "migrate", "import"}
    LockKeyOf <- MCLockKeyOf
    RetriesOf <- MCRetriesOf
    TimedCommands = {"deploy", "migrate"}
    GuardedCommands = {"deploy"}
    CallsOf <- MCCallsOf
    MaxCommandCalls = 2
    BootTasks = {t1, t2}
    Providers = {eager, lazy, base}
    Deferred = {lazy, base}
    ProvidedKeys = {"eager", "lazy", "base"}
    Provides <- MCProvides
    Uses <- MCUses
    MaxBoots = 3
    Loggers = {l1, l2}
    Flushers = {timer, caller}
    BufferSize = 3
    MaxMessages = 4
    Adapters = {http, bot}
    AdapterRoutes = {page, command}
    Accepts <- MCAccepts
    Components = {"boot", "config", "startup", "reload", "alone", "racing", "filling", "timed", "full",
                  "checks", "nested", "routes", "shares", "owns", "scope", "lifecycle",
                  "environment", "channels", "limiter"}
SPECIFICATION Spec
INVARIANTS
    TypesOK
    BootsInOrder
    CachesAreCurrent
    MessagesAreHeard
    LocksAreOfLifecycles
    
    
    RoutesAreGuarded
    ResolvedIsClosed
PROPERTIES
    SettingsChangeAsTold
    
CHECK_DEADLOCK FALSE
