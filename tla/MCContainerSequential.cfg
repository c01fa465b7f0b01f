\* One task that calls three times.
CONSTANTS
    Handler = Handler
    Repo = Repo
    Left = Left
    Right = Right
    db = db
    cache = cache
    connect = connect
    t1 = t1
    t2 = t2
    NoTask = NoTask
    NoClass = NoClass
    Tasks <- OneTask
    Keys <- MCKeys
    Classes <- MCClasses
    Factories <- MCFactories
    Needs <- MCNeeds
    Registrations <- MCRegistrations
    MaxCalls = 3
    MaxBindings = 3
SPECIFICATION FairSpec
INVARIANT SingletonIsOneObject
PROPERTIES
    CircularIsReal
    
