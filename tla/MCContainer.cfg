\* Two tasks, two calls each, two registrations at any time.
CONSTANTS
    Handler = Handler
    Repo = Repo
    Left = Left
    Right = Right
    db = db
    cache = cache
    connect = connect
    t1 = t1
    t2 = t2
    NoTask = NoTask
    NoClass = NoClass
    Tasks <- MCTasks
    Keys <- MCKeys
    Classes <- MCClasses
    Factories <- MCFactories
    Needs <- MCNeeds
    Registrations <- MCRegistrations
    MaxCalls = 2
    MaxBindings = 2
SPECIFICATION Spec
SYMMETRY Symmetry
INVARIANTS
    StackHasNoDuplicates
    StackCountsResolves
    SingletonsPerTask
