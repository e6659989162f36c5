CONSTANTS
    me = me
    c1 = c1
    x1 = x1
    x2 = x2
    h1 = h1
    h2 = h2
    h3 = h3
    Me = me
    Clients = {c1}
    Actions = {x1, x2}
    Handlers = {h1, h2, h3}
    ActionOf <- MCActionOf
    KindOf <- MCKindOf
    None = None
    MaxCrashes = 1
    RetryInterval = 1
    RetryIntervalMax = 2
    MaxRequestTime = 1
SPECIFICATION Spec
INVARIANTS TypeOK WaitingShown
PROPERTIES CacheKeepsPending FeedPromise
