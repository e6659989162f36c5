CONSTANTS
    i1 = i1
    i2 = i2
    x1 = x1
    x2 = x2
    h1 = h1
    h2 = h2
    h3 = h3
    Agents = {i1, i2}
    Actions = {x1}
    Handlers = {h1, h2}
    AgentOf <- PairAgentOf
    ActionOf <- PairActionOf
    KindOf <- PairKindOf
    AutoAgents = {i1}
    None = None
    LoadBalancing = TRUE
    RedisFaults = TRUE
    MaxCrashes = 1
    RetryInterval = 1
    RetryIntervalMax = 2
    MaxRequestTime = 1
SPECIFICATION FairSpec
INVARIANTS ExclusiveSigning NoOrphanLock BackoffBound NoStaleMessage
PROPERTIES ReleasesOwn NeverDropPending Forward HandlersFinish
