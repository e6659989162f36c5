CONSTANTS
    i1 = i1
    i2 = i2
    x1 = x1
    x2 = x2
    h1 = h1
    h2 = h2
    h3 = h3
    Agents = {i1}
    Actions = {x1, x2}
    Handlers = {h1, h2}
    AgentOf <- SharedAgentOf
    ActionOf <- SharedActionOf
    KindOf <- TwinKindOf
    AutoAgents = {i1, i2}
    None = None
    LoadBalancing = TRUE
    RedisFaults = FALSE
    MaxCrashes = 0
    RetryInterval = 1
    RetryIntervalMax = 2
    MaxRequestTime = 1
SPECIFICATION Spec
INVARIANTS LockIsForTheAction
