CONSTANTS
    p1 = p1
    p2 = p2
    Initiations = {p1, p2}
    None = None
    Lifetimes <- SomeLifetimes
    MaxRequestTime = 1
SPECIFICATION FairSpec
INVARIANTS TypeOK Fresh TokenOfAgent NoPanic
PROPERTIES RefreshersEnd
