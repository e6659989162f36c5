CONSTANTS
    r1 = r1
    r2 = r2
    r3 = r3
    k1 = k1
    k2 = k2
    Requests = {r1, r2, r3}
    Ids = {k1, k2}
    IdOf <- SomeIdOf
    None = None
    Torn = Torn
    MaxCrashes = 1
SPECIFICATION FairSpec
INVARIANTS TypeOK Restartable Remembered OwnKeys OneHub OneAgent
PROPERTIES Answered
