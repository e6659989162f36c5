CONSTANTS
    r1 = r1
    r2 = r2
    r3 = r3
    k1 = k1
    k2 = k2
    Requests = {r1, r2}
    Ids = {k1, k2}
    IdOf <- PairIdOf
    None = None
    Torn = Torn
    MaxCrashes = 0
SPECIFICATION Spec
INVARIANTS OneRegistration
