CONSTANTS
    i1 = i1
    i2 = i2
    c1 = c1
    c2 = c2
    c3 = c3
    k1 = k1
    k2 = k2
    Providers = {"aws", "gcp", "oci"}
    Instances = {i1, i2}
    Callers = {c1, c2, c3}
    InstanceOf <- SomeInstanceOf
    Keys = {k1, k2}
    None = None
    Marker = Marker
    Absent = Absent
    Error = Error
SPECIFICATION FairSpec
INVARIANTS TypeOK Locks
PROPERTIES AtomicMap CallsReturn
