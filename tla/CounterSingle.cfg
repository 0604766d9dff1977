\* Three events under three keys in two buckets, a map with room for two of them.
CONSTANTS
    Tools <- SingleMapTools
    e1 = e1
    e2 = e2
    e3 = e3
    c1 = c1
    c2 = c2
    s1 = s1
    s2 = s2
    s3 = s3
    Events = {e1, e2, e3}
    CPUs = {c1, c2}
    KeyOrder <- ThreeKeys
    Home <- HomeOf
    Slots = {s1, s2, s3}
    MaxEntries = 2
    MaxEvents <- EventsOf
    KeysOf <- SomeKeys
SPECIFICATION Spec
SYMMETRY Symmetry
INVARIANTS
    TypeOK
    ReportedAtMostOnce
    LostOnlyToRaces
    
    PassComplete
