\* mmap_stat with two PIDs in one bucket of its map: does a pass come to its end?
CONSTANTS
    Tools <- MmapTool
    e1 = e1
    e2 = e2
    c1 = c1
    s1 = s1
    s2 = s2
    s3 = s3
    Events = {e1, e2}
    CPUs = {c1}
    KeyOrder <- TwoKeys
    Home <- HomeOf
    Slots = {s1, s2, s3}
    MaxEntries = 2
    MaxEvents <- EventsOf
    KeysOf <- SomeKeys
SPECIFICATION FairSpec
PROPERTY PassEnds
