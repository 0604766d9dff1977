\* Two events on one key, counted in up to four maps each.
CONSTANTS
    Tools <- SeveralMapsTools
    e1 = e1
    e2 = e2
    c1 = c1
    c2 = c2
    s1 = s1
    s2 = s2
    Events = {e1, e2}
    CPUs = {c1, c2}
    KeyOrder <- OneKey
    Home <- HomeOf
    Slots = {s1, s2}
    MaxEntries = 1
    MaxEvents <- EventsOf
    KeysOf <- SomeKeys
SPECIFICATION Spec
SYMMETRY Symmetry
INVARIANTS
    ReportedAtMostOnce
    LostOnlyToRaces
