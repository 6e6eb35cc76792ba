SPECIFICATION FairSpec
CONSTANTS
    Cgroups = {c1}
    Paths = {p1}
    Readers = {r1}
    Writers = {w1, w2}
    ScopeIds = {s1, s2}
    MaxParents = 2
    UintMax = 3
    Null = Null
    Tombstone = Tombstone
    Attacher = Attacher
    Releaser = Releaser
PROPERTIES
    WalkTerminates
    CommandTerminates
