SPECIFICATION ImplSpec
CONSTANTS
    Cgroups = {c1, c2}
    Paths = {p1, p2}
    Readers = {r1}
    Writers = {w1}
    ScopeIds = {s1, s2, s3}
    MaxParents = 2
    UintMax = 3
    Null = Null
    Global = Global
    NoQuery = NoQuery
    Tombstone = Tombstone
    Attacher = Attacher
    Releaser = Releaser
SYMMETRY Symmetry
INVARIANTS
    TypeOK
    IndexMatchesScopes
    CountersMatch
    NoUseAfterFree
    NoLeak
    ReleasedLeavesNothing
PROPERTIES
    SaturationJustified
    PrefilterSound
