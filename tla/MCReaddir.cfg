SPECIFICATION Spec
CONSTANTS
    Cgroups = {c1, c2}
    Tasks = {t1, t2}
    NumEntries = 3
    Policies <- MCPolicies
    BufferSizes = {1, 3}
    NameSize = 1
    RedirectSize = 2
    Off = Off
    Nobody = Nobody
SYMMETRY Symmetry
INVARIANTS
    TypeOK
    EachEntryOnce
    EndIsEnd
    CgroupAlive
    HiddenStaysHidden
