SPECIFICATION Spec
CONSTANTS
    x = x
    y = y
    l = l
    root = root
    child = child
    leaf = leaf
    Cgroups = {root, child}
    Chain <- MCChainShort
    Progs = {x, y}
    Links = {l}
    Attachable <- MCAttachable
    Paths = {}
    Tasks = {}
    MaxProgs = 2
    AttachFlags = {"none", "override", "multi"}
    OutOfMemory = TRUE
    MaxPurged = 1
    Global = Global
    Nobody = Nobody
    Dummy = Dummy
SYMMETRY Symmetry
INVARIANTS
    TypeOK
    SettledTree
    KeyCovers
