SPECIFICATION Spec
CONSTANTS
    x = x
    y = y
    l = l
    root = root
    child = child
    leaf = leaf
    Cgroups = {root, child, leaf}
    Chain <- MCChain
    Progs = {x}
    Links = {}
    Attachable = {x}
    Paths = {p}
    Tasks = {t}
    MaxProgs = 2
    AttachFlags = {"override"}
    OutOfMemory = FALSE
    MaxPurged = 1
    Global = Global
    Nobody = Nobody
    Dummy = Dummy
INVARIANTS
    SettledTree
    AttachedOwnerIsCovered
    DispatchAlive
