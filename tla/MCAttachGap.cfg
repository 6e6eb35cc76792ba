SPECIFICATION Spec
CONSTANTS
    x = x
    y = y
    l = l
    root = root
    child = child
    leaf = leaf
    Cgroups = {root, child}
    Chain <- MCChainShort
    Progs = {x}
    Links = {}
    Attachable = {x}
    Paths = {p}
    Tasks = {}
    MaxProgs = 2
    AttachFlags = {"none"}
    OutOfMemory = FALSE
    MaxPurged = 1
    Global = Global
    Nobody = Nobody
    Dummy = Dummy
INVARIANTS
    PrefilterNeverMisses
