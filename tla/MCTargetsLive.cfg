SPECIFICATION FairSpec
CONSTANTS
    Cgroups = {c}
    Writers = {w}
    Tasks = {t}
    TargetIds = {1}
    Objects = {base, dir}
    Dirs = {base, dir}
    Base = base
    Records = {r1, r2}
    MaxComponents = 2
    Null = Null
PROPERTIES
    WalkTerminates
    UpdateTerminates
