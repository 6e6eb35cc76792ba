SPECIFICATION Spec
CONSTANTS
    Cgroups = {c}
    Writers = {w1, w2}
    Tasks = {t}
    TargetIds = {1, 2}
    Objects = {base, dir, file}
    Dirs = {base, dir}
    Base = base
    Records = {r1, r2, r3}
    MaxComponents = 2
    Null = Null
SYMMETRY Symmetry
INVARIANTS
    TypeOK
    NoUseAfterFree
    SelectedAlive
    RefsBalanced
    NoLeak
    ReleasedLeavesNothing
