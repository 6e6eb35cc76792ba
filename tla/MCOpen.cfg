SPECIFICATION Spec
CONSTANTS
    Dirs <- MCDirs
    Files <- MCFiles
    Links <- MCLinks
    Names <- MCNames
    Root = "/"
    Cwd = "d"
    ParentOf <- MCParentOf
    Body <- MCBody
    Managed = {"d"}
    Fresh = "new"
    Layouts <- MCLayouts
    Policies <- MCPolicies
    Calls <- MCCalls
    MaxSymlinks = 3
    MaxChanges = 1
    Nil = Nil
INVARIANTS TypeOK RefsMatchPointers LinkBodiesAlive CreatesOnlyWhatPassed StaysBeneath ResolvesAsNamed
PROPERTY CallAdvances
