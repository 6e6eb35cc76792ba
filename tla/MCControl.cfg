SPECIFICATION Spec
CONSTANTS
    app = app
    cert = cert
    retired = retired
    added = added
    Entries <- MCEntries
    Present <- MCPresent
    MaxFaults = 3
    Nil = Nil
INVARIANTS
    PublishedIsComplete
    CleanReportIsClean
    FailsOnlyIfDisturbed
PROPERTY LifecycleEnds
