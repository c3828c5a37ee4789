SPECIFICATION Spec
CONSTANTS
    c1 = c1
    c2 = c2
    c3 = c3
    no_caller = no_caller
    NoCaller = no_caller
    Callers <- TwoCallers
    MaxBytes = 3
    MaxTime = 2
    Lead = 0
    Cooldown = 1
    Lives <- OneLife
    Naming <- OnlyNamed
    Rotating = FALSE
    Answers <- JustRefused
    SaveFails = TRUE
    Logins = FALSE
    HostRefreshes = FALSE
INVARIANTS ExpiredMeansStorageExpired
