SPECIFICATION BackgroundSpec
CONSTANTS
    Workers <- TickAndButton
    Ticking <- JustTick
    MaxListing = 2
    MaxFailures = 2
    PublishFails = TRUE
    ForAuthFails = TRUE
    Overlaps = TRUE
    hostA = hostA
    hostB = hostB
    loopA = loopA
    loopB = loopB
    NoLoop = NoLoop
    Hosts <- TwoHosts
    Quiescers <- OneHost
    Settings <- OffOrTwoPeriods
    Loops <- TwoLoops
    Flows <- SixFlows
    Watchings <- UpToTwo
    Pages <- JustPage
    Budget = 2
    Renewers <- NinePlugins
    MaxTokens = 3
    MaxAttempts = 2
    Panels <- TwoPanels
    Pinned = TRUE
    Buffer = 1
    MaxStray = 1
    MaxBadExchanges = 1
    Providers <- NineProviders
    Runs <- TwoRuns
    Accounts <- OneAccount
    Signed <- TwoSigned
    MaxCalls = 5
INVARIANTS
    BackgroundTypeOK
    SettledMeansPublished
    ClosedOnce
    OneLoopArmed
    SettingIsArmed
    PollsAreMeasured
    GrantsAreHanded
    RenewedIsFresh
    FileIsKeptWell
    NoNewerCode
    ClaimsAreTrue
    StopIsHeard
PROPERTIES
    RegistryCatchesUp
    LoopsEnd
    SignInsEnd
    RunsEnd
CHECK_DEADLOCK FALSE
