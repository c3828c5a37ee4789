SPECIFICATION ChatsSpec
CONSTANTS
    c1 = c1
    c2 = c2
    c3 = c3
    no_caller = no_caller
    NoCaller = no_caller
    Callers <- TwoCallers
    MaxBytes = 2
    MaxTime = 1
    Lead = 1
    Cooldown = 1
    Lives <- OneLifeOrEver
    Naming <- NamedOrNot
    Rotating = FALSE
    Answers <- LostRefusedEmpty
    SaveFails = TRUE
    Logins = FALSE
    HostRefreshes = FALSE
    Clients <- OneClient
    Plugins <- QoderAndCodeBuddy
    ChatAnswers <- SomeAnswers
    MaxIssues = 3
    ConcurrencyRetryMax = 1
    Sources <- CodeBuddyOnly
    Frames <- SomeFrames
    MaxFrames = 4
INVARIANTS FailuresAreReported
