SPECIFICATION AllFilesSpec
CONSTANTS
    c1 = c1
    c2 = c2
    c3 = c3
    no_caller = no_caller
    NoCaller = no_caller
    Callers <- TwoCallers
    MaxBytes = 3
    MaxTime = 2
    Lead = 1
    Cooldown = 2
    Lives <- ShortLife
    Naming <- OnlyNamed
    Rotating = TRUE
    Answers <- JustRefused
    SaveFails = FALSE
    Logins = TRUE
    HostRefreshes = TRUE
    a1 = a1
    a2 = a2
    Accounts <- TwoAccounts
    NoAccount = none
    First <- Lowest
    Priorities <- TwoPriorities
    Handles = {"page", "button", "tick", "call", "refresh", "login"}
    Kind <- AllHandles
    MaxIssue = 3
    MaxEdits = 2
    QuietEdits = TRUE
    Removals = TRUE
SYMMETRY AnyCaller
INVARIANTS
    AllFilesTypeOK
    FileStaysRenewable
    DeadMeansRefused
    KeysStayHome
    OneFileIsKept
CHECK_DEADLOCK FALSE
