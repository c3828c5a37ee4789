SPECIFICATION FilesSpec
CONSTANTS
    a1 = a1
    a2 = a2
    Accounts <- TwoAccounts
    NoAccount = none
    First <- Lowest
    Priorities <- OnePriority
    Handles = {"page"}
    Kind <- JustPage
    MaxIssue = 2
    MaxEdits = 0
    QuietEdits = TRUE
    Removals = FALSE
INVARIANTS GrantsStayHome
CHECK_DEADLOCK FALSE
