SPECIFICATION TextsSpec
CONSTANTS
    Listers <- NinePlugins
    MaxMoves = 2
    Written <- SomeTexts
    Cuts = {1, 2}
    Senders <- NineSenders
    ClientHistories <- SomeHistories
    Allowances = {0, 2}
    Sites <- BothSites
    TabSets <- UpToTwoTabs
    MaxScanCodes = 2
INVARIANTS
    TextsTypeOK
    PressedIsServed
    FirstIsCurrent
    TextIsRead
    PairsAreSent
    WordsAreSent
    PagesAreTrue
CHECK_DEADLOCK FALSE
