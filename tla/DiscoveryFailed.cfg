SPECIFICATION DiscoverySpec
CONSTANTS
    Listers = {"cline", "codearts", "codebuddy", "lobsterai", "loomy", "minimax", "raccoon", "zcode"}
    MaxMoves = 2
PROPERTIES FailedKeepsPrevious
CHECK_DEADLOCK FALSE
