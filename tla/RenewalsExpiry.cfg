SPECIFICATION RenewalSpec
CONSTANTS
    Renewers = {"codebuddy", "raccoon"}
    MaxTokens = 2
INVARIANT ExpiryIsTheTokens
CHECK_DEADLOCK FALSE
