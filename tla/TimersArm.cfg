SPECIFICATION TimersFairSpec
CONSTANTS
    Signed = {}
    MaxCalls = 4
INVARIANTS ArmIsAdopted
CHECK_DEADLOCK FALSE
