SPECIFICATION TalkSpec
CONSTANTS
    Turns = {1, 2, 3}
    NoTurn = 0
    PushToTalk = TRUE
    MaxGen = 2
    MaxUnderWay = 1
    Failing = {}
CHECK_DEADLOCK FALSE
INVARIANTS
    ConfirmationBound
