SPECIFICATION FairSpec
CONSTANTS
    Turns = {t1, t2}
    NoTurn = NoTurn
    PushToTalk = FALSE
    MaxGen = 3
    MaxUnderWay = 2
    Failing = {t1}
CHECK_DEADLOCK FALSE
INVARIANTS
    SilencedTurnsSettle
    AtMostOneResponse
    AskedActionsSurvive
PROPERTIES
    NoAudioAfterBargeIn
    ProposalsSurface
