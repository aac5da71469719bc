SPECIFICATION Spec
CONSTANTS
    Texts <- MCTexts
    ModelSpaces = {"personal", "general", "piston"}
    Memories = {"m1", "m2", "m3", "m4"}
    Chunks = {"k1", "k2", "k3", "k4"}
    Docs = {"f1", "f2", "f3"}
    InitialMemories <- MCMemories
    InitialChunks <- MCChunks
    InitialDocs <- MCDocs
    Queries = {"q1", "q2"}
    Questions <- MCQuestions
    Limit = 2
    Dimensions = {1, 2}
    AnnDimensions = 2
    MaxCandidates = 1
    MaxChanges = 1
    ToolCalls = {"c1", "c2"}
    AskedCalls = {"c1"}
    ToolLanes = {"personal", "logistiga"}
    AskedNames <- MCNames
    GivenNames <- MCGivenNames
    InitialRecords <- MCRecords
    InitialContacts <- MCContacts
    ListLimit = 2
    MaxMoves = 1
    MaxRecords = 9
    Agents = {"a1"}
    InitialEvents <- MCEvents
    Windows <- MCWindows
    DayHours = 8
    WorkdayStart = 1
    WorkdayEnd = 5
    MaxEvents = 5
    MaxDisturbances = 2
    Selections <- MCSelections
    Looks = {"r1", "r2"}
    Rooms = {"v1", "v2"}
    MaxFiles = 2
    MaxUploadBytes = 64
    MaxDimension = 4
    MaxAssets = 3
    Accounts = {"w1", "w2"}
    Parties = {"p1", "p2"}
    Outbound = {"x1", "x2"}
    Reports = {"u1", "u2"}
    Reported = {"x1"}
    MaxTalks = 2
CHECK_DEADLOCK FALSE
INVARIANTS
    RouterSafe
    RetrievalSafe
    ToolsSafe
    CalendarSafe
    VisionSafe
    DeliverySafe
