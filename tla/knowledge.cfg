SPECIFICATION Spec
CONSTANTS
    Uploads = {u1, u2}
    NoUpload = NoUpload
    Files = {"f"}
    Intakes = {w1, w2}
    ChunkCount = 2
    DocAttempts = 2
    DocMaxStalls = 1
    DocMaxFaults = 1
    MaxRequests = 1
    MaxDocuments = 1
    Extraction = "extraction"
    Others = {"email"}
    Editors = {e1}
    Contents = {"plain", "dated"}
    Digits <- MCDigits
    MemAttempts = 2
    MaxHits = 1
    MaxMisses = 1
    MaxArchived = 1
    FactJobs = {j1, j2, j3}
    FactValues = {"v1", "v2"}
    FactAttempts = 2
    FactMaxFaults = 2
CHECK_DEADLOCK FALSE
INVARIANTS
    DocSafe
    MemSafe
    FactSafe
PROPERTIES
    UploadsSettle
