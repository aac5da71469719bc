SPECIFICATION Spec
CONSTANTS
    AiUsers = {"u1", "u2"}
    System = "sys"
    AiRequests = {r1, r2}
    AiCalls = {l1}
    InitialRows <- MCRows
    NewRows <- MCNew
    Patches <- MCPatches
    MaxProviders = 4
    EnvConfigured = TRUE
    Refreshers = {f1, f2}
    MaxTokens = 3
    MaxSlips = 1
    Connectors = {k1, k2, k3}
    MaxGrants = 2
    MaxBreaks = 1
    Syncs = {y1, y2}
    Remote = {o1, o2}
    Names = {"A", "B"}
    Identities = {"x", "y"}
    InitialPeople <- MCPeople
    PAGE_SIZE = 1
    MAX_PAGES = 2
    MAX_PER_RUN = 1
    MaxContacts = 3
    MaxPeople = 3
    MaxEdits = 1
    MaxErrors = 1
    Pulls = {p1, p2}
    Boxes = {"b1", "b2"}
    Mails = {"m1", "m2"}
    InBox <- MCInBox
    Senders = {"s1"}
    From <- MCFrom
    MaxTroubles = 1
CHECK_DEADLOCK FALSE
INVARIANTS
    SessionSafe
    GrantSafe
    BookSafe
    MailSafe
    AiSafe
