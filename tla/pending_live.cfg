SPECIFICATION FairSpec
CONSTANTS
    Users = {u1}
    Actions = {a1}
    Tools = {send}
    lookup = lookup
    send = send
    wipe = wipe
    Skills = {"skill"}
    Scopes = {personal}
    personal = personal
    business = business
    Requests = {r1, r2, r3}
    NoAction = NoAction
    NoTool = NoTool
    NoUser = NoUser
    NoSkill = NoSkill
    Level <- MCLevel
    Confirmed = {}
    AllowedScopes <- MCAllowedScopes
    SkillOf <- MCSkillOf
    MaxFaults = 2
PROPERTIES
    ApprovedSettles
    ImplementsLifecycle
INVARIANTS
    LedgersAgree
