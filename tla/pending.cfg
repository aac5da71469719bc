SPECIFICATION Spec
CONSTANTS
    Users = {u1, u2}
    Actions = {a1}
    Tools = {lookup, send, wipe}
    lookup = lookup
    send = send
    wipe = wipe
    Skills = {"skill"}
    Scopes = {personal, business}
    personal = personal
    business = business
    Requests = {r1, r2, r3}
    NoAction = NoAction
    NoTool = NoTool
    NoUser = NoUser
    NoSkill = NoSkill
    Level <- MCLevel
    Confirmed = {}
    AllowedScopes <- MCAllowedScopes
    SkillOf <- MCSkillOf
    MaxFaults = 1
SYMMETRY MCSymmetry
INVARIANTS
    AtMostOneExecution
    ConfirmationRequired
    DecisionRespected
