SPECIFICATION Spec
CONSTANTS
    Missions = {m1}
    Messages = {x1, x2}
    Hooks = {d1, d2}
    Cancels = {}
    Worker = Worker
    NoMission = NoMission
    NoMessage = NoMessage
    MaxMessages = 2
    Attempts = 2
    Faulty <- Everything
    MaxFaults = 1
CHECK_DEADLOCK FALSE
INVARIANTS
    MessagesBounded
