SPECIFICATION OutreachSpec
CONSTANTS
    Reminders = {r1}
    Workers = {w1, w2}
    ReminderCancels = {k1, k2}
    NoReminder = NoReminder
    NoWorker = NoWorker
    DeliveryAttempts = 3
    MaxStalls = 1
    FaultyDelivery <- ReminderSteps
    MaxMishaps = 5
    Missions = {m1}
    Messages = {x1, x2}
    Hooks = {d1, d2}
    Cancels = {k1, k2}
    Worker = Worker
    NoMission = NoMission
    NoMessage = NoMessage
    MaxMessages = 2
    Attempts = 2
    Faulty <- SafeSteps
    MaxFaults = 1
CHECK_DEADLOCK FALSE
INVARIANTS
    AtMostOneNotification
    MessagesBounded
    MissionSafe
PROPERTIES
    CancelledIsQuiet
    EventuallyNotified
    MissionsEnd
    EndIsReported
