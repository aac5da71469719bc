SPECIFICATION ReminderSpec
CONSTANTS
    Reminders = {r1}
    Workers = {w1, w2}
    ReminderCancels = {}
    NoReminder = NoReminder
    NoWorker = NoWorker
    DeliveryAttempts = 3
    MaxStalls = 1
    FaultyDelivery <- Delivery
    MaxMishaps = 1
CHECK_DEADLOCK FALSE
INVARIANTS
    NeverLostSilently
