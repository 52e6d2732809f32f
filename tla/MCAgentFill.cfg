CONSTANTS
    Client = {c1}
    Item = {i1, i2}
    WindowTicks = 3
    IntentTicks = 2
    GraceTicks = 0
    IdleTicks = 1
    ReplyTicks = 1
    NoWindow = NoWindow
    NoIntent = NoIntent
    NoCall = NoCall
    NoJob = NoJob
SPECIFICATION MCSpec
INVARIANTS
    IntentCovered
PROPERTIES
    TakenWhileArmed
    OwnReport
    NeverClobbers
    EventuallyAnswered
    AutoLocks
