CONSTANTS
    Client = {c1}
    Item = {i1}
    WindowTicks = 2
    IntentTicks = 1
    GraceTicks = 1
    IdleTicks = 2
    ReplyTicks = 0
    NoWindow = NoWindow
    NoIntent = NoIntent
    NoCall = NoCall
    NoJob = NoJob
SPECIFICATION FairSpec
INVARIANTS
    ReArmsOnlyUntaken
