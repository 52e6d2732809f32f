CONSTANTS
    Device = {1, 2}
    Item = {i1}
    NoRow = NoRow
    NoTomb = NoTomb
    Proc = {daemon}
    Idle = Idle
    KeepLast = {0, 1}
    Expiring = {i1}
    Trusting <- FullTrust
    MaxSeq <- Two_Two
    MaxDamage = 0
SPECIFICATION FairSpec
INVARIANTS
    LamportExtendsCausality
    RowsMatchLog
    Converged
PROPERTIES
    NothingDiscarded
    EventuallySynced
