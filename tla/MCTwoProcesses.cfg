CONSTANTS
    Device = {1, 2}
    Item = {i1}
    NoRow = NoRow
    NoTomb = NoTomb
    Proc = {daemon, cli}
    Idle = Idle
    KeepLast = {}
    Expiring = {}
    Trusting <- FullTrust
    MaxSeq <- Two_Two
    MaxDamage = 0
SPECIFICATION Spec
INVARIANT RowsMatchLog
