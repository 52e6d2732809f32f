CONSTANTS
    Device = {1, 2, 3}
    Item = {i1}
    NoRow = NoRow
    NoTomb = NoTomb
    Proc = {daemon}
    Idle = Idle
    KeepLast = {}
    Expiring = {}
    Trusting <- FullTrust
    MaxSeq <- One_Each
    MaxDamage = 0
SPECIFICATION Spec
INVARIANT LaterDeleteWins
