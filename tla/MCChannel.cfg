CONSTANTS
    Device = {1, 2}
    Item = {i1}
    NoRow = NoRow
    NoTomb = NoTomb
    Proc = {daemon}
    Idle = Idle
    KeepLast = {}
    Expiring = {}
    Trusting <- NoTrust
    MaxSeq <- Two_Two
    MaxDamage = 1
    Signer = 1
    MaxRun = 4
    HeldLogs <- ChainsHeldBefore
    Runs <- SortedRuns
    Replica = {1, 2}
    Att = {a1}
    Creator = 1
    KeepOthers = {0}
    NoAdd = NoAdd
    MaxOps <- Three_Two
    MaxTamper = 1
SPECIFICATION MCSpec
INVARIANTS
    IndInv
    HeldChains
    WalkIsAccepted
    HonestRunRaisesNoAlarm
    AttachmentRowsMatchLog
    OwnRowsHaveBlobs
    NoTamperedBlobKept
PROPERTIES
    EventuallyDelivered
    ImplementsReplicatedOps
