CONSTANTS
    Device = {1, 2, 3}
    Vault = {1, 2}
    MaxSeq = 2
    Editing <- MCEditing
    Locking = {1, 2}
    MaxLocks = 1
    Attached <- MCAttached
    Damaged <- MCDamaged
    d1 = d1
    l2 = l2
    Dialer = {d1}
    Listener = {l2}
    Owner <- MCOwner
    Options <- MCOptions
    NoPeer = 0
    NoJob = NoJob
    Capacity = 1
    Batch = 1
    FlushAt = 2
    MaxFailedHandshakes = 2
    QrSender = {2}
    QrReceiver = {1}
    QrOptions <- MCQrOptions
    NoDevice = 0
    NoCode = NoCode
    K = 2
    MaxExtra = 1
    MaxForeign = 2
    MaxBlobs = 3
    MaxCodes = 1
    MaxTransfers = 2
SPECIFICATION Spec
INVARIANTS
    SyncedIsDelivered
    QrImportDelivers
PROPERTIES
    SharedOnlyAsAsked
    SessionsSettle
CHECK_DEADLOCK FALSE
