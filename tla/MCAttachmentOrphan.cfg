CONSTANTS
    Replica = {1, 2, 3}
    Att = {a1}
    Creator = 1
    KeepOthers = {}
    NoAdd = NoAdd
    MaxOps <- One_Each
    MaxTamper = 0
SPECIFICATION AttSpec
INVARIANT IngestSucceeds
