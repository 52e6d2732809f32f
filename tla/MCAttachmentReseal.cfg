CONSTANTS
    Replica = {1, 2}
    Att = {a1}
    Creator = 1
    KeepOthers = {}
    NoAdd = NoAdd
    MaxOps <- Three_Two
    MaxTamper = 0
SPECIFICATION AttSpec
INVARIANT AttachmentsReadable
