CONSTANTS
    p1 = p1
    k1 = k1
    Company = {"probes"}
    Person = {p1}
    Program = {k1}
    Surface <- MCSurface
    Proxy = proxy
    Sentinel = sentinel
    Device = {d1}
    Kind = {"Status", "GetItem", "DeleteVault", "SetPairingMode", "TrustDevice", "SyncSetup", "ShareVaultToDevice", "SyncPull", "QrExport", "NearbyListen", "NearbyStop", "ConfirmPresence", "Unlock", "CreateAccount", "Lock", "Shutdown"}
    IdleTicks = 1
    GrantTicks = 2
    WindowTicks = 1
    MaxGrants = 1
    MaxFailures = 2
    Nobody = Nobody
    EnvVar = {"A", "B"}
    Content <- MCContent
    Master <- MCMaster
    MinRedactLen = 2
    PipeCapacity = 1
    MaxWrites = 2
    Mappings = {{}, {"B"}}
SPECIFICATION MCSpec
INVARIANTS
    AgentsCounted
    CommandOutcome
    NothingSecretTold
PROPERTIES
    PresenceEnforced
    SentinelRegisters
    ProbingNeverHoldsOpen
    CallsEnd
