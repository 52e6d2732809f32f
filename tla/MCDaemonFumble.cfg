CONSTANTS
    p1 = p1
    k1 = k1
    Company = {"fumbles"}
    Person = {p1}
    Program = {k1}
    Surface <- MCDesktops
    Proxy = proxy
    Sentinel = sentinel
    Device = {d1}
    Kind = {"Status", "CreateAccount"}
    IdleTicks = 2
    GrantTicks = 2
    WindowTicks = 1
    MaxGrants = 1
    MaxFailures = 2
    Nobody = Nobody
    EnvVar = {"A", "B"}
    Content <- MCContent
    Master <- MCMaster
    MinRedactLen = 2
    PipeCapacity = 1
    MaxWrites = 2
    Mappings = {{}, {"B"}}
SPECIFICATION MCSpec
PROPERTY
    FailingNeverHoldsOpen
