CONSTANTS
    t1 = t1
    t2 = t2
    r1 = r1
    r2 = r2
    r3 = r3
    lab = lab
    laptop = laptop
    old = old
    NoKey = NoKey
    NoReq = NoReq
    YamlKey = YamlKey
    Tokens <- MCTokens
    Reqs <- MCReqs
    Devices <- MCDevices
    Role <- MCRole
    DeviceOf <- MCDeviceOf
    TargetsOf <- MCTargetsOf
    TokenOf <- SharedToken
    Yaml = {old}
    MaxHups = 2
    MaxRevokes = 1
    MaxRestarts = 2
    SaveFails = TRUE
    ReadFails = TRUE
SPECIFICATION Spec
INVARIANTS
    TypeOK
    SecondUseNeedsRevival
    AcknowledgedIsDurable
    LiveIsDurable
CHECK_DEADLOCK FALSE
