CONSTANTS
    t1 = t1
    t2 = t2
    r1 = r1
    r2 = r2
    r3 = r3
    lab = lab
    laptop = laptop
    old = old
    NoKey = NoKey
    NoReq = NoReq
    YamlKey = YamlKey
    Tokens <- MCTokens
    Reqs <- TwoReqs
    Devices <- MCDevices
    Role <- MCRole
    DeviceOf <- MCDeviceOf
    TargetsOf <- MCTargetsOf
    TokenOf <- SharedToken
    Yaml = {old}
    MaxHups = 2
    MaxRevokes = 1
    MaxRestarts = 0
    SaveFails = FALSE
    ReadFails = FALSE
SPECIFICATION Spec
INVARIANT
    RevokedStaysOut
CHECK_DEADLOCK FALSE
