SPECIFICATION FairSpec
CONSTANTS
    Sdk = sdk
    Tool = tool
    Key = key
    None = none
    n1 = n1
    n2 = n2
    t1 = t1
    Ports = {1, 2}
    Orders <- MCOrders
    Nfc = {n1, n2}
    Tpms = {t1}
    Plugged <- MCPlugged
    Attached = {1}
    Locked = {t1}
    Valid = {n1, t1}
    Unnumbered = {n2}
    MaxOps = 2
    MaxFaults = 1
    MaxTries = 2
INVARIANTS
    ReplyIsOwn
    ReconnectedIsSame
PROPERTIES
    CallsReturn
CHECK_DEADLOCK FALSE
