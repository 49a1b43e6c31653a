SPECIFICATION KeysFairSpec
CONSTANTS
    SoftUuids = {u1, u2}
    Given = given
    TpmUuid = tpm
    NoUuid = none
    Devices <- MCDevices
    MaxKeys = 4
    MaxTries = 2
    MaxMishaps = 4
INVARIANTS
    SavedKeyConfirmed
    SavedKeyNotSuperseded
    OwnSignature
PROPERTIES
    AuthenticationSettles
CHECK_DEADLOCK FALSE
