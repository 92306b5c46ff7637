SPECIFICATION Spec
CONSTANTS
    acc1 = acc1
    acc2 = acc2
    Accessory = {acc1, acc2}
    Careless = {acc2}
    MaxCalls = 3
    MaxResets = 1
    MaxRequests = 2
    MaxParts = 2
INVARIANTS
    PairingIsMutual
    VerifyFindsPairing
    KeysAgree
    NonceOnce
    ResponseMatches
CHECK_DEADLOCK FALSE
