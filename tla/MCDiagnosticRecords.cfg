SPECIFICATION RecordsSpec
CONSTANTS
    d1 = d1
    d2 = d2
    kTestFailed = kTestFailed
    kConfirmedDTC = kConfirmedDTC
    Dtcs <- MCDtcs
    Bits <- MCBits
INVARIANT StatusChangesAreTold
