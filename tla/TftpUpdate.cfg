CONSTANTS
    Devices = {d1, d2}
    Chosen = d1
    Product <- OtherProduct
    None = None
    d1 = d1
    d2 = d2
    CheckFirmware = TRUE
    Packages = 3
    CommandTries = 2
    DhcpTries = 2
    DoneTries = 2
    Retries = 2
    MaxSessions = 2
SPECIFICATION Spec
INVARIANTS TypeOK PackagesInOrder SuccessIsComplete OnlyFitting
PROPERTIES UpdateEnds
CHECK_DEADLOCK FALSE
